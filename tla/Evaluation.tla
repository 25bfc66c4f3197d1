---------------------------- MODULE Evaluation ----------------------------
(***************************************************************************)
(* The meaning of the source once more, by recursion over the tree: the    *)
(* reference for the machine of Meaning.                                   *)
(***************************************************************************)
EXTENDS Meaning

(* An expression: the node behind it, its value and the run after it. *)
Evaluated(next, val, run) ==
  [next |-> next, val |-> val, run |-> [run EXCEPT !.defined = @ /\ val # NoTerm]]

RECURSIVE Evaluate(_, _, _), EvaluateAll(_, _, _, _)

(* n expressions, from node k of a body on. *)
EvaluateAll(body, n, k, run) ==
  IF n = 0 THEN [next |-> k, vals |-> <<>>, run |-> run]
  ELSE LET first == Evaluate(body, k, run)
           rest  == EvaluateAll(body, n - 1, first.next, first.run)
       IN  [rest EXCEPT !.vals = <<first.val>> \o @]

Evaluate(body, k, run) ==
  LET node     == body[k]
      operands == EvaluateAll(body, Arity(node), k + 1, run)
      vals     == operands.vals
      source   == Evaluate(body, k + 2, run)   \* of an assignment
  IN
  CASE node \in Number -> Evaluated(k + 1, Num(node.value), run)
    [] node \in Ident  -> Evaluated(k + 1, run.env[node.name], run)
    [] node \in Call   ->
         Evaluated(operands.next, Called(Len(operands.run.calls) + 1),
                   [operands.run EXCEPT !.calls = Append(@, <<node.name, vals>>)])
    [] node \in Jump   ->
         Evaluated(operands.next, vals[1], [operands.run EXCEPT !.returned = vals[1]])
    [] node \in Binary /\ node.op = "=" ->
         Evaluated(source.next, source.val,
                   [source.run EXCEPT !.env[body[k + 1].name] = source.val])
    [] OTHER -> Evaluated(operands.next, Apply(node.op, vals[1], vals[2]), operands.run)

RECURSIVE Execute(_, _, _)
Execute(body, k, run) ==
  IF k > Len(body) THEN run
  ELSE LET statement == Evaluate(body, k, run) IN Execute(body, statement.next, statement.run)

(* The code of a function of a supported unit does what its source does,    *)
(* read statement by statement and expression by expression: the calls, in  *)
(* order and with their arguments, and the value returned are those of the  *)
(* tree.  And where the tree has a meaning the machine has it, too.         *)
CodeEvaluates ==
  Supported(tunit) /\ status = "generated" =>
    \A i \in DOMAIN tunit.defs : \A f \in DOMAIN functions :
      LET def    == tunit.defs[i]
          source == Execute(def.body, 1, Started(def))
          target == Run(functions[f].code)
      IN  functions[f].name = def.name =>
            /\ source.defined <=> SourceRun(def).defined
            /\ source.defined =>
                 CallsOf(target) = source.calls /\ target.returned = source.returned

============================================================================
