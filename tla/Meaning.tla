------------------------------ MODULE Meaning ------------------------------
(***************************************************************************)
(* What a definition computes, by its source and by the code generated for *)
(* it.  Both are run on symbolic arguments: a term is a number, an         *)
(* argument, the unknown content of a variable never assigned to, the      *)
(* result of the n-th call, or an operation on terms.  What is observed of *)
(* a function are its calls, with their arguments, and what it returns.    *)
(***************************************************************************)
EXTENDS Compiler

Num(k)      == <<"number", k>>
Param(k)    == <<"parameter", k>>
Unset       == <<"unset">>
Called(n)   == <<"call", n>>
Variable(x) == <<"variable", x>>   \* what is assigned to
NoTerm      == <<"none">>          \* a quotient that does not exist

(* Integer arithmetic once more, by what its results are: a number out of   *)
(* range stands for the one in range it is congruent to, and a quotient is  *)
(* one, if it is in range, that leaves a rest smaller than the divisor and  *)
(* on the side of the dividend.                                             *)
Ints == -Limit .. Limit - 1

Congruent(n) == CHOOSE r \in Ints : (n - r) % (2 * Limit) = 0

IsQuotient(q, a, b) ==
  LET rest == a - q * b
  IN  IF a >= 0 THEN 0 <= rest /\ (rest < b \/ rest < -b)
      ELSE rest <= 0 /\ (-rest < b \/ -rest < -b)

Quotients(a, b) == {q \in Ints : IsQuotient(q, a, b)}

(* An operation of the source, or of the target, on two terms. *)
Apply(op, l, r) ==
  CASE NoTerm \in {l, r} -> NoTerm
    [] NoTerm \notin {l, r} /\ l[1] = "number" /\ r[1] = "number" ->
         (CASE op = "+" -> Num(Congruent(l[2] + r[2]))
            [] op = "-" -> Num(Congruent(l[2] - r[2]))
            [] op = "*" -> Num(Congruent(l[2] * r[2]))
            [] op = "/" -> IF Quotients(l[2], r[2]) = {} THEN NoTerm
                           ELSE Num(CHOOSE q \in Quotients(l[2], r[2]) : TRUE))
    [] OTHER -> <<op, l, r>>

----------------------------------------------------------------------------
(* The source: a machine that evaluates a body.  It has the next node, the  *)
(* expressions begun, outermost first, each with its values so far, the     *)
(* values of the variables, the calls made and the value returned.  Where a *)
(* quotient does not exist the source means nothing, and the machine stops. *)

Started(def) ==
  [next |-> 1, stack |-> <<>>,
   env |-> [x \in VarNames |->
              IF Contains(def.vars, x) \/ ~Contains(def.params, x) THEN Unset
              ELSE Param(CHOOSE k \in DOMAIN def.params : def.params[k] = x)],
   calls |-> <<>>, returned |-> NoTerm, defined |-> TRUE]

Innermost(m) == m.stack[Len(m.stack)]

Ready(body, m) ==
  m.stack # <<>> /\ Len(Innermost(m).vals) = Arity(body[Innermost(m).node])

(* A value is the next one of the innermost expression, or of a statement   *)
(* and goes unused.                                                         *)
Yield(stack, v) ==
  IF stack = <<>> THEN <<>> ELSE [stack EXCEPT ![Len(stack)].vals = Append(@, v)]

(* The next node: a value, or an expression to wait for its values. *)
Take(body, m) ==
  LET n       == body[m.next]
      Opened(vals) == Append(m.stack, [node |-> m.next, vals |-> vals])
  IN  IF IsAssignment(n)
      THEN [m EXCEPT !.next = @ + 2, !.stack = Opened(<<Variable(body[m.next + 1].name)>>)]
      ELSE [m EXCEPT !.next = @ + 1,
                     !.stack = CASE n \in Number -> Yield(@, Num(n.value))
                                 [] n \in Ident  -> Yield(@, m.env[n.name])
                                 [] n \in Call \cup Jump \cup Binary -> Opened(<<>>)]

(* The innermost expression has its values: it does what it is there for.   *)
Conclude(body, m) ==
  LET at   == Innermost(m).node
      vals == Innermost(m).vals
      n    == body[at]
      rest == Front(m.stack)
  IN  CASE n \in Jump -> [m EXCEPT !.stack = rest, !.returned = vals[1]]
        [] n \in Call -> [m EXCEPT !.stack = Yield(rest, Called(Len(m.calls) + 1)),
                                   !.calls = Append(@, <<n.name, vals>>)]
        [] IsAssignment(n) -> [m EXCEPT !.stack = Yield(rest, vals[2]),
                                        !.env[body[at + 1].name] = vals[2]]
        [] n \in Binary /\ n.op # "=" ->
             LET term == Apply(n.op, vals[1], vals[2])
             IN  IF term = NoTerm THEN [m EXCEPT !.defined = FALSE]
                 ELSE [m EXCEPT !.stack = Yield(rest, term)]

Advance(body, m) ==
  CASE m.defined /\ Ready(body, m) -> Conclude(body, m)
    [] m.defined /\ ~Ready(body, m) /\ m.next <= Len(body) -> Take(body, m)
    [] OTHER -> m

(* Each node is taken once and concluded at most once. *)
Ticks(def) == 2 * Len(def.body)

Course(def) ==
  LET m[t \in 0 .. Ticks(def)] == IF t = 0 THEN Started(def) ELSE Advance(def.body, m[t - 1])
  IN  m

SourceRun(def) == Course(def)[Ticks(def)]

----------------------------------------------------------------------------
(* The code.  A run has the results of the instructions, the contents of    *)
(* the allocas, the calls made and the value returned.                      *)

Blank == [results |-> <<>>, memory |-> <<>>, calls |-> <<>>, returned |-> NoTerm]

TermOf(run, v) ==
  CASE v.kind = "constant" -> Num(v.k)
    [] v.kind = "undef"    -> NoTerm
    [] v.kind = "argument" -> Param(v.k)
    [] OTHER               -> run.results[v.k]

Terms(run, operands) == [j \in DOMAIN operands |-> TermOf(run, operands[j])]

(* Every instruction has a result and a place in memory, used or not. *)
Result(run, term, memory, calls, returned) ==
  [results |-> Append(run.results, term), memory |-> memory, calls |-> calls,
   returned |-> returned]

Step(run, instr) ==
  LET terms  == Terms(run, instr.operands)
      memory == Append(run.memory, Unset)
      Of(term) == Result(run, term, memory, run.calls, run.returned)
  IN
  CASE instr.op = "alloca" -> Of(NoTerm)
    [] instr.op = "store"  ->
         Result(run, NoTerm, [memory EXCEPT ![instr.operands[2].k] = terms[1]],
                run.calls, run.returned)
    [] instr.op = "load"   -> Of(run.memory[instr.operands[1].k])
    [] instr.op = "call"   ->
         Result(run, Called(Len(run.calls) + 1), memory,
                Append(run.calls, <<instr.callee, terms>>), run.returned)
    [] instr.op = "ret"    -> Result(run, NoTerm, memory, run.calls, terms[1])
    [] OTHER               -> Of(Apply(instr.op, terms[1], terms[2]))

Runs(code) ==
  LET run[j \in 0 .. Len(code)] == IF j = 0 THEN Blank ELSE Step(run[j - 1], code[j])
  IN  run

Run(code) == Runs(code)[Len(code)]

(* The calls of a run, by the names of the functions. *)
CallsOf(run) == [c \in DOMAIN run.calls |-> <<functions[run.calls[c][1]].name, run.calls[c][2]>>]

(* The code makes the calls the source makes, in that order and with those  *)
(* arguments, and returns what that returns, whatever a call returns.       *)
SameObserved(def, code) ==
  SourceRun(def).defined =>
    /\ CallsOf(Run(code)) = SourceRun(def).calls
    /\ Run(code).returned = SourceRun(def).returned

(* The code of a supported unit does what its source does: operands are in  *)
(* their places, operands come before operations, parameters and locals do  *)
(* not share storage, and folded numbers are the numbers the target would   *)
(* have computed.  (Source that divides by zero, or the least number by -1, *)
(* means nothing.)                                                          *)
CodeMeans ==
  Supported(tunit) /\ status = "generated" =>
    \A i \in DOMAIN tunit.defs : \A f \in DOMAIN functions :
      functions[f].name = tunit.defs[i].name /\ functions[f].blocks = 1 =>
        SameObserved(tunit.defs[i], functions[f].code)

----------------------------------------------------------------------------
(* The inductive invariant: between two steps of the generator the run of   *)
(* what is there of the code shows a state of the source's machine.         *)

Named(def, x) == Contains(def.vars, x) \/ Contains(def.params, x)

Awaiting(body, run, frame) ==
  [node |-> frame.node,
   vals |-> [o \in DOMAIN frame.operands |->
               IF IsAssignment(body[frame.node]) /\ o = 1
               THEN Variable(body[frame.node + 1].name)
               ELSE TermOf(run, frame.operands[o])]]

Stack(body, run, stack) == [j \in DOMAIN stack |-> Awaiting(body, run, stack[j])]

Env(def, table, run) ==
  [x \in VarNames |-> IF Named(def, x) THEN run.memory[table[x].k] ELSE Unset]

NextNode == IF gen_pos.at = "node" THEN gen_pos.k ELSE Len(CurrentDef.body) + 1

CurrentRun == Run(CurrentCode)

(* The machine as the generator has it. *)
Shown ==
  [next     |-> NextNode,
   stack    |-> Stack(CurrentDef.body, CurrentRun, frames),
   env      |-> Env(CurrentDef, value_table, CurrentRun),
   calls    |-> CallsOf(CurrentRun),
   returned |-> CurrentRun.returned,
   defined  |-> TRUE]

(* What a run has called is there, and so is what an operand stands for. *)
CalleesThere(run) == \A c \in DOMAIN run.calls : run.calls[c][1] \in DOMAIN functions

IsMade(v, code) == v.kind \in {"alloca", "result"} => v.k \in 1 .. Len(code)

OperandsMade ==
  \A j \in DOMAIN frames : \A o \in DOMAIN frames[j].operands :
    IsMade(frames[j].operands[o], CurrentCode)

(* An assignment that waits has the storage of the variable it assigns to.  *)
TargetsHeld ==
  \A j \in DOMAIN frames : IsAssignment(FrameNode(j)) =>
    frames[j].operands[1] = value_table[CurrentDef.body[frames[j].node + 1].name]

(* After some number of ticks the machine shows, or the source means        *)
(* nothing.                                                                 *)
Simulated ==
  gen_pos.at \in {"node", "post_def"} =>
    \E t \in 0 .. Ticks(CurrentDef) :
      /\ t <= 2 * (NextNode - 1) - Len(frames)
      /\ Course(CurrentDef)[t].defined =>
           /\ Course(CurrentDef)[t] = Shown
           /\ OperandsMade /\ TargetsHeld
           /\ CalleesThere(CurrentRun)

(* While storage is made it holds what the machine starts with. *)
StorageFilled ==
  gen_pos.at \in {"param", "var"} =>
    /\ \A k \in 1 .. ParamsStored : CurrentRun.memory[2 * k - 1] = Param(k)
    /\ \A k \in 1 .. VarsStored :
         CurrentRun.memory[2 * Len(CurrentDef.params) + k] = Unset
    /\ CurrentRun.calls = <<>> /\ CurrentRun.returned = NoTerm

(* The definitions the generator has left behind do what their source does. *)
BodiesMean ==
  \A i \in DOMAIN tunit.defs :
    Begun(i) /\ (InDefinition => i # gen_pos.fn) =>
      /\ SameObserved(tunit.defs[i], functions[FunctionOf(i)].code)
      /\ SourceRun(tunit.defs[i]).defined => CalleesThere(Run(functions[FunctionOf(i)].code))

MeaningInv ==
  Supported(tunit) /\ phase = "analyzed" => Simulated /\ StorageFilled /\ BodiesMean

============================================================================
