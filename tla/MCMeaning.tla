----------------------------- MODULE MCMeaning -----------------------------
(***************************************************************************)
(* Functions that calculate: every expression of two operations on the     *)
(* numbers at the ends of the range, a parameter, a local and calls; and   *)
(* assignments in sequence.                                                *)
(***************************************************************************)
EXTENDS Evaluation

MCFuncNames == {"f", "g"}
MCVarNames  == {"x", "y"}

ret        == [kind |-> "jump_statement"]
num(k)     == <<[kind |-> "number_literal", value |-> k]>>
id(x)      == <<[kind |-> "identifier", name |-> x]>>
call(f, e) == <<[kind |-> "call_expression", name |-> f, args |-> 1]>> \o e
bin(op, l, r) == <<[kind |-> "binary_expression", op |-> op]>> \o l \o r

Operands == {num(Limit - 1), num(-Limit), num(-1), id("x"), call("g", id("x"))}

Operations(ops, ls, rs) == {bin(op, l, r) : op \in ops, l \in ls, r \in rs}

Arithmetic(ls, rs) == Operations({"+", "-", "*", "/"}, ls, rs)

Single == Arithmetic(Operands, Operands)

Nested == {e \in Arithmetic(Single, Operands) \cup Arithmetic(Operands, Single) :
             \E k \in DOMAIN e : e[k] \in Ident \cup Call}

Returns == {<<ret>> \o e : e \in Nested \cup {call("f", e) : e \in Single}}

Assigned == {bin("=", id(x), e) : x \in {"x", "y"},
               e \in Operations({"-", "/"}, {id("x"), num(7)}, {id("y"), call("g", id("x"))})}

Sequences ==
  {s \o t \o <<ret>> \o e :
     s \in Assigned, t \in Assigned \cup {call("g", id("y"))},
     e \in {bin("-", id("y"), id("x")), bin("/", call("f", id("y")), call("g", id("x")))}}

(* A parameter and a local, two parameters, or a local that hides one. *)
Signatures == {<< <<"x">>, <<"y">> >>, << <<"y", "x">>, <<>> >>, << <<"x", "y">>, <<"y">> >>}

Unit(sig, body) ==
  [decls |-> << [name |-> "g", params |-> <<"y">>] >>,
   defs |-> << [name |-> "f", params |-> sig[1], vars |-> sig[2], body |-> body] >>]

MCPrograms ==
  {Unit(<< <<"x">>, <<"y">> >>, b) : b \in Returns}
  \cup {Unit(sig, b) : sig \in Signatures, b \in Sequences}

============================================================================
