----------------------------- MODULE MCCompiler -----------------------------
(***************************************************************************)
(* Units for the whole pipeline: merged and repeated declarations with     *)
(* shadowed and repeated names; pairs of definitions that call each other  *)
(* and share the names of their variables; one definition with every body  *)
(* of up to five nodes.                                                    *)
(***************************************************************************)
EXTENDS Compiler

MCFuncNames == {"f", "g"}
MCVarNames  == {"x", "y"}

num        == [kind |-> "number_literal", value |-> 1]
ret        == [kind |-> "jump_statement"]
id(x)      == [kind |-> "identifier", name |-> x]
call(f, n) == [kind |-> "call_expression", name |-> f, args |-> n]
bin(op)    == [kind |-> "binary_expression", op |-> op]

Protos(names, params) == [name : names, params : params]
Defs(names, params, vars, bodies) ==
  [name : names, params : params, vars : vars, body : bodies]

Merged ==
  [decls : BoundedSeq(Protos(MCFuncNames, {<<>>, <<"x">>}), 2),
   defs : BoundedSeq(Defs({"f"}, {<<>>, <<"x">>, <<"x", "x">>},
                          {<<>>, <<"x">>, <<"x", "x">>},
                          {<<ret, id("x")>>, <<ret, call("f", 0)>>,
                           <<ret, call("g", 1), num>>}), 1)]

Pairs ==
  [decls : BoundedSeq(Protos({"g"}, {<<>>}), 1),
   defs : SeqOf(Defs({"f", "g"}, {<<>>, <<"x">>, <<"y", "x">>},
                     {<<>>, <<"x">>, <<"y">>},
                     {<<bin("="), id("x"), bin("+"), id("x"), num, ret, id("x")>>,
                      <<ret, call("f", 1), id("x")>>,
                      <<call("g", 0), ret, bin("*"), id("y"), num>>,
                      <<ret, call("f", 2), call("g", 0), call("g", 0)>>}), 2)]

Expressions ==
  [decls : {<<>>},
   defs : {<<d>> : d \in Defs({"f"}, {<<"x">>}, {<<>>},
             {b \in BoundedSeq({num, ret, id("x"), call("f", 1), bin("="), bin("+")}, 5)
                : WellFormed(b)})}]

MCPrograms == Merged \cup Pairs \cup Expressions

============================================================================
