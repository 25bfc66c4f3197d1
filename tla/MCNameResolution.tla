-------------------------- MODULE MCNameResolution --------------------------
(***************************************************************************)
(* Units that exercise name resolution: parameters and locals that shadow  *)
(* or miss each other, calls of declared, defined and unknown functions    *)
(* with matching and other numbers of arguments, forward references.       *)
(***************************************************************************)
EXTENDS SemanticAnalyzer

MCFuncNames == {"f", "g"}
MCVarNames  == {"x", "y"}

num        == [kind |-> "number_literal", value |-> 1]
ret        == [kind |-> "jump_statement"]
id(x)      == [kind |-> "identifier", name |-> x]
call(f, n) == [kind |-> "call_expression", name |-> f, args |-> n]
bin(op)    == [kind |-> "binary_expression", op |-> op]

Bodies ==
  {<<>>, <<id("x")>>, <<ret, id("y")>>, <<call("f", 0)>>,
   <<ret, call("g", 1), num>>,
   <<bin("="), id("x"), call("f", 1), bin("+"), id("y"), num>>}

MCParams == {<<>>, <<"x">>}
MCProtos == [name : MCFuncNames, params : MCParams]
MCDefs   == [name : MCFuncNames, params : MCParams, vars : {<<>>, <<"y">>}, body : Bodies]

MCPrograms ==
  [decls : BoundedSeq(MCProtos, 1), defs : BoundedSeq(MCDefs, 2)]
  \cup [decls : BoundedSeq(MCProtos, 2), defs : BoundedSeq(MCDefs, 1)]

============================================================================
