---------------------------- MODULE MCScopeTree ----------------------------
(***************************************************************************)
(* Units that exercise the scope tree: every mix of repeated declarations, *)
(* definitions with and without one, repeated definitions, duplicate       *)
(* locals, and bodies with no, one or two "return" statements.             *)
(***************************************************************************)
EXTENDS SemanticAnalyzer

MCFuncNames == {"f", "g"}
MCVarNames  == {"x"}

num == [kind |-> "number_literal", value |-> 1]
ret == [kind |-> "jump_statement"]

Bodies(max) == {<<>>, <<ret, num>>, <<ret, num, ret, num>>} \cap BoundedSeq({num, ret}, max)

Protos(params) == [name : MCFuncNames, params : params]
Defs(params, vars, bodies) ==
  [name : MCFuncNames, params : params, vars : vars, body : bodies]

(* At most two definitions of many shapes, or up to three of few shapes. *)
MCPrograms ==
  LET params == {<<>>, <<"x">>}
      wide   == Defs(params, {<<>>, <<"x">>, <<"x", "x">>}, Bodies(2))
      long   == Defs({<<>>}, {<<>>, <<"x">>}, Bodies(4))
  IN  [decls : BoundedSeq(Protos(params), 2), defs : BoundedSeq(wide, 2)]
      \cup [decls : BoundedSeq(Protos({<<>>}), 1), defs : BoundedSeq(long, 3)]

============================================================================
