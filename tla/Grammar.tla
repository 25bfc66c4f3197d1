------------------------------ MODULE Grammar ------------------------------
(***************************************************************************)
(* dcc_grammar and comment_skipper: one definition per rule of the grammar *)
(* below the start symbol, and what its semantic actions build.            *)
(*                                                                         *)
(* The words "int" and "return" are glyphs of their own and letters, for   *)
(* they are also the beginning of longer words; any other glyph is a       *)
(* character.  A node is paired with the position of its start_loc, 0 if   *)
(* nothing set it.  A tree is the sequence of its nodes in prefix form,    *)
(* as in Ast; the value of a rule is the sequence of trees it contributes. *)
(***************************************************************************)
EXTENDS Spirit, Ast

CONSTANT Letters   \* the glyphs a word can begin with

ASSUME LettersAssumption == {"int", "return"} \subseteq Letters

Digits == <<"0", "1", "2", "3", "4", "5", "6", "7", "8", "9">>

(* Mutant: primary_expression has no on_success handler. *)
LocatedNotPrimary == {"identifier", "assignment_expression", "jump_statement",
                      "variable_declaration", "function_definition"}

(* The rules with an on_success handler. *)
Located == {"identifier", "primary_expression", "assignment_expression", "jump_statement",
            "variable_declaration", "function_definition"}

NoLocation == 0

(* on_success_handler: the node begins where its rule began to match, which *)
(* is before the blanks its first terminal skips.                           *)
Locate(val, start) == [val EXCEPT ![1][1].at = start]

Fresh(node) == [node |-> node, at |-> NoLocation]

BinaryTree(op, lhs, rhs) == <<Fresh([kind |-> "binary_expression", op |-> op])>> \o lhs \o rhs

(* A chain of operands and operators grows to the left. *)
LeftAssociated(chain) ==
  FoldLeft(LAMBDA lhs, k : BinaryTree(chain[2 * k], lhs, chain[2 * k + 1]),
           chain[1], [k \in 1..(Len(chain) \div 2) |-> k])

NameOf(tree) == tree[1].node.name
NamesOf(trees) == [k \in DOMAIN trees |-> NameOf(trees[k])]

(* The semantic actions.  "list" collects what a list rule pushes back. *)
Act(action, val) ==
  CASE action = "list" -> <<val>>
    [] action = "identifier" -> << <<Fresh([kind |-> "identifier", name |-> val])>> >>
    [] action = "number" -> << <<Fresh([kind |-> "number_literal", value |-> val[1]])>> >>
    [] action = "call" ->
         << <<Fresh([kind |-> "call_expression", name |-> NameOf(val[1]), args |-> Len(val[2])])>>
            \o FlattenSeq(val[2]) >>
    [] action = "binary" -> <<LeftAssociated(val)>>
    [] action = "jump" -> << <<Fresh([kind |-> "jump_statement"])>> \o val[1] >>
    [] action = "variable" ->
         << <<Fresh([kind |-> "variable_declaration", name |-> NameOf(val[1])])>> >>
    [] action = "declaration" ->
         << <<Fresh([name |-> NameOf(val[1]), params |-> NamesOf(val[2])])>> >>
    [] action = "definition" ->
         << <<Fresh([name |-> NameOf(val[1]), params |-> NamesOf(val[2]),
                     vars |-> val[3], body |-> FlattenSeq(val[4])])>> >>

----------------------------------------------------------------------------
(* Words and numbers. *)

reserved_words == Lexeme(Alt(<<Lit("return"), Lit("int")>>))

type_specifier == Lit("int")

identifier ==
  Do("identifier", Lexeme(Then(<<OneOf(Letters), Star(OneOf(Letters \cup ToSet(Digits)))>>)))

integer_literal == Lexeme(Int_)

number_literal == Do("number", Rule("integer_literal"))

(* Expressions. *)

primary_expression ==
  Alt(<<But(Rule("identifier"), Rule("reserved_words")),
        Rule("number_literal"),
        Expect(<<Lit("("), Rule("assignment_expression"), Lit(")")>>)>>)

postfix_expression ==
  Alt(<<Do("call", Then(<<Rule("identifier"), Lit("("), Rule("argument_list"), Lit(")")>>)),
        Rule("primary_expression")>>)

multipricative_expression ==
  Do("binary", Then(<<Rule("postfix_expression"),
                      Star(Alt(<<Expect(<<Sym("*"), Rule("postfix_expression")>>),
                                 Expect(<<Sym("/"), Rule("postfix_expression")>>)>>))>>))

(* Mutant: the right operand takes the rest of the chain. *)
additive_expressionRight ==
  Do("binary", Then(<<Rule("multipricative_expression"),
                      Star(Alt(<<Expect(<<Sym("+"), Rule("additive_expression")>>),
                                 Expect(<<Sym("-"), Rule("additive_expression")>>)>>))>>))

additive_expression ==
  Do("binary", Then(<<Rule("multipricative_expression"),
                      Star(Alt(<<Expect(<<Sym("+"), Rule("multipricative_expression")>>),
                                 Expect(<<Sym("-"), Rule("multipricative_expression")>>)>>))>>))

(* Mutant: anything a postfix_expression matches may be assigned to. *)
assignment_expressionAny ==
  Alt(<<Do("binary", Expect(<<Then(<<Rule("postfix_expression"), Sym("=")>>),
                              Rule("additive_expression")>>)),
        Rule("additive_expression")>>)

assignment_expression ==
  Alt(<<Do("binary", Expect(<<Then(<<Rule("identifier"), Sym("=")>>),
                              Rule("additive_expression")>>)),
        Rule("additive_expression")>>)

argument_list == Do("list", Opt(ListOf(Rule("assignment_expression"), Lit(","))))

(* Statements. *)

expression_statement == Expect(<<Rule("assignment_expression"), Lit(";")>>)

jump_statement ==
  Do("jump", Expect(<<Lit("return"), Rule("assignment_expression"), Lit(";")>>))

statement == Alt(<<Rule("expression_statement"), Rule("jump_statement")>>)

statement_list == Do("list", Star(Rule("statement")))

variable_declaration ==
  Do("variable", Then(<<Rule("type_specifier"), Rule("identifier"), Lit(";")>>))

variable_declaration_list == Do("list", Star(Rule("variable_declaration")))

function_statement ==
  Then(<<Lit("{"), Rule("variable_declaration_list"), Rule("statement_list"), Lit("}")>>)

(* Functions. *)

parameter == Expect(<<Rule("type_specifier"), Rule("identifier")>>)

parameter_list == Do("list", Opt(ListOf(Rule("parameter"), Lit(","))))

prototype ==
  Then(<<Rule("type_specifier"), Rule("identifier"), Lit("("), Rule("parameter_list"), Lit(")")>>)

function_declaration == Do("declaration", Then(<<Rule("prototype"), Lit(";")>>))

function_definition == Do("definition", Then(<<Rule("prototype"), Rule("function_statement")>>))

Rules ==
  [reserved_words |-> reserved_words, type_specifier |-> type_specifier,
   identifier |-> identifier, integer_literal |-> integer_literal,
   number_literal |-> number_literal, primary_expression |-> primary_expression,
   postfix_expression |-> postfix_expression,
   multipricative_expression |-> multipricative_expression,
   additive_expression |-> additive_expression,
   assignment_expression |-> assignment_expression, argument_list |-> argument_list,
   expression_statement |-> expression_statement, jump_statement |-> jump_statement,
   statement |-> statement, statement_list |-> statement_list,
   variable_declaration |-> variable_declaration,
   variable_declaration_list |-> variable_declaration_list,
   function_statement |-> function_statement, parameter |-> parameter,
   parameter_list |-> parameter_list, prototype |-> prototype,
   function_declaration |-> function_declaration,
   function_definition |-> function_definition]

----------------------------------------------------------------------------
(* Comments.  Inside a comment every star has to be followed by a slash. *)

Blank == {" ", "eol"}

single_line_comment == Then(<<Lit("/"), Lit("/"), Star(But(AnyChar, Lit("eol")))>>)

multi_line_comment ==
  Then(<<Lit("/"), Lit("*"), Star(But(AnyChar, Ahead(Expect(<<Lit("*"), Lit("/")>>)))),
         Lit("*"), Lit("/")>>)

Skipper == Alt(<<OneOf(Blank), single_line_comment, multi_line_comment>>)

============================================================================
