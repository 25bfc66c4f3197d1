------------------------------- MODULE Parser -------------------------------
(***************************************************************************)
(* parser::parse: from the text of a source file to a translation unit, or *)
(* a parse_exception.  The start rule translation_unit is the one the      *)
(* actions spell out, since it keeps what it has read in two variables.    *)
(***************************************************************************)
EXTENDS PhraseParse

VARIABLES
  code,          \* the text
  pos,           \* where the next function begins
  declarations,  \* translation_unit's _a
  definitions,   \* translation_unit's _b
  parse_status   \* whether parse() has returned, and how

parser_vars == <<code, pos, declarations, definitions, parse_status>>

ParseStatus == {"parsing", "parsed", "parse_exception"}

(* parse() is called with a text. *)
ParserInit(text) ==
  /\ code = text
  /\ pos = 1
  /\ declarations = <<>> /\ definitions = <<>>
  /\ parse_status = "parsing"

(* A function at pos: a declaration is tried first, then a definition. *)
NextFunction ==
  Match(code, Alt(<<Rule("function_declaration"), Rule("function_definition")>>), pos, TRUE)

IsDefinition(function) == "body" \in DOMAIN function[1].node

(* m is what matching a function at pos came to. *)
TakeDeclaration(m) ==
  /\ m.is = "ok" /\ ~IsDefinition(m.val[1])
  /\ pos' = m.pos
  /\ declarations' = declarations \o m.val
  /\ UNCHANGED <<code, definitions, parse_status>>

TakeDefinition(m) ==
  /\ m.is = "ok" /\ IsDefinition(m.val[1])
  /\ pos' = m.pos
  /\ definitions' = definitions \o m.val
  /\ UNCHANGED <<code, declarations, parse_status>>

(* Behind the functions nothing may follow, and no text at all is refused. *)
AtEnd == Match(code, Eoi, pos, TRUE).is = "ok" /\ code # <<>>

Return(status) ==
  /\ parse_status' = status
  /\ UNCHANGED <<code, pos, declarations, definitions>>

Accept(m) == m.is = "fail" /\ AtEnd /\ Return("parsed")

(* The error handler of translation_unit makes a failure of what was thrown. *)
Refuse(m) ==
  /\ m.is # "ok" /\ (m.is = "fail" => ~AtEnd)
  /\ Return("parse_exception")

Parse ==
  /\ parse_status = "parsing"
  /\ LET m == NextFunction
     IN  TakeDeclaration(m) \/ TakeDefinition(m) \/ Accept(m) \/ Refuse(m)

ParsingOver == parse_status # "parsing" /\ UNCHANGED parser_vars

ParserNext == Parse \/ ParsingOver

----------------------------------------------------------------------------
(* A tree without its locations. *)
Bare(tree) == [k \in DOMAIN tree |-> tree[k].node]

BareDefinition(tree) ==
  [tree[1].node EXCEPT !.vars = NamesOf(@), !.body = Bare(@)]

(* The result of parse(). *)
Parsed ==
  [decls |-> [k \in DOMAIN declarations |-> declarations[k][1].node],
   defs |-> [k \in DOMAIN definitions |-> BareDefinition(definitions[k])]]

(* The result is a unit of the kind the later phases are made for, with     *)
(* whole statements and an identifier to the left of every "=".             *)
ParserTypeOK ==
  /\ pos \in 1..(Len(code) + 1)
  /\ parse_status \in ParseStatus
  /\ parse_status = "parsed" => Parsed \in TranslationUnit

----------------------------------------------------------------------------
(* Locations. *)

(* The nodes of the variables and statements of a definition. *)
NodesOf(definition) == FlattenSeq(definition[1].node.vars) \o definition[1].node.body

Leaf(node) == node.kind \in {"identifier", "number_literal"}

(* The glyphs a located node can begin with in the text.  (An expression in *)
(* parentheses begins with the parenthesis.)                                *)
FirstGlyphs(node) ==
  CASE node.kind = "jump_statement"       -> {"return"}
    [] node.kind = "variable_declaration" -> {"int"}
    [] node.kind = "number_literal"       -> ToSet(Digits) \cup {"-", "+", "("}
    [] node.kind = "binary_expression"    -> Letters \cup ToSet(Digits) \cup {"-", "+", "("}
    [] OTHER                              -> {Head(node.name), "("}

(* However often an alternative is tried, left and tried again, and a node  *)
(* relocated by the rules around its own: between a location and its node   *)
(* there are only blanks and comments, variables, names, numbers and        *)
(* returns have one, and those of names and numbers are in the order of the *)
(* text.                                                                    *)
LocationsTrue ==
  parse_status = "parsed" =>
    \A d \in DOMAIN definitions :
      LET nodes  == NodesOf(definitions[d])
          leaves == SelectSeq(nodes, LAMBDA n : Leaf(n.node))
      IN  /\ \A k \in DOMAIN nodes :
               IF nodes[k].at = NoLocation
               THEN nodes[k].node.kind \in {"binary_expression", "call_expression"}
               ELSE code[SkipOver(code, nodes[k].at).pos] \in FirstGlyphs(nodes[k].node)
          /\ \A j, k \in DOMAIN leaves : j < k => leaves[j].at < leaves[k].at

============================================================================
