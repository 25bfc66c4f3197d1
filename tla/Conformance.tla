---------------------------- MODULE Conformance ----------------------------
(***************************************************************************)
(* The parser against the language its comments describe: it is run on     *)
(* texts that spell a sequence of tokens, and what it makes of them is     *)
(* compared with the sentences of Syntax.                                  *)
(***************************************************************************)
EXTENDS Parser, Syntax

CONSTANTS
  Spellings   \* pairs of a sequence of tokens and a spacing

VARIABLE tokens   \* what the text spells

(* A spacing: what stands between two tokens, always or only where they     *)
(* would run together without.                                              *)
Spacing(gap, always) == [gap |-> gap, always |-> always]

WordGlyphs == Letters \cup ToSet(Digits)

RECURSIVE Spelled(_, _)
Spelled(toks, spacing) ==
  IF Len(toks) < 2 THEN FlattenSeq(toks)
  ELSE LET touching == Last(toks[1]) \in WordGlyphs /\ Head(toks[2]) \in WordGlyphs
           gap == IF spacing.always \/ touching THEN spacing.gap ELSE <<>>
       IN  toks[1] \o gap \o Spelled(Tail(toks), spacing)

conformance_vars == <<parser_vars, tokens>>

Init == \E s \in Spellings : tokens = s[1] /\ ParserInit(Spelled(s[1], s[2]))

Next == ParserNext /\ UNCHANGED tokens

Spec == Init /\ [][Next]_conformance_vars /\ WF_conformance_vars(Next)

----------------------------------------------------------------------------
(* The unit a sequence of functions makes. *)
UnitOf(functions) ==
  LET OfKind(k) == SelectSeq(functions, LAMBDA f : f.is = k)
  IN  [decls |-> [k \in DOMAIN OfKind("declaration") |->
                    LET f == OfKind("declaration")[k] IN [name |-> f.name, params |-> f.params]],
       defs |-> [k \in DOMAIN OfKind("definition") |->
                   LET f == OfKind("definition")[k]
                   IN  [name |-> f.name, params |-> f.params, vars |-> f.vars, body |-> f.body]]]

(* The sentences with the units they stand for. *)
Readings ==
  UNION {{<<s.toks, UnitOf(s.trees)>> : s \in PhrasesOf("unit", n)} : n \in 0..MaxTokens}

Sentences == {r[1] : r \in Readings}

(* Without a reserved word where a name may stand, a statement of ";" alone *)
(* or no function at all: there the parser differs from its comments.       *)
Plain(toks) ==
  /\ toks # <<>>
  /\ \A k \in DOMAIN toks :
       LET next   == IF k < Len(toks) THEN toks[k + 1] ELSE <<>>
           before == IF k > 1 THEN toks[k - 1] ELSE <<>>
       IN  /\ toks[k] \in {<<"int">>, <<"return">>} =>
                next \notin {<<"(">>, <<"=">>} /\ before # <<"int">>
           /\ toks[k] = <<";">> => before \notin {<<"{">>, <<";">>}

(* The parser accepts the sentences of the grammar in its comments and      *)
(* nothing else, and gives each the tree of its derivation, although its    *)
(* alternatives are ordered, some may be left again and some may not, and   *)
(* however the tokens are set apart.                                        *)
FollowsGrammar ==
  Plain(tokens) /\ parse_status # "parsing" =>
    IF parse_status = "parsed" THEN <<tokens, Parsed>> \in Readings
    ELSE tokens \notin Sentences

----------------------------------------------------------------------------
(* What comments say and the parser does not do. *)

(* "RETURN , assignment_expression , ';'" is a jump statement: a sentence   *)
(* that is parsed gets the tree of its derivation.                          *)
SentencesGetTheirTrees ==
  tokens \in Sentences /\ parse_status = "parsed" => <<tokens, Parsed>> \in Readings

(* "VARIABLE_IDENTIFIER" is an expression whatever the name, and a comment  *)
(* is skipped whatever it says: sentences are parsed.                       *)
SentencesAreParsed == tokens \in Sentences => parse_status # "parse_exception"

============================================================================
