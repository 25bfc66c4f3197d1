------------------------------- MODULE Spirit -------------------------------
(***************************************************************************)
(* The parsing expressions of Boost.Spirit the grammar of dcc is made of.  *)
(***************************************************************************)
EXTENDS Integers, SequencesExt

OneOf(glyphs)   == [op |-> "char", glyphs |-> glyphs, keep |-> TRUE]
Lit(glyph)      == [op |-> "char", glyphs |-> {glyph}, keep |-> FALSE]
Sym(glyph)      == OneOf({glyph})
AnyChar         == [op |-> "any"]
Int_            == [op |-> "int"]
Eoi             == [op |-> "eoi"]
Rule(name)      == [op |-> "rule", name |-> name]
Do(action, e)   == [op |-> "action", action |-> action, of |-> e]
Lexeme(e)       == [op |-> "lexeme", of |-> e]
Ahead(e)        == [op |-> "ahead", of |-> e]              \*  &e
But(e, f)       == [op |-> "minus", of |-> e, not |-> f]   \*  e - f
Alt(es)         == [op |-> "alt", of |-> es]               \*  e1 | e2 | ...
Then(es)        == [op |-> "then", of |-> es]              \*  e1 >> e2 >> ...
Must(e)         == [op |-> "must", of |-> e]
Expect(es)      ==                                         \*  e1 > e2 > ...
  Then([k \in DOMAIN es |-> IF k = 1 THEN es[k] ELSE Must(es[k])])
Star(e)         == [op |-> "star", of |-> e]               \*  *e
Opt(e)          == Alt(<<e, Then(<<>>)>>)                  \*  -e
ListOf(e, sep)  == Then(<<e, Star(Then(<<sep, e>>))>>)     \*  e % sep

============================================================================
