------------------------------ MODULE MCParser ------------------------------
(***************************************************************************)
(* Texts for the parser: every sentence of the grammar up to a length, in  *)
(* different layouts, and everything one token away from a shorter one.    *)
(* One word serves as the name of functions and of variables; the one      *)
(* numeral is the least int, and without its sign it is out of range.      *)
(***************************************************************************)
EXTENDS Conformance

MCLetters  == {"int", "return", "x"}
MCNames    == Seq(MCLetters)
MCWords    == {<<"x">>}
MCNumerals == {<<"-", "8">>}
MCValueOf  == [c \in MCNumerals |-> -8]

Glyphs(s) == {<<g>> : g \in s}
Alphabet == MCWords \cup MCNumerals \cup
  Glyphs({"8", "int", "return", "(", ")", "{", "}", ",", ";", "=", "+", "*"})

(* One token left out, put in or exchanged; sentences up to two tokens      *)
(* shorter than the longest are taken for that.                             *)
Near(toks) ==
  {RemoveAt(toks, k) : k \in DOMAIN toks}
  \cup {InsertAt(toks, k, a) : k \in DOMAIN toks, a \in Alphabet}
  \cup {[toks EXCEPT ![k] = a] : k \in DOMAIN toks, a \in Alphabet}

Spaced    == Spacing(<<" ">>, TRUE)
Tight     == Spacing(<<" ">>, FALSE)
Lines     == Spacing(<<" ", "/", "/", "x", " ", "*", "eol", " ">>, TRUE)
Commented == Spacing(<<" ", "/", "*", "x", "/", "*", "/", "/", "*", "*", "/">>, TRUE)
Starred   == Spacing(<<" ", "/", "*", "x", "*", "x", "*", "/">>, TRUE)

MCSpellings ==
  (Sentences \X {Tight, Lines, Commented})
  \cup (Sentences \cup UNION {Near(s) : s \in {s \in Sentences : Len(s) <= MaxTokens - 2}})
       \X {Spaced}

(* Two words, one of which begins with "int". *)
IntWords         == {<<"x">>, <<"int", "x">>}
SpacedSentences  == (Sentences \ {<<>>}) \X {Spaced}
PlainSentences   == {s \in Sentences : Plain(s)} \X {Spaced}
StarredSentences == {s \in Sentences : Plain(s)} \X {Starred}

=============================================================================
