---------------------------- MODULE PhraseParse ----------------------------
(***************************************************************************)
(* How Boost.Spirit matches an expression of the grammar against a text,   *)
(* from a position on.                                                     *)
(*                                                                         *)
(* A text is a sequence of glyphs.  A match yields the position behind it  *)
(* and the sequence of the values its parts contribute; it fails, leaving  *)
(* the position to the alternatives, or throws an expectation_failure,     *)
(* which nothing below the start rule catches.                             *)
(***************************************************************************)
EXTENDS Grammar

Ok(pos, val) == [is |-> "ok", pos |-> pos, val |-> val]
Fail         == [is |-> "fail"]
Throw        == [is |-> "throw"]

(* The end of the run of digits that begins at p, and the number the digits *)
(* from p to q - 1 denote.                                                  *)
RECURSIVE DigitsEnd(_, _), DigitsValue(_, _, _)
DigitsEnd(text, p) ==
  IF p <= Len(text) /\ Contains(Digits, text[p]) THEN DigitsEnd(text, p + 1) ELSE p

DigitsValue(text, p, q) ==
  IF p = q THEN 0
  ELSE 10 * DigitsValue(text, p, q - 1) + (CHOOSE d \in 0..9 : text[q - 1] = Digits[d + 1])

(* int_: digits with a sign directly before them or none, in range. *)
MatchInt(text, p) ==
  LET signed == p <= Len(text) /\ text[p] \in {"+", "-"}
      first  == IF signed THEN p + 1 ELSE p
      end    == DigitsEnd(text, first)
      abs    == DigitsValue(text, first, end)
      value  == IF signed /\ text[p] = "-" THEN -abs ELSE abs
  IN  IF end > first /\ value \in -Limit .. Limit - 1 THEN Ok(end, <<value>>) ELSE Fail

RECURSIVE Match(_, _, _, _), SkipOver(_, _)

(* What precedes a terminal is skipped as often as the skipper matches. *)
SkipOver(text, p) ==
  LET r == Match(text, Skipper, p, FALSE)
  IN  CASE r.is = "ok"   -> SkipOver(text, r.pos)
        [] r.is = "fail" -> Ok(p, <<>>)
        [] OTHER         -> r

(* e matched against the text at p; skip says whether terminals skip. *)
Match(text, e, p, skip) ==
  LET from       == IF skip THEN SkipOver(text, p) ELSE Ok(p, <<>>)
      inner      == Match(text, e.of, p, skip)
      tail       == [e EXCEPT !.of = Tail(@)]
      And(a, f)  ==   \* a, and from its end on f
        IF a.is # "ok" THEN a
        ELSE LET b == Match(text, f, a.pos, skip)
             IN  IF b.is = "ok" THEN Ok(b.pos, a.val \o b.val) ELSE b
  IN
  CASE e.op \in {"char", "any", "int", "eoi", "lexeme"} /\ from.is = "throw" -> Throw
    [] e.op = "eoi"  -> IF from.pos > Len(text) THEN from ELSE Fail
    [] e.op = "char" -> IF from.pos <= Len(text) /\ text[from.pos] \in e.glyphs
                        THEN Ok(from.pos + 1, IF e.keep THEN <<text[from.pos]>> ELSE <<>>)
                        ELSE Fail
    [] e.op = "any"  -> IF from.pos <= Len(text) THEN Ok(from.pos + 1, <<>>) ELSE Fail
    [] e.op = "int"  -> MatchInt(text, from.pos)
    [] e.op = "lexeme" -> Match(text, e.of, from.pos, FALSE)
    [] e.op = "action" -> IF inner.is = "ok" THEN Ok(inner.pos, Act(e.action, inner.val))
                          ELSE inner
    [] e.op = "rule" ->
         LET r == Match(text, Rules[e.name], p, skip)
         IN  IF r.is = "ok" /\ e.name \in Located
             THEN Ok(r.pos, Locate(r.val, p)) ELSE r
    [] e.op = "ahead" -> IF inner.is = "ok" THEN Ok(p, <<>>) ELSE inner
    [] e.op = "must"  -> IF inner.is = "fail" THEN Throw ELSE inner
    [] e.op = "minus" ->
         LET r == Match(text, e.not, p, skip)
         IN  CASE r.is = "ok" -> Fail [] r.is = "fail" -> inner [] OTHER -> r
    [] e.op = "then" -> IF e.of = <<>> THEN Ok(p, <<>>)
                        ELSE And(Match(text, Head(e.of), p, skip), tail)
    [] e.op = "alt"  -> IF e.of = <<>> THEN Fail
                        ELSE LET r == Match(text, Head(e.of), p, skip)
                             IN  IF r.is = "fail" THEN Match(text, tail, p, skip) ELSE r
    [] e.op = "star" -> IF inner.is = "fail" THEN Ok(p, <<>>) ELSE And(inner, e)

============================================================================
