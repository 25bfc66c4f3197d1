------------------------------- MODULE Syntax -------------------------------
(***************************************************************************)
(* The language as the comments of the grammar give it: a context-free     *)
(* grammar over tokens, where a token is a whole word, a whole number or a *)
(* sign, and no production precedes another.  Sentences are enumerated by  *)
(* their number of tokens, each with its tree.                             *)
(***************************************************************************)
EXTENDS Integers, SequencesExt

CONSTANTS
  Words,      \* identifiers; a token is the sequence of its glyphs
  Numerals,   \* constants
  ValueOf,    \* the value of each numeral
  MaxTokens   \* the length up to which sentences are enumerated

(* A phrase: its tokens, and the trees it contributes. *)
Phrase(toks, trees) == [toks |-> toks, trees |-> trees]

(* The parts of a production: tokens, and symbols of the grammar. *)
Token(glyph) == [token |-> TRUE, phrases |-> {Phrase(<< <<glyph>> >>, <<>>)}]
Word         == [token |-> TRUE, phrases |-> {Phrase(<<w>>, <<w>>) : w \in Words}]
Numeral      == [token |-> TRUE, phrases |-> {Phrase(<<c>>, <<ValueOf[c]>>) : c \in Numerals}]
Symbol(name) == [token |-> FALSE, name |-> name]

(* A production; "make" says which tree the trees of its parts form. *)
Prod(symbol, make, parts) == [symbol |-> symbol, make |-> make, parts |-> parts]

(* Those of a symbol come before those that can be just that symbol. *)
Productions == <<
  Prod("primary", "identifier", <<Word>>),
  Prod("primary", "number", <<Numeral>>),
  Prod("primary", "same", <<Token("("), Symbol("assignment"), Token(")")>>),
  Prod("postfix", "call", <<Word, Token("("), Symbol("argument_list"), Token(")")>>),
  Prod("postfix", "same", <<Symbol("primary")>>),
  Prod("multiplicative", "same", <<Symbol("postfix")>>),
  Prod("multiplicative", "*", <<Symbol("multiplicative"), Token("*"), Symbol("postfix")>>),
  Prod("multiplicative", "/", <<Symbol("multiplicative"), Token("/"), Symbol("postfix")>>),
  Prod("additive", "same", <<Symbol("multiplicative")>>),
  Prod("additive", "+", <<Symbol("additive"), Token("+"), Symbol("multiplicative")>>),
  Prod("additive", "-", <<Symbol("additive"), Token("-"), Symbol("multiplicative")>>),
  Prod("target", "identifier", <<Word>>),
  Prod("assignment", "=", <<Symbol("target"), Token("="), Symbol("additive")>>),
  Prod("assignment", "same", <<Symbol("additive")>>),
  Prod("arguments", "same", <<Symbol("assignment")>>),
  Prod("arguments", "same", <<Symbol("assignment"), Token(","), Symbol("arguments")>>),
  Prod("argument_list", "list", <<>>),
  Prod("argument_list", "list", <<Symbol("arguments")>>),
  Prod("statement", "same", <<Token(";")>>),
  Prod("statement", "same", <<Symbol("assignment"), Token(";")>>),
  Prod("statement", "jump", <<Token("return"), Symbol("assignment"), Token(";")>>),
  Prod("statements", "same", <<>>),
  Prod("statements", "same", <<Symbol("statement"), Symbol("statements")>>),
  Prod("statement_list", "list", <<Symbol("statements")>>),
  Prod("variables", "same", <<>>),
  Prod("variables", "same", <<Token("int"), Word, Token(";"), Symbol("variables")>>),
  Prod("variable_list", "list", <<Symbol("variables")>>),
  Prod("parameters", "same", <<Token("int"), Word>>),
  Prod("parameters", "same", <<Token("int"), Word, Token(","), Symbol("parameters")>>),
  Prod("parameter_list", "list", <<>>),
  Prod("parameter_list", "list", <<Symbol("parameters")>>),
  Prod("prototype", "same",
       <<Token("int"), Word, Token("("), Symbol("parameter_list"), Token(")")>>),
  Prod("function", "declaration", <<Symbol("prototype"), Token(";")>>),
  Prod("function", "definition",
       <<Symbol("prototype"), Token("{"), Symbol("variable_list"), Symbol("statement_list"),
         Token("}")>>),
  Prod("unit", "same", <<>>),
  Prod("unit", "same", <<Symbol("function"), Symbol("unit")>>)
>>

(* The tree of a phrase, from the trees of its parts. *)
Make(make, trees) ==
  CASE make = "same"       -> trees
    [] make = "list"       -> <<trees>>
    [] make = "identifier" -> << <<[kind |-> "identifier", name |-> trees[1]]>> >>
    [] make = "number"     -> << <<[kind |-> "number_literal", value |-> trees[1]]>> >>
    [] make = "jump"       -> << <<[kind |-> "jump_statement"]>> \o trees[1] >>
    [] make = "call"       ->
         << <<[kind |-> "call_expression", name |-> trees[1], args |-> Len(trees[2])]>>
            \o FlattenSeq(trees[2]) >>
    [] make = "declaration" -> <<[is |-> "declaration", name |-> trees[1], params |-> trees[2]]>>
    [] make = "definition" ->
         <<[is |-> "definition", name |-> trees[1], params |-> trees[2],
            vars |-> trees[3], body |-> FlattenSeq(trees[4])]>>
    [] OTHER -> << <<[kind |-> "binary_expression", op |-> make]>> \o trees[1] \o trees[2] >>

(* The phrases of n tokens that parts form.  table[k + 1] holds, for each   *)
(* symbol, its phrases of k tokens.                                         *)
RECURSIVE Concatenations(_, _, _)
Concatenations(table, parts, n) ==
  IF parts = <<>> THEN IF n = 0 THEN {Phrase(<<>>, <<>>)} ELSE {}
  ELSE LET part  == Head(parts)
           Of(k) == IF ~part.token THEN table[k + 1][part.name]
                    ELSE IF k = 1 THEN part.phrases ELSE {}
       IN  UNION {{Phrase(a.toks \o b.toks, a.trees \o b.trees) :
                     a \in Of(k), b \in Concatenations(table, Tail(parts), n - k)} :
                  k \in {k \in 0..n : Of(k) # {}}}

Symbols == {Productions[p].symbol : p \in DOMAIN Productions}

(* Around the phrases of other symbols a sentence has at least five tokens. *)
Outermost == {"prototype", "function", "unit"}

(* The phrases of n tokens by symbol, production by production. *)
RECURSIVE Row(_, _, _, _)
Row(table, row, n, p) ==
  IF p > Len(Productions) THEN row
  ELSE LET prod == Productions[p]
           more == IF n > MaxTokens - 5 /\ prod.symbol \notin Outermost THEN {} ELSE
                   {Phrase(c.toks, Make(prod.make, c.trees)) :
                      c \in Concatenations(Append(table, row), prod.parts, n)}
       IN  Row(table, [row EXCEPT ![prod.symbol] = @ \cup more], n, p + 1)

RECURSIVE Table(_)
Table(n) ==
  IF n < 0 THEN <<>>
  ELSE LET table == Table(n - 1) IN Append(table, Row(table, [s \in Symbols |-> {}], n, 1))

Language == Table(MaxTokens)

(* The phrases of a symbol with n tokens. *)
PhrasesOf(symbol, n) == IF n \in 0..MaxTokens THEN Language[n + 1][symbol] ELSE {}

============================================================================
