-------------------------------- MODULE Ast --------------------------------
(***************************************************************************)
(* The abstract syntax tree the parser of dcc hands to the later phases,   *)
(* and the order in which ast_accepter walks it.                           *)
(*                                                                         *)
(* A function body is kept as the sequence of its nodes in the order the   *)
(* accepter visits them: a node before its operands, operands from left to *)
(* right.  Since the arity of every node is fixed by the node itself this  *)
(* is the tree, written in prefix form.  Source locations are left out,    *)
(* and so are type names: the grammar knows only the type "int".           *)
(***************************************************************************)
EXTENDS Integers, SequencesExt

CONSTANTS
  FuncNames,   \* the names functions may have
  VarNames,    \* the names parameters and local variables may have
  Programs,    \* the translation units the compiler is run on
  Limit        \* an int is one of -Limit .. Limit - 1

ASSUME LimitAssumption == Limit \in Nat \ {0}

----------------------------------------------------------------------------
(* Nodes of a function body. *)

Number  == [kind : {"number_literal"}, value : -Limit .. Limit - 1]
Ident   == [kind : {"identifier"}, name : VarNames]
Call    == [kind : {"call_expression"}, name : FuncNames, args : Nat]
Binary  == [kind : {"binary_expression"}, op : {"=", "+", "-", "*", "/"}]
Jump    == [kind : {"jump_statement"}]
Node    == Number \cup Ident \cup Call \cup Binary \cup Jump

(* How many operands follow a node. *)
Arity(n) == CASE n.kind = "call_expression"   -> n.args
              [] n.kind = "binary_expression" -> 2
              [] n.kind = "jump_statement"    -> 1
              [] OTHER                        -> 0

(* The operands still owed after a prefix of a body: 0 between statements. *)
Owed(nodes) ==
  FoldLeft(LAMBDA owed, n : IF owed = 0 THEN Arity(n) ELSE owed - 1 + Arity(n),
           0, nodes)

(* The operands owed before node k of a body. *)
OwedBefore(body, k) == Owed(SubSeq(body, 1, k - 1))

(* The bodies the grammar can produce: whole statements only, "return" only *)
(* as a statement, and only an identifier to the left of "=".               *)
WellFormed(body) ==
  /\ Owed(body) = 0
  /\ \A j \in DOMAIN body :
       /\ body[j] \in Jump => OwedBefore(body, j) = 0
       /\ body[j] \in Binary /\ body[j].op = "=" => body[j + 1] \in Ident

Prototype == [name : FuncNames, params : Seq(VarNames)]

(* A definition: its signature, the declarations of its local variables     *)
(* (all of them before the first statement) and its statements.             *)
Definition == [name : FuncNames, params : Seq(VarNames),
               vars : Seq(VarNames), body : Seq(Node)]

(* Declarations and definitions are two lists: the order in which a source  *)
(* file interleaves the two is lost.                                        *)
TranslationUnit ==
  {t \in [decls : Seq(Prototype), defs : Seq(Definition)] :
     \A i \in DOMAIN t.defs : WellFormed(t.defs[i].body)}

ASSUME ProgramsAssumption == Programs \subseteq TranslationUnit

----------------------------------------------------------------------------
(* The traversal.  A position is the next visitor callback that can have an *)
(* effect: "at" names it, "fn" is the declaration or definition and "k" the *)
(* local variable or body node it is made for.                              *)

Position ==
  [at : {"unit", "decl", "def", "var", "node", "post_def", "end"},
   fn : Nat, k : Nat]

At(at, fn, k) == [at |-> at, fn |-> fn, k |-> k]

Start == At("unit", 0, 0)

(* The i-th definition, or the end of the unit. *)
EnterDef(t, i) == IF i <= Len(t.defs) THEN At("def", i, 0) ELSE At("end", 0, 0)

(* The i-th declaration; the definitions follow the last one. *)
EnterDecl(t, i) == IF i <= Len(t.decls) THEN At("decl", i, 0) ELSE EnterDef(t, 1)

(* The j-th node of the body of definition i, or the callback after it. *)
EnterNode(t, i, j) ==
  IF j <= Len(t.defs[i].body) THEN At("node", i, j) ELSE At("post_def", i, 0)

(* The j-th local variable of definition i; the statements follow the last. *)
EnterVar(t, i, j) ==
  IF j <= Len(t.defs[i].vars) THEN At("var", i, j) ELSE EnterNode(t, i, 1)

(* The callback after the one at position p. *)
After(t, p) ==
  CASE p.at = "unit"     -> EnterDecl(t, 1)
    [] p.at = "decl"     -> EnterDecl(t, p.fn + 1)
    [] p.at = "def"      -> EnterVar(t, p.fn, 1)
    [] p.at = "var"      -> EnterVar(t, p.fn, p.k + 1)
    [] p.at = "node"     -> EnterNode(t, p.fn, p.k + 1)
    [] p.at = "post_def" -> EnterDef(t, p.fn + 1)
    [] OTHER             -> p

(* The place a position names is there. *)
Within(t, p) ==
  /\ p.at = "decl" => p.fn \in DOMAIN t.decls
  /\ p.at \in {"def", "var", "node", "post_def"} => p.fn \in DOMAIN t.defs
  /\ p.at = "var" => p.k \in DOMAIN t.defs[p.fn].vars
  /\ p.at = "node" => p.k \in DOMAIN t.defs[p.fn].body

(* Declaration i, and definition i, was visited before position p. *)
DeclPassed(p, i) == p.at # "unit" /\ (p.at = "decl" => i < p.fn)

DefPassed(p, i) ==
  \/ p.at = "end"
  \/ p.at = "def" /\ i < p.fn
  \/ p.at \in {"var", "node", "post_def"} /\ i <= p.fn

============================================================================
