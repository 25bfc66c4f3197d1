------------------------------ MODULE Language ------------------------------
(***************************************************************************)
(* The language dcc accepts and the part of it dcc supports, said of the   *)
(* tree alone: no scopes, no symbols, no traversal.                        *)
(***************************************************************************)
EXTENDS Ast

(* The declarations of a function. *)
DeclarationsOf(t, f) == {i \in DOMAIN t.decls : t.decls[i].name = f}

(* No function is defined twice. *)
DefinedOnce(t) ==
  \A i, j \in DOMAIN t.defs : t.defs[i].name = t.defs[j].name => i = j

(* A call may use the arity of any declaration of the function; the arity *)
(* of its definition counts only if there is no declaration at all.       *)
Callable(t, f, n) ==
  \/ \E i \in DeclarationsOf(t, f) : Len(t.decls[i].params) = n
  \/ /\ DeclarationsOf(t, f) = {}
     /\ \E i \in DOMAIN t.defs : t.defs[i].name = f /\ Len(t.defs[i].params) = n

(* The parameters visible in definition i are those of the first declaration *)
(* of the function, and its own ones only if it was never declared.          *)
Parameters(t, i) ==
  LET decls == DeclarationsOf(t, t.defs[i].name)
  IN  Range(IF decls = {} THEN t.defs[i].params ELSE t.decls[Min(decls)].params)

Visible(t, i) == Range(t.defs[i].vars) \cup Parameters(t, i)

(* A node of definition i refers to something that exists. *)
Refers(t, i, n) ==
  /\ n \in Ident => n.name \in Visible(t, i)
  /\ n \in Call => Callable(t, n.name, n.args)

WellNamed(t) ==
  /\ DefinedOnce(t)
  /\ \A i \in DOMAIN t.defs : \A k \in DOMAIN t.defs[i].body :
       Refers(t, i, t.defs[i].body[k])

----------------------------------------------------------------------------
(* The part of the language the compiler supports.  Beyond it a unit that   *)
(* passes the analysis may still crash the generator or give a module that  *)
(* is not valid; every condition names the place in the code that needs it. *)

Distinct(names) == \A j, k \in DOMAIN names : names[j] = names[k] => j = k

(* A second llvm::Function of a name is renamed by the module, and func_map *)
(* forgets the first (ir_generator.cpp:25).                                 *)
DeclaredOnce(t) == Distinct([d \in DOMAIN t.decls |-> t.decls[d].name])

(* Parameters of a definition that took over a declaration have no symbols, *)
(* those of the declaration no storage (analyze_visitor.cpp:94).            *)
MergedWithoutParameters(t) ==
  \A i \in DOMAIN t.defs : \A d \in DeclarationsOf(t, t.defs[i].name) :
    t.defs[i].params = <<>> /\ t.decls[d].params = <<>>

(* A repeated name takes the place of the first (symbol.hpp:68).            *)
NamesDistinct(t) ==
  \A i \in DOMAIN t.defs : Distinct(t.defs[i].params) /\ Distinct(t.defs[i].vars)

(* func_map holds a function only from its declaration or definition on     *)
(* (ir_generator.cpp:156).                                                  *)
Known(t, i, f) ==
  DeclarationsOf(t, f) # {} \/ \E j \in 1..i : t.defs[j].name = f

CalleesKnown(t) ==
  \A i \in DOMAIN t.defs : \A k \in DOMAIN t.defs[i].body :
    LET n == t.defs[i].body[k] IN n \in Call => Known(t, i, n.name)

(* Node k of a body begins a statement. *)
IsStatement(body, k) == OwedBefore(body, k) = 0

(* The value of "=" is an address (ir_generator.cpp:126). *)
AssignmentsAreStatements(t) ==
  \A i \in DOMAIN t.defs :
    LET body == t.defs[i].body
    IN  \A k \in DOMAIN body : body[k] \in Binary /\ body[k].op = "=" => IsStatement(body, k)

(* The generator adds no terminator and stops at none (ir_generator.cpp:92). *)
ReturnsOnceAtEnd(t) ==
  \A i \in DOMAIN t.defs :
    LET body == t.defs[i].body
    IN  /\ \E k \in DOMAIN body : body[k] \in Jump
        /\ \A k \in DOMAIN body : body[k] \in Jump =>
             \A j \in DOMAIN body : j > k => ~IsStatement(body, j)

Supported(t) ==
  /\ DeclaredOnce(t)
  /\ MergedWithoutParameters(t)
  /\ NamesDistinct(t)
  /\ CalleesKnown(t)
  /\ AssignmentsAreStatements(t)
  /\ ReturnsOnceAtEnd(t)

(* The generator is sure to meet a symbol that is not there: of a parameter *)
(* of a definition that was declared, of a local variable whose name is     *)
(* repeated, or of a function it has not come to.                           *)
Doomed(t) ==
  \/ \E i \in DOMAIN t.defs :
       \/ t.defs[i].params # <<>> /\ DeclarationsOf(t, t.defs[i].name) # {}
       \/ ~Distinct(t.defs[i].vars)
  \/ ~CalleesKnown(t)

(* What compiling a unit may come to. *)
Outcomes(t) ==
  IF ~WellNamed(t) THEN {"rejected"}
  ELSE IF Doomed(t) THEN {"crashed"}
  ELSE IF Supported(t) THEN {"module"}
  ELSE {"module", "crashed"}

(* An instruction gets an operand of the wrong type, or a call the wrong    *)
(* number of them: a parameter stored under a repeated name, a load from a  *)
(* parameter of the declaration, an address that "=" returned, a call that  *)
(* fits another declaration than the last.                                  *)
IllTyped(t) ==
  \E i \in DOMAIN t.defs :
    LET def  == t.defs[i]
        body == def.body
    IN  \/ ~Distinct(def.params)
        \/ \E k \in DOMAIN body :
             LET n == body[k]
             IN  \/ /\ n \in Ident /\ n.name \notin Range(def.vars)
                    /\ DeclarationsOf(t, def.name) # {}
                 \/ /\ n \in Binary /\ n.op = "=" /\ ~IsStatement(body, k)
                    /\ body[k - 1] \notin Jump
                 \/ /\ n \in Call /\ DeclarationsOf(t, n.name) # {}
                    /\ Len(t.decls[Max(DeclarationsOf(t, n.name))].params) # n.args

(* A body returns once, and nothing behind the return needs an instruction. *)
ClosedByReturn(body) ==
  \E k \in DOMAIN body :
    /\ {j \in DOMAIN body : body[j] \in Jump} = {k}
    /\ \A j \in DOMAIN body :
         (\E l \in k + 1 .. j : IsStatement(body, l)) =>
           body[j] \in Number \/ (body[j] \in Binary /\ body[j].op # "=")

============================================================================
