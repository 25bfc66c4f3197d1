-------------------------- MODULE SemanticAnalyzer --------------------------
(***************************************************************************)
(* semantic_analayzer::analyze: scope_builder over the whole tree, then,   *)
(* unless that reported an error, symbol_resolver over the whole tree.     *)
(***************************************************************************)
EXTENDS ScopeBuilder, SymbolResolver

VARIABLE phase   \* how far analyze has come

analyzer_vars == <<heap, builder_vars, resolver_vars, phase>>

Phase == {"building", "resolving", "analyzed", "semantic_exception"}

AnalyzerTypeOK ==
  /\ HeapTypeOK
  /\ BuilderTypeOK
  /\ ResolverTypeOK
  /\ phase \in Phase

AnalyzerInit ==
  /\ HeapInit
  /\ BuilderInit
  /\ ResolverInit
  /\ phase = "building"

----------------------------------------------------------------------------
Build ==
  /\ phase = "building"
  /\ BuilderNext
  /\ UNCHANGED <<resolver_vars, phase>>

(* Mutant: the errors of the first pass do not stop the analysis. *)
FinishBuildingAnyway ==
  /\ phase = "building" /\ builder_pos.at = "end"
  /\ phase' = "resolving"
  /\ UNCHANGED <<heap, builder_vars, resolver_vars>>

(* Any error of the first pass ends the analysis with an exception. *)
FinishBuilding ==
  /\ phase = "building" /\ builder_pos.at = "end"
  /\ phase' = IF builder_errors = <<>> THEN "resolving" ELSE "semantic_exception"
  /\ UNCHANGED <<heap, builder_vars, resolver_vars>>

Resolve ==
  /\ phase = "resolving"
  /\ ResolverNext
  /\ UNCHANGED <<builder_vars, phase>>

FinishResolving ==
  /\ phase = "resolving" /\ resolver_pos.at = "end"
  /\ phase' = IF resolver_errors = <<>> THEN "analyzed" ELSE "semantic_exception"
  /\ UNCHANGED <<heap, builder_vars, resolver_vars>>

(* analyze has returned or thrown. *)
AnalysisOver ==
  /\ phase \in {"analyzed", "semantic_exception"}
  /\ UNCHANGED analyzer_vars

AnalyzerNext ==
  \/ Build
  \/ FinishBuilding
  \/ Resolve
  \/ FinishResolving
  \/ AnalysisOver

(* One thread runs the analysis and nothing in it waits. *)
AnalyzerSpec ==
  AnalyzerInit /\ [][AnalyzerNext]_analyzer_vars /\ WF_analyzer_vars(AnalyzerNext)

----------------------------------------------------------------------------
(* The references of the unit: the places of its identifiers and its calls. *)
References(kind) ==
  UNION {{<<i, k>> : k \in {k \in DOMAIN tunit.defs[i].body :
                              tunit.defs[i].body[k].kind = kind}}
           : i \in DOMAIN tunit.defs}

NodeAt(r) == tunit.defs[r[1]].body[r[2]]

(* The builder is in the global scope whenever the accepter is about to     *)
(* visit a function or has left the last one: "return" (any number of them) *)
(* and handle_post_func_def between them undo every switch of scope, once.  *)
ScopeBalanced ==
  builder_pos.at \in {"unit", "decl", "def", "end"} => builder_scope = Global

(* A function symbol stops being a mere declaration exactly when one        *)
(* definition is bound to it, and no two definitions share a symbol.        *)
BoundOnce ==
  /\ \A f \in DOMAIN func_table :
       func_table[f].is_declaration <=> \A i \in DOMAIN def_scope : def_scope[i] # f
  /\ \A i, j \in DOMAIN def_scope :
       def_scope[i] = def_scope[j] /\ def_scope[i] # None => i = j

(* The local variables of definition i whose declarations were visited. *)
DeclaredSoFar(i) ==
  {k \in DOMAIN tunit.defs[i].vars :
     \/ builder_pos.at = "end"
     \/ /\ builder_pos.at \in {"def", "var", "node", "post_def"}
        /\ i < builder_pos.fn
     \/ builder_pos.at \in {"node", "post_def"} /\ i = builder_pos.fn
     \/ builder_pos.at = "var" /\ i = builder_pos.fn /\ k < builder_pos.k}

(* The symbol of the latest declaration of a name among them. *)
LatestLocal(i, x) ==
  LET places == {k \in DeclaredSoFar(i) : tunit.defs[i].vars[k] = x}
  IN  IF places = {} THEN NoVariable ELSE NewVariable(x, "var", i, Max(places))

(* The locals of a function symbol are at every moment those its definition *)
(* has declared so far, each name standing for its latest declaration: no   *)
(* local is lost and none strays into another function's table, whatever    *)
(* "return" statements and rejected definitions lie between.                *)
LocalsAtHome ==
  /\ \A f \in DOMAIN func_table :
       func_table[f].is_declaration => Range(func_table[f].var_table) \subseteq {NoVariable}
  /\ \A i \in DOMAIN def_scope : def_scope[i] # None =>
       \A x \in VarNames : func_table[def_scope[i]].var_table[x] = LatestLocal(i, x)

(* The second pass runs only on a tree in which every definition has its    *)
(* scope: symbol_resolver locks fdef->scope without a test, and would look  *)
(* every name up through a null pointer otherwise.                          *)
ScopesReady ==
  phase \in {"resolving", "analyzed"} => \A i \in DOMAIN def_scope : def_scope[i] # None

(* A bound identifier can be locked: its symbol has its name and is owned   *)
(* by the function that holds it.  A bound call leads to a function symbol  *)
(* of its name with as many parameters as it has arguments.                 *)
BindingsHold ==
  /\ \A r \in DOMAIN id_symbol :
       /\ id_symbol[r].name = NodeAt(r).name
       /\ def_scope[r[1]] # None
       /\ id_symbol[r] \in Owned(func_table[def_scope[r[1]]])
  /\ \A r \in DOMAIN call_symbol :
       LET f == func_table[call_symbol[r]]
       IN  f.name = NodeAt(r).name /\ Len(f.params) = NodeAt(r).args

(* When analyze returns, no reference is left unbound: ir_generator locks   *)
(* the symbol of every identifier and call without a test.                  *)
AllBound ==
  phase = "analyzed" => /\ DOMAIN id_symbol = References("identifier")
                        /\ DOMAIN call_symbol = References("call_expression")

(* What a later pass may hold on to never changes under it: a function      *)
(* symbol keeps its index, name, parameters and node and never turns back   *)
(* into a mere declaration; a bound scope or symbol is never bound anew.    *)
Persist ==
  /\ Len(func_table) <= Len(func_table')
  /\ \A f \in DOMAIN func_table :
       /\ func_table'[f].name = func_table[f].name
       /\ func_table'[f].params = func_table[f].params
       /\ func_table'[f].node = func_table[f].node
       /\ func_table'[f].is_declaration => func_table[f].is_declaration
       /\ \A x \in VarNames : func_table'[f].var_table[x] = NoVariable
                               => func_table[f].var_table[x] = NoVariable
  /\ \A i \in DOMAIN decl_scope : decl_scope[i] \in {None, decl_scope'[i]}
  /\ \A i \in DOMAIN def_scope : def_scope[i] \in {None, def_scope'[i]}
  /\ \A r \in DOMAIN id_symbol : id_symbol'[r] = id_symbol[r]
  /\ \A r \in DOMAIN call_symbol : call_symbol'[r] = call_symbol[r]

(* Every step of the analysis keeps to that. *)
SymbolsPersist == [][Persist]_analyzer_vars

----------------------------------------------------------------------------
(* The inductive invariant: what the two passes know between two callbacks. *)

TypeInv ==
  /\ AnalyzerTypeOK
  /\ Within(tunit, builder_pos)
  /\ Within(tunit, resolver_pos)

(* Inside a definition the builder is in its scope, or out of it again.     *)
BuilderInside ==
  builder_pos.at \in {"var", "node", "post_def"} =>
    builder_scope \in {Global, def_scope[builder_pos.fn]}

(* A declaration has a scope once it was visited, and so has a definition,  *)
(* unless a definition was rejected.                                        *)
ScopesBound ==
  /\ \A i \in DOMAIN decl_scope :
       decl_scope[i] # None <=> DeclPassed(builder_pos, i)
  /\ \A i \in DOMAIN def_scope :
       IF DefPassed(builder_pos, i) THEN builder_errors = <<>> => def_scope[i] # None
       ELSE def_scope[i] = None

(* A var_table holds each symbol under its name. *)
TableByName ==
  \A f \in DOMAIN func_table : \A x \in VarNames :
    LET s == func_table[f].var_table[x] IN s # NoVariable => s.name = x

(* The passes run one after the other. *)
OnePassAtATime ==
  /\ phase = "building" => /\ resolver_pos = Start /\ resolver_errors = <<>>
                           /\ DOMAIN id_symbol = {} /\ DOMAIN call_symbol = {}
  /\ phase # "building" => builder_pos.at = "end"
  /\ phase \in {"resolving", "analyzed"} => builder_errors = <<>>

(* Inside a definition the resolver is in its scope. *)
ResolverInside ==
  resolver_pos.at \in {"var", "node", "post_def"} =>
    resolver_scope = def_scope[resolver_pos.fn]

(* Every binding is what its reference resolves to in the finished table.   *)
BoundByRule ==
  /\ \A r \in DOMAIN id_symbol :
       /\ r \in References("identifier")
       /\ def_scope[r[1]] # None
       /\ id_symbol[r] = ResolveVariable(def_scope[r[1]], NodeAt(r).name)
       /\ id_symbol[r] # NoVariable
  /\ \A r \in DOMAIN call_symbol :
       /\ r \in References("call_expression")
       /\ call_symbol[r] = ResolveCall(NodeAt(r).name, NodeAt(r).args)
       /\ call_symbol[r] # None

AnalyzerInv ==
  /\ TypeInv
  /\ ScopeBalanced
  /\ BuilderInside
  /\ ScopesBound
  /\ BoundOnce
  /\ TableByName
  /\ OnePassAtATime
  /\ ResolverInside
  /\ BoundByRule

(* At a local variable the builder is in the scope of its definition; that  *)
(* of a rejected one is the global scope.                                   *)
VariableScope == builder_pos.at = "var" => builder_scope = def_scope[builder_pos.fn]

(* A definition has the first function of its name, if any. *)
FirstOfName ==
  \A i \in DOMAIN def_scope :
    def_scope[i] # None => def_scope[i] = ResolveFunc(tunit.defs[i].name)

(* A function symbol has the name and the parameters of the node it was     *)
(* made for, which has it as its scope.                                     *)
FromSource(f) ==
  LET s      == func_table[f]
      decl   == s.node.site = "decl"
      scopes == IF decl THEN decl_scope ELSE def_scope
      sig    == IF decl THEN tunit.decls[s.node.fn] ELSE tunit.defs[s.node.fn]
  IN  /\ s.node.fn \in DOMAIN scopes /\ scopes[s.node.fn] = f
      /\ s.name = sig.name
      /\ s.params = [k \in DOMAIN sig.params |->
                       NewVariable(sig.params[k], s.node.site, s.node.fn, k)]

SymbolsFromSource == \A f \in DOMAIN func_table : FromSource(f)

(* The table begins with the functions of the declarations, in their order. *)
DeclarationsFirst ==
  /\ \A d \in DOMAIN decl_scope :
       decl_scope[d] # None => /\ decl_scope[d] = d
                               /\ func_table[d].node = [site |-> "decl", fn |-> d]
  /\ builder_pos.at = "unit" => func_table = <<>>
  /\ builder_pos.at = "decl" => Len(func_table) = builder_pos.fn - 1

(* The first pass rejects only what is defined a second time. *)
RejectionsMeant ==
  builder_errors # <<>> =>
    \E i, j \in DOMAIN tunit.defs : i # j /\ tunit.defs[i].name = tunit.defs[j].name

(* What the first pass knows of its table, from the tree alone. *)
TableInv ==
  /\ VariableScope
  /\ FirstOfName
  /\ SymbolsFromSource
  /\ DeclarationsFirst
  /\ RejectionsMeant

(* Node r of a body was visited before position p. *)
NodePassed(p, r) ==
  \/ p.at = "end"
  \/ p.at \in {"def", "var", "node", "post_def"} /\ r[1] < p.fn
  \/ p.at = "post_def" /\ r[1] = p.fn
  \/ p.at = "node" /\ r[1] = p.fn /\ r[2] < p.k

(* Every reference the second pass has visited is bound, or an error is     *)
(* recorded; an error means a reference to nothing; and the analysis        *)
(* returns only when the whole tree was visited without one.                *)
ResolutionInv ==
  /\ resolver_errors = <<>> =>
       /\ \A r \in References("identifier") :
            NodePassed(resolver_pos, r) => r \in DOMAIN id_symbol
       /\ \A r \in References("call_expression") :
            NodePassed(resolver_pos, r) => r \in DOMAIN call_symbol
  /\ \A e \in DOMAIN resolver_errors :
       LET r == resolver_errors[e]
       IN  \/ /\ r \in References("identifier")
              /\ ResolveVariable(def_scope[r[1]], NodeAt(r).name) = NoVariable
           \/ /\ r \in References("call_expression")
              /\ ResolveCall(NodeAt(r).name, NodeAt(r).args) = None
  /\ phase = "analyzed" => resolver_pos.at = "end" /\ resolver_errors = <<>>

----------------------------------------------------------------------------
(* The analysis as seen from outside: one verdict on the unit. *)
Verdict == CASE phase = "analyzed"           -> "accepted"
             [] phase = "semantic_exception" -> "rejected"
             [] OTHER                        -> "pending"

Rules == INSTANCE NameRules WITH unit <- tunit, verdict <- Verdict

(* The two passes together implement the naming rules: analyze ends, it     *)
(* returns exactly for the well named units and throws for all others.      *)
ImplementsNameRules == Rules!RuleSpec

----------------------------------------------------------------------------
(* What the code or its tests say and the analysis does not do. *)

(* The message of scope_builder says of the place it quotes that the        *)
(* "previous definition is here".                                           *)
QuotesDefinition ==
  \A e \in DOMAIN builder_errors : builder_errors[e].previous.site = "def"

(* The tests expect an "invalid function invocation" to be rejected: in an  *)
(* accepted unit every call of a defined function has as many arguments as  *)
(* the definition has parameters.                                           *)
InvocationsValid ==
  phase = "analyzed" =>
    \A r \in References("call_expression") : \A i \in DOMAIN tunit.defs :
      tunit.defs[i].name = NodeAt(r).name => Len(tunit.defs[i].params) = NodeAt(r).args

============================================================================
