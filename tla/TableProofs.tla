---------------------------- MODULE TableProofs ----------------------------
(***************************************************************************)
(* Proofs about the symbol table the first pass builds: what a later pass  *)
(* may hold on to, where every symbol comes from, and where every local    *)
(* variable goes.                                                          *)
(***************************************************************************)
EXTENDS SemanticProofs

----------------------------------------------------------------------------
(* What one callback of the first pass does to the entries of func_table.  *)

(* The types of the state between two callbacks, as the proofs use them. *)
LEMMA TypesHold ==
  ASSUME TypeInv
  PROVE  /\ tunit \in TranslationUnit
         /\ builder_pos \in Position /\ Within(tunit, builder_pos)
         /\ resolver_pos \in Position /\ Within(tunit, resolver_pos)
         /\ func_table \in Seq(FuncSymbol) /\ Len(func_table) \in Nat
         /\ builder_scope \in {Global} \cup DOMAIN func_table
         /\ resolver_scope \in {Global} \cup DOMAIN func_table
         /\ DOMAIN decl_scope = DOMAIN tunit.decls
         /\ DOMAIN def_scope = DOMAIN tunit.defs
         /\ decl_scope \in [DOMAIN tunit.decls -> {None} \cup DOMAIN func_table]
         /\ def_scope \in [DOMAIN tunit.defs -> {None} \cup DOMAIN func_table]
<1>1. HeapTypeOK /\ BuilderTypeOK /\ ResolverTypeOK
      /\ Within(tunit, builder_pos) /\ Within(tunit, resolver_pos)
  BY DEF TypeInv, AnalyzerTypeOK
<1>2. tunit \in TranslationUnit
  BY <1>1, TunitType
<1>3. func_table \in Seq(FuncSymbol) /\ Len(func_table) \in Nat
  BY <1>1 DEF HeapTypeOK
<1> QED BY <1>1, <1>2, <1>3 DEF HeapTypeOK, BuilderTypeOK, ResolverTypeOK

(* Entering a local variable changes one place of one var_table. *)
LEMMA VariableEntered ==
  ASSUME TypeInv, VisitVariableDeclaration, builder_scope # Global
  PROVE  LET i == builder_pos.fn
             k == builder_pos.k
             x == tunit.defs[i].vars[k]
         IN  /\ DOMAIN func_table' = DOMAIN func_table
             /\ Len(func_table') = Len(func_table)
             /\ \A g \in DOMAIN func_table :
                  /\ func_table'[g].name = func_table[g].name
                  /\ func_table'[g].params = func_table[g].params
                  /\ func_table'[g].node = func_table[g].node
                  /\ func_table'[g].is_declaration = func_table[g].is_declaration
                  /\ \A y \in VarNames :
                       func_table'[g].var_table[y] =
                         IF g = builder_scope /\ y = x THEN NewVariable(x, "var", i, k)
                         ELSE func_table[g].var_table[y]
<1> DEFINE i == builder_pos.fn
           k == builder_pos.k
           x == tunit.defs[i].vars[k]
           v == NewVariable(x, "var", i, k)
<1>1. func_table \in Seq(FuncSymbol) /\ builder_scope \in DOMAIN func_table
  BY TypesHold
<1>2. func_table' = [func_table EXCEPT ![builder_scope].var_table[x] = v]
  BY DEF VisitVariableDeclaration
<1>3. \A g \in DOMAIN func_table : func_table[g] \in FuncSymbol
  BY <1>1
<1> HIDE DEF x, v, NoVariable
<1>4. DOMAIN func_table' = DOMAIN func_table /\ Len(func_table') = Len(func_table)
  BY <1>1, <1>2
<1> QED BY <1>1, <1>2, <1>3, <1>4 DEF FuncSymbol, x, v, i, k

(* Taking over a declaration changes one mark. *)
LEMMA DeclarationMerged ==
  ASSUME TypeInv, MergeDeclaration
  PROVE  LET f == ResolveFunc(DefinitionName)
         IN  /\ f \in DOMAIN func_table /\ func_table[f].name = DefinitionName
             /\ func_table[f].is_declaration
             /\ DOMAIN func_table' = DOMAIN func_table
             /\ Len(func_table') = Len(func_table)
             /\ \A g \in DOMAIN func_table :
                  /\ func_table'[g].name = func_table[g].name
                  /\ func_table'[g].params = func_table[g].params
                  /\ func_table'[g].node = func_table[g].node
                  /\ func_table'[g].var_table = func_table[g].var_table
                  /\ func_table'[g].is_declaration =
                       IF g = f THEN FALSE ELSE func_table[g].is_declaration
<1> DEFINE f == ResolveFunc(DefinitionName)
<1>1. func_table \in Seq(FuncSymbol)
  BY TypesHold
<1>2. /\ f # None /\ func_table[f].is_declaration
      /\ func_table' = [func_table EXCEPT ![f].is_declaration = FALSE]
  BY DEF MergeDeclaration
<1>3. f \in DOMAIN func_table /\ func_table[f].name = DefinitionName
  BY <1>1, <1>2, ResolveFuncResult
<1>4. func_table[f] \in FuncSymbol
  BY <1>1, <1>3
<1> HIDE DEF f
<1> QED BY <1>1, <1>2, <1>3, <1>4 DEF FuncSymbol, f

(* The other callbacks of the first pass. *)
LEMMA BuilderEffect ==
  ASSUME TypeInv, BuilderFacts, BuilderNext
  PROVE  \/ /\ builder_pos.at = "decl" /\ VisitFunctionDeclaration
            /\ func_table' = Append(func_table,
                 CreateFunction(tunit.decls[builder_pos.fn], "decl", builder_pos.fn, TRUE))
            /\ decl_scope' = [decl_scope EXCEPT ![builder_pos.fn] = Len(func_table')]
            /\ UNCHANGED <<def_scope, builder_errors>>
         \/ /\ builder_pos.at = "def" /\ DefineFunction
            /\ func_table' = Append(func_table,
                 CreateFunction(tunit.defs[builder_pos.fn], "def", builder_pos.fn, FALSE))
            /\ def_scope' = [def_scope EXCEPT ![builder_pos.fn] = Len(func_table')]
            /\ builder_scope' = Len(func_table')
            /\ UNCHANGED <<decl_scope, builder_errors>>
         \/ /\ builder_pos.at = "def" /\ MergeDeclaration
            /\ def_scope' = [def_scope EXCEPT ![builder_pos.fn] = ResolveFunc(DefinitionName)]
            /\ builder_scope' = ResolveFunc(DefinitionName)
            /\ UNCHANGED <<decl_scope, builder_errors>>
         \/ /\ builder_pos.at = "def" /\ RejectRedefinition
            /\ UNCHANGED <<func_table, decl_scope, def_scope, builder_scope>>
         \/ /\ builder_pos.at = "var" /\ VisitVariableDeclaration /\ builder_scope # Global
            /\ UNCHANGED <<decl_scope, def_scope, builder_scope, builder_errors>>
         \/ /\ builder_pos.at \in {"unit", "var", "node", "post_def"}
            /\ UNCHANGED <<func_table, decl_scope, def_scope, builder_errors>>
            /\ builder_pos.at = "var" => builder_scope = Global /\ UNCHANGED builder_scope
<1>1. builder_pos.at = "decl" => builder_scope = Global
  BY DEF BuilderFacts, ScopeBalanced
<1>2. CASE VisitFunctionDeclaration
  BY <1>1, <1>2 DEF VisitFunctionDeclaration, InBuilder
<1>3. CASE DefineFunction
  BY <1>3 DEF DefineFunction, InBuilder
<1>4. CASE MergeDeclaration
  BY <1>4 DEF MergeDeclaration, InBuilder
<1>5. CASE RejectRedefinition
  BY <1>5 DEF RejectRedefinition, InBuilder, heap
<1>6. CASE VisitVariableDeclaration
  BY <1>6 DEF VisitVariableDeclaration, InBuilder
<1>7. CASE VisitTranslationUnit \/ VisitBodyNode \/ HandlePostFuncDef
  BY <1>7 DEF VisitTranslationUnit, VisitBodyNode, HandlePostFuncDef, InBuilder, heap
<1> QED BY <1>2, <1>3, <1>4, <1>5, <1>6, <1>7 DEF BuilderNext

(* Every callback moves to the next one and leaves the tree as it is. *)
LEMMA BuilderMoves ==
  ASSUME BuilderNext
  PROVE  builder_pos' = After(tunit, builder_pos) /\ tunit' = tunit
BY DEF BuilderNext, VisitTranslationUnit, VisitFunctionDeclaration, DefineFunction,
   MergeDeclaration, RejectRedefinition, VisitVariableDeclaration, VisitBodyNode,
   HandlePostFuncDef, InBuilder, heap

(* A new local variable is a variable. *)
LEMMA VariableIsSome ==
  ASSUME NEW x, NEW i, NEW k
  PROVE  NewVariable(x, "var", i, k) # NoVariable
BY DEF NewVariable, NoVariable

(* No entry ever loses what it says of its function. *)
LEMMA EntriesKept ==
  ASSUME TypeInv, BuilderFacts, BuilderNext
  PROVE  /\ Len(func_table) <= Len(func_table')
         /\ DOMAIN func_table \subseteq DOMAIN func_table'
         /\ \A f \in DOMAIN func_table :
              /\ func_table'[f].name = func_table[f].name
              /\ func_table'[f].params = func_table[f].params
              /\ func_table'[f].node = func_table[f].node
              /\ func_table'[f].is_declaration => func_table[f].is_declaration
              /\ \A x \in VarNames : func_table'[f].var_table[x] = NoVariable
                                      => func_table[f].var_table[x] = NoVariable
<1> DEFINE Goal ==
         /\ Len(func_table) <= Len(func_table')
         /\ DOMAIN func_table \subseteq DOMAIN func_table'
         /\ \A f \in DOMAIN func_table :
              /\ func_table'[f].name = func_table[f].name
              /\ func_table'[f].params = func_table[f].params
              /\ func_table'[f].node = func_table[f].node
              /\ func_table'[f].is_declaration => func_table[f].is_declaration
              /\ \A x \in VarNames : func_table'[f].var_table[x] = NoVariable
                                      => func_table[f].var_table[x] = NoVariable
<1>1. func_table \in Seq(FuncSymbol) /\ Len(func_table) \in Nat
  BY TypesHold
<1>2. ASSUME NEW e, func_table' = Append(func_table, e)
      PROVE  Goal
  BY <1>1, <1>2, AppendEntry
<1>3. CASE UNCHANGED func_table
  BY <1>1, <1>3
<1>4. CASE MergeDeclaration
  <2> HIDE DEF NoVariable
  <2>1. /\ DOMAIN func_table' = DOMAIN func_table
        /\ Len(func_table') = Len(func_table)
        /\ \A f \in DOMAIN func_table :
             /\ func_table'[f].name = func_table[f].name
             /\ func_table'[f].params = func_table[f].params
             /\ func_table'[f].node = func_table[f].node
             /\ func_table'[f].var_table = func_table[f].var_table
             /\ func_table'[f].is_declaration => func_table[f].is_declaration
    BY <1>4, DeclarationMerged
  <2> QED BY <1>1, <2>1
<1>5. CASE VisitVariableDeclaration /\ builder_scope # Global
  <2>1. NewVariable(tunit.defs[builder_pos.fn].vars[builder_pos.k], "var",
                    builder_pos.fn, builder_pos.k) # NoVariable
    BY VariableIsSome
  <2> HIDE DEF NoVariable
  <2> QED BY <2>1, <1>1, <1>5, VariableEntered
<1> QED BY <1>2, <1>3, <1>4, <1>5, BuilderEffect

(* A scope is bound once. *)
LEMMA ScopesPersist ==
  ASSUME TypeInv, BuilderFacts, BuilderNext
  PROVE  /\ DOMAIN decl_scope' = DOMAIN decl_scope
         /\ DOMAIN def_scope' = DOMAIN def_scope
         /\ \A i \in DOMAIN decl_scope : decl_scope[i] \in {None, decl_scope'[i]}
         /\ \A i \in DOMAIN def_scope : def_scope[i] \in {None, def_scope'[i]}
<1>1. /\ DOMAIN decl_scope' = DOMAIN decl_scope
      /\ \A i \in DOMAIN decl_scope : decl_scope[i] \in {None, decl_scope'[i]}
  <2>1. CASE UNCHANGED decl_scope
    BY <2>1
  <2>2. CASE builder_pos.at = "decl"
             /\ decl_scope' = [decl_scope EXCEPT ![builder_pos.fn] = Len(func_table')]
    <3>1. \A i \in DOMAIN decl_scope : i = builder_pos.fn => decl_scope[i] = None
      <4>1. builder_pos.fn \in Nat
        BY TypesHold DEF Position
      <4>2. ~DeclPassed(builder_pos, builder_pos.fn)
        BY <4>1, <2>2 DEF DeclPassed
      <4> QED BY <4>2 DEF BuilderFacts, ScopesBound
    <3> QED BY <2>2, <3>1
  <2> QED BY <2>1, <2>2, BuilderEffect
<1>2. /\ DOMAIN def_scope' = DOMAIN def_scope
      /\ \A i \in DOMAIN def_scope : def_scope[i] \in {None, def_scope'[i]}
  <2>1. CASE UNCHANGED def_scope
    BY <2>1
  <2>2. ASSUME NEW f, builder_pos.at = "def",
               def_scope' = [def_scope EXCEPT ![builder_pos.fn] = f]
        PROVE  /\ DOMAIN def_scope' = DOMAIN def_scope
               /\ \A i \in DOMAIN def_scope : def_scope[i] \in {None, def_scope'[i]}
    <3>1. \A i \in DOMAIN def_scope : i = builder_pos.fn => def_scope[i] = None
      <4>1. ~DefPassed(builder_pos, builder_pos.fn)
        BY <2>2, TypesHold, PassDef
      <4> QED BY <4>1 DEF BuilderFacts, ScopesBound
    <3> QED BY <2>2, <3>1
  <2> QED BY <2>1, <2>2, BuilderEffect
<1> QED BY <1>1, <1>2

----------------------------------------------------------------------------
(* What a later pass may hold on to. *)

(* A reference is bound again only to what it is bound to. *)
LEMMA BindingsPersist ==
  ASSUME TypeInv, ResolverInside, BoundByRule, ResolverNext
  PROVE  /\ \A r \in DOMAIN id_symbol : id_symbol'[r] = id_symbol[r]
         /\ \A r \in DOMAIN call_symbol : call_symbol'[r] = call_symbol[r]
<1>1. CASE VisitIdentifier
  <2> DEFINE v == ResolveVariable(resolver_scope, Visited.name)
  <2>1. /\ resolver_pos.at = "node" /\ UNCHANGED call_symbol
        /\ id_symbol' = Put(id_symbol, Here, v) \/ UNCHANGED id_symbol
    BY <1>1 DEF VisitIdentifier, InResolver
  <2>2. Here \in DOMAIN id_symbol => id_symbol[Here] = v
    BY <2>1, HereIsReference DEF BoundByRule, ResolverInside
  <2> HIDE DEF v
  <2> QED BY <2>1, <2>2 DEF Put
<1>2. CASE VisitCallExpression
  <2> DEFINE f == ResolveCall(Visited.name, Visited.args)
  <2>1. /\ resolver_pos.at = "node" /\ UNCHANGED id_symbol
        /\ call_symbol' = Put(call_symbol, Here, f) \/ UNCHANGED call_symbol
    BY <1>2 DEF VisitCallExpression, InResolver
  <2>2. Here \in DOMAIN call_symbol => call_symbol[Here] = f
    BY <2>1, HereIsReference DEF BoundByRule
  <2> HIDE DEF f
  <2> QED BY <2>1, <2>2 DEF Put
<1>3. CASE EnterDefinition \/ VisitOther
  BY <1>3 DEF EnterDefinition, VisitOther, heap
<1> QED BY <1>1, <1>2, <1>3 DEF ResolverNext

(* Every step of the analysis keeps what is bound. *)
LEMMA PersistStep == AnalyzerInv /\ [AnalyzerNext]_analyzer_vars => [Persist]_analyzer_vars
<1> SUFFICES ASSUME AnalyzerInv, AnalyzerNext PROVE Persist \/ UNCHANGED analyzer_vars
  OBVIOUS
<1>1. TypeInv /\ BuilderFacts /\ ResolverInside /\ BoundByRule
  BY DEF AnalyzerInv, BuilderFacts
<1>2. func_table \in Seq(FuncSymbol) /\ Len(func_table) \in Nat
  BY <1>1, TypesHold
<1>3. CASE UNCHANGED heap
  BY <1>2, <1>3 DEF heap, Persist
<1>4. CASE Build
  <2>1. BuilderNext
    BY <1>4 DEF Build
  <2>2. UNCHANGED <<id_symbol, call_symbol>>
    BY <2>1, BuilderBindsNothing
  <2> QED BY <1>1, <2>1, <2>2, ScopesPersist, EntriesKept DEF Persist
<1>5. CASE Resolve
  <2>1. ResolverNext
    BY <1>5 DEF Resolve
  <2>2. UNCHANGED <<tunit, func_table, decl_scope, def_scope>>
    BY <1>1, <2>1, ResolverTypeStep DEF TypeInv, AnalyzerTypeOK
  <2> QED BY <1>1, <1>2, <2>1, <2>2, BindingsPersist DEF Persist
<1>6. CASE FinishBuilding \/ FinishResolving \/ AnalysisOver
  BY <1>3, <1>6 DEF FinishBuilding, FinishResolving, AnalysisOver, analyzer_vars
<1> QED BY <1>4, <1>5, <1>6 DEF AnalyzerNext

(* What symbol_resolver and ir_generator hold on to never changes under     *)
(* them: no callback renames a function, changes its parameters, turns it   *)
(* back into a declaration, drops a local or rebinds a scope or a symbol.   *)
THEOREM SymbolsDoPersist == AnalyzerSpec => SymbolsPersist
BY Invariant, PersistStep, PTL DEF AnalyzerSpec, SymbolsPersist

----------------------------------------------------------------------------
(* Lookups by name. *)

(* resolve_func on any table of functions. *)
FirstFunction(table, name) == SelectInSeq(table, LAMBDA f : f.name = name)

(* It finds the first function of the name, if there is one. *)
LEMMA FirstFunctionIs ==
  ASSUME NEW S, NEW table \in Seq(S), NEW name
  PROVE  LET f == FirstFunction(table, name)
         IN  /\ f = None <=> \A g \in DOMAIN table : table[g].name # name
             /\ f # None => /\ f \in DOMAIN table /\ table[f].name = name
                            /\ \A g \in DOMAIN table : table[g].name = name => f <= g
<1> DEFINE I == {i \in 1..Len(table) : table[i].name = name}
           f == FirstFunction(table, name)
<1>1. f = IF I # {} THEN Min(I) ELSE 0
  BY DEF FirstFunction, SelectInSeq
<1>2. I \in SUBSET Nat /\ I \subseteq DOMAIN table
      /\ \A i \in DOMAIN table : i \in I <=> table[i].name = name
      /\ 0 \notin I
  OBVIOUS
<1> HIDE DEF I, f
<1>3. I # {} => Min(I) \in I /\ \A y \in I : Min(I) <= y
  BY <1>2, MinIsLeast
<1> QED BY <1>1, <1>2, <1>3 DEF None, f

(* A table that grows still begins with it. *)
LEMMA FirstFunctionKept ==
  ASSUME NEW S, NEW table \in Seq(S), NEW longer \in Seq(S), NEW name,
         Len(table) <= Len(longer),
         \A g \in DOMAIN table : longer[g].name = table[g].name,
         FirstFunction(table, name) # None
  PROVE  FirstFunction(longer, name) = FirstFunction(table, name)
<1> DEFINE f == FirstFunction(table, name)
           h == FirstFunction(longer, name)
<1>1. /\ f \in DOMAIN table /\ table[f].name = name
      /\ \A g \in DOMAIN table : table[g].name = name => f <= g
  BY FirstFunctionIs
<1>2. f \in DOMAIN longer /\ longer[f].name = name
  BY <1>1
<1>3. h # None
  BY <1>2, FirstFunctionIs
<1>4. h \in DOMAIN longer /\ longer[h].name = name /\ h <= f
  BY <1>2, <1>3, FirstFunctionIs
<1> HIDE DEF f, h
<1>5. h \in DOMAIN table /\ table[h].name = name
  BY <1>1, <1>4
<1> QED BY <1>1, <1>4, <1>5 DEF f, h

(* resolve_func is that lookup, before and after a step. *)
LEMMA ResolveFuncIsFirst ==
  /\ \A name : ResolveFunc(name) = FirstFunction(func_table, name)
  /\ \A name : ResolveFunc(name)' = FirstFunction(func_table', name)
BY DEF ResolveFunc, FirstFunction, SelectInSeq

(* A name that resolves keeps what it resolves to. *)
LEMMA ResolveFuncKept ==
  ASSUME TypeInv, TypeInv', BuilderFacts, BuilderNext, NEW name, ResolveFunc(name) # None
  PROVE  ResolveFunc(name)' = ResolveFunc(name)
<1>1. func_table \in Seq(FuncSymbol)
  BY TypesHold
<1>2. func_table' \in Seq(FuncSymbol)
  BY DEF TypeInv, AnalyzerTypeOK, HeapTypeOK
<1>3. /\ Len(func_table) <= Len(func_table')
      /\ \A f \in DOMAIN func_table : func_table'[f].name = func_table[f].name
  BY EntriesKept
<1>4. FirstFunction(func_table, name) # None
  BY ResolveFuncIsFirst
<1> QED BY <1>1, <1>2, <1>3, <1>4, FirstFunctionKept, ResolveFuncIsFirst

----------------------------------------------------------------------------
(* The invariant of the table, part by part. *)

(* A definition is given the first function of its name. *)
LEMMA FirstOfNameStep ==
  ASSUME TypeInv, TypeInv', BuilderFacts, FirstOfName, BuilderNext
  PROVE  FirstOfName'
<1>1. /\ func_table \in Seq(FuncSymbol) /\ tunit' = tunit
      /\ DOMAIN def_scope' = DOMAIN def_scope
  BY TypesHold, BuilderMoves, ScopesPersist
<1>2. func_table' \in Seq(FuncSymbol)
  BY DEF TypeInv, AnalyzerTypeOK, HeapTypeOK
<1>3. ASSUME NEW j \in DOMAIN def_scope, def_scope'[j] # None
      PROVE  def_scope'[j] = ResolveFunc(tunit.defs[j].name)'
  <2> DEFINE name == tunit.defs[j].name
  <2>1. CASE def_scope'[j] = def_scope[j]
    <3>1. def_scope'[j] = ResolveFunc(name) /\ ResolveFunc(name) # None
      BY <1>3, <2>1 DEF FirstOfName
    <3>2. ResolveFunc(name)' = ResolveFunc(name)
      BY <3>1, <1>1, ResolveFuncKept, ResolveFuncIsFirst
    <3> QED BY <3>1, <3>2
  <2>2. CASE j = builder_pos.fn /\ DefineFunction
    <3> DEFINE e == CreateFunction(tunit.defs[j], "def", j, FALSE)
               l == Len(func_table')
    <3>1. /\ func_table' = Append(func_table, e) /\ ResolveFunc(name) = None
          /\ def_scope' = [def_scope EXCEPT ![j] = l]
      BY <2>2 DEF DefineFunction, DefinitionName
    <3>2. e.name = name
      BY DEF CreateFunction
    <3> HIDE DEF e, name
    <3>3. /\ DOMAIN func_table' = DOMAIN func_table \cup {l}
          /\ func_table'[l] = e
          /\ \A f \in DOMAIN func_table : func_table'[f] = func_table[f]
      BY <3>1, <1>1, AppendEntry
    <3>4. \A g \in DOMAIN func_table : func_table[g].name # name
      BY <3>1, <1>1, FirstFunctionIs, ResolveFuncIsFirst
    <3>5. \A g \in DOMAIN func_table' : func_table'[g].name = name => g = l
      BY <3>3, <3>4
    <3>6. l \in DOMAIN func_table' /\ func_table'[l].name = name
      BY <3>2, <3>3
    <3>7. FirstFunction(func_table', name) = l
      BY <3>5, <3>6, <1>2, FirstFunctionIs
    <3>8. def_scope'[j] = l
      BY <3>1
    <3> QED BY <3>7, <3>8, <1>1, ResolveFuncIsFirst DEF name
  <2>3. CASE j = builder_pos.fn /\ MergeDeclaration
    <3>1. /\ def_scope' = [def_scope EXCEPT ![j] = ResolveFunc(name)]
          /\ ResolveFunc(name) # None
      BY <2>3 DEF MergeDeclaration, DefinitionName
    <3>2. ResolveFunc(name)' = ResolveFunc(name)
      BY <3>1, <1>1, ResolveFuncKept, ResolveFuncIsFirst
    <3> QED BY <3>1, <3>2
  <2>4. \/ def_scope'[j] = def_scope[j]
        \/ j = builder_pos.fn /\ (DefineFunction \/ MergeDeclaration)
    BY BuilderEffect
  <2> QED BY <2>1, <2>2, <2>3, <2>4
<1> QED BY <1>1, <1>3 DEF FirstOfName

(* A symbol is made from a node, and the node is given the symbol. *)
LEMMA SymbolsFromSourceStep ==
  ASSUME TypeInv, BuilderFacts, SymbolsFromSource, BuilderNext
  PROVE  SymbolsFromSource'
<1> DEFINE i == builder_pos.fn
           l == Len(func_table')
<1>1. /\ func_table \in Seq(FuncSymbol) /\ tunit' = tunit
      /\ DOMAIN decl_scope = DOMAIN tunit.decls /\ DOMAIN def_scope = DOMAIN tunit.defs
      /\ DOMAIN def_scope' = DOMAIN def_scope /\ DOMAIN decl_scope' = DOMAIN decl_scope
      /\ Within(tunit, builder_pos)
  BY TypesHold, BuilderMoves, ScopesPersist
<1>3. ASSUME NEW f \in DOMAIN func_table
      PROVE  FromSource(f)'
  <2>1. /\ func_table'[f].name = func_table[f].name
        /\ func_table'[f].params = func_table[f].params
        /\ func_table'[f].node = func_table[f].node
    BY EntriesKept
  <2>2. f # None /\ FromSource(f)
    BY <1>1 DEF None, SymbolsFromSource
  <2> DEFINE s == func_table[f]
  <2>3. CASE s.node.site = "decl"
    <3>1. /\ s.node.fn \in DOMAIN decl_scope /\ decl_scope[s.node.fn] = f
          /\ s.name = tunit.decls[s.node.fn].name
          /\ s.params = [k \in DOMAIN tunit.decls[s.node.fn].params |->
                NewVariable(tunit.decls[s.node.fn].params[k], s.node.site, s.node.fn, k)]
      BY <2>2, <2>3 DEF FromSource
    <3>2. decl_scope'[s.node.fn] = f
      BY <3>1, <2>2, ScopesPersist
    <3> DEFINE n == s.node.fn
    <3>3. /\ func_table'[f].node.site = "decl" /\ func_table'[f].node.fn = n
          /\ func_table'[f].name = tunit.decls[n].name
      BY <2>1, <2>3, <3>1
    <3>4. func_table'[f].params =
            [k \in DOMAIN tunit.decls[n].params |->
               NewVariable(tunit.decls[n].params[k], "decl", n, k)]
      BY <2>1, <2>3, <3>1
    <3>5. n \in DOMAIN decl_scope' /\ decl_scope'[n] = f
      BY <1>1, <3>1, <3>2
    <3> HIDE DEF n, s
    <3> QED BY <1>1, <3>3, <3>4, <3>5 DEF FromSource
  <2>4. CASE s.node.site # "decl"
    <3>1. /\ s.node.fn \in DOMAIN def_scope /\ def_scope[s.node.fn] = f
          /\ s.name = tunit.defs[s.node.fn].name
          /\ s.params = [k \in DOMAIN tunit.defs[s.node.fn].params |->
                NewVariable(tunit.defs[s.node.fn].params[k], s.node.site, s.node.fn, k)]
      BY <2>2, <2>4 DEF FromSource
    <3>2. def_scope'[s.node.fn] = f
      BY <3>1, <2>2, ScopesPersist
    <3> DEFINE n == s.node.fn
    <3>3. /\ func_table'[f].node.site # "decl" /\ func_table'[f].node.fn = n
          /\ func_table'[f].name = tunit.defs[n].name
      BY <2>1, <2>4, <3>1
    <3>4. func_table'[f].params =
            [k \in DOMAIN tunit.defs[n].params |->
               NewVariable(tunit.defs[n].params[k], func_table'[f].node.site, n, k)]
      BY <2>1, <3>1
    <3>5. n \in DOMAIN def_scope' /\ def_scope'[n] = f
      BY <1>1, <3>1, <3>2
    <3> HIDE DEF n, s
    <3> QED BY <1>1, <3>3, <3>4, <3>5 DEF FromSource
  <2> QED BY <2>3, <2>4
<1>4. CASE DOMAIN func_table' = DOMAIN func_table
  BY <1>1, <1>3, <1>4 DEF SymbolsFromSource
<1>5. CASE builder_pos.at = "decl"
           /\ func_table' = Append(func_table, CreateFunction(tunit.decls[i], "decl", i, TRUE))
           /\ decl_scope' = [decl_scope EXCEPT ![i] = l]
  <2>1. i \in DOMAIN decl_scope
    BY <1>1, <1>5 DEF Within
  <2>2. decl_scope'[i] = l /\ i \in DOMAIN decl_scope'
    BY <2>1, <1>5
  <2> DEFINE e == CreateFunction(tunit.decls[i], "decl", i, TRUE)
  <2>3. /\ e.name = tunit.decls[i].name /\ e.node.site = "decl" /\ e.node.fn = i
        /\ e.params = [k \in DOMAIN tunit.decls[i].params |->
                         NewVariable(tunit.decls[i].params[k], "decl", i, k)]
    BY DEF CreateFunction
  <2> HIDE DEF e
  <2>4. DOMAIN func_table' = DOMAIN func_table \cup {l} /\ func_table'[l] = e
    BY <1>1, <1>5, AppendEntry DEF e
  <2> HIDE DEF l, i
  <2>5. ASSUME NEW f, f = l
        PROVE  FromSource(f)'
    BY <1>1, <2>2, <2>3, <2>4, <2>5 DEF FromSource
  <2> QED BY <1>3, <2>4, <2>5 DEF SymbolsFromSource
<1>6. CASE builder_pos.at = "def"
           /\ func_table' = Append(func_table, CreateFunction(tunit.defs[i], "def", i, FALSE))
           /\ def_scope' = [def_scope EXCEPT ![i] = l]
  <2>1. i \in DOMAIN def_scope
    BY <1>1, <1>6 DEF Within
  <2>2. def_scope'[i] = l /\ i \in DOMAIN def_scope'
    BY <2>1, <1>6
  <2> DEFINE e == CreateFunction(tunit.defs[i], "def", i, FALSE)
  <2>3. /\ e.name = tunit.defs[i].name /\ e.node.site = "def" /\ e.node.fn = i
        /\ e.params = [k \in DOMAIN tunit.defs[i].params |->
                         NewVariable(tunit.defs[i].params[k], "def", i, k)]
    BY DEF CreateFunction
  <2> HIDE DEF e
  <2>4. DOMAIN func_table' = DOMAIN func_table \cup {l} /\ func_table'[l] = e
    BY <1>1, <1>6, AppendEntry DEF e
  <2> HIDE DEF l, i
  <2>5. ASSUME NEW f, f = l
        PROVE  FromSource(f)'
    <3>1. /\ func_table'[f].name = tunit'.defs[i].name
          /\ func_table'[f].node.site = "def" /\ func_table'[f].node.fn = i
      BY <1>1, <2>3, <2>4, <2>5
    <3>2. func_table'[f].params = [k \in DOMAIN tunit'.defs[i].params |->
                                     NewVariable(tunit'.defs[i].params[k], "def", i, k)]
      BY <1>1, <2>3, <2>4, <2>5
    <3>3. i \in DOMAIN def_scope' /\ def_scope'[i] = f
      BY <2>2, <2>5
    <3> QED BY <3>1, <3>2, <3>3 DEF FromSource
  <2> QED BY <1>3, <2>4, <2>5 DEF SymbolsFromSource
<1>7. \/ DOMAIN func_table' = DOMAIN func_table
      \/ /\ builder_pos.at = "decl"
         /\ func_table' = Append(func_table, CreateFunction(tunit.decls[i], "decl", i, TRUE))
         /\ decl_scope' = [decl_scope EXCEPT ![i] = l]
      \/ /\ builder_pos.at = "def"
         /\ func_table' = Append(func_table, CreateFunction(tunit.defs[i], "def", i, FALSE))
         /\ def_scope' = [def_scope EXCEPT ![i] = l]
  BY BuilderEffect, DeclarationMerged, VariableEntered
<1> QED BY <1>4, <1>5, <1>6, <1>7

(* The functions of the declarations are made first, one by one. *)
LEMMA DeclarationsFirstStep ==
  ASSUME TypeInv, BuilderFacts, DeclarationsFirst, BuilderNext
  PROVE  DeclarationsFirst'
<1> DEFINE i == builder_pos.fn
           q == After(tunit, builder_pos)
<1>1. /\ func_table \in Seq(FuncSymbol) /\ tunit' = tunit /\ builder_pos' = q
      /\ tunit \in TranslationUnit
      /\ decl_scope \in [DOMAIN tunit.decls -> {None} \cup DOMAIN func_table]
      /\ DOMAIN decl_scope' = DOMAIN decl_scope
      /\ Within(tunit, builder_pos) /\ builder_pos \in Position
  BY TypesHold, BuilderMoves, ScopesPersist
<1>2. /\ DOMAIN func_table \subseteq DOMAIN func_table'
      /\ \A f \in DOMAIN func_table : func_table'[f].node = func_table[f].node
  BY EntriesKept
<1>3. CASE builder_pos.at = "decl"
  <2>1. /\ func_table' = Append(func_table, CreateFunction(tunit.decls[i], "decl", i, TRUE))
        /\ decl_scope' = [decl_scope EXCEPT ![i] = Len(func_table')]
    BY <1>3, BuilderEffect
  <2>2. i \in Nat /\ i \in DOMAIN decl_scope
    BY <1>1, <1>3 DEF Position, Within
  <2>3. Len(func_table) = i - 1 /\ Len(func_table) \in Nat
    BY <1>1, <1>3 DEF DeclarationsFirst
  <2> DEFINE e == CreateFunction(tunit.decls[i], "decl", i, TRUE)
  <2>4. e.node = [site |-> "decl", fn |-> i]
    BY DEF CreateFunction
  <2> HIDE DEF e
  <2>5. Len(func_table') = i /\ func_table'[i] = e
    <3>1. func_table' = Append(func_table, e)
      BY <2>1 DEF e
    <3> QED BY <1>1, <2>2, <2>3, <3>1, AppendEntry
  <2>6. \A d \in DOMAIN decl_scope : decl_scope[d] # None => decl_scope[d] \in DOMAIN func_table
    BY <1>1
  <2>7. \A d \in DOMAIN decl_scope' : decl_scope'[d] # None =>
          decl_scope'[d] = d /\ func_table'[d].node = [site |-> "decl", fn |-> d]
    <3> SUFFICES ASSUME NEW d \in DOMAIN decl_scope, decl_scope'[d] # None
                 PROVE  decl_scope'[d] = d /\ func_table'[d].node = [site |-> "decl", fn |-> d]
      BY <1>1
    <3>1. CASE d = i
      BY <3>1, <2>1, <2>2, <2>4, <2>5
    <3>2. CASE d # i
      <4>1. decl_scope'[d] = decl_scope[d]
        BY <3>2, <2>1
      <4> QED BY <4>1, <2>6, <1>2 DEF DeclarationsFirst
    <3> QED BY <3>1, <3>2
  <2>8. q.at # "unit" /\ (q.at = "decl" => q.fn = i + 1)
    BY <1>1, <1>3, AfterDecl
  <2> HIDE DEF q
  <2> QED BY <1>1, <2>2, <2>5, <2>7, <2>8 DEF DeclarationsFirst
<1>4. CASE builder_pos.at # "decl"
  <2>1. UNCHANGED decl_scope
    BY <1>4, BuilderEffect
  <2>2. \A d \in DOMAIN decl_scope' : decl_scope'[d] # None =>
          decl_scope'[d] = d /\ func_table'[d].node = [site |-> "decl", fn |-> d]
    BY <1>1, <1>2, <2>1 DEF DeclarationsFirst
  <2>3. CASE builder_pos.at = "unit"
    <3>1. func_table' = <<>>
      BY <2>3, BuilderEffect DEF DeclarationsFirst
    <3>2. q.at # "unit" /\ (q.at = "decl" => q.fn = 1)
      BY <1>1, <2>3, AfterDecl
    <3> HIDE DEF q
    <3> QED BY <1>1, <2>2, <3>1, <3>2 DEF DeclarationsFirst
  <2>4. CASE builder_pos.at \in {"def", "var", "node", "post_def", "end"}
    <3>1. q.at \notin {"unit", "decl"}
      <4>1. CASE builder_pos.at = "end"
        BY <4>1 DEF After
      <4>2. CASE builder_pos.at # "end"
        BY <4>2, <2>4, <1>1, AfterDef, AfterPostDef
      <4> QED BY <4>1, <4>2
    <3> HIDE DEF q
    <3> QED BY <1>1, <2>2, <3>1 DEF DeclarationsFirst
  <2> QED BY <2>3, <2>4, <1>1, <1>4 DEF Position
<1> QED BY <1>3, <1>4

(* A definition is rejected for one that was visited before. *)
LEMMA RejectionsMeantStep ==
  ASSUME TypeInv, BuilderFacts, FirstOfName, RejectionsMeant, BuilderNext
  PROVE  RejectionsMeant'
<1>1. /\ func_table \in Seq(FuncSymbol) /\ tunit' = tunit
      /\ Within(tunit, builder_pos) /\ builder_pos \in Position
      /\ tunit \in TranslationUnit
      /\ DOMAIN def_scope = DOMAIN tunit.defs
  BY TypesHold, BuilderMoves
<1>2. CASE UNCHANGED builder_errors
  BY <1>1, <1>2 DEF RejectionsMeant
<1>3. CASE RejectRedefinition
  <2> DEFINE f == ResolveFunc(DefinitionName)
             i == builder_pos.fn
  <2>1. /\ builder_pos.at = "def"
        /\ builder_scope = Global => f # None /\ ~func_table[f].is_declaration
    BY <1>3 DEF RejectRedefinition, InBuilder
  <2>2. f # None /\ ~func_table[f].is_declaration
    BY <2>1 DEF BuilderFacts, ScopeBalanced
  <2>3. f \in DOMAIN func_table /\ func_table[f].name = tunit.defs[i].name
    BY <2>2, <1>1, ResolveFuncResult DEF DefinitionName
  <2>4. PICK j \in DOMAIN def_scope : def_scope[j] = f
    BY <2>2, <2>3 DEF BuilderFacts, BoundOnce
  <2>5. f = ResolveFunc(tunit.defs[j].name)
    BY <2>2, <2>4 DEF FirstOfName
  <2>6. func_table[f].name = tunit.defs[j].name
    BY <2>2, <2>5, <1>1, ResolveFuncResult
  <2>7. i \in DOMAIN tunit.defs
    BY <2>1, <1>1 DEF Within
  <2>8. j # i
    <3>1. ~DefPassed(builder_pos, i)
      BY <2>1, <1>1, PassDef
    <3>2. def_scope[i] = None
      BY <3>1, <2>7, <1>1 DEF BuilderFacts, ScopesBound
    <3> QED BY <3>2, <2>2, <2>4
  <2> HIDE DEF f, i
  <2> QED BY <2>3, <2>4, <2>6, <2>7, <2>8, <1>1 DEF RejectionsMeant
<1> QED BY <1>2, <1>3, BuilderEffect

(* From a definition to its first local variable, and on to the next. *)
LEMMA VariableScopeStep ==
  ASSUME TypeInv, BuilderFacts, VariableScope, BuilderNext
  PROVE  VariableScope'
<1> DEFINE i == builder_pos.fn
           q == After(tunit, builder_pos)
<1>1. /\ Within(tunit, builder_pos) /\ builder_pos \in Position
      /\ tunit \in TranslationUnit
      /\ DOMAIN def_scope = DOMAIN tunit.defs
      /\ builder_pos' = q
  BY TypesHold, BuilderMoves
<1>2. CASE builder_pos.at = "def"
  <2>1. q.fn = i
    BY <1>1, <1>2, AfterDef
  <2>2. i \in DOMAIN def_scope
    BY <1>1, <1>2 DEF Within
  <2>3. ~DefPassed(builder_pos, i) /\ builder_scope = Global
    BY <1>1, <1>2, PassDef DEF BuilderFacts, ScopeBalanced
  <2>4. def_scope[i] = None
    BY <2>2, <2>3 DEF BuilderFacts, ScopesBound
  <2> HIDE DEF q
  <2>5. builder_scope' = def_scope'[i]
    <3>1. CASE DefineFunction
      BY <2>2, <3>1 DEF DefineFunction
    <3>2. CASE MergeDeclaration
      BY <2>2, <3>2 DEF MergeDeclaration
    <3>3. CASE RejectRedefinition
      BY <2>3, <2>4, <3>3 DEF RejectRedefinition, heap, Global, None
    <3> QED BY <1>2, <3>1, <3>2, <3>3, BuilderEffect
  <2> QED BY <1>1, <2>1, <2>5 DEF VariableScope
<1>3. CASE builder_pos.at = "var"
  <2>1. q.fn = i
    BY <1>1, <1>3, AfterDef
  <2>2. UNCHANGED <<builder_scope, def_scope>>
    BY <1>3, BuilderEffect
  <2> HIDE DEF q
  <2> QED BY <1>1, <1>3, <2>1, <2>2 DEF VariableScope
<1>4. CASE builder_pos.at \notin {"def", "var"}
  <2>1. q.at # "var"
    <3>1. CASE builder_pos.at \in {"unit", "decl"}
      BY <3>1, <1>1, AfterDecl
    <3>2. CASE builder_pos.at = "node"
      BY <3>2, <1>1, AfterDef
    <3>3. CASE builder_pos.at = "post_def"
      BY <3>3, <1>1, AfterPostDef
    <3>4. CASE builder_pos.at = "end"
      BY <3>4 DEF After
    <3> QED BY <3>1, <3>2, <3>3, <3>4, <1>1, <1>4 DEF Position
  <2> HIDE DEF q
  <2> QED BY <1>1, <2>1 DEF VariableScope
<1> QED BY <1>2, <1>3, <1>4

----------------------------------------------------------------------------
(* Local variables. *)

(* The next local variable, or none. *)
LEMMA AfterVariable ==
  ASSUME NEW t \in TranslationUnit, NEW p \in Position,
         p.at \in {"def", "var"}, Within(t, p)
  PROVE  LET j == IF p.at = "def" THEN 1 ELSE p.k + 1
         IN  /\ After(t, p).at = "var" => After(t, p).k = j
             /\ After(t, p).at # "var" => Len(t.defs[p.fn].vars) < j
<1> DEFINE j == IF p.at = "def" THEN 1 ELSE p.k + 1
           d == t.defs[p.fn]
<1>1. p.fn \in DOMAIN t.defs /\ p.k \in Nat
  BY DEF Within, Position
<1>2. d.vars \in Seq(VarNames)
  BY <1>1, UnitType
<1>3. After(t, p) = EnterVar(t, p.fn, j)
  BY DEF After
<1>4. CASE j <= Len(d.vars)
  BY <1>3, <1>4 DEF EnterVar, At
<1>5. CASE j > Len(d.vars)
  <2>1. After(t, p) = EnterNode(t, p.fn, 1)
    BY <1>1, <1>2, <1>3, <1>5 DEF EnterVar
  <2>2. After(t, p).at # "var"
    BY <2>1 DEF EnterNode, At
  <2> QED BY <2>2, <1>5
<1> QED BY <1>1, <1>2, <1>4, <1>5

(* What is declared so far, one callback later. *)
LEMMA DeclaredStep ==
  ASSUME tunit \in TranslationUnit, builder_pos \in Position, Within(tunit, builder_pos),
         builder_pos' = After(tunit, builder_pos), tunit' = tunit,
         builder_pos.at \in {"def", "var", "node", "post_def"}
  PROVE  /\ \A j \in DOMAIN tunit.defs :
              DeclaredSoFar(j)' =
                IF builder_pos.at = "var" /\ j = builder_pos.fn
                THEN DeclaredSoFar(j) \cup {builder_pos.k} ELSE DeclaredSoFar(j)
         /\ builder_pos.at = "var" => \A m \in DeclaredSoFar(builder_pos.fn) : m < builder_pos.k
         /\ builder_pos.at = "def" => DeclaredSoFar(builder_pos.fn) = {}
<1> DEFINE i == builder_pos.fn
           k == builder_pos.k
           q == After(tunit, builder_pos)
<1>1. i \in DOMAIN tunit.defs /\ i \in Nat /\ k \in Nat /\ Len(tunit.defs) \in Nat
      /\ DOMAIN tunit.defs = 1..Len(tunit.defs)
  <2>1. i \in DOMAIN tunit.defs
    BY DEF Within
  <2>2. tunit.defs \in Seq(Definition)
    BY UnitType
  <2> QED BY <2>1, <2>2 DEF Position
<1>2. \A j \in DOMAIN tunit.defs :
        /\ Len(tunit.defs[j].vars) \in Nat
        /\ DOMAIN tunit.defs[j].vars = 1..Len(tunit.defs[j].vars)
  BY UnitType
<1>3. CASE builder_pos.at = "def"
  <2>1. q.at \in {"var", "node", "post_def"} /\ q.fn = i
    BY <1>3, AfterDef
  <2>2. (q.at = "var" => q.k = 1) /\ (q.at # "var" => Len(tunit.defs[i].vars) < 1)
    BY <1>3, AfterVariable
  <2> HIDE DEF q
  <2>3. \A j \in DOMAIN tunit.defs : DeclaredSoFar(j)' = DeclaredSoFar(j)
    <3> SUFFICES ASSUME NEW j \in DOMAIN tunit.defs
                 PROVE  DeclaredSoFar(j)' = DeclaredSoFar(j)
      OBVIOUS
    <3>1. j \in Nat /\ DOMAIN tunit.defs[j].vars = 1..Len(tunit.defs[j].vars)
      BY <1>1, <1>2
    <3> QED BY <1>1, <1>2, <1>3, <2>1, <2>2, <3>1 DEF DeclaredSoFar, q
  <2>4. DeclaredSoFar(i) = {}
    BY <1>1, <1>3 DEF DeclaredSoFar
  <2> QED BY <1>3, <2>3, <2>4
<1>4. CASE builder_pos.at = "var"
  <2>1. q.at \in {"var", "node", "post_def"} /\ q.fn = i
    BY <1>4, AfterDef
  <2>2. (q.at = "var" => q.k = k + 1) /\ (q.at # "var" => Len(tunit.defs[i].vars) < k + 1)
    BY <1>4, AfterVariable
  <2>3. k \in DOMAIN tunit.defs[i].vars
    BY <1>4 DEF Within
  <2>0. builder_pos' = q
    OBVIOUS
  <2> HIDE DEF q
  <2>4. \A j \in DOMAIN tunit.defs : j # i => DeclaredSoFar(j)' = DeclaredSoFar(j)
    BY <1>1, <1>4, <2>1, <2>0 DEF DeclaredSoFar
  <2>5. ASSUME NEW j, j = i
        PROVE  DeclaredSoFar(j)' = DeclaredSoFar(j) \cup {k}
    <3>1. ASSUME NEW m PROVE m \in DeclaredSoFar(j)' <=> m \in DeclaredSoFar(j) \cup {k}
      <4>1. m \in DeclaredSoFar(j) <=> m \in DOMAIN tunit.defs[i].vars /\ m < k
        BY <1>1, <1>4, <2>5 DEF DeclaredSoFar
      <4>2. m \in DeclaredSoFar(j)' <=> m \in DOMAIN tunit.defs[i].vars /\ m < k + 1
        <5>1. CASE q.at = "var"
          <6>1. q.k = k + 1
            BY <2>2, <5>1
          <6>2. m \in DeclaredSoFar(j)' <=> m \in DOMAIN tunit.defs[i].vars /\ m < q.k
            <7>1. builder_pos'.at = "var" /\ builder_pos'.fn = j /\ builder_pos'.k = q.k
              BY <2>0, <2>1, <2>5, <5>1
            <7>2. ~(j < builder_pos'.fn)
              BY <1>1, <2>1, <2>0, <2>5
            <7> HIDE DEF i
            <7> QED BY <2>5, <7>1, <7>2 DEF DeclaredSoFar
          <6> QED BY <6>1, <6>2
        <5>2. CASE q.at \in {"node", "post_def"}
          <6>1. m \in DeclaredSoFar(j)' <=> m \in DOMAIN tunit.defs[i].vars
            BY <2>1, <2>5, <2>0, <5>2 DEF DeclaredSoFar
          <6>2. Len(tunit.defs[i].vars) < k + 1
            BY <2>2, <5>2
          <6>3. m \in DOMAIN tunit.defs[i].vars => m < k + 1
            BY <1>1, <1>2, <6>2
          <6> QED BY <6>1, <6>3
        <5> QED BY <2>1, <5>1, <5>2
      <4> QED BY <4>1, <4>2, <1>1, <1>2, <2>3
    <3> QED BY <3>1
  <2>6. \A m \in DeclaredSoFar(i) : m < k
    BY <1>1, <1>4 DEF DeclaredSoFar
  <2> QED BY <1>4, <2>4, <2>5, <2>6
<1>5. CASE builder_pos.at \in {"node", "post_def"}
  <2>1. \/ q.at \in {"node", "post_def"} /\ q.fn = i
        \/ q.at = "def" /\ q.fn = i + 1
        \/ q.at = "end" /\ i = Len(tunit.defs)
    BY <1>5, AfterDef, AfterPostDef
  <2> HIDE DEF q
  <2>2. \A j \in DOMAIN tunit.defs : DeclaredSoFar(j)' = DeclaredSoFar(j)
    BY <1>1, <1>5, <2>1 DEF DeclaredSoFar, q
  <2> QED BY <1>5, <2>2
<1> QED BY <1>3, <1>4, <1>5

(* The number behind all others of a set is its greatest. *)
LEMMA MaxOfNewest ==
  ASSUME NEW T, NEW k \in Nat, k \in T, \A m \in T : m \in Nat /\ m <= k
  PROVE  Max(T) = k
<1>1. \A y \in T : k >= y
  OBVIOUS
<1>2. \A x \in T : (\A y \in T : x >= y) => x = k
  OBVIOUS
<1> QED BY <1>1, <1>2 DEF Max

(* The symbol a name stands for, one callback later. *)
LEMMA LatestLocalStep ==
  ASSUME tunit \in TranslationUnit, builder_pos \in Position, Within(tunit, builder_pos),
         builder_pos' = After(tunit, builder_pos), tunit' = tunit,
         builder_pos.at \in {"def", "var", "node", "post_def"}
  PROVE  /\ \A j \in DOMAIN tunit.defs : \A x \in VarNames :
              LatestLocal(j, x)' =
                IF builder_pos.at = "var" /\ j = builder_pos.fn
                   /\ x = tunit.defs[j].vars[builder_pos.k]
                THEN NewVariable(x, "var", j, builder_pos.k) ELSE LatestLocal(j, x)
         /\ builder_pos.at = "def" =>
              \A x \in VarNames : LatestLocal(builder_pos.fn, x) = NoVariable
<1> DEFINE i == builder_pos.fn
           k == builder_pos.k
<1>1. /\ \A j \in DOMAIN tunit.defs :
           DeclaredSoFar(j)' = IF builder_pos.at = "var" /\ j = i
                               THEN DeclaredSoFar(j) \cup {k} ELSE DeclaredSoFar(j)
      /\ builder_pos.at = "var" => \A m \in DeclaredSoFar(i) : m < k
      /\ builder_pos.at = "def" => DeclaredSoFar(i) = {}
  BY DeclaredStep
<1>2. ASSUME NEW j \in DOMAIN tunit.defs, NEW x \in VarNames
      PROVE  LatestLocal(j, x)' =
               IF builder_pos.at = "var" /\ j = i /\ x = tunit.defs[j].vars[k]
               THEN NewVariable(x, "var", j, k) ELSE LatestLocal(j, x)
  <2>1. CASE ~(builder_pos.at = "var" /\ j = i)
    BY <1>1, <2>1 DEF LatestLocal
  <2>2. CASE builder_pos.at = "var" /\ j = i
    <3> DEFINE places == {m \in DeclaredSoFar(i) : tunit.defs[i].vars[m] = x}
               later  == {m \in DeclaredSoFar(i) \cup {k} : tunit.defs[i].vars[m] = x}
    <3>1. LatestLocal(j, x)' = IF later = {} THEN NoVariable
                               ELSE NewVariable(x, "var", i, Max(later))
      BY <1>1, <2>2 DEF LatestLocal
    <3>2. LatestLocal(j, x) = IF places = {} THEN NoVariable
                              ELSE NewVariable(x, "var", i, Max(places))
      BY <2>2 DEF LatestLocal
    <3>3. CASE x = tunit.defs[i].vars[k]
      <4>1. k \in later /\ k \in Nat
        BY <3>3 DEF Position
      <4>2. \A m \in later : m \in Nat /\ m <= k
        <5>1. \A m \in DeclaredSoFar(i) : m < k
          BY <1>1, <2>2
        <5>2. \A m \in DeclaredSoFar(i) : m \in Nat
          <6>1. i \in DOMAIN tunit.defs
            BY DEF Within
          <6>2. tunit.defs[i].vars \in Seq(VarNames)
            BY <6>1, UnitType
          <6> QED BY <6>2 DEF DeclaredSoFar
        <5> QED BY <5>1, <5>2, <4>1
      <4> HIDE DEF later
      <4>3. Max(later) = k
        BY <4>1, <4>2, MaxOfNewest
      <4> QED BY <2>2, <3>1, <3>3, <4>1, <4>3
    <3>4. CASE x # tunit.defs[i].vars[k]
      <4>1. later = places
        BY <3>4
      <4> HIDE DEF later, places
      <4> QED BY <2>2, <3>1, <3>2, <3>4, <4>1
    <3> QED BY <3>3, <3>4
  <2> QED BY <2>1, <2>2
<1>3. ASSUME builder_pos.at = "def", NEW x \in VarNames
      PROVE  LatestLocal(i, x) = NoVariable
  BY <1>1, <1>3 DEF LatestLocal
<1> QED BY <1>2, <1>3

(* The locals of every function, one callback later. *)
LEMMA LocalsAtHomeStep ==
  ASSUME TypeInv, TypeInv', BuilderFacts, BuilderFacts', VariableScope, LocalsAtHome,
         BuilderNext
  PROVE  LocalsAtHome'
<1> DEFINE i == builder_pos.fn
           k == builder_pos.k
           Mere == \A f \in DOMAIN func_table' : func_table'[f].is_declaration =>
                     \A x \in VarNames : func_table'[f].var_table[x] = NoVariable
           Home == \A j \in DOMAIN def_scope : def_scope'[j] # None =>
                     \A x \in VarNames :
                       func_table'[def_scope'[j]].var_table[x] = LatestLocal(j, x)'
<1> HIDE DEF NoVariable
<1>1. /\ func_table \in Seq(FuncSymbol) /\ tunit' = tunit
      /\ tunit \in TranslationUnit
      /\ builder_pos' = After(tunit, builder_pos)
      /\ Within(tunit, builder_pos) /\ builder_pos \in Position
      /\ DOMAIN def_scope = DOMAIN tunit.defs
      /\ DOMAIN def_scope' = DOMAIN def_scope
      /\ def_scope \in [DOMAIN tunit.defs -> {None} \cup DOMAIN func_table]
  BY TypesHold, BuilderMoves, ScopesPersist
<1>2. /\ \A f \in DOMAIN func_table : DOMAIN func_table[f].var_table = VarNames
      /\ \A f \in DOMAIN func_table' : DOMAIN func_table'[f].var_table = VarNames
  <2>1. func_table' \in Seq(FuncSymbol)
    BY DEF TypeInv, AnalyzerTypeOK, HeapTypeOK
  <2>2. \A s \in FuncSymbol : DOMAIN s.var_table = VarNames
    BY DEF FuncSymbol
  <2>3. /\ \A f \in DOMAIN func_table : func_table[f] \in FuncSymbol
        /\ \A f \in DOMAIN func_table' : func_table'[f] \in FuncSymbol
    BY <2>1, <1>1
  <2> QED BY <2>2, <2>3
<1>3. \A f \in DOMAIN func_table : func_table[f].is_declaration =>
        \A x \in VarNames : func_table[f].var_table[x] = NoVariable
  BY <1>2 DEF LocalsAtHome, Range
<1>4. \A j \in DOMAIN def_scope : def_scope[j] # None =>
        /\ def_scope[j] \in DOMAIN func_table
        /\ \A x \in VarNames : func_table[def_scope[j]].var_table[x] = LatestLocal(j, x)
  BY <1>1 DEF LocalsAtHome
<1>5. ASSUME Mere, Home
      PROVE  LocalsAtHome'
  BY <1>1, <1>2, <1>5 DEF LocalsAtHome, Range
<1>6. CASE builder_pos.at \in {"unit", "decl"}
  <2>1. Home
    <3>1. \A j \in DOMAIN tunit.defs : ~DefPassed(builder_pos', j)
      BY <1>1, <1>6, PassDecl
    <3> QED BY <1>1, <3>1 DEF BuilderFacts, ScopesBound
  <2>2. Mere
    <3>1. CASE UNCHANGED func_table
      BY <3>1, <1>3
    <3>2. CASE func_table' = Append(func_table, CreateFunction(tunit.decls[i], "decl", i, TRUE))
      <4> DEFINE e == CreateFunction(tunit.decls[i], "decl", i, TRUE)
      <4>1. \A x \in VarNames : e.var_table[x] = NoVariable
        BY DEF CreateFunction
      <4> HIDE DEF e
      <4>2. func_table' = Append(func_table, e)
        BY <3>2 DEF e
      <4> QED BY <1>1, <1>3, <4>1, <4>2, AppendEntry
    <3> QED BY <1>6, <3>1, <3>2, BuilderEffect
  <2> QED BY <1>5, <2>1, <2>2
<1>7. ASSUME builder_pos.at \in {"def", "var", "node", "post_def"}
      PROVE  /\ \A j \in DOMAIN def_scope : \A x \in VarNames :
                  LatestLocal(j, x)' =
                    IF builder_pos.at = "var" /\ j = i /\ x = tunit.defs[i].vars[k]
                    THEN NewVariable(x, "var", i, k) ELSE LatestLocal(j, x)
             /\ builder_pos.at = "def" =>
                  \A x \in VarNames : LatestLocal(i, x) = NoVariable
  BY <1>1, <1>7, LatestLocalStep
<1>8. CASE DefineFunction
  <2> DEFINE e == CreateFunction(tunit.defs[i], "def", i, FALSE)
             l == Len(func_table')
  <2>1. builder_pos.at = "def" /\ func_table' = Append(func_table, e)
        /\ def_scope' = [def_scope EXCEPT ![i] = l]
    BY <1>8 DEF DefineFunction, InBuilder
  <2>2. ~e.is_declaration /\ \A x \in VarNames : e.var_table[x] = NoVariable
    BY DEF CreateFunction
  <2> HIDE DEF e
  <2>3. /\ DOMAIN func_table' = DOMAIN func_table \cup {l} /\ func_table'[l] = e
        /\ \A f \in DOMAIN func_table : func_table'[f] = func_table[f]
    BY <1>1, <2>1, AppendEntry
  <2> HIDE DEF l
  <2>4. Mere
    BY <1>3, <2>2, <2>3
  <2>5. Home
    BY <1>1, <1>4, <1>7, <2>1, <2>2, <2>3
  <2> QED BY <1>5, <2>4, <2>5
<1>9. CASE MergeDeclaration
  <2> DEFINE f == ResolveFunc(DefinitionName)
  <2>1. builder_pos.at = "def" /\ def_scope' = [def_scope EXCEPT ![i] = f]
    BY <1>9 DEF MergeDeclaration, InBuilder
  <2>2. /\ f \in DOMAIN func_table /\ func_table[f].is_declaration
        /\ DOMAIN func_table' = DOMAIN func_table
        /\ \A g \in DOMAIN func_table :
             /\ func_table'[g].var_table = func_table[g].var_table
             /\ func_table'[g].is_declaration => func_table[g].is_declaration
    BY <1>9, DeclarationMerged
  <2> HIDE DEF f
  <2>3. Mere
    BY <1>3, <2>2
  <2>4. Home
    BY <1>1, <1>3, <1>4, <1>7, <2>1, <2>2
  <2> QED BY <1>5, <2>3, <2>4
<1>10. CASE VisitVariableDeclaration /\ builder_scope # Global
  <2> DEFINE x == tunit.defs[i].vars[k]
             v == NewVariable(x, "var", i, k)
  <2>1. builder_pos.at = "var" /\ UNCHANGED def_scope
    BY <1>10 DEF VisitVariableDeclaration, InBuilder
  <2>2. /\ DOMAIN func_table' = DOMAIN func_table
        /\ \A g \in DOMAIN func_table :
             /\ func_table'[g].is_declaration = func_table[g].is_declaration
             /\ \A y \in VarNames :
                  func_table'[g].var_table[y] = IF g = builder_scope /\ y = x THEN v
                                                ELSE func_table[g].var_table[y]
    BY <1>10, VariableEntered
  <2>3. builder_scope = def_scope[i] /\ i \in DOMAIN def_scope /\ def_scope[i] # None
    BY <1>1, <1>10, <2>1 DEF VariableScope, Within, Global, None
  <2>4. \A j \in DOMAIN def_scope : def_scope[j] = builder_scope => j = i
    BY <2>3 DEF BuilderFacts, BoundOnce
  <2>5. ~func_table[builder_scope].is_declaration
    BY <2>3, <1>4 DEF BuilderFacts, BoundOnce
  <2>6. \A j \in DOMAIN def_scope : \A y \in VarNames :
          LatestLocal(j, y)' = IF j = i /\ y = x THEN v ELSE LatestLocal(j, y)
    BY <1>7, <2>1
  <2> HIDE DEF x, v
  <2>7. Mere
    BY <1>3, <2>2, <2>5
  <2>8. Home
    BY <1>1, <1>4, <2>1, <2>2, <2>3, <2>4, <2>6
  <2> QED BY <1>5, <2>7, <2>8
<1>11. CASE /\ builder_pos.at \in {"def", "var", "node", "post_def"}
            /\ UNCHANGED <<func_table, def_scope>>
            /\ builder_pos.at = "var" => builder_scope = Global
  <2>1. Mere
    BY <1>3, <1>11
  <2>2. builder_pos.at = "var" => def_scope[i] = None
    BY <1>11 DEF VariableScope, Global, None
  <2>3. Home
    BY <1>1, <1>4, <1>7, <1>11, <2>2
  <2> QED BY <1>5, <2>1, <2>3
<1>12. \/ builder_pos.at \in {"unit", "decl"}
       \/ DefineFunction
       \/ MergeDeclaration
       \/ VisitVariableDeclaration /\ builder_scope # Global
       \/ /\ builder_pos.at \in {"def", "var", "node", "post_def"}
          /\ UNCHANGED <<func_table, def_scope>>
          /\ builder_pos.at = "var" => builder_scope = Global
  BY BuilderEffect
<1> QED BY <1>6, <1>8, <1>9, <1>10, <1>11, <1>12

----------------------------------------------------------------------------
(* The invariant of the table in the whole analysis. *)

TableFacts == TableInv /\ LocalsAtHome

(* Before the analysis the table is empty. *)
LEMMA TableFactsInit == AnalyzerInit => TableFacts
<1> SUFFICES ASSUME AnalyzerInit PROVE TableFacts
  OBVIOUS
<1> USE DEF AnalyzerInit, HeapInit, BuilderInit, Start, At
<1>1. DOMAIN func_table = {}
  OBVIOUS
<1>2. VariableScope /\ FirstOfName /\ RejectionsMeant
  BY DEF VariableScope, FirstOfName, RejectionsMeant
<1>3. SymbolsFromSource /\ DeclarationsFirst
  BY <1>1 DEF SymbolsFromSource, DeclarationsFirst
<1>4. LocalsAtHome
  BY <1>1 DEF LocalsAtHome
<1> QED BY <1>2, <1>3, <1>4 DEF TableFacts, TableInv

(* It depends on what the first pass writes alone. *)
LEMMA TableFactsStable ==
  ASSUME TableFacts, UNCHANGED <<tunit, func_table, decl_scope, def_scope, builder_vars>>
  PROVE  TableFacts'
<1>1. UNCHANGED <<builder_pos, builder_scope, builder_errors>>
  BY DEF builder_vars
<1>2. VariableScope' /\ RejectionsMeant' /\ DeclarationsFirst'
  BY <1>1 DEF TableFacts, TableInv, VariableScope, RejectionsMeant, DeclarationsFirst
<1>3. FirstOfName'
  <2>1. \A name : ResolveFunc(name)' = ResolveFunc(name)
    BY ResolveFuncIsFirst
  <2> QED BY <2>1 DEF TableFacts, TableInv, FirstOfName
<1>4. SymbolsFromSource'
  <2>1. \A f : FromSource(f)' = FromSource(f)
    BY DEF FromSource
  <2> QED BY <2>1 DEF TableFacts, TableInv, SymbolsFromSource
<1>5. LocalsAtHome'
  <2>1. \A j, x : LatestLocal(j, x)' = LatestLocal(j, x)
    BY <1>1 DEF LatestLocal, DeclaredSoFar
  <2>2. \A f : Range(func_table[f].var_table)' = Range(func_table[f].var_table)
    BY DEF Range
  <2> QED BY <2>1, <2>2 DEF TableFacts, LocalsAtHome
<1> QED BY <1>2, <1>3, <1>4, <1>5 DEF TableFacts, TableInv

(* Every step of the analysis keeps it. *)
LEMMA TableFactsStep ==
  AnalyzerInv /\ TableFacts /\ [AnalyzerNext]_analyzer_vars => TableFacts'
<1> SUFFICES ASSUME AnalyzerInv, TableFacts, [AnalyzerNext]_analyzer_vars PROVE TableFacts'
  OBVIOUS
<1>1. TypeInv /\ BuilderFacts /\ TypeInv' /\ BuilderFacts'
  BY AnalyzerInvStep DEF AnalyzerInv, BuilderFacts
<1>2. CASE Build
  <2>1. BuilderNext
    BY <1>2 DEF Build
  <2>2. VariableScope' /\ FirstOfName' /\ SymbolsFromSource' /\ DeclarationsFirst'
        /\ RejectionsMeant' /\ LocalsAtHome'
    BY <1>1, <2>1, VariableScopeStep, FirstOfNameStep, SymbolsFromSourceStep,
       DeclarationsFirstStep, RejectionsMeantStep, LocalsAtHomeStep DEF TableFacts, TableInv
  <2> QED BY <2>2 DEF TableFacts, TableInv
<1>3. CASE Resolve
  <2>1. UNCHANGED <<tunit, func_table, decl_scope, def_scope, builder_vars>>
    BY <1>1, <1>3, ResolverTypeStep DEF TypeInv, AnalyzerTypeOK, Resolve
  <2> QED BY <2>1, TableFactsStable
<1>4. CASE FinishBuilding \/ FinishResolving \/ AnalysisOver \/ UNCHANGED analyzer_vars
  <2>1. UNCHANGED <<tunit, func_table, decl_scope, def_scope, builder_vars>>
    BY <1>4 DEF FinishBuilding, FinishResolving, AnalysisOver, analyzer_vars, heap
  <2> QED BY <2>1, TableFactsStable
<1> QED BY <1>2, <1>3, <1>4 DEF AnalyzerNext

(* Both invariants hold together throughout the analysis. *)
LEMMA TableFactsHold == AnalyzerSpec => [](AnalyzerInv /\ TableFacts)
<1>1. AnalyzerInit => AnalyzerInv /\ TableFacts
  BY AnalyzerInvInit, TableFactsInit
<1>2. (AnalyzerInv /\ TableFacts) /\ [AnalyzerNext]_analyzer_vars => (AnalyzerInv /\ TableFacts)'
  BY AnalyzerInvStep, TableFactsStep
<1> QED BY <1>1, <1>2, PTL DEF AnalyzerSpec

(* Every symbol has the signature of the node it was made for; that of a    *)
(* declaration is as far down the table as the declaration is in its list;  *)
(* a definition has the first symbol of its name, which is complete from    *)
(* then on and no other definition's, and others of the name stay           *)
(* declarations; only a second definition is rejected.                      *)
THEOREM TableIsTrue == AnalyzerSpec => [](TableInv /\ BoundOnce)
<1>1. AnalyzerInv /\ TableFacts => TableInv /\ BoundOnce
  BY DEF AnalyzerInv, TableFacts
<1> QED BY TableFactsHold, <1>1, PTL

(* No local variable is lost and none strays into another function's table, *)
(* however many "return" statements leave the scope early and however many  *)
(* definitions are rejected between two good ones.                          *)
THEOREM LocalsStayAtHome == AnalyzerSpec => []LocalsAtHome
<1>1. AnalyzerInv /\ TableFacts => LocalsAtHome
  BY DEF TableFacts
<1> QED BY TableFactsHold, <1>1, PTL

============================================================================
