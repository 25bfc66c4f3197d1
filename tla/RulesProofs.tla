---------------------------- MODULE RulesProofs ----------------------------
(***************************************************************************)
(* Proofs that the analysis judges by the naming rules alone: what it      *)
(* binds, what it rejects and what it accepts, for every translation unit. *)
(***************************************************************************)
EXTENDS TableProofs

----------------------------------------------------------------------------
(* Which nodes the second pass has visited. *)

(* The next node of a body, or its end. *)
LEMMA AfterNode ==
  ASSUME NEW t \in TranslationUnit, NEW p \in Position,
         p.at \in {"def", "var", "node"}, Within(t, p)
  PROVE  LET j == IF p.at = "node" THEN p.k + 1 ELSE 1
         IN  /\ After(t, p).at = "node" => After(t, p).k = j
             /\ After(t, p).at = "post_def" => Len(t.defs[p.fn].body) < j
<1> DEFINE i == p.fn
           d == t.defs[i]
<1>1. i \in DOMAIN t.defs /\ p.k \in Nat
  BY DEF Within, Position
<1>2. d.vars \in Seq(VarNames) /\ d.body \in Seq(Node)
  BY <1>1, UnitType
<1>3. ASSUME NEW j \in Nat
      PROVE  /\ EnterNode(t, i, j).at = "node" => EnterNode(t, i, j).k = j
             /\ EnterNode(t, i, j).at = "post_def" => Len(d.body) < j
             /\ EnterNode(t, i, j).at # "var"
  BY <1>2 DEF EnterNode, At
<1>4. CASE p.at = "node"
  <2>1. After(t, p) = EnterNode(t, i, p.k + 1)
    BY <1>4 DEF After
  <2> QED BY <2>1, <1>1, <1>3, <1>4
<1>5. CASE p.at \in {"def", "var"}
  <2>1. PICK j : After(t, p) = EnterVar(t, i, j)
    BY <1>5 DEF After
  <2>2. After(t, p).at = "var" \/ After(t, p) = EnterNode(t, i, 1)
    BY <2>1 DEF EnterVar, At
  <2> QED BY <2>2, <1>3, <1>5
<1> QED BY <1>4, <1>5

(* Every callback passes the node it is made for and no other. *)
LEMMA PassNode ==
  ASSUME NEW t \in TranslationUnit, NEW p \in Position, Within(t, p),
         NEW i \in DOMAIN t.defs, NEW k \in DOMAIN t.defs[i].body
  PROVE  NodePassed(After(t, p), <<i, k>>) <=>
           NodePassed(p, <<i, k>>) \/ (p.at = "node" /\ i = p.fn /\ k = p.k)
<1> DEFINE q == After(t, p)
<1>1. /\ DOMAIN t.defs = 1..Len(t.defs) /\ Len(t.defs) \in Nat
      /\ DOMAIN t.defs[i].body = 1..Len(t.defs[i].body) /\ Len(t.defs[i].body) \in Nat
  BY UnitType
<1>2. p.fn \in Nat /\ p.k \in Nat /\ i \in Nat /\ k \in Nat
  BY <1>1 DEF Position
<1>3. CASE p.at \in {"unit", "decl"}
  <2>1. /\ q.at \in {"decl", "def", "end"}
        /\ q.at = "def" => q.fn = 1
        /\ q.at = "end" => Len(t.defs) = 0
    BY <1>3, AfterDecl
  <2> HIDE DEF q
  <2> QED BY <1>1, <1>3, <2>1 DEF NodePassed, q
<1>4. CASE p.at \in {"def", "var"}
  <2>1. q.at \in {"var", "node", "post_def"} /\ q.fn = p.fn
    BY <1>4, AfterDef
  <2>2. (q.at = "node" => q.k = 1) /\ (q.at = "post_def" => Len(t.defs[p.fn].body) < 1)
    BY <1>4, AfterNode
  <2> HIDE DEF q
  <2> QED BY <1>1, <1>2, <1>4, <2>1, <2>2 DEF NodePassed, q
<1>5. CASE p.at = "node"
  <2>1. q.at \in {"node", "post_def"} /\ q.fn = p.fn
    BY <1>5, AfterDef
  <2>2. /\ q.at = "node" => q.k = p.k + 1
        /\ q.at = "post_def" => Len(t.defs[p.fn].body) < p.k + 1
    BY <1>5, AfterNode
  <2>3. p.k \in DOMAIN t.defs[p.fn].body /\ p.fn \in DOMAIN t.defs
    BY <1>5 DEF Within
  <2> HIDE DEF q
  <2> QED BY <1>1, <1>2, <1>5, <2>1, <2>2, <2>3 DEF NodePassed, q
<1>6. CASE p.at = "post_def"
  <2>1. /\ q.at \in {"def", "end"}
        /\ q.at = "def" => q.fn = p.fn + 1
        /\ q.at = "end" => p.fn = Len(t.defs)
    BY <1>6, AfterPostDef
  <2> HIDE DEF q
  <2> QED BY <1>1, <1>2, <1>6, <2>1 DEF NodePassed, q
<1>7. CASE p.at = "end"
  BY <1>7 DEF After, NodePassed
<1> QED BY <1>3, <1>4, <1>5, <1>6, <1>7 DEF Position

(* A reference is a node of a body. *)
LEMMA ReferenceIsNode ==
  ASSUME NEW kind, NEW r \in References(kind)
  PROVE  /\ r = <<r[1], r[2]>>
         /\ r[1] \in DOMAIN tunit.defs
         /\ r[2] \in DOMAIN tunit.defs[r[1]].body
         /\ NodeAt(r).kind = kind
<1>1. PICK i \in DOMAIN tunit.defs : \E k \in DOMAIN tunit.defs[i].body :
        r = <<i, k>> /\ tunit.defs[i].body[k].kind = kind
  BY DEF References
<1>2. PICK k \in DOMAIN tunit.defs[i].body :
        r = <<i, k>> /\ tunit.defs[i].body[k].kind = kind
  BY <1>1
<1> QED BY <1>2 DEF NodeAt

(* The kind of a node tells what it is. *)
LEMMA KindOfNode ==
  ASSUME NEW n \in Node
  PROVE  /\ n \in Ident <=> n.kind = "identifier"
         /\ n \in Call <=> n.kind = "call_expression"
BY DEF Node, Number, Ident, Call, Binary, Jump

----------------------------------------------------------------------------
(* Every reference visited is bound, or an error is recorded. *)

(* An error is never taken back. *)
LEMMA ErrorsGrow ==
  ASSUME TypeInv, ResolverNext, resolver_errors' = <<>>
  PROVE  resolver_errors = <<>>
<1>1. resolver_errors \in Seq(Reference) /\ HeapTypeOK /\ ResolverTypeOK
      /\ Within(tunit, resolver_pos)
  BY DEF TypeInv, AnalyzerTypeOK, ResolverTypeOK
<1>2. \/ UNCHANGED resolver_errors
      \/ resolver_pos.at = "node" /\ resolver_errors' = Append(resolver_errors, Here)
  BY DEF ResolverNext, EnterDefinition, VisitCallExpression, VisitIdentifier, VisitOther,
         InResolver
<1>3. resolver_pos.at = "node" => Len(Append(resolver_errors, Here)) = Len(resolver_errors) + 1
  BY <1>1, VisitedType
<1> QED BY <1>1, <1>2, <1>3

(* The part of the second pass, one callback later. *)
LEMMA ResolutionStep ==
  ASSUME TypeInv, TypeInv', ResolverInside, ResolutionInv, ResolverNext, UNCHANGED phase,
         phase = "resolving"
  PROVE  ResolutionInv'
<1> DEFINE i == resolver_pos.fn
           k == resolver_pos.k
           q == After(tunit, resolver_pos)
<1>1. /\ tunit \in TranslationUnit
      /\ resolver_pos \in Position /\ Within(tunit, resolver_pos)
      /\ resolver_errors \in Seq(Reference)
      /\ HeapTypeOK /\ ResolverTypeOK
  BY TypesHold DEF TypeInv, AnalyzerTypeOK, ResolverTypeOK
<1>2. resolver_pos' = q /\ UNCHANGED <<tunit, func_table, decl_scope, def_scope>>
  BY DEF ResolverNext, EnterDefinition, VisitCallExpression, VisitIdentifier, VisitOther,
         InResolver, heap
<1>3. ASSUME NEW kind, NEW r \in References(kind)
      PROVE  NodePassed(q, r) <=>
               NodePassed(resolver_pos, r) \/ (resolver_pos.at = "node" /\ r = Here)
  <2>1. /\ r = <<r[1], r[2]>> /\ r[1] \in DOMAIN tunit.defs
        /\ r[2] \in DOMAIN tunit.defs[r[1]].body
    BY ReferenceIsNode
  <2> QED BY <1>1, <2>1, PassNode DEF Here
<1>4. ASSUME resolver_pos.at = "node", Here \in References("identifier"),
             resolver_errors' = resolver_errors
      PROVE  Here \in DOMAIN id_symbol'
  <2>1. Visited.kind = "identifier"
    BY <1>4, HereIsReference, ReferenceIsNode
  <2>2. Visited \in Ident /\ Visited \notin Call
    BY <1>1, <1>4, <2>1, VisitedType, KindOfNode
  <2>3. VisitIdentifier
    BY <1>4, <2>2 DEF ResolverNext, EnterDefinition, VisitCallExpression, VisitOther,
                      InResolver
  <2>4. resolver_errors' # Append(resolver_errors, Here)
    <3>1. Here \in Reference
      BY <1>1, <1>4, VisitedType
    <3>2. Len(Append(resolver_errors, Here)) = Len(resolver_errors) + 1
      BY <1>1, <3>1
    <3> QED BY <1>1, <1>4, <3>2
  <2>5. PICK s : id_symbol' = Put(id_symbol, Here, s)
    BY <2>3, <2>4 DEF VisitIdentifier
  <2> QED BY <2>5 DEF Put
<1>5. ASSUME resolver_pos.at = "node", Here \in References("call_expression"),
             resolver_errors' = resolver_errors
      PROVE  Here \in DOMAIN call_symbol'
  <2>1. Visited.kind = "call_expression"
    BY <1>5, HereIsReference, ReferenceIsNode
  <2>2. Visited \in Call /\ Visited \notin Ident
    BY <1>1, <1>5, <2>1, VisitedType, KindOfNode
  <2>3. VisitCallExpression
    BY <1>5, <2>2 DEF ResolverNext, EnterDefinition, VisitIdentifier, VisitOther,
                      InResolver
  <2>4. resolver_errors' # Append(resolver_errors, Here)
    <3>1. Here \in Reference
      BY <1>1, <1>5, VisitedType
    <3>2. Len(Append(resolver_errors, Here)) = Len(resolver_errors) + 1
      BY <1>1, <3>1
    <3> QED BY <1>1, <1>5, <3>2
  <2>5. PICK s : call_symbol' = Put(call_symbol, Here, s)
    BY <2>3, <2>4 DEF VisitCallExpression
  <2> QED BY <2>5 DEF Put
<1>6. DOMAIN id_symbol \subseteq DOMAIN id_symbol'
      /\ DOMAIN call_symbol \subseteq DOMAIN call_symbol'
  BY DEF ResolverNext, EnterDefinition, VisitCallExpression, VisitIdentifier, VisitOther,
         heap, Put
<1>7. \A kind : References(kind)' = References(kind)
  BY <1>2, ResolutionStable
<1> HIDE DEF q
<1>8. resolver_errors' = <<>> =>
        /\ \A r \in References("identifier") : NodePassed(q, r) => r \in DOMAIN id_symbol'
        /\ \A r \in References("call_expression") : NodePassed(q, r) => r \in DOMAIN call_symbol'
  <2> SUFFICES ASSUME resolver_errors' = <<>>
               PROVE  /\ \A r \in References("identifier") :
                           NodePassed(q, r) => r \in DOMAIN id_symbol'
                      /\ \A r \in References("call_expression") :
                           NodePassed(q, r) => r \in DOMAIN call_symbol'
    OBVIOUS
  <2>1. resolver_errors = <<>> /\ resolver_errors' = resolver_errors
    BY ErrorsGrow
  <2>2. ASSUME NEW r \in References("identifier"), NodePassed(q, r)
        PROVE  r \in DOMAIN id_symbol'
    BY <1>3, <1>4, <1>6, <2>1, <2>2 DEF ResolutionInv
  <2>3. ASSUME NEW r \in References("call_expression"), NodePassed(q, r)
        PROVE  r \in DOMAIN call_symbol'
    BY <1>3, <1>5, <1>6, <2>1, <2>3 DEF ResolutionInv
  <2> QED BY <2>2, <2>3
<1> DEFINE Meant(r) ==
      \/ /\ r \in References("identifier")
         /\ ResolveVariable(def_scope[r[1]], NodeAt(r).name) = NoVariable
      \/ /\ r \in References("call_expression")
         /\ ResolveCall(NodeAt(r).name, NodeAt(r).args) = None
<1>9. \A e \in DOMAIN resolver_errors' : Meant(resolver_errors'[e])
  <2>1. \A e \in DOMAIN resolver_errors : Meant(resolver_errors[e])
    BY DEF ResolutionInv
  <2>2. \/ UNCHANGED resolver_errors
        \/ resolver_errors' = Append(resolver_errors, Here) /\ Meant(Here)
    <3>1. CASE EnterDefinition \/ VisitOther
      BY <3>1 DEF EnterDefinition, VisitOther
    <3>2. CASE VisitIdentifier
      <4>1. resolver_pos.at = "node" /\ Visited \in Ident
        BY <3>2 DEF VisitIdentifier, InResolver
      <4>2. /\ NodeAt(Here) = Visited /\ Here \in References("identifier")
            /\ resolver_scope = def_scope[Here[1]]
        BY <4>1, HereIsReference DEF ResolverInside, Ident
      <4>3. ResolveVariable(resolver_scope, Visited.name) # NoVariable => UNCHANGED resolver_errors
        BY <3>2 DEF VisitIdentifier
      <4>4. ResolveVariable(resolver_scope, Visited.name) = NoVariable =>
              resolver_errors' = Append(resolver_errors, Here)
        BY <3>2 DEF VisitIdentifier
      <4> QED BY <4>2, <4>3, <4>4
    <3>3. CASE VisitCallExpression
      <4>1. resolver_pos.at = "node" /\ Visited \in Call
        BY <3>3 DEF VisitCallExpression, InResolver
      <4>2. NodeAt(Here) = Visited /\ Here \in References("call_expression")
        BY <4>1, HereIsReference DEF Call
      <4>3. ResolveCall(Visited.name, Visited.args) # None => UNCHANGED resolver_errors
        BY <3>3 DEF VisitCallExpression
      <4>4. ResolveCall(Visited.name, Visited.args) = None =>
              resolver_errors' = Append(resolver_errors, Here)
        BY <3>3 DEF VisitCallExpression
      <4> QED BY <4>2, <4>3, <4>4
    <3> QED BY <3>1, <3>2, <3>3 DEF ResolverNext
  <2> HIDE DEF Meant
  <2>3. ASSUME NEW r, resolver_errors' = Append(resolver_errors, r), Meant(r)
        PROVE  \A e \in DOMAIN resolver_errors' : Meant(resolver_errors'[e])
    BY <1>1, <2>1, <2>3
  <2> QED BY <2>1, <2>2, <2>3
<1>10. \A r : Meant(r) => Meant(r)'
  BY <1>2, <1>7, ResolutionStable
<1>11. /\ resolver_errors' = <<>> =>
            /\ \A r \in References("identifier")' :
                 NodePassed(resolver_pos', r) => r \in DOMAIN id_symbol'
            /\ \A r \in References("call_expression")' :
                 NodePassed(resolver_pos', r) => r \in DOMAIN call_symbol'
       /\ phase' # "analyzed"
  BY <1>2, <1>7, <1>8
<1> QED BY <1>9, <1>10, <1>11 DEF ResolutionInv

(* Before the analysis no reference was visited. *)
LEMMA ResolutionInit == AnalyzerInit => ResolutionInv
<1> SUFFICES ASSUME AnalyzerInit PROVE ResolutionInv
  OBVIOUS
<1>1. resolver_pos.at = "unit" /\ resolver_errors = <<>> /\ phase = "building"
  BY DEF AnalyzerInit, ResolverInit, Start, At
<1> QED BY <1>1 DEF ResolutionInv, NodePassed

(* Every step of the analysis keeps the part of the second pass. *)
LEMMA ResolutionInvStep ==
  AnalyzerInv /\ ResolutionInv /\ [AnalyzerNext]_analyzer_vars => ResolutionInv'
<1> SUFFICES ASSUME AnalyzerInv, ResolutionInv, [AnalyzerNext]_analyzer_vars
             PROVE  ResolutionInv'
  OBVIOUS
<1>1. TypeInv /\ TypeInv' /\ ResolverInside /\ OnePassAtATime /\ OnePassAtATime'
  BY AnalyzerInvStep DEF AnalyzerInv
<1>2. CASE Build
  <2>1. phase' = "building" /\ resolver_pos' = Start /\ UNCHANGED resolver_errors
    BY <1>1, <1>2 DEF Build, OnePassAtATime, resolver_vars
  <2>2. resolver_pos.at = "unit" /\ resolver_errors = <<>>
    BY <1>1, <1>2 DEF Build, OnePassAtATime, Start, At
  <2> QED BY <2>1, <2>2 DEF ResolutionInv, NodePassed, Start, At
<1>3. CASE Resolve
  BY <1>1, <1>3, ResolutionStep DEF Resolve
<1>4. ASSUME UNCHANGED <<heap, resolver_vars>>,
             phase' = "analyzed" => resolver_pos.at = "end" /\ resolver_errors = <<>>
      PROVE  ResolutionInv'
  BY <1>4, ResolutionStable DEF ResolutionInv, heap, resolver_vars
<1>5. CASE FinishBuilding
  BY <1>4, <1>5 DEF FinishBuilding
<1>6. CASE FinishResolving
  BY <1>4, <1>6 DEF FinishResolving
<1>7. CASE AnalysisOver \/ UNCHANGED analyzer_vars
  BY <1>4, <1>7 DEF AnalysisOver, analyzer_vars, ResolutionInv
<1> QED BY <1>2, <1>3, <1>5, <1>6, <1>7 DEF AnalyzerNext

(* The three invariants hold together throughout the analysis. *)
AnalysisFacts == AnalyzerInv /\ TableFacts /\ ResolutionInv

(* What the passes know of the analysis holds at the beginning... *)
LEMMA AnalysisFactsInit == AnalyzerInit => AnalysisFacts
BY AnalyzerInvInit, TableFactsInit, ResolutionInit DEF AnalysisFacts

(* ... is kept by every step ... *)
LEMMA AnalysisFactsStep == AnalysisFacts /\ [AnalyzerNext]_analyzer_vars => AnalysisFacts'
BY AnalyzerInvStep, TableFactsStep, ResolutionInvStep DEF AnalysisFacts

(* ... and so holds in every reachable state. *)
LEMMA AnalysisFactsHold == AnalyzerSpec => []AnalysisFacts
BY AnalysisFactsInit, AnalysisFactsStep, PTL DEF AnalyzerSpec

(* The second pass misses nothing: each reference it has visited is bound   *)
(* or reported, it reports nothing that resolves, and the analysis returns  *)
(* only after the last node.                                                *)
THEOREM NothingIsMissed == AnalyzerSpec => []ResolutionInv
<1>1. AnalysisFacts => ResolutionInv
  BY DEF AnalysisFacts
<1> QED BY AnalysisFactsHold, <1>1, PTL

(* When analyze returns, every identifier and every call of the unit has    *)
(* its symbol: the generator never locks a pointer that was never set.      *)
THEOREM EveryReferenceBound == AnalyzerSpec => []AllBound
<1>1. AnalysisFacts => AllBound
  <2> SUFFICES ASSUME AnalysisFacts, phase = "analyzed"
               PROVE  /\ DOMAIN id_symbol = References("identifier")
                      /\ DOMAIN call_symbol = References("call_expression")
    BY DEF AllBound
  <2>1. resolver_pos.at = "end" /\ resolver_errors = <<>>
    BY DEF AnalysisFacts, ResolutionInv
  <2>2. \A r : NodePassed(resolver_pos, r)
    BY <2>1 DEF NodePassed
  <2>3. /\ References("identifier") \subseteq DOMAIN id_symbol
        /\ References("call_expression") \subseteq DOMAIN call_symbol
    BY <2>1, <2>2 DEF AnalysisFacts, ResolutionInv
  <2>4. /\ DOMAIN id_symbol \subseteq References("identifier")
        /\ DOMAIN call_symbol \subseteq References("call_expression")
    BY DEF AnalysisFacts, AnalyzerInv, BoundByRule
  <2> QED BY <2>3, <2>4
<1> QED BY AnalysisFactsHold, <1>1, PTL

----------------------------------------------------------------------------
(* The table against the tree, when the first pass is over without error. *)

(* The first pass was over, and accepted the unit. *)
Built == AnalysisFacts /\ phase # "building" /\ builder_errors = <<>>

(* The types, and that every declaration and definition was visited. *)
LEMMA BuiltFacts ==
  ASSUME Built
  PROVE  /\ tunit \in TranslationUnit
         /\ func_table \in Seq(FuncSymbol) /\ Len(func_table) \in Nat
         /\ builder_pos.at = "end"
         /\ DOMAIN def_scope = DOMAIN tunit.defs
         /\ \A d \in DOMAIN tunit.decls :
              /\ d \in DOMAIN func_table /\ decl_scope[d] = d
              /\ func_table[d].node = [site |-> "decl", fn |-> d]
         /\ \A i \in DOMAIN tunit.defs :
              /\ def_scope[i] \in DOMAIN func_table /\ def_scope[i] # None
              /\ def_scope[i] = ResolveFunc(tunit.defs[i].name)
<1>1. /\ TypeInv /\ ScopesBound /\ OnePassAtATime
      /\ FirstOfName /\ DeclarationsFirst
  BY DEF Built, AnalysisFacts, AnalyzerInv, TableFacts, TableInv
<1>2. /\ tunit \in TranslationUnit
      /\ func_table \in Seq(FuncSymbol) /\ Len(func_table) \in Nat
      /\ DOMAIN decl_scope = DOMAIN tunit.decls
      /\ DOMAIN def_scope = DOMAIN tunit.defs
      /\ decl_scope \in [DOMAIN tunit.decls -> {None} \cup DOMAIN func_table]
      /\ def_scope \in [DOMAIN tunit.defs -> {None} \cup DOMAIN func_table]
  BY <1>1, TypesHold
<1>3. builder_pos.at = "end"
  BY <1>1 DEF Built, OnePassAtATime
<1>4. \A d \in DOMAIN tunit.decls : decl_scope[d] # None
  BY <1>1, <1>2, <1>3 DEF ScopesBound, DeclPassed
<1>5. \A i \in DOMAIN def_scope : def_scope[i] # None
  BY <1>1, <1>3, AllScopesBound DEF Built
<1> QED BY <1>1, <1>2, <1>3, <1>4, <1>5 DEF FirstOfName, DeclarationsFirst

(* Where a function symbol comes from. *)
LEMMA SourceOfFunction ==
  ASSUME Built, NEW f \in DOMAIN func_table
  PROVE  \/ /\ f \in DOMAIN tunit.decls
            /\ func_table[f].name = tunit.decls[f].name
            /\ func_table[f].params = [k \in DOMAIN tunit.decls[f].params |->
                                 NewVariable(tunit.decls[f].params[k], "decl", f, k)]
         \/ /\ f \notin DOMAIN tunit.decls
            /\ func_table[f].node.site = "def"
            /\ \E i \in DOMAIN tunit.defs :
                 /\ def_scope[i] = f
                 /\ func_table[f].name = tunit.defs[i].name
                 /\ func_table[f].params = [k \in DOMAIN tunit.defs[i].params |->
                                      NewVariable(tunit.defs[i].params[k], "def", i, k)]
<1> DEFINE s == func_table[f]
<1>1. FromSource(f)
  BY DEF Built, AnalysisFacts, TableFacts, TableInv, SymbolsFromSource
<1>2. s.node.site \in {"decl", "def"}
  <2>1. func_table[f] \in FuncSymbol
    BY BuiltFacts
  <2> QED BY <2>1 DEF FuncSymbol
<1>3. DOMAIN decl_scope = DOMAIN tunit.decls /\ DOMAIN def_scope = DOMAIN tunit.defs
  BY TypesHold DEF Built, AnalysisFacts, AnalyzerInv
<1>4. CASE s.node.site = "decl"
  <2>1. s.node.fn \in DOMAIN tunit.decls /\ decl_scope[s.node.fn] = f
    BY <1>1, <1>3, <1>4 DEF FromSource
  <2>2. s.node.fn = f
    BY <2>1, BuiltFacts
  <2> QED BY <1>1, <1>4, <2>1, <2>2 DEF FromSource
<1>5. CASE s.node.site = "def"
  <2>1. f \notin DOMAIN tunit.decls
    <3>1. f \in DOMAIN tunit.decls => s.node = [site |-> "decl", fn |-> f]
      BY BuiltFacts
    <3> HIDE DEF s
    <3> QED BY <1>5, <3>1
  <2>2. /\ s.node.fn \in DOMAIN tunit.defs /\ def_scope[s.node.fn] = f
        /\ s.name = tunit.defs[s.node.fn].name
        /\ s.params = [k \in DOMAIN tunit.defs[s.node.fn].params |->
                         NewVariable(tunit.defs[s.node.fn].params[k], "def", s.node.fn, k)]
    BY <1>1, <1>3, <1>5 DEF FromSource
  <2> QED BY <2>1, <2>2, <1>5
<1> QED BY <1>2, <1>4, <1>5

(* A declared name resolves to its first declaration, any other name behind *)
(* all declarations.                                                        *)
LEMMA DeclaredResolves ==
  ASSUME Built, NEW name
  PROVE  LET decls == Rules!DeclarationsOf(tunit, name)
         IN  /\ decls # {} => /\ ResolveFunc(name) = Min(decls)
                              /\ ResolveFunc(name) \in decls
             /\ decls = {} => ResolveFunc(name) \notin DOMAIN tunit.decls
<1> DEFINE decls == Rules!DeclarationsOf(tunit, name)
           f == ResolveFunc(name)
<1>1. func_table \in Seq(FuncSymbol) /\ tunit \in TranslationUnit
  BY BuiltFacts
<1>2. /\ f = None <=> \A g \in DOMAIN func_table : func_table[g].name # name
      /\ f # None => /\ f \in DOMAIN func_table /\ func_table[f].name = name
                     /\ \A g \in DOMAIN func_table : func_table[g].name = name => f <= g
  BY <1>1, FirstFunctionIs, ResolveFuncIsFirst
<1>3. \A d \in DOMAIN tunit.decls :
        /\ d \in DOMAIN func_table /\ func_table[d].name = tunit.decls[d].name
  BY BuiltFacts, SourceOfFunction
<1>4. /\ decls = {d \in DOMAIN tunit.decls : tunit.decls[d].name = name}
      /\ DOMAIN tunit.decls = 1..Len(tunit.decls) /\ Len(tunit.decls) \in Nat
  BY <1>1, UnitType DEF Rules!DeclarationsOf
<1> HIDE DEF decls, f
<1>5. CASE decls # {}
  <2>1. decls \in SUBSET Nat
    BY <1>4
  <2>2. Min(decls) \in decls /\ \A d \in decls : Min(decls) <= d
    BY <1>5, <2>1, MinIsLeast
  <2>3. f # None /\ f <= Min(decls)
    BY <1>2, <1>3, <1>4, <2>2
  <2>4. f \in DOMAIN func_table /\ func_table[f].name = name
    BY <1>2, <2>3
  <2>5. f \in DOMAIN tunit.decls
    BY <1>1, <1>4, <2>2, <2>3, <2>4
  <2>6. f \in decls
    BY <1>3, <1>4, <2>4, <2>5
  <2>7. f = Min(decls)
    <3>1. f \in Nat /\ Min(decls) \in Nat
      BY <2>1, <2>2, <2>6
    <3>2. Min(decls) <= f
      BY <2>2, <2>6
    <3> QED BY <3>1, <3>2, <2>3
  <2> QED BY <1>5, <2>6, <2>7 DEF decls, f
<1>6. CASE decls = {}
  <2>1. f \notin DOMAIN tunit.decls
    <3> SUFFICES ASSUME f \in DOMAIN tunit.decls PROVE FALSE
      OBVIOUS
    <3>1. f # None
      BY <1>4 DEF None
    <3> QED BY <3>1, <1>2, <1>3, <1>4, <1>6
  <2> QED BY <1>6, <2>1 DEF decls, f
<1> QED BY <1>5, <1>6

(* No two definitions share a name. *)
LEMMA BuiltDefinedOnce == Built => Rules!DefinedOnce(tunit)
<1> SUFFICES ASSUME Built, NEW i \in DOMAIN tunit.defs, NEW j \in DOMAIN tunit.defs,
                    tunit.defs[i].name = tunit.defs[j].name
             PROVE  i = j
  BY DEF Rules!DefinedOnce
<1>1. def_scope[i] = def_scope[j] /\ def_scope[i] # None
  BY BuiltFacts
<1>2. BoundOnce /\ DOMAIN def_scope = DOMAIN tunit.defs
  BY BuiltFacts DEF Built, AnalysisFacts, AnalyzerInv
<1> QED BY <1>1, <1>2 DEF BoundOnce

(* resolve_func(name, params) finds a function if there is one. *)
LEMMA ResolveCallFinds ==
  ASSUME func_table \in Seq(FuncSymbol), NEW name, NEW args
  PROVE  ResolveCall(name, args) = None <=>
           \A f \in DOMAIN func_table :
             ~(func_table[f].name = name /\ Len(func_table[f].params) = args)
<1> DEFINE I == {i \in 1..Len(func_table) :
                   func_table[i].name = name /\ Len(func_table[i].params) = args}
<1>1. ResolveCall(name, args) = IF I # {} THEN Min(I) ELSE 0
  BY DEF ResolveCall, SelectInSeq
<1>2. I \in SUBSET Nat /\ 0 \notin I
  OBVIOUS
<1>3. I = {} <=> \A f \in DOMAIN func_table :
                   ~(func_table[f].name = name /\ Len(func_table[f].params) = args)
  OBVIOUS
<1> HIDE DEF I
<1>4. I # {} => Min(I) \in I
  BY <1>2, MinIsLeast
<1> QED BY <1>1, <1>2, <1>3, <1>4 DEF None

(* A call resolves exactly when the rules let the function be called so. *)
LEMMA CallableResolves ==
  ASSUME Built, NEW name, NEW args
  PROVE  Rules!Callable(tunit, name, args) <=> ResolveCall(name, args) # None
<1> DEFINE decls == Rules!DeclarationsOf(tunit, name)
<1>1. /\ func_table \in Seq(FuncSymbol) /\ tunit \in TranslationUnit
      /\ \A d \in DOMAIN tunit.decls : d \in DOMAIN func_table
      /\ \A i \in DOMAIN tunit.defs :
           /\ def_scope[i] \in DOMAIN func_table /\ def_scope[i] # None
           /\ def_scope[i] = ResolveFunc(tunit.defs[i].name)
  BY BuiltFacts
<1>2. decls = {d \in DOMAIN tunit.decls : tunit.decls[d].name = name}
  BY DEF Rules!DeclarationsOf
<1>3. /\ \A d \in DOMAIN tunit.decls : DOMAIN tunit.decls[d].params = 1..Len(tunit.decls[d].params)
                                       /\ Len(tunit.decls[d].params) \in Nat
      /\ \A i \in DOMAIN tunit.defs : DOMAIN tunit.defs[i].params = 1..Len(tunit.defs[i].params)
                                      /\ Len(tunit.defs[i].params) \in Nat
  <2>1. \A p \in Seq(VarNames) : DOMAIN p = 1..Len(p) /\ Len(p) \in Nat
    OBVIOUS
  <2>2. /\ \A d \in DOMAIN tunit.decls : tunit.decls[d].params \in Seq(VarNames)
        /\ \A i \in DOMAIN tunit.defs : tunit.defs[i].params \in Seq(VarNames)
    BY <1>1, UnitType
  <2> QED BY <2>1, <2>2
<1>4. \A f \in DOMAIN func_table :
        \/ /\ f \in DOMAIN tunit.decls
           /\ func_table[f].name = tunit.decls[f].name
           /\ Len(func_table[f].params) = Len(tunit.decls[f].params)
        \/ /\ f \notin DOMAIN tunit.decls
           /\ \E i \in DOMAIN tunit.defs :
                /\ def_scope[i] = f
                /\ func_table[f].name = tunit.defs[i].name
                /\ Len(func_table[f].params) = Len(tunit.defs[i].params)
  <2> SUFFICES ASSUME NEW f \in DOMAIN func_table
               PROVE  \/ /\ f \in DOMAIN tunit.decls
                         /\ func_table[f].name = tunit.decls[f].name
                         /\ Len(func_table[f].params) = Len(tunit.decls[f].params)
                      \/ /\ f \notin DOMAIN tunit.decls
                         /\ \E i \in DOMAIN tunit.defs :
                              /\ def_scope[i] = f
                              /\ func_table[f].name = tunit.defs[i].name
                              /\ Len(func_table[f].params) = Len(tunit.defs[i].params)
    OBVIOUS
  <2>1. ASSUME NEW n \in Nat, NEW s, DOMAIN s = 1..n, s \in Seq(VariableSymbol)
        PROVE  Len(s) = n
    BY <2>1
  <2>2. func_table[f].params \in Seq(VariableSymbol)
    <3>1. func_table[f] \in FuncSymbol
      BY <1>1
    <3> QED BY <3>1 DEF FuncSymbol
  <2>3. CASE /\ f \in DOMAIN tunit.decls
             /\ func_table[f].name = tunit.decls[f].name
             /\ func_table[f].params = [k \in DOMAIN tunit.decls[f].params |->
                                  NewVariable(tunit.decls[f].params[k], "decl", f, k)]
    <3>1. Len(func_table[f].params) = Len(tunit.decls[f].params)
      BY <1>3, <2>1, <2>2, <2>3
    <3> QED BY <3>1, <2>3
  <2>4. ASSUME f \notin DOMAIN tunit.decls,
               NEW i \in DOMAIN tunit.defs, def_scope[i] = f,
               func_table[f].name = tunit.defs[i].name,
               func_table[f].params = [k \in DOMAIN tunit.defs[i].params |->
                                    NewVariable(tunit.defs[i].params[k], "def", i, k)]
        PROVE  \E j \in DOMAIN tunit.defs :
                 /\ def_scope[j] = f
                 /\ func_table[f].name = tunit.defs[j].name
                 /\ Len(func_table[f].params) = Len(tunit.defs[j].params)
    <3>1. Len(func_table[f].params) = Len(tunit.defs[i].params)
      BY <1>3, <2>1, <2>2, <2>4
    <3> QED BY <3>1, <2>4
  <2> QED BY <2>3, <2>4, SourceOfFunction
<1>5. /\ decls # {} => ResolveFunc(name) \in decls
      /\ decls = {} => ResolveFunc(name) \notin DOMAIN tunit.decls
  BY DeclaredResolves
<1>6. ASSUME Rules!Callable(tunit, name, args)
      PROVE  \E f \in DOMAIN func_table :
               func_table[f].name = name /\ Len(func_table[f].params) = args
  <2>1. CASE \E d \in decls : Len(tunit.decls[d].params) = args
    BY <1>1, <1>2, <1>4, <2>1
  <2>2. ASSUME decls = {}, NEW i \in DOMAIN tunit.defs, tunit.defs[i].name = name,
               Len(tunit.defs[i].params) = args
        PROVE  \E f \in DOMAIN func_table :
                 func_table[f].name = name /\ Len(func_table[f].params) = args
    <3> DEFINE f == def_scope[i]
    <3>1. f \in DOMAIN func_table /\ f \notin DOMAIN tunit.decls
      BY <1>1, <1>5, <2>2
    <3>2. PICK j \in DOMAIN tunit.defs :
            /\ def_scope[j] = f /\ func_table[f].name = tunit.defs[j].name
            /\ Len(func_table[f].params) = Len(tunit.defs[j].params)
      BY <1>4, <3>1
    <3>3. i = j
      <4>1. BoundOnce /\ DOMAIN def_scope = DOMAIN tunit.defs
        BY BuiltFacts DEF Built, AnalysisFacts, AnalyzerInv
      <4> QED BY <4>1, <3>2, <1>1 DEF BoundOnce
    <3> QED BY <2>2, <3>1, <3>2, <3>3
  <2> QED BY <1>6, <2>1, <2>2 DEF Rules!Callable
<1>7. ASSUME NEW f \in DOMAIN func_table, func_table[f].name = name,
             Len(func_table[f].params) = args
      PROVE  Rules!Callable(tunit, name, args)
  <2>1. CASE f \in DOMAIN tunit.decls
    BY <1>2, <1>4, <1>7, <2>1 DEF Rules!Callable
  <2>2. CASE f \notin DOMAIN tunit.decls
    <3>1. PICK i \in DOMAIN tunit.defs :
            /\ def_scope[i] = f /\ func_table[f].name = tunit.defs[i].name
            /\ Len(func_table[f].params) = Len(tunit.defs[i].params)
      BY <1>4, <2>2
    <3>2. f = ResolveFunc(name)
      BY <1>1, <1>7, <3>1
    <3>3. decls = {}
      BY <1>2, <1>5, <2>2, <3>2
    <3> QED BY <1>7, <3>1, <3>3 DEF Rules!Callable
  <2> QED BY <2>1, <2>2
<1> QED BY <1>1, <1>6, <1>7, ResolveCallFinds

(* The names of the parameters of a definition's function are those the     *)
(* rules make visible.                                                      *)
LEMMA ParametersOfScope ==
  ASSUME Built, NEW i \in DOMAIN tunit.defs, NEW x
  PROVE  x \in Rules!Parameters(tunit, i) <=>
           \E k \in DOMAIN func_table[def_scope[i]].params :
             func_table[def_scope[i]].params[k].name = x
<1> DEFINE f     == def_scope[i]
           name  == tunit.defs[i].name
           decls == Rules!DeclarationsOf(tunit, name)
<1>1. f \in DOMAIN func_table /\ f # None /\ f = ResolveFunc(name)
  BY BuiltFacts
<1>2. /\ decls # {} => f = Min(decls) /\ f \in decls
      /\ decls = {} => f \notin DOMAIN tunit.decls
  BY <1>1, DeclaredResolves
<1>3. Rules!Parameters(tunit, i) =
        Rules!Range(IF decls = {} THEN tunit.defs[i].params
                    ELSE tunit.decls[Rules!Min(decls)].params)
  BY DEF Rules!Parameters
<1>4. Rules!Min(decls) = Min(decls)
  BY DEF Rules!Min, Min
<1>5. decls \subseteq DOMAIN tunit.decls
  BY DEF Rules!DeclarationsOf
<1> HIDE DEF decls, name
<1>6. \A site, fn, k, v : NewVariable(v, site, fn, k).name = v
  BY DEF NewVariable
<1>7. CASE decls # {}
  <2>1. f \in DOMAIN tunit.decls
    BY <1>2, <1>5, <1>7
  <2>2. Rules!Parameters(tunit, i) = Rules!Range(tunit.decls[f].params)
    BY <1>2, <1>3, <1>4, <1>7
  <2>3. func_table[f].params = [k \in DOMAIN tunit.decls[f].params |->
                             NewVariable(tunit.decls[f].params[k], "decl", f, k)]
    BY <1>1, <2>1, SourceOfFunction
  <2> HIDE DEF f
  <2>4. /\ DOMAIN func_table[f].params = DOMAIN tunit.decls[f].params
        /\ \A k \in DOMAIN tunit.decls[f].params :
             func_table[f].params[k].name = tunit.decls[f].params[k]
    BY <2>3, <1>6
  <2> QED BY <2>2, <2>4 DEF Rules!Range, f
<1>8. CASE decls = {}
  <2>1. f \notin DOMAIN tunit.decls
    BY <1>2, <1>8
  <2>2. Rules!Parameters(tunit, i) = Rules!Range(tunit.defs[i].params)
    BY <1>3, <1>8
  <2>3. PICK j \in DOMAIN tunit.defs :
          /\ def_scope[j] = f
          /\ func_table[f].params = [k \in DOMAIN tunit.defs[j].params |->
                                NewVariable(tunit.defs[j].params[k], "def", j, k)]
    BY <1>1, <2>1, SourceOfFunction
  <2>4. j = i
    <3>1. BoundOnce /\ DOMAIN def_scope = DOMAIN tunit.defs
      BY BuiltFacts DEF Built, AnalysisFacts, AnalyzerInv
    <3> QED BY <3>1, <2>3, <1>1 DEF BoundOnce
  <2> HIDE DEF f
  <2>5. /\ DOMAIN func_table[f].params = DOMAIN tunit.defs[i].params
        /\ \A k \in DOMAIN tunit.defs[i].params :
             func_table[f].params[k].name = tunit.defs[i].params[k]
    BY <2>3, <2>4, <1>6
  <2> QED BY <2>2, <2>5 DEF Rules!Range, f
<1> QED BY <1>7, <1>8

(* The locals of a definition's function are its local variables. *)
LEMMA LocalsOfScope ==
  ASSUME Built, NEW i \in DOMAIN tunit.defs, NEW x \in VarNames
  PROVE  x \in Rules!Range(tunit.defs[i].vars) <=>
           func_table[def_scope[i]].var_table[x] # NoVariable
<1> DEFINE places == {k \in DeclaredSoFar(i) : tunit.defs[i].vars[k] = x}
<1>1. DeclaredSoFar(i) = DOMAIN tunit.defs[i].vars
  BY BuiltFacts DEF DeclaredSoFar
<1>2. func_table[def_scope[i]].var_table[x] = LatestLocal(i, x)
  BY BuiltFacts DEF Built, AnalysisFacts, TableFacts, LocalsAtHome
<1>3. LatestLocal(i, x) = IF places = {} THEN NoVariable
                          ELSE NewVariable(x, "var", i, Max(places))
  BY DEF LatestLocal
<1>4. x \in Rules!Range(tunit.defs[i].vars) <=> places # {}
  BY <1>1 DEF Rules!Range
<1> HIDE DEF places, NoVariable
<1> QED BY <1>2, <1>3, <1>4, VariableIsSome

(* A variable resolves exactly when the rules make it visible. *)
LEMMA VisibleResolves ==
  ASSUME Built, NEW i \in DOMAIN tunit.defs, NEW x \in VarNames
  PROVE  x \in Rules!Visible(tunit, i) <=> ResolveVariable(def_scope[i], x) # NoVariable
<1> DEFINE f == func_table[def_scope[i]]
           I == {k \in 1..Len(f.params) : f.params[k].name = x}
           p == SelectInSeq(f.params, LAMBDA s : s.name = x)
<1>1. def_scope[i] \in DOMAIN func_table /\ def_scope[i] # Global
      /\ func_table \in Seq(FuncSymbol)
  BY BuiltFacts DEF None, Global
<1>2. f.params \in Seq(VariableSymbol)
  <2>1. f \in FuncSymbol
    BY <1>1
  <2> QED BY <2>1 DEF FuncSymbol
<1>3. p = IF I # {} THEN Min(I) ELSE 0
  BY DEF SelectInSeq
<1>4. I \in SUBSET Nat /\ 0 \notin I /\ I \subseteq DOMAIN f.params
      /\ (I # {} <=> \E k \in DOMAIN f.params : f.params[k].name = x)
  BY <1>2
<1>5. ResolveVariable(def_scope[i], x) =
        IF f.var_table[x] # NoVariable THEN f.var_table[x]
        ELSE IF p # 0 THEN f.params[p] ELSE NoVariable
  BY <1>1 DEF ResolveVariable
<1>6. (\A v \in VariableSymbol : v.site # "none") /\ NoVariable.site = "none"
  BY DEF VariableSymbol, NoVariable
<1> HIDE DEF I, p, NoVariable
<1>7. I # {} => Min(I) \in I
  BY <1>4, MinIsLeast
<1>8. p # 0 <=> I # {}
  BY <1>3, <1>4, <1>7
<1>9. p # 0 => f.params[p] # NoVariable
  <2>1. p # 0 => p \in DOMAIN f.params
    BY <1>3, <1>4, <1>7
  <2> QED BY <2>1, <1>2, <1>6
<1>10. x \in Rules!Parameters(tunit, i) <=> I # {}
  BY <1>4, ParametersOfScope
<1>11. x \in Rules!Range(tunit.defs[i].vars) <=> f.var_table[x] # NoVariable
  BY LocalsOfScope
<1> HIDE DEF f
<1>12. x \in Rules!Visible(tunit, i) <=> f.var_table[x] # NoVariable \/ I # {}
  BY <1>10, <1>11 DEF Rules!Visible
<1> QED BY <1>5, <1>8, <1>9, <1>12

(* A node refers to something exactly when the second pass can bind it. *)
LEMMA RefersResolves ==
  ASSUME Built, NEW i \in DOMAIN tunit.defs, NEW k \in DOMAIN tunit.defs[i].body
  PROVE  LET n == tunit.defs[i].body[k]
         IN  Rules!Refers(tunit, i, n) <=>
               /\ n.kind = "identifier" => ResolveVariable(def_scope[i], n.name) # NoVariable
               /\ n.kind = "call_expression" => ResolveCall(n.name, n.args) # None
<1> DEFINE n == tunit.defs[i].body[k]
<1>1. n \in Node
  <2>1. tunit.defs[i].body \in Seq(Node)
    BY BuiltFacts, UnitType
  <2> QED BY <2>1
<1> HIDE DEF n
<1>2. /\ n \in Ident <=> n.kind = "identifier"
      /\ n \in Call <=> n.kind = "call_expression"
      /\ n \in Ident => n.name \in VarNames
  BY <1>1, KindOfNode DEF Ident
<1>3. Rules!Ident = Ident /\ Rules!Call = Call
  BY DEF Rules!Ident, Rules!Call, Ident, Call
<1>4. n \in Ident => (n.name \in Rules!Visible(tunit, i) <=>
                       ResolveVariable(def_scope[i], n.name) # NoVariable)
  BY <1>2, VisibleResolves
<1>5. Rules!Callable(tunit, n.name, n.args) <=> ResolveCall(n.name, n.args) # None
  BY CallableResolves
<1>6. Rules!Refers(tunit, i, n) <=>
        /\ n \in Ident => n.name \in Rules!Visible(tunit, i)
        /\ n \in Call => Rules!Callable(tunit, n.name, n.args)
  BY <1>3 DEF Rules!Refers
<1> HIDE DEF NoVariable
<1> QED BY <1>2, <1>4, <1>5, <1>6 DEF n

----------------------------------------------------------------------------
(* The verdict. *)

(* A unit rejected by the first pass defines something twice. *)
LEMMA FirstPassRejects ==
  ASSUME AnalysisFacts, builder_errors # <<>>
  PROVE  ~Rules!WellNamed(tunit)
BY DEF AnalysisFacts, TableFacts, TableInv, RejectionsMeant, Rules!WellNamed, Rules!DefinedOnce

(* The second pass ends without an error exactly for the well named units. *)
LEMMA SecondPassJudges ==
  ASSUME Built, resolver_pos.at = "end"
  PROVE  Rules!WellNamed(tunit) <=> resolver_errors = <<>>
<1>1. Rules!DefinedOnce(tunit)
  BY BuiltDefinedOnce
<1>2. ASSUME resolver_errors = <<>>, NEW i \in DOMAIN tunit.defs,
             NEW k \in DOMAIN tunit.defs[i].body
      PROVE  Rules!Refers(tunit, i, tunit.defs[i].body[k])
  <2> DEFINE n == tunit.defs[i].body[k]
             r == <<i, k>>
  <2>1. NodeAt(r) = n /\ r \in References(n.kind) /\ NodePassed(resolver_pos, r)
    BY DEF NodeAt, References, NodePassed
  <2>2. n.kind = "identifier" => ResolveVariable(def_scope[i], n.name) # NoVariable
    <3> SUFFICES ASSUME n.kind = "identifier"
                 PROVE  ResolveVariable(def_scope[i], n.name) # NoVariable
      OBVIOUS
    <3>1. r \in DOMAIN id_symbol
      BY <1>2, <2>1 DEF Built, AnalysisFacts, ResolutionInv
    <3> QED BY <2>1, <3>1 DEF Built, AnalysisFacts, AnalyzerInv, BoundByRule
  <2>3. n.kind = "call_expression" => ResolveCall(n.name, n.args) # None
    <3> SUFFICES ASSUME n.kind = "call_expression"
                 PROVE  ResolveCall(n.name, n.args) # None
      OBVIOUS
    <3>1. r \in DOMAIN call_symbol
      BY <1>2, <2>1 DEF Built, AnalysisFacts, ResolutionInv
    <3> QED BY <2>1, <3>1 DEF Built, AnalysisFacts, AnalyzerInv, BoundByRule
  <2> QED BY <2>2, <2>3, RefersResolves
<1>3. ASSUME resolver_errors # <<>>
      PROVE  \E i \in DOMAIN tunit.defs : \E k \in DOMAIN tunit.defs[i].body :
               ~Rules!Refers(tunit, i, tunit.defs[i].body[k])
  <2> DEFINE r == resolver_errors[1]
  <2>1. 1 \in DOMAIN resolver_errors
    BY <1>3 DEF Built, AnalysisFacts, AnalyzerInv, TypeInv, AnalyzerTypeOK, ResolverTypeOK
  <2>2. \/ /\ r \in References("identifier")
           /\ ResolveVariable(def_scope[r[1]], NodeAt(r).name) = NoVariable
        \/ /\ r \in References("call_expression")
           /\ ResolveCall(NodeAt(r).name, NodeAt(r).args) = None
    BY <2>1 DEF Built, AnalysisFacts, ResolutionInv
  <2> HIDE DEF r
  <2>3. r[1] \in DOMAIN tunit.defs /\ r[2] \in DOMAIN tunit.defs[r[1]].body
    BY <2>2, ReferenceIsNode
  <2>4. NodeAt(r) = tunit.defs[r[1]].body[r[2]]
    BY DEF NodeAt
  <2>5. ~Rules!Refers(tunit, r[1], tunit.defs[r[1]].body[r[2]])
    <3> DEFINE n == tunit.defs[r[1]].body[r[2]]
    <3>1. Rules!Refers(tunit, r[1], n) =>
            /\ n.kind = "identifier" => ResolveVariable(def_scope[r[1]], n.name) # NoVariable
            /\ n.kind = "call_expression" => ResolveCall(n.name, n.args) # None
      BY <2>3, RefersResolves
    <3>2. \A kind : r \in References(kind) => n.kind = kind
      BY <2>4, ReferenceIsNode
    <3> HIDE DEF n
    <3>3. NodeAt(r) = n
      BY <2>4 DEF n
    <3> QED BY <2>2, <3>1, <3>2, <3>3 DEF n
  <2> QED BY <2>3, <2>5
<1>4. CASE resolver_errors = <<>>
  BY <1>1, <1>2, <1>4 DEF Rules!WellNamed
<1>5. CASE resolver_errors # <<>>
  <2>1. ~Rules!WellNamed(tunit)
    BY <1>3, <1>5 DEF Rules!WellNamed
  <2> QED BY <1>5, <2>1
<1> QED BY <1>4, <1>5

(* Every step of the analysis is a verdict the rules give, or changes none. *)
LEMMA RulesStep ==
  AnalysisFacts /\ [AnalyzerNext]_analyzer_vars => [Rules!Judge]_(Rules!rule_vars)
<1> SUFFICES ASSUME AnalysisFacts, [AnalyzerNext]_analyzer_vars
             PROVE  Rules!Judge \/ UNCHANGED Rules!rule_vars
  OBVIOUS
<1>1. ASSUME UNCHANGED <<tunit, phase>>
      PROVE  UNCHANGED Rules!rule_vars
  BY <1>1 DEF Rules!rule_vars, Verdict
<1>2. TypeInv
  BY DEF AnalysisFacts, AnalyzerInv
<1>3. CASE Build
  <2>1. UNCHANGED <<tunit, phase>>
    BY <1>3, BuilderMoves DEF Build
  <2> QED BY <1>1, <2>1
<1>4. CASE Resolve
  <2>1. UNCHANGED <<tunit, phase>>
    BY <1>2, <1>4, ResolverTypeStep DEF TypeInv, AnalyzerTypeOK, Resolve
  <2> QED BY <1>1, <2>1
<1>5. CASE AnalysisOver \/ UNCHANGED analyzer_vars
  <2>1. UNCHANGED <<tunit, phase>>
    BY <1>5 DEF AnalysisOver, analyzer_vars, heap
  <2> QED BY <1>1, <2>1
<1>6. CASE FinishBuilding
  <2>1. /\ phase = "building" /\ tunit' = tunit
        /\ phase' = IF builder_errors = <<>> THEN "resolving" ELSE "semantic_exception"
    BY <1>6 DEF FinishBuilding, heap
  <2>2. CASE builder_errors = <<>>
    BY <2>1, <2>2 DEF Rules!rule_vars, Verdict
  <2>3. CASE builder_errors # <<>>
    <3>1. ~Rules!WellNamed(tunit)
      BY <2>3, FirstPassRejects
    <3>2. Verdict = "pending" /\ Verdict' = "rejected"
      BY <2>1, <2>3 DEF Verdict
    <3> QED BY <2>1, <3>1, <3>2 DEF Rules!Judge
  <2> QED BY <2>2, <2>3
<1>7. CASE FinishResolving
  <2>1. /\ phase = "resolving" /\ resolver_pos.at = "end" /\ tunit' = tunit
        /\ phase' = IF resolver_errors = <<>> THEN "analyzed" ELSE "semantic_exception"
    BY <1>7 DEF FinishResolving, heap
  <2>2. Built
    BY <2>1 DEF Built, AnalysisFacts, AnalyzerInv, OnePassAtATime
  <2>3. Rules!WellNamed(tunit) <=> resolver_errors = <<>>
    BY <2>1, <2>2, SecondPassJudges
  <2>4. Verdict = "pending"
        /\ Verdict' = IF resolver_errors = <<>> THEN "accepted" ELSE "rejected"
    BY <2>1 DEF Verdict
  <2> QED BY <2>1, <2>3, <2>4 DEF Rules!Judge
<1> QED BY <1>3, <1>4, <1>5, <1>6, <1>7 DEF AnalyzerNext

(* scope_builder and symbol_resolver together never do anything but what    *)
(* the naming rules say: they accept only well named units and reject only  *)
(* the others, and a verdict once given stays.  (That a verdict is given    *)
(* rests on fairness and is left to the model checker.)                     *)
THEOREM AnalysisKeepsTheRules ==
  AnalyzerSpec => Rules!RuleInit /\ [][Rules!Judge]_(Rules!rule_vars)
<1>1. AnalyzerInit => Rules!RuleInit
  BY DEF AnalyzerInit, HeapInit, Verdict, Rules!RuleInit
<1>2. AnalysisFacts /\ [AnalyzerNext]_analyzer_vars => [Rules!Judge]_(Rules!rule_vars)
  BY RulesStep
<1> QED BY <1>1, <1>2, AnalysisFactsHold, PTL DEF AnalyzerSpec

============================================================================
