--------------------------- MODULE SemanticProofs ---------------------------
(***************************************************************************)
(* Proofs about the semantic analysis, for every set of names and every    *)
(* set of translation units.                                               *)
(***************************************************************************)
EXTENDS SemanticAnalyzer, TreeProofs

----------------------------------------------------------------------------
(* The traversal. *)

(* Sequences with the same places have the same length. *)
LEMMA SameLength ==
  ASSUME NEW S, NEW T, NEW p \in Seq(S), NEW q \in Seq(T), DOMAIN p = DOMAIN q
  PROVE  Len(p) = Len(q) /\ Len(p) \in Nat
<1>1. /\ Len(p) \in Nat /\ DOMAIN p = 1 .. Len(p)
      /\ Len(q) \in Nat /\ DOMAIN q = 1 .. Len(q)
  OBVIOUS
<1>2. \A m, n \in Nat : 1 .. m = 1 .. n => m = n
  <2> SUFFICES ASSUME NEW m \in Nat, NEW n \in Nat, 1 .. m = 1 .. n PROVE m = n
    OBVIOUS
  <2>1. \A j \in Nat : j >= 1 /\ j <= m <=> j >= 1 /\ j <= n
    <3> SUFFICES ASSUME NEW j \in Nat PROVE j >= 1 /\ j <= m <=> j >= 1 /\ j <= n
      OBVIOUS
    <3>1. j \in 1 .. m <=> j \in 1 .. n
      OBVIOUS
    <3> QED BY <3>1
  <2> QED BY <2>1
<1> QED BY <1>1, <1>2

(* What the parts of a translation unit are. *)
LEMMA UnitType ==
  ASSUME NEW t \in TranslationUnit
  PROVE  /\ t.decls \in Seq(Prototype)
         /\ t.defs \in Seq(Definition)
         /\ \A i \in DOMAIN t.defs :
              /\ t.defs[i].name \in FuncNames
              /\ t.defs[i].params \in Seq(VarNames)
              /\ t.defs[i].vars \in Seq(VarNames)
              /\ t.defs[i].body \in Seq(Node)
         /\ \A i \in DOMAIN t.decls :
              /\ t.decls[i].name \in FuncNames
              /\ t.decls[i].params \in Seq(VarNames)
<1>1. t.decls \in Seq(Prototype) /\ t.defs \in Seq(Definition)
  BY DEF TranslationUnit
<1>2. \A i \in DOMAIN t.defs : t.defs[i] \in Definition
  BY <1>1
<1>3. \A i \in DOMAIN t.decls : t.decls[i] \in Prototype
  BY <1>1
<1> QED BY <1>1, <1>2, <1>3 DEF Definition, Prototype

(* Where the accepter can be after each callback. *)
LEMMA AfterDef ==
  ASSUME NEW t \in TranslationUnit, NEW p \in Position,
         p.at \in {"def", "var", "node"}, Within(t, p)
  PROVE  /\ After(t, p) \in Position
         /\ Within(t, After(t, p))
         /\ After(t, p).at \in {"var", "node", "post_def"}
         /\ After(t, p).fn = p.fn
         /\ p.at = "node" => After(t, p).at \in {"node", "post_def"}
<1> DEFINE d == t.defs[p.fn]
<1>1. p.fn \in DOMAIN t.defs
  BY DEF Within
<1>2. d.vars \in Seq(VarNames) /\ d.body \in Seq(Node)
  BY <1>1, UnitType
<1>3. p.fn \in Nat /\ p.k \in Nat
  BY DEF Position
<1>4. ASSUME NEW j \in Nat, j > 0
      PROVE  /\ EnterNode(t, p.fn, j) \in Position
             /\ Within(t, EnterNode(t, p.fn, j))
             /\ EnterNode(t, p.fn, j).at \in {"node", "post_def"}
             /\ EnterNode(t, p.fn, j).fn = p.fn
  BY <1>1, <1>2, <1>3, <1>4 DEF EnterNode, At, Position, Within
<1>5. ASSUME NEW j \in Nat, j > 0
      PROVE  /\ EnterVar(t, p.fn, j) \in Position
             /\ Within(t, EnterVar(t, p.fn, j))
             /\ EnterVar(t, p.fn, j).at \in {"var", "node", "post_def"}
             /\ EnterVar(t, p.fn, j).fn = p.fn
  <2>1. CASE j <= Len(d.vars)
    BY <2>1, <1>1, <1>2, <1>3, <1>5 DEF EnterVar, At, Position, Within
  <2>2. CASE j > Len(d.vars)
    BY <2>2, <1>2, <1>4, <1>5 DEF EnterVar
  <2> QED BY <2>1, <2>2, <1>2
<1>6. CASE p.at = "def"
  BY <1>6, <1>5 DEF After
<1>7. CASE p.at = "var"
  BY <1>7, <1>3, <1>5 DEF After
<1>8. CASE p.at = "node"
  BY <1>8, <1>3, <1>4 DEF After
<1> QED BY <1>6, <1>7, <1>8


(* Where a definition, or the end of the unit, is entered. *)
LEMMA EnterDefType ==
  ASSUME NEW t \in TranslationUnit, NEW i \in Nat, i > 0
  PROVE  /\ EnterDef(t, i) \in Position
         /\ Within(t, EnterDef(t, i))
         /\ EnterDef(t, i).at \in {"def", "end"}
         /\ EnterDef(t, i).at = "def" => EnterDef(t, i).fn = i
         /\ EnterDef(t, i).at = "end" => i > Len(t.defs)
<1>1. t.defs \in Seq(Definition)
  BY UnitType
<1> QED BY <1>1 DEF EnterDef, At, Position, Within

(* After a definition comes the next one, or the end. *)
LEMMA AfterPostDef ==
  ASSUME NEW t \in TranslationUnit, NEW p \in Position,
         p.at = "post_def", Within(t, p)
  PROVE  /\ After(t, p) \in Position
         /\ Within(t, After(t, p))
         /\ After(t, p).at \in {"def", "end"}
         /\ After(t, p).at = "def" => After(t, p).fn = p.fn + 1
         /\ After(t, p).at = "end" => p.fn = Len(t.defs)
<1>1. t.defs \in Seq(Definition) /\ p.fn \in DOMAIN t.defs
  BY UnitType DEF Within
<1>2. After(t, p) = EnterDef(t, p.fn + 1)
  BY DEF After
<1>3. p.fn \in Nat /\ p.fn <= Len(t.defs) /\ p.fn > 0
  BY <1>1
<1> QED BY <1>2, <1>3, <1>1, EnterDefType

(* Where the accepter can be after the unit itself and after a declaration. *)
LEMMA AfterDecl ==
  ASSUME NEW t \in TranslationUnit, NEW p \in Position,
         p.at \in {"unit", "decl"}, Within(t, p)
  PROVE  /\ After(t, p) \in Position
         /\ Within(t, After(t, p))
         /\ After(t, p).at \in {"decl", "def", "end"}
         /\ After(t, p).at = "decl" => After(t, p).fn = IF p.at = "unit" THEN 1 ELSE p.fn + 1
         /\ After(t, p).at = "def" => After(t, p).fn = 1
         /\ After(t, p).at = "end" => Len(t.defs) = 0
         /\ After(t, p).at # "decl" =>
              Len(t.decls) = IF p.at = "unit" THEN 0 ELSE p.fn
<1> DEFINE i == IF p.at = "unit" THEN 1 ELSE p.fn + 1
<1>1. t.decls \in Seq(Prototype) /\ t.defs \in Seq(Definition)
  BY UnitType
<1>2. i \in Nat /\ i > 0 /\ p.fn \in Nat
  BY DEF Position
<1>3. After(t, p) = EnterDecl(t, i)
  BY DEF After
<1>4. CASE i <= Len(t.decls)
  BY <1>1, <1>2, <1>3, <1>4 DEF EnterDecl, At, Position, Within
<1>5. CASE i > Len(t.decls)
  <2>1. After(t, p) = EnterDef(t, 1)
    BY <1>1, <1>2, <1>3, <1>5 DEF EnterDecl
  <2>2. Len(t.decls) = IF p.at = "unit" THEN 0 ELSE p.fn
    BY <1>1, <1>2, <1>5 DEF Within
  <2>3. Len(t.defs) \in Nat
    BY <1>1
  <2> QED BY <2>1, <2>2, <2>3, EnterDefType
<1> QED BY <1>1, <1>2, <1>4, <1>5

----------------------------------------------------------------------------
(* The symbol table.  The lookups return a match or None. *)

(* resolve_func(name) returns a function of that name. *)
LEMMA ResolveFuncResult ==
  ASSUME func_table \in Seq(FuncSymbol), NEW name
  PROVE  \/ /\ ResolveFunc(name) \in DOMAIN func_table
            /\ func_table[ResolveFunc(name)].name = name
         \/ ResolveFunc(name) = None
<1> DEFINE I == {i \in 1..Len(func_table) : func_table[i].name = name}
<1>1. ResolveFunc(name) = IF I # {} THEN Min(I) ELSE 0
  BY DEF ResolveFunc, SelectInSeq
<1>2. I \in SUBSET Nat
  OBVIOUS
<1>3. I # {} => Min(I) \in I
  <2> HIDE DEF I
  <2> QED BY <1>2, MinIsLeast
<1> QED BY <1>1, <1>3 DEF None

(* resolve_func(name, params) returns one with as many parameters, too. *)
LEMMA ResolveCallResult ==
  ASSUME func_table \in Seq(FuncSymbol), NEW name, NEW args
  PROVE  \/ /\ ResolveCall(name, args) \in DOMAIN func_table
            /\ func_table[ResolveCall(name, args)].name = name
            /\ Len(func_table[ResolveCall(name, args)].params) = args
         \/ ResolveCall(name, args) = None
<1> DEFINE I == {i \in 1..Len(func_table) :
                   func_table[i].name = name /\ Len(func_table[i].params) = args}
<1>1. ResolveCall(name, args) = IF I # {} THEN Min(I) ELSE 0
  BY DEF ResolveCall, SelectInSeq
<1>2. I \in SUBSET Nat
  OBVIOUS
<1>3. I # {} => Min(I) \in I
  <2> HIDE DEF I
  <2> QED BY <1>2, MinIsLeast
<1> QED BY <1>1, <1>3 DEF None

(* A variable found in a function's scope is one the function owns. *)
LEMMA ResolveVariableResult ==
  ASSUME func_table \in Seq(FuncSymbol), NEW f \in DOMAIN func_table,
         NEW name \in VarNames, ResolveVariable(f, name) # NoVariable
  PROVE  /\ ResolveVariable(f, name) \in Owned(func_table[f])
         /\ ResolveVariable(f, name) \in VariableSymbol
         /\ \/ ResolveVariable(f, name).name = name
            \/ ResolveVariable(f, name) = func_table[f].var_table[name]
<1> DEFINE sym == func_table[f]
           I == {k \in 1..Len(sym.params) : sym.params[k].name = name}
           p == SelectInSeq(sym.params, LAMBDA s : s.name = name)
<1>1. /\ sym.params \in Seq(VariableSymbol)
      /\ sym.var_table \in [VarNames -> VariableSymbol \cup {NoVariable}]
  <2>1. func_table[f] \in FuncSymbol
    OBVIOUS
  <2> QED BY ONLY <2>1 DEF FuncSymbol
<1>2. p = IF I # {} THEN Min(I) ELSE 0
  BY DEF SelectInSeq
<1>3. I \in SUBSET Nat
  OBVIOUS
<1>4. I # {} => Min(I) \in I
  <2> HIDE DEF I
  <2> QED BY <1>3, MinIsLeast
<1>5. f # Global
  BY DEF Global
<1>6. CASE sym.var_table[name] # NoVariable
  <2>1. ResolveVariable(f, name) = sym.var_table[name]
    BY <1>5, <1>6 DEF ResolveVariable
  <2> QED BY <2>1, <1>1, <1>6 DEF Owned, Range
<1>7. CASE sym.var_table[name] = NoVariable
  <2>1. ResolveVariable(f, name) = IF p # 0 THEN sym.params[p] ELSE NoVariable
    BY <1>5, <1>7 DEF ResolveVariable
  <2>2. p # 0 /\ p \in I
    BY <2>1, <1>2, <1>4
  <2>3. p \in DOMAIN sym.params /\ sym.params[p].name = name
    BY <2>2, <1>1
  <2>4. ResolveVariable(f, name) = sym.params[p]
    BY <2>1, <2>2
  <2> HIDE DEF p, I
  <2> QED BY <2>3, <2>4, <1>1 DEF Owned, Range
<1> QED BY <1>6, <1>7

----------------------------------------------------------------------------
(* Type correctness. *)

(* The unit being compiled is one the parser can produce. *)
LEMMA TunitType == ASSUME HeapTypeOK PROVE tunit \in TranslationUnit
BY ProgramsAssumption DEF HeapTypeOK

(* A position only moves to another place of the unit. *)
LEMMA AfterType ==
  ASSUME NEW t \in TranslationUnit, NEW p \in Position, Within(t, p)
  PROVE  After(t, p) \in Position /\ Within(t, After(t, p))
<1>1. CASE p.at \in {"unit", "decl"}
  BY <1>1, AfterDecl
<1>2. CASE p.at \in {"def", "var", "node"}
  BY <1>2, AfterDef
<1>3. CASE p.at = "post_def"
  BY <1>3, AfterPostDef
<1>4. CASE p.at = "end"
  BY <1>4 DEF After
<1> QED BY <1>1, <1>2, <1>3, <1>4 DEF Position

(* A map stays one when its range grows and one of its values changes. *)
LEMMA MapGrows ==
  ASSUME NEW D, NEW S, NEW T, S \subseteq T, NEW m \in [D -> S], NEW d, NEW v \in T
  PROVE  m \in [D -> T] /\ [m EXCEPT ![d] = v] \in [D -> T]
OBVIOUS

(* The scopes of declarations and definitions, when the function table      *)
(* grows and one of them is bound.                                          *)
LEMMA ScopesGrow ==
  ASSUME HeapTypeOK, NEW ft \in Seq(FuncSymbol), Len(func_table) <= Len(ft),
         NEW d, NEW v \in {None} \cup DOMAIN ft
  PROVE  LET scopes == {None} \cup DOMAIN ft
         IN  /\ decl_scope \in [DOMAIN tunit.decls -> scopes]
             /\ def_scope \in [DOMAIN tunit.defs -> scopes]
             /\ [decl_scope EXCEPT ![d] = v] \in [DOMAIN tunit.decls -> scopes]
             /\ [def_scope EXCEPT ![d] = v] \in [DOMAIN tunit.defs -> scopes]
<1> DEFINE S == {None} \cup DOMAIN func_table
           T == {None} \cup DOMAIN ft
<1>1. /\ decl_scope \in [DOMAIN tunit.decls -> S]
      /\ def_scope \in [DOMAIN tunit.defs -> S]
      /\ func_table \in Seq(FuncSymbol)
  BY DEF HeapTypeOK
<1>2. S \subseteq T
  BY <1>1
<1>3. v \in T
  OBVIOUS
<1> HIDE DEF S, T
<1>4. decl_scope \in [DOMAIN tunit.decls -> T]
      /\ [decl_scope EXCEPT ![d] = v] \in [DOMAIN tunit.decls -> T]
  BY <1>1, <1>2, <1>3, MapGrows
<1>5. def_scope \in [DOMAIN tunit.defs -> T]
      /\ [def_scope EXCEPT ![d] = v] \in [DOMAIN tunit.defs -> T]
  BY <1>1, <1>2, <1>3, MapGrows
<1> QED BY <1>4, <1>5 DEF T

(* The heap stays well typed when the function table grows or its entries   *)
(* are replaced.                                                            *)
LEMMA HeapTypeGrows ==
  ASSUME HeapTypeOK,
         NEW ft \in Seq(FuncSymbol), Len(func_table) <= Len(ft),
         func_table' = ft,
         tunit' = tunit,
         decl_scope' \in [DOMAIN tunit.decls -> {None} \cup DOMAIN ft],
         def_scope' \in [DOMAIN tunit.defs -> {None} \cup DOMAIN ft],
         id_symbol' = id_symbol, call_symbol' = call_symbol
  PROVE  HeapTypeOK'
<1>1. DOMAIN func_table \subseteq DOMAIN ft
  BY DEF HeapTypeOK
<1>2. Range(call_symbol) \subseteq DOMAIN ft
  BY <1>1 DEF HeapTypeOK
<1>3. Range(id_symbol)' = Range(id_symbol) /\ Range(call_symbol)' = Range(call_symbol)
  BY DEF Range
<1> QED BY <1>2, <1>3 DEF HeapTypeOK

(* create_function makes a function symbol. *)
LEMMA CreateFunctionType ==
  ASSUME NEW sig, sig.name \in FuncNames, sig.params \in Seq(VarNames),
         NEW site \in {"decl", "def"}, NEW i \in Nat, NEW b \in BOOLEAN
  PROVE  CreateFunction(sig, site, i, b) \in FuncSymbol
<1>1. [k \in DOMAIN sig.params |-> NewVariable(sig.params[k], site, i, k)] \in Seq(VariableSymbol)
  <2> DEFINE s == [k \in 1..Len(sig.params) |-> NewVariable(sig.params[k], site, i, k)]
  <2>1. \A k \in 1..Len(sig.params) : NewVariable(sig.params[k], site, i, k) \in VariableSymbol
    BY DEF NewVariable, VariableSymbol
  <2>2. s \in [1..Len(sig.params) -> VariableSymbol]
    BY <2>1
  <2>3. s \in Seq(VariableSymbol)
    <3> HIDE DEF s
    <3> QED BY <2>2, IsASeq
  <2> QED BY <2>3
<1>2. [x \in VarNames |-> NoVariable] \in [VarNames -> VariableSymbol \cup {NoVariable}]
  OBVIOUS
<1>3. [site |-> site, fn |-> i] \in [site : {"decl", "def"}, fn : Nat]
  OBVIOUS
<1> HIDE DEF NoVariable
<1> QED BY <1>1, <1>2, <1>3 DEF CreateFunction, FuncSymbol, EmptyMap

(* The type invariant of the builder's heap and state, step by step. *)
LEMMA BuilderTypeStep ==
  ASSUME HeapTypeOK, BuilderTypeOK, Within(tunit, builder_pos), BuilderNext
  PROVE  /\ HeapTypeOK' /\ BuilderTypeOK' /\ Within(tunit, builder_pos)'
         /\ tunit' = tunit /\ Len(func_table) <= Len(func_table')
<1> DEFINE Goal == /\ HeapTypeOK' /\ BuilderTypeOK' /\ Within(tunit, builder_pos)'
                   /\ tunit' = tunit /\ Len(func_table) <= Len(func_table')
           i == builder_pos.fn
<1>1. tunit \in TranslationUnit /\ builder_pos \in Position
  BY TunitType DEF BuilderTypeOK
<1>2. After(tunit, builder_pos) \in Position /\ Within(tunit, After(tunit, builder_pos))
  BY <1>1, AfterType
<1>3. func_table \in Seq(FuncSymbol) /\ Len(func_table) \in Nat
  BY DEF HeapTypeOK
<1>4. i \in Nat /\ builder_pos.k \in Nat
  BY <1>1 DEF Position
<1>5. ASSUME UNCHANGED heap, builder_pos' = After(tunit, builder_pos),
             builder_scope' \in {Global} \cup DOMAIN func_table,
             builder_errors' \in Seq(Redefinition)
      PROVE  Goal
  <2>1. HeapTypeOK'
    BY <1>5, <1>3, HeapTypeGrows DEF heap, HeapTypeOK
  <2> QED BY <1>5, <1>2, <1>3, <2>1 DEF heap, BuilderTypeOK
<1>6. CASE VisitTranslationUnit
  BY <1>6, <1>5 DEF VisitTranslationUnit, InBuilder, BuilderTypeOK
<1>7. CASE VisitFunctionDeclaration
  <2>1. builder_pos.at = "decl" /\ builder_pos' = After(tunit, builder_pos)
        /\ tunit' = tunit /\ def_scope' = def_scope /\ id_symbol' = id_symbol
        /\ call_symbol' = call_symbol /\ builder_scope' = builder_scope
        /\ builder_errors' = builder_errors
    BY <1>7 DEF VisitFunctionDeclaration, InBuilder
  <2>2. i \in DOMAIN tunit.decls
    BY <2>1 DEF Within
  <2>3. CreateFunction(tunit.decls[i], "decl", i, TRUE) \in FuncSymbol
    BY <1>1, <1>4, <2>2, UnitType, CreateFunctionType
  <2>4. CASE builder_scope = Global
    <3> DEFINE ft == Append(func_table, CreateFunction(tunit.decls[i], "decl", i, TRUE))
    <3>1. func_table' = ft /\ decl_scope' = [decl_scope EXCEPT ![i] = Len(ft)]
      BY <1>7, <2>4 DEF VisitFunctionDeclaration
    <3>2. ft \in Seq(FuncSymbol) /\ Len(ft) = Len(func_table) + 1
      BY <1>3, <2>3, AppendProperties
    <3> HIDE DEF ft
    <3>3. /\ decl_scope' \in [DOMAIN tunit.decls -> {None} \cup DOMAIN ft]
          /\ def_scope' \in [DOMAIN tunit.defs -> {None} \cup DOMAIN ft]
      <4>1. Len(ft) \in {None} \cup DOMAIN ft /\ Len(func_table) <= Len(ft)
        BY <3>2, <1>3
      <4> QED BY <4>1, <3>1, <3>2, <2>1, ScopesGrow
    <3>4. HeapTypeOK'
      BY <3>1, <3>2, <3>3, <2>1, <1>3, HeapTypeGrows
    <3> QED BY <3>1, <3>2, <3>4, <2>1, <1>2, <1>3 DEF BuilderTypeOK
  <2>5. CASE builder_scope # Global
    <3>1. UNCHANGED heap
      BY <1>7, <2>5, <2>1 DEF VisitFunctionDeclaration, heap
    <3> QED BY <3>1, <2>1, <1>5 DEF BuilderTypeOK
  <2> QED BY <2>4, <2>5
<1>8. CASE DefineFunction
  <2> DEFINE ft == Append(func_table, CreateFunction(tunit.defs[i], "def", i, FALSE))
  <2>1. builder_pos.at = "def" /\ builder_pos' = After(tunit, builder_pos)
        /\ tunit' = tunit /\ decl_scope' = decl_scope /\ id_symbol' = id_symbol
        /\ call_symbol' = call_symbol /\ builder_errors' = builder_errors
        /\ func_table' = ft /\ def_scope' = [def_scope EXCEPT ![i] = Len(ft)]
        /\ builder_scope' = Len(ft)
    BY <1>8 DEF DefineFunction, InBuilder
  <2>2. i \in DOMAIN tunit.defs
    BY <2>1 DEF Within
  <2>3. CreateFunction(tunit.defs[i], "def", i, FALSE) \in FuncSymbol
    BY <1>1, <1>4, <2>2, UnitType, CreateFunctionType
  <2>4. ft \in Seq(FuncSymbol) /\ Len(ft) = Len(func_table) + 1
    BY <1>3, <2>3, AppendProperties
  <2> HIDE DEF ft
  <2>5. /\ decl_scope' \in [DOMAIN tunit.decls -> {None} \cup DOMAIN ft]
        /\ def_scope' \in [DOMAIN tunit.defs -> {None} \cup DOMAIN ft]
    <3>1. Len(ft) \in {None} \cup DOMAIN ft /\ Len(func_table) <= Len(ft)
      BY <2>4, <1>3
    <3> QED BY <3>1, <2>1, <2>4, ScopesGrow
  <2>6. HeapTypeOK'
    BY <2>1, <2>4, <2>5, <1>3, HeapTypeGrows
  <2> QED BY <2>1, <2>4, <2>6, <1>2, <1>3 DEF BuilderTypeOK
<1>9. CASE MergeDeclaration
  <2> DEFINE f == ResolveFunc(DefinitionName)
             ft == [func_table EXCEPT ![f].is_declaration = FALSE]
  <2>1. builder_pos.at = "def" /\ builder_pos' = After(tunit, builder_pos)
        /\ tunit' = tunit /\ decl_scope' = decl_scope /\ id_symbol' = id_symbol
        /\ call_symbol' = call_symbol /\ builder_errors' = builder_errors
        /\ func_table' = ft /\ def_scope' = [def_scope EXCEPT ![i] = f]
        /\ builder_scope' = f /\ f # None
    BY <1>9 DEF MergeDeclaration, InBuilder
  <2>2. f \in DOMAIN func_table
    BY <2>1, <1>3, ResolveFuncResult
  <2> HIDE DEF f
  <2>3. ft \in Seq(FuncSymbol) /\ Len(ft) = Len(func_table)
    <3>1. func_table[f] \in FuncSymbol
      BY <2>2, <1>3
    <3>2. [func_table[f] EXCEPT !.is_declaration = FALSE] \in FuncSymbol
      BY <3>1 DEF FuncSymbol
    <3>3. ft = [func_table EXCEPT ![f] = [func_table[f] EXCEPT !.is_declaration = FALSE]]
      BY <2>2
    <3> QED BY <3>2, <3>3, <2>2, <1>3, ExceptSeq
  <2> HIDE DEF ft
  <2>4. /\ decl_scope' \in [DOMAIN tunit.decls -> {None} \cup DOMAIN ft]
        /\ def_scope' \in [DOMAIN tunit.defs -> {None} \cup DOMAIN ft]
    <3>1. f \in {None} \cup DOMAIN ft /\ Len(func_table) <= Len(ft)
      BY <2>2, <2>3, <1>3
    <3> QED BY <3>1, <2>1, <2>3, ScopesGrow
  <2>5. HeapTypeOK'
    BY <2>1, <2>3, <2>4, <1>3, HeapTypeGrows
  <2> QED BY <2>1, <2>2, <2>3, <2>5, <1>2, <1>3 DEF BuilderTypeOK
<1>10. CASE RejectRedefinition
  <2> DEFINE f == ResolveFunc(DefinitionName)
             e == [name |-> func_table[f].name, previous |-> func_table[f].node]
  <2>1. UNCHANGED <<heap, builder_scope>> /\ builder_pos' = After(tunit, builder_pos)
        /\ (builder_scope = Global => f # None)
        /\ builder_errors' = IF builder_scope = Global THEN Append(builder_errors, e)
                             ELSE builder_errors
    BY <1>10 DEF RejectRedefinition, InBuilder
  <2>2. builder_scope = Global => e \in Redefinition
    <3>1. SUFFICES ASSUME builder_scope = Global PROVE e \in Redefinition
      OBVIOUS
    <3>2. f \in DOMAIN func_table
      BY <2>1, <3>1, <1>3, ResolveFuncResult
    <3>3. func_table[f] \in FuncSymbol
      BY <3>2, <1>3
    <3> QED BY <3>3 DEF FuncSymbol, Redefinition
  <2> HIDE DEF e, f
  <2>3. builder_errors' \in Seq(Redefinition)
    BY <2>1, <2>2 DEF BuilderTypeOK
  <2> QED BY <2>1, <2>3, <1>5 DEF BuilderTypeOK
<1>11. CASE VisitVariableDeclaration
  <2> DEFINE x == tunit.defs[i].vars[builder_pos.k]
             v == NewVariable(x, "var", i, builder_pos.k)
             ft == [func_table EXCEPT ![builder_scope].var_table[x] = v]
  <2>1. builder_pos.at = "var" /\ builder_pos' = After(tunit, builder_pos)
        /\ tunit' = tunit /\ decl_scope' = decl_scope /\ id_symbol' = id_symbol
        /\ def_scope' = def_scope /\ builder_scope' = builder_scope
        /\ call_symbol' = call_symbol /\ builder_errors' = builder_errors
        /\ func_table' = IF builder_scope = Global THEN func_table ELSE ft
    BY <1>11 DEF VisitVariableDeclaration, InBuilder
  <2>2. CASE builder_scope = Global
    <3>1. UNCHANGED heap
      BY <2>1, <2>2 DEF heap
    <3> QED BY <3>1, <2>1, <1>5 DEF BuilderTypeOK
  <2>3. CASE builder_scope # Global
    <3>1. builder_scope \in DOMAIN func_table
      BY <2>3 DEF BuilderTypeOK
    <3>2. x \in VarNames
      <4>1. i \in DOMAIN tunit.defs /\ builder_pos.k \in DOMAIN tunit.defs[i].vars
        BY <2>1 DEF Within
      <4>2. tunit.defs[i].vars \in Seq(VarNames)
        BY <4>1, <1>1, UnitType
      <4> QED BY <4>1, <4>2
    <3>3. v \in VariableSymbol
      BY <3>2, <1>4 DEF NewVariable, VariableSymbol
    <3> HIDE DEF x, v
    <3>4. func_table[builder_scope] \in FuncSymbol
      BY <3>1, <1>3
    <3> DEFINE g == [func_table[builder_scope] EXCEPT !.var_table[x] = v]
    <3>5. g \in FuncSymbol
      <4> HIDE DEF NoVariable
      <4> QED BY <3>2, <3>3, <3>4 DEF FuncSymbol
    <3>6. ft = [func_table EXCEPT ![builder_scope] = g]
      BY <3>1
    <3> HIDE DEF g
    <3>7. ft \in Seq(FuncSymbol) /\ Len(ft) = Len(func_table)
      BY <3>1, <3>5, <3>6, <1>3, ExceptSeq
    <3> HIDE DEF ft
    <3>8. /\ decl_scope' \in [DOMAIN tunit.decls -> {None} \cup DOMAIN ft]
          /\ def_scope' \in [DOMAIN tunit.defs -> {None} \cup DOMAIN ft]
      BY <2>1, <3>7, <1>3 DEF HeapTypeOK
    <3>9. HeapTypeOK'
      BY <2>1, <2>3, <3>7, <3>8, <1>3, HeapTypeGrows
    <3> QED BY <2>1, <2>3, <3>7, <3>9, <1>2, <1>3 DEF BuilderTypeOK
  <2> QED BY <2>2, <2>3
<1>12. CASE VisitBodyNode
  BY <1>12, <1>5 DEF VisitBodyNode, InBuilder, BuilderTypeOK
<1>13. CASE HandlePostFuncDef
  BY <1>13, <1>5 DEF HandlePostFuncDef, InBuilder, BuilderTypeOK
<1> QED
  BY <1>6, <1>7, <1>8, <1>9, <1>10, <1>11, <1>12, <1>13 DEF BuilderNext

(* A binding is entered under its reference. *)
LEMMA PutType ==
  ASSUME NEW D, NEW S, NEW map, DOMAIN map \subseteq D, Range(map) \subseteq S,
         NEW key \in D, NEW v \in S
  PROVE  /\ DOMAIN Put(map, key, v) = DOMAIN map \cup {key}
         /\ DOMAIN Put(map, key, v) \subseteq D
         /\ Range(Put(map, key, v)) \subseteq S
         /\ \A r \in DOMAIN Put(map, key, v) :
              Put(map, key, v)[r] = IF r = key THEN v ELSE map[r]
<1>1. \A x \in DOMAIN map : map[x] \in S
  BY DEF Range
<1> QED BY <1>1 DEF Put, Range

(* The node the resolver visits is one of the unit. *)
LEMMA VisitedType ==
  ASSUME HeapTypeOK, ResolverTypeOK, Within(tunit, resolver_pos),
         resolver_pos.at = "node"
  PROVE  /\ resolver_pos.fn \in DOMAIN tunit.defs
         /\ resolver_pos.k \in DOMAIN tunit.defs[resolver_pos.fn].body
         /\ Visited \in Node
         /\ Here \in Reference
<1>1. tunit \in TranslationUnit /\ resolver_pos \in Position
  BY TunitType DEF ResolverTypeOK
<1>2. /\ resolver_pos.fn \in DOMAIN tunit.defs
      /\ resolver_pos.k \in DOMAIN tunit.defs[resolver_pos.fn].body
  BY DEF Within
<1>3. tunit.defs[resolver_pos.fn].body \in Seq(Node)
  BY <1>1, <1>2, UnitType
<1>4. Visited \in Node
  BY <1>2, <1>3 DEF Visited
<1>5. Here \in Reference
  BY <1>1 DEF Here, Position, Reference
<1> QED BY <1>2, <1>4, <1>5

(* The type invariant of the heap and the resolver, step by step. *)
LEMMA ResolverTypeStep ==
  ASSUME HeapTypeOK, ResolverTypeOK, Within(tunit, resolver_pos), ResolverNext
  PROVE  /\ HeapTypeOK' /\ ResolverTypeOK' /\ Within(tunit, resolver_pos)'
         /\ UNCHANGED <<tunit, func_table, decl_scope, def_scope>>
<1> DEFINE Goal == /\ HeapTypeOK' /\ ResolverTypeOK' /\ Within(tunit, resolver_pos)'
                   /\ UNCHANGED <<tunit, func_table, decl_scope, def_scope>>
<1>1. tunit \in TranslationUnit /\ resolver_pos \in Position
  BY TunitType DEF ResolverTypeOK
<1>2. After(tunit, resolver_pos) \in Position /\ Within(tunit, After(tunit, resolver_pos))
  BY <1>1, AfterType
<1>3. ASSUME UNCHANGED <<tunit, func_table, decl_scope, def_scope>>,
             DOMAIN id_symbol' \subseteq Reference, Range(id_symbol') \subseteq VariableSymbol,
             DOMAIN call_symbol' \subseteq Reference,
             Range(call_symbol') \subseteq DOMAIN func_table,
             resolver_pos' = After(tunit, resolver_pos),
             resolver_scope' \in {Global} \cup DOMAIN func_table,
             resolver_errors' \in Seq(Reference)
      PROVE  Goal
  <2>1. Range(id_symbol)' = Range(id_symbol') /\ Range(call_symbol)' = Range(call_symbol')
    BY DEF Range
  <2>2. HeapTypeOK'
    BY <1>3, <2>1 DEF HeapTypeOK
  <2>3. ResolverTypeOK' /\ Within(tunit, resolver_pos)'
    BY <1>3, <1>2 DEF ResolverTypeOK
  <2> QED BY <1>3, <2>2, <2>3
<1>4. /\ DOMAIN id_symbol \subseteq Reference
      /\ Range(id_symbol) \subseteq VariableSymbol
      /\ DOMAIN call_symbol \subseteq Reference
      /\ Range(call_symbol) \subseteq DOMAIN func_table
      /\ func_table \in Seq(FuncSymbol)
      /\ resolver_scope \in {Global} \cup DOMAIN func_table
      /\ resolver_errors \in Seq(Reference)
  BY DEF HeapTypeOK, ResolverTypeOK
<1>5. CASE EnterDefinition
  <2>1. /\ resolver_pos' = After(tunit, resolver_pos) /\ resolver_pos.at = "def"
        /\ resolver_scope' = def_scope[resolver_pos.fn]
        /\ UNCHANGED <<heap, resolver_errors>>
    BY <1>5 DEF EnterDefinition, InResolver
  <2>2. def_scope[resolver_pos.fn] \in {Global} \cup DOMAIN func_table
    BY <2>1 DEF HeapTypeOK, Within, Global, None
  <2> QED BY <2>1, <2>2, <1>3, <1>4 DEF heap
<1>6. CASE VisitCallExpression
  <2> DEFINE f == ResolveCall(Visited.name, Visited.args)
  <2>1. /\ resolver_pos' = After(tunit, resolver_pos) /\ resolver_pos.at = "node"
        /\ UNCHANGED <<tunit, func_table, decl_scope, def_scope, id_symbol, resolver_scope>>
        /\ IF f # None
           THEN call_symbol' = Put(call_symbol, Here, f) /\ UNCHANGED resolver_errors
           ELSE resolver_errors' = Append(resolver_errors, Here) /\ UNCHANGED call_symbol
    BY <1>6 DEF VisitCallExpression, InResolver
  <2>2. Here \in Reference
    BY <2>1, VisitedType
  <2>3. f # None => f \in DOMAIN func_table
    BY <1>4, ResolveCallResult
  <2> HIDE DEF f
  <2>4. CASE f # None
    <3>1. call_symbol' = Put(call_symbol, Here, f) /\ UNCHANGED resolver_errors
      BY <2>1, <2>4
    <3>2. /\ DOMAIN call_symbol' \subseteq Reference
          /\ Range(call_symbol') \subseteq DOMAIN func_table
      <4> DEFINE S == DOMAIN func_table
      <4>1. f \in S /\ Range(call_symbol) \subseteq S
        BY <2>3, <2>4, <1>4
      <4> HIDE DEF S
      <4>2. /\ DOMAIN call_symbol' \subseteq Reference
            /\ Range(call_symbol') \subseteq S
        BY <4>1, <3>1, <2>2, <1>4, PutType
      <4> QED BY <4>2 DEF S
    <3> QED BY <3>1, <3>2, <2>1, <1>3, <1>4
  <2>5. CASE f = None
    <3>1. resolver_errors' \in Seq(Reference) /\ UNCHANGED call_symbol
      BY <2>1, <2>2, <2>5, <1>4, AppendProperties
    <3> QED BY <3>1, <2>1, <1>3, <1>4
  <2> QED BY <2>4, <2>5
<1>7. CASE VisitIdentifier
  <2> DEFINE v == ResolveVariable(resolver_scope, Visited.name)
  <2>1. /\ resolver_pos' = After(tunit, resolver_pos) /\ resolver_pos.at = "node"
        /\ Visited \in Ident
        /\ UNCHANGED <<tunit, func_table, decl_scope, def_scope, call_symbol, resolver_scope>>
        /\ IF v # NoVariable
           THEN id_symbol' = Put(id_symbol, Here, v) /\ UNCHANGED resolver_errors
           ELSE resolver_errors' = Append(resolver_errors, Here) /\ UNCHANGED id_symbol
    BY <1>7 DEF VisitIdentifier, InResolver
  <2>2. Here \in Reference
    BY <2>1, VisitedType
  <2>3. Visited.name \in VarNames
    BY <2>1 DEF Ident
  <2>4. v # NoVariable => v \in VariableSymbol
    <3>1. resolver_scope = Global => v = NoVariable
      BY DEF ResolveVariable
    <3> QED BY <3>1, <2>3, <1>4, ResolveVariableResult
  <2> HIDE DEF v
  <2>5. CASE v # NoVariable
    <3>1. id_symbol' = Put(id_symbol, Here, v) /\ UNCHANGED resolver_errors
      BY <2>1, <2>5
    <3>2. /\ DOMAIN id_symbol' \subseteq Reference
          /\ Range(id_symbol') \subseteq VariableSymbol
      BY <3>1, <2>2, <2>4, <2>5, <1>4, PutType
    <3> QED BY <3>1, <3>2, <2>1, <1>3, <1>4
  <2>6. CASE v = NoVariable
    <3>1. resolver_errors' \in Seq(Reference) /\ UNCHANGED id_symbol
      BY <2>1, <2>2, <2>6, <1>4, AppendProperties
    <3> QED BY <3>1, <2>1, <1>3, <1>4
  <2> QED BY <2>5, <2>6
<1>8. CASE VisitOther
  BY <1>8, <1>3, <1>4 DEF VisitOther, heap
<1> QED BY <1>5, <1>6, <1>7, <1>8 DEF ResolverNext

(* The analysis begins well typed and at the root of the tree. *)
LEMMA TypeInvInit == AnalyzerInit => TypeInv
<1> SUFFICES ASSUME AnalyzerInit PROVE TypeInv
  OBVIOUS
<1> USE DEF AnalyzerInit, HeapInit, BuilderInit, ResolverInit
<1>1. HeapTypeOK
  BY DEF HeapTypeOK, EmptyMap, Range
<1>2. BuilderTypeOK /\ Within(tunit, builder_pos)
  BY DEF BuilderTypeOK, Start, At, Position, Within
<1>3. ResolverTypeOK /\ Within(tunit, resolver_pos)
  BY DEF ResolverTypeOK, Start, At, Position, Within
<1> QED BY <1>1, <1>2, <1>3 DEF TypeInv, AnalyzerTypeOK, Phase

(* No step of the analysis breaks a type or leaves the tree. *)
LEMMA TypeInvStep == TypeInv /\ [AnalyzerNext]_analyzer_vars => TypeInv'
<1> SUFFICES ASSUME TypeInv, [AnalyzerNext]_analyzer_vars PROVE TypeInv'
  OBVIOUS
<1>1. /\ HeapTypeOK /\ BuilderTypeOK /\ ResolverTypeOK /\ phase \in Phase
      /\ Within(tunit, builder_pos) /\ Within(tunit, resolver_pos)
  BY DEF TypeInv, AnalyzerTypeOK
<1>2. ASSUME UNCHANGED <<heap, builder_vars, resolver_vars>>, phase' \in Phase
      PROVE  TypeInv'
  BY <1>1, <1>2 DEF TypeInv, AnalyzerTypeOK, heap, builder_vars, resolver_vars,
       HeapTypeOK, BuilderTypeOK, ResolverTypeOK, Range
<1>3. CASE Build
  <2>1. BuilderNext /\ UNCHANGED <<resolver_vars, phase>>
    BY <1>3 DEF Build
  <2>2. /\ HeapTypeOK' /\ BuilderTypeOK' /\ Within(tunit, builder_pos)'
        /\ tunit' = tunit /\ Len(func_table) <= Len(func_table')
    BY <1>1, <2>1, BuilderTypeStep
  <2>3. DOMAIN func_table \subseteq DOMAIN func_table'
    BY <1>1, <2>2 DEF HeapTypeOK
  <2>4. ResolverTypeOK' /\ Within(tunit, resolver_pos)'
    BY <1>1, <2>1, <2>2, <2>3 DEF ResolverTypeOK, resolver_vars
  <2> QED BY <1>1, <2>1, <2>2, <2>4 DEF TypeInv, AnalyzerTypeOK
<1>4. CASE Resolve
  <2>1. ResolverNext /\ UNCHANGED <<builder_vars, phase>>
    BY <1>4 DEF Resolve
  <2>2. /\ HeapTypeOK' /\ ResolverTypeOK' /\ Within(tunit, resolver_pos)'
        /\ UNCHANGED <<tunit, func_table, decl_scope, def_scope>>
    BY <1>1, <2>1, ResolverTypeStep
  <2>3. BuilderTypeOK' /\ Within(tunit, builder_pos)'
    BY <1>1, <2>1, <2>2 DEF BuilderTypeOK, builder_vars
  <2> QED BY <1>1, <2>1, <2>2, <2>3 DEF TypeInv, AnalyzerTypeOK
<1>5. CASE FinishBuilding
  BY <1>5, <1>2 DEF FinishBuilding, Phase
<1>6. CASE FinishResolving
  BY <1>6, <1>2 DEF FinishResolving, Phase
<1>7. CASE AnalysisOver \/ UNCHANGED analyzer_vars
  BY <1>1, <1>7, <1>2 DEF AnalysisOver, analyzer_vars
<1> QED BY <1>3, <1>4, <1>5, <1>6, <1>7 DEF AnalyzerNext

(* The analysis is well typed: whatever unit it is given, every scope,      *)
(* symbol and binding it makes is one of the function table's, and the      *)
(* accepter never leaves the tree.                                          *)
THEOREM TypeCorrect == AnalyzerSpec => []AnalyzerTypeOK
<1>1. TypeInv => AnalyzerTypeOK
  BY DEF TypeInv
<1> QED BY TypeInvInit, TypeInvStep, <1>1, PTL DEF AnalyzerSpec

----------------------------------------------------------------------------
(* What the accepter has passed, step by step. *)

(* Passing the unit itself or a declaration: no definition is passed yet. *)
LEMMA PassDecl ==
  ASSUME NEW t \in TranslationUnit, NEW p \in Position,
         p.at \in {"unit", "decl"}, Within(t, p)
  PROVE  /\ \A j \in DOMAIN t.decls :
              DeclPassed(After(t, p), j) <=>
                DeclPassed(p, j) \/ (p.at = "decl" /\ j = p.fn)
         /\ \A j \in DOMAIN t.defs : ~DefPassed(After(t, p), j) /\ ~DefPassed(p, j)
<1> DEFINE q == After(t, p)
<1>1. t.decls \in Seq(Prototype) /\ t.defs \in Seq(Definition)
  BY UnitType
<1>2. p.fn \in Nat /\ p.at \in {"unit", "decl"}
  BY DEF Position
<1>3. /\ q \in Position
      /\ q.at \in {"decl", "def", "end"}
      /\ q.at = "decl" => q.fn = IF p.at = "unit" THEN 1 ELSE p.fn + 1
      /\ q.at = "def" => q.fn = 1
      /\ q.at = "end" => Len(t.defs) = 0
      /\ q.at # "decl" => Len(t.decls) = IF p.at = "unit" THEN 0 ELSE p.fn
  BY AfterDecl
<1> HIDE DEF q
<1>4. ASSUME NEW j \in DOMAIN t.decls
      PROVE  DeclPassed(q, j) <=> DeclPassed(p, j) \/ (p.at = "decl" /\ j = p.fn)
  <2>1. j \in Nat /\ j > 0 /\ j <= Len(t.decls)
    BY <1>1
  <2> QED BY <2>1, <1>2, <1>3 DEF DeclPassed
<1>5. ASSUME NEW j \in DOMAIN t.defs
      PROVE  ~DefPassed(q, j) /\ ~DefPassed(p, j)
  <2>1. j \in Nat /\ j > 0 /\ j <= Len(t.defs)
    BY <1>1
  <2> QED BY <2>1, <1>2, <1>3 DEF DefPassed
<1> QED BY <1>4, <1>5 DEF q

(* Entering a definition passes it, and it alone. *)
LEMMA PassDef ==
  ASSUME NEW t \in TranslationUnit, NEW p \in Position, p.at = "def", Within(t, p)
  PROVE  /\ \A j \in DOMAIN t.decls : DeclPassed(After(t, p), j) /\ DeclPassed(p, j)
         /\ \A j \in DOMAIN t.defs :
              DefPassed(After(t, p), j) <=> DefPassed(p, j) \/ j = p.fn
         /\ ~DefPassed(p, p.fn)
<1> DEFINE q == After(t, p)
<1>1. t.defs \in Seq(Definition) /\ p.fn \in Nat
  BY UnitType DEF Position
<1>2. q.at \in {"var", "node", "post_def"} /\ q.fn = p.fn
  BY AfterDef
<1> HIDE DEF q
<1>3. ASSUME NEW j \in DOMAIN t.defs
      PROVE  DefPassed(q, j) <=> DefPassed(p, j) \/ j = p.fn
  <2>1. j \in Nat
    BY <1>1
  <2> QED BY <2>1, <1>1, <1>2 DEF DefPassed
<1>4. \A j \in DOMAIN t.decls : DeclPassed(q, j) /\ DeclPassed(p, j)
  BY <1>2 DEF DeclPassed
<1>5. ~DefPassed(p, p.fn)
  BY <1>1 DEF DefPassed
<1> QED BY <1>3, <1>4, <1>5 DEF q

(* Inside a definition, and on leaving it, nothing more is passed. *)
LEMMA PassBody ==
  ASSUME NEW t \in TranslationUnit, NEW p \in Position,
         p.at \in {"var", "node", "post_def"}, Within(t, p)
  PROVE  /\ \A j \in DOMAIN t.decls : DeclPassed(After(t, p), j) /\ DeclPassed(p, j)
         /\ \A j \in DOMAIN t.defs : DefPassed(After(t, p), j) <=> DefPassed(p, j)
<1> DEFINE q == After(t, p)
<1>1. t.defs \in Seq(Definition) /\ p.fn \in Nat
  BY UnitType DEF Position
<1>2. \/ q.at \in {"var", "node", "post_def"} /\ q.fn = p.fn
      \/ q.at = "def" /\ q.fn = p.fn + 1
      \/ q.at = "end" /\ p.fn = Len(t.defs)
  BY AfterDef, AfterPostDef
<1> HIDE DEF q
<1>3. ASSUME NEW j \in DOMAIN t.defs
      PROVE  DefPassed(q, j) <=> DefPassed(p, j)
  <2>1. j \in Nat /\ j <= Len(t.defs)
    BY <1>1
  <2> QED BY <2>1, <1>1, <1>2 DEF DefPassed
<1>4. \A j \in DOMAIN t.decls : DeclPassed(q, j) /\ DeclPassed(p, j)
  BY <1>2 DEF DeclPassed
<1> QED BY <1>3, <1>4 DEF q

----------------------------------------------------------------------------
(* The inductive invariant of the first pass. *)

(* The first function symbol of a new entry, and what an entry keeps. *)
LEMMA AppendEntry ==
  ASSUME func_table \in Seq(FuncSymbol), NEW e, func_table' = Append(func_table, e)
  PROVE  /\ Len(func_table') = Len(func_table) + 1
         /\ DOMAIN func_table' = DOMAIN func_table \cup {Len(func_table')}
         /\ Len(func_table') \notin DOMAIN func_table
         /\ func_table'[Len(func_table')] = e
         /\ \A f \in DOMAIN func_table : func_table'[f] = func_table[f]
OBVIOUS

(* The state in which every part of the invariant is known to hold. *)
BuilderFacts ==
  /\ ScopeBalanced /\ BuilderInside /\ ScopesBound /\ BoundOnce /\ TableByName

(* A new function symbol of a declaration or a definition. *)
LEMMA FactsOfDeclaration ==
  ASSUME TypeInv, TypeInv', BuilderFacts, VisitFunctionDeclaration
  PROVE  BuilderFacts'
<1> DEFINE i == builder_pos.fn
           q == After(tunit, builder_pos)
           e == CreateFunction(tunit.decls[i], "decl", i, TRUE)
<1>1. /\ HeapTypeOK /\ BuilderTypeOK /\ Within(tunit, builder_pos)
      /\ tunit \in TranslationUnit /\ builder_pos \in Position
      /\ func_table \in Seq(FuncSymbol)
      /\ decl_scope \in [DOMAIN tunit.decls -> {None} \cup DOMAIN func_table]
      /\ def_scope \in [DOMAIN tunit.defs -> {None} \cup DOMAIN func_table]
  BY TunitType DEF TypeInv, AnalyzerTypeOK, HeapTypeOK, BuilderTypeOK
<1>2. /\ builder_pos.at = "decl" /\ builder_pos' = q
      /\ UNCHANGED <<tunit, def_scope, builder_scope, builder_errors>>
  BY DEF VisitFunctionDeclaration, InBuilder
<1>3. builder_scope = Global
  BY <1>2 DEF BuilderFacts, ScopeBalanced
<1>4. func_table' = Append(func_table, e)
      /\ decl_scope' = [decl_scope EXCEPT ![i] = Len(func_table')]
  BY <1>3 DEF VisitFunctionDeclaration
<1>5. i \in DOMAIN tunit.decls
  BY <1>2 DEF TypeInv, Within
<1>6. /\ Len(func_table') = Len(func_table) + 1
      /\ DOMAIN func_table' = DOMAIN func_table \cup {Len(func_table')}
      /\ Len(func_table') \notin DOMAIN func_table
      /\ func_table'[Len(func_table')] = e
      /\ \A f \in DOMAIN func_table : func_table'[f] = func_table[f]
  BY <1>1, <1>4, AppendEntry
<1>7. e.is_declaration = TRUE /\ e.var_table = [x \in VarNames |-> NoVariable]
  BY DEF CreateFunction
<1>8. q.at \in {"decl", "def", "end"}
  BY <1>1, <1>2, AfterDecl
<1>9. /\ \A j \in DOMAIN tunit.decls : DeclPassed(q, j) <=> DeclPassed(builder_pos, j) \/ j = i
      /\ \A j \in DOMAIN tunit.defs : ~DefPassed(q, j) /\ ~DefPassed(builder_pos, j)
  BY <1>1, <1>2, PassDecl
<1>10. Len(func_table) \in Nat /\ Len(func_table') # None
  BY <1>1, <1>6 DEF None
<1> HIDE DEF q, e
<1>11. ScopeBalanced' /\ BuilderInside'
  BY <1>2, <1>3, <1>8 DEF ScopeBalanced, BuilderInside
<1>12. ScopesBound'
  BY <1>1, <1>2, <1>4, <1>5, <1>9, <1>10 DEF BuilderFacts, ScopesBound
<1>13. BoundOnce'
  <2>1. \A j \in DOMAIN def_scope : def_scope[j] # Len(func_table')
    BY <1>1, <1>6, <1>10
  <2> QED BY <2>1, <1>2, <1>6, <1>7 DEF BuilderFacts, BoundOnce
<1>14. TableByName'
  BY <1>6, <1>7 DEF BuilderFacts, TableByName
<1> QED BY <1>11, <1>12, <1>13, <1>14 DEF BuilderFacts

(* A definition whose name is new gets a function symbol of its own. *)
LEMMA FactsOfDefinition ==
  ASSUME TypeInv, TypeInv', BuilderFacts, DefineFunction
  PROVE  BuilderFacts'
<1> DEFINE i == builder_pos.fn
           q == After(tunit, builder_pos)
           e == CreateFunction(tunit.defs[i], "def", i, FALSE)
<1>1. /\ HeapTypeOK /\ BuilderTypeOK /\ Within(tunit, builder_pos)
      /\ tunit \in TranslationUnit /\ builder_pos \in Position
      /\ func_table \in Seq(FuncSymbol)
      /\ decl_scope \in [DOMAIN tunit.decls -> {None} \cup DOMAIN func_table]
      /\ def_scope \in [DOMAIN tunit.defs -> {None} \cup DOMAIN func_table]
  BY TunitType DEF TypeInv, AnalyzerTypeOK, HeapTypeOK, BuilderTypeOK
<1>2. /\ builder_pos.at = "def" /\ builder_pos' = q
      /\ UNCHANGED <<tunit, decl_scope, builder_errors>>
      /\ func_table' = Append(func_table, e)
      /\ def_scope' = [def_scope EXCEPT ![i] = Len(func_table')]
      /\ builder_scope' = Len(func_table')
  BY DEF DefineFunction, InBuilder
<1>3. i \in DOMAIN tunit.defs
  BY <1>2 DEF TypeInv, Within
<1>4. /\ Len(func_table') = Len(func_table) + 1
      /\ DOMAIN func_table' = DOMAIN func_table \cup {Len(func_table')}
      /\ Len(func_table') \notin DOMAIN func_table
      /\ func_table'[Len(func_table')] = e
      /\ \A f \in DOMAIN func_table : func_table'[f] = func_table[f]
  BY <1>1, <1>2, AppendEntry
<1>5. e.is_declaration = FALSE /\ e.var_table = [x \in VarNames |-> NoVariable]
  BY DEF CreateFunction
<1>6. q.at \in {"var", "node", "post_def"} /\ q.fn = i
  BY <1>1, <1>2, AfterDef
<1>7. /\ \A j \in DOMAIN tunit.decls : DeclPassed(q, j) /\ DeclPassed(builder_pos, j)
      /\ \A j \in DOMAIN tunit.defs : DefPassed(q, j) <=> DefPassed(builder_pos, j) \/ j = i
      /\ ~DefPassed(builder_pos, i)
  BY <1>1, <1>2, PassDef
<1>8. Len(func_table) \in Nat /\ Len(func_table') # None
  BY <1>1, <1>4 DEF None
<1>9. def_scope[i] = None
  BY <1>1, <1>3, <1>7 DEF BuilderFacts, ScopesBound
<1>10. \A j \in DOMAIN def_scope : def_scope[j] # Len(func_table')
  BY <1>1, <1>4, <1>8
<1> HIDE DEF q, e
<1>11. ScopeBalanced' /\ BuilderInside'
  BY <1>1, <1>2, <1>3, <1>6 DEF ScopeBalanced, BuilderInside
<1>12. ScopesBound'
  BY <1>1, <1>2, <1>3, <1>7, <1>8 DEF BuilderFacts, ScopesBound
<1>13. BoundOnce'
  <2>1. \A j \in DOMAIN def_scope : def_scope'[j] = IF j = i THEN Len(func_table') ELSE def_scope[j]
    BY <1>1, <1>2
  <2>2. DOMAIN def_scope' = DOMAIN def_scope /\ i \in DOMAIN def_scope
    BY <1>1, <1>2, <1>3
  <2>3. ASSUME NEW f \in DOMAIN func_table'
        PROVE  func_table'[f].is_declaration <=> \A j \in DOMAIN def_scope' : def_scope'[j] # f
    <3>1. CASE f = Len(func_table')
      BY <3>1, <2>1, <2>2, <1>4, <1>5
    <3>2. CASE f \in DOMAIN func_table
      <4>1. f # None
        BY <3>2, <1>1 DEF None
      <4> QED BY <4>1, <3>2, <2>1, <2>2, <1>4, <1>9 DEF BuilderFacts, BoundOnce
    <3> QED BY <3>1, <3>2, <1>4
  <2>4. ASSUME NEW j \in DOMAIN def_scope', NEW k \in DOMAIN def_scope',
               def_scope'[j] = def_scope'[k], def_scope'[j] # None
        PROVE  j = k
    BY <2>1, <2>2, <2>4, <1>10 DEF BuilderFacts, BoundOnce
  <2> QED BY <2>3, <2>4 DEF BoundOnce
<1>14. TableByName'
  BY <1>4, <1>5 DEF BuilderFacts, TableByName
<1> QED BY <1>11, <1>12, <1>13, <1>14 DEF BuilderFacts

(* A definition that takes over the symbol of a declaration. *)
LEMMA FactsOfMerge ==
  ASSUME TypeInv, TypeInv', BuilderFacts, MergeDeclaration
  PROVE  BuilderFacts'
<1> DEFINE i == builder_pos.fn
           q == After(tunit, builder_pos)
           f == ResolveFunc(DefinitionName)
<1>1. /\ HeapTypeOK /\ BuilderTypeOK /\ Within(tunit, builder_pos)
      /\ tunit \in TranslationUnit /\ builder_pos \in Position
      /\ func_table \in Seq(FuncSymbol)
      /\ decl_scope \in [DOMAIN tunit.decls -> {None} \cup DOMAIN func_table]
      /\ def_scope \in [DOMAIN tunit.defs -> {None} \cup DOMAIN func_table]
  BY TunitType DEF TypeInv, AnalyzerTypeOK, HeapTypeOK, BuilderTypeOK
<1>2. /\ builder_pos.at = "def" /\ builder_pos' = q
      /\ UNCHANGED <<tunit, decl_scope, builder_errors>>
      /\ f # None /\ func_table[f].is_declaration
      /\ func_table' = [func_table EXCEPT ![f].is_declaration = FALSE]
      /\ def_scope' = [def_scope EXCEPT ![i] = f]
      /\ builder_scope' = f
  BY DEF MergeDeclaration, InBuilder
<1>3. i \in DOMAIN tunit.defs
  BY <1>2 DEF TypeInv, Within
<1>4. f \in DOMAIN func_table
  BY <1>1, <1>2, ResolveFuncResult
<1>5. q.at \in {"var", "node", "post_def"} /\ q.fn = i
  BY <1>1, <1>2, AfterDef
<1>6. /\ \A j \in DOMAIN tunit.decls : DeclPassed(q, j) /\ DeclPassed(builder_pos, j)
      /\ \A j \in DOMAIN tunit.defs : DefPassed(q, j) <=> DefPassed(builder_pos, j) \/ j = i
      /\ ~DefPassed(builder_pos, i)
  BY <1>1, <1>2, PassDef
<1>7. def_scope[i] = None
  BY <1>1, <1>3, <1>6 DEF BuilderFacts, ScopesBound
<1>8. \A j \in DOMAIN def_scope : def_scope[j] # f
  BY <1>2, <1>4 DEF BuilderFacts, BoundOnce
<1> HIDE DEF q, f
<1>9. /\ DOMAIN func_table' = DOMAIN func_table
      /\ \A g \in DOMAIN func_table :
           /\ func_table'[g].is_declaration = IF g = f THEN FALSE
                                              ELSE func_table[g].is_declaration
           /\ func_table'[g].var_table = func_table[g].var_table
  <2>1. func_table[f] \in FuncSymbol
    BY <1>1, <1>4
  <2> QED BY <2>1, <1>1, <1>2, <1>4 DEF FuncSymbol
<1>10. ScopeBalanced' /\ BuilderInside'
  BY <1>1, <1>2, <1>3, <1>5 DEF ScopeBalanced, BuilderInside
<1>11. ScopesBound'
  BY <1>1, <1>2, <1>3, <1>6 DEF BuilderFacts, ScopesBound
<1>12. BoundOnce'
  <2>1. \A j \in DOMAIN def_scope : def_scope'[j] = IF j = i THEN f ELSE def_scope[j]
    BY <1>1, <1>2
  <2>2. DOMAIN def_scope' = DOMAIN def_scope /\ i \in DOMAIN def_scope
    BY <1>1, <1>2, <1>3
  <2>3. ASSUME NEW g \in DOMAIN func_table'
        PROVE  func_table'[g].is_declaration <=> \A j \in DOMAIN def_scope' : def_scope'[j] # g
    <3>1. CASE g = f
      BY <3>1, <2>1, <2>2, <1>4, <1>9
    <3>2. CASE g # f
      <4>1. g # None /\ g \in DOMAIN func_table
        BY <1>1, <1>9 DEF None
      <4>2. (\A j \in DOMAIN def_scope' : def_scope'[j] # g)
            <=> (\A j \in DOMAIN def_scope : def_scope[j] # g)
        BY <4>1, <3>2, <2>1, <2>2, <1>7
      <4>3. func_table'[g].is_declaration = func_table[g].is_declaration
        BY <4>1, <3>2, <1>9
      <4> QED BY <4>1, <4>2, <4>3 DEF BuilderFacts, BoundOnce
    <3> QED BY <3>1, <3>2
  <2>4. ASSUME NEW j \in DOMAIN def_scope', NEW k \in DOMAIN def_scope',
               def_scope'[j] = def_scope'[k], def_scope'[j] # None
        PROVE  j = k
    <3>1. j \in DOMAIN def_scope /\ k \in DOMAIN def_scope
      BY <2>2
    <3>2. def_scope[j] = def_scope[k] /\ def_scope[j] # None => j = k
      BY <3>1 DEF BuilderFacts, BoundOnce
    <3>3. /\ def_scope'[j] = IF j = i THEN f ELSE def_scope[j]
          /\ def_scope'[k] = IF k = i THEN f ELSE def_scope[k]
          /\ def_scope[j] # f /\ def_scope[k] # f
      BY <2>1, <3>1, <1>8
    <3> HIDE DEF i
    <3> QED BY <2>4, <3>2, <3>3
  <2> QED BY <2>3, <2>4 DEF BoundOnce
<1>13. TableByName'
  <2>1. TableByName
    BY DEF BuilderFacts
  <2>2. \A g \in DOMAIN func_table' :
          g \in DOMAIN func_table /\ func_table'[g].var_table = func_table[g].var_table
    BY <1>9
  <2> QED BY <2>1, <2>2 DEF TableByName
<1> QED BY <1>10, <1>11, <1>12, <1>13 DEF BuilderFacts

(* A rejected definition leaves an error and no scope. *)
LEMMA FactsOfRejection ==
  ASSUME TypeInv, TypeInv', BuilderFacts, RejectRedefinition
  PROVE  BuilderFacts'
<1> DEFINE i == builder_pos.fn
           q == After(tunit, builder_pos)
<1>1. /\ HeapTypeOK /\ BuilderTypeOK /\ Within(tunit, builder_pos)
      /\ tunit \in TranslationUnit /\ builder_pos \in Position
      /\ decl_scope \in [DOMAIN tunit.decls -> {None} \cup DOMAIN func_table]
      /\ def_scope \in [DOMAIN tunit.defs -> {None} \cup DOMAIN func_table]
  BY TunitType DEF TypeInv, AnalyzerTypeOK, HeapTypeOK, BuilderTypeOK
<1>2. /\ builder_pos.at = "def" /\ builder_pos' = q
      /\ UNCHANGED <<tunit, func_table, decl_scope, def_scope, builder_scope>>
  BY DEF RejectRedefinition, InBuilder, heap
<1>3. builder_scope = Global
  BY <1>2 DEF BuilderFacts, ScopeBalanced
<1>4. PICK e : builder_errors' = Append(builder_errors, e)
  BY <1>3 DEF RejectRedefinition
<1>5. builder_errors' # <<>>
  <2>1. builder_errors' \in Seq(Redefinition) /\ builder_errors \in Seq(Redefinition)
    BY DEF TypeInv, AnalyzerTypeOK, BuilderTypeOK
  <2>2. Len(builder_errors') = Len(builder_errors) + 1
    BY <1>4, <2>1
  <2> QED BY <2>1, <2>2
<1>6. q.at \in {"var", "node", "post_def"} /\ q.fn = i
  BY <1>1, <1>2, AfterDef
<1>7. /\ \A j \in DOMAIN tunit.decls : DeclPassed(q, j) /\ DeclPassed(builder_pos, j)
      /\ \A j \in DOMAIN tunit.defs : DefPassed(q, j) <=> DefPassed(builder_pos, j) \/ j = i
  BY <1>1, <1>2, PassDef
<1> HIDE DEF q
<1>8. ScopeBalanced' /\ BuilderInside'
  BY <1>2, <1>3, <1>6 DEF ScopeBalanced, BuilderInside
<1>9. ScopesBound'
  BY <1>1, <1>2, <1>5, <1>7 DEF BuilderFacts, ScopesBound
<1>10. BoundOnce' /\ TableByName'
  BY <1>2 DEF BuilderFacts, BoundOnce, TableByName
<1> QED BY <1>8, <1>9, <1>10 DEF BuilderFacts

(* The callbacks inside a definition, and the one for the unit itself. *)
LEMMA FactsOfBody ==
  ASSUME TypeInv, TypeInv', BuilderFacts,
         VisitTranslationUnit \/ VisitVariableDeclaration \/ VisitBodyNode \/ HandlePostFuncDef
  PROVE  BuilderFacts'
<1> DEFINE i == builder_pos.fn
           q == After(tunit, builder_pos)
<1>1. /\ HeapTypeOK /\ BuilderTypeOK /\ Within(tunit, builder_pos)
      /\ tunit \in TranslationUnit /\ builder_pos \in Position
      /\ func_table \in Seq(FuncSymbol)
      /\ builder_scope \in {Global} \cup DOMAIN func_table
      /\ decl_scope \in [DOMAIN tunit.decls -> {None} \cup DOMAIN func_table]
      /\ def_scope \in [DOMAIN tunit.defs -> {None} \cup DOMAIN func_table]
  BY TunitType DEF TypeInv, AnalyzerTypeOK, HeapTypeOK, BuilderTypeOK
<1>2. /\ builder_pos' = q /\ builder_pos.at \in {"unit", "var", "node", "post_def"}
      /\ UNCHANGED <<tunit, decl_scope, def_scope, builder_errors>>
  BY DEF VisitTranslationUnit, VisitVariableDeclaration, VisitBodyNode, HandlePostFuncDef,
         InBuilder, heap
<1>3. /\ DOMAIN func_table' = DOMAIN func_table
      /\ \A g \in DOMAIN func_table : func_table'[g].is_declaration = func_table[g].is_declaration
      /\ TableByName'
  <2>1. CASE UNCHANGED func_table
    BY <2>1 DEF BuilderFacts, TableByName
  <2>2. CASE VisitVariableDeclaration /\ builder_scope # Global
    <3> DEFINE x == tunit.defs[i].vars[builder_pos.k]
               v == NewVariable(x, "var", i, builder_pos.k)
    <3>1. builder_scope \in DOMAIN func_table
      BY <2>2, <1>1
    <3>2. func_table' = [func_table EXCEPT ![builder_scope].var_table[x] = v]
      BY <2>2 DEF VisitVariableDeclaration
    <3>3. v.name = x
      BY DEF NewVariable
    <3> HIDE DEF x, v
    <3>4. \A g \in DOMAIN func_table : func_table[g] \in FuncSymbol
      BY <1>1
    <3>5. /\ DOMAIN func_table' = DOMAIN func_table
          /\ \A g \in DOMAIN func_table :
               /\ func_table'[g].is_declaration = func_table[g].is_declaration
               /\ \A y \in VarNames :
                    func_table'[g].var_table[y] =
                      IF g = builder_scope /\ y = x THEN v ELSE func_table[g].var_table[y]
      <4> HIDE DEF NoVariable
      <4> QED BY <3>1, <3>2, <3>4, <1>1 DEF FuncSymbol
    <3> QED BY <3>3, <3>5 DEF BuilderFacts, TableByName
  <2> QED BY <2>1, <2>2 DEF VisitTranslationUnit, VisitVariableDeclaration, VisitBodyNode,
                            HandlePostFuncDef, heap
<1>4. BoundOnce'
  BY <1>2, <1>3 DEF BuilderFacts, BoundOnce
<1>5. CASE builder_pos.at = "unit"
  <2>1. q.at \in {"decl", "def", "end"}
    BY <1>1, <1>5, AfterDecl
  <2>2. /\ \A j \in DOMAIN tunit.decls : DeclPassed(q, j) <=> DeclPassed(builder_pos, j)
        /\ \A j \in DOMAIN tunit.defs : ~DefPassed(q, j) /\ ~DefPassed(builder_pos, j)
    BY <1>1, <1>5, PassDecl
  <2>3. builder_scope' = Global
    BY <1>5 DEF VisitTranslationUnit, VisitVariableDeclaration, VisitBodyNode,
                HandlePostFuncDef, InBuilder
  <2> HIDE DEF q
  <2>4. ScopeBalanced' /\ BuilderInside'
    BY <2>1, <2>3, <1>2 DEF ScopeBalanced, BuilderInside
  <2>5. ScopesBound'
    BY <2>2, <1>1, <1>2 DEF BuilderFacts, ScopesBound
  <2> QED BY <2>4, <2>5, <1>3, <1>4 DEF BuilderFacts
<1>6. CASE builder_pos.at \in {"var", "node", "post_def"}
  <2>1. \/ q.at \in {"var", "node", "post_def"} /\ q.fn = i /\ builder_pos.at # "post_def"
        \/ q.at \in {"def", "end"} /\ builder_pos.at = "post_def"
    BY <1>1, <1>6, AfterDef, AfterPostDef
  <2>2. /\ \A j \in DOMAIN tunit.decls : DeclPassed(q, j) /\ DeclPassed(builder_pos, j)
        /\ \A j \in DOMAIN tunit.defs : DefPassed(q, j) <=> DefPassed(builder_pos, j)
    BY <1>1, <1>6, PassBody
  <2>3. /\ builder_scope' \in {Global, builder_scope}
        /\ builder_pos.at = "post_def" => builder_scope' = Global
    BY <1>6 DEF VisitTranslationUnit, VisitVariableDeclaration, VisitBodyNode,
                HandlePostFuncDef, InBuilder
  <2> HIDE DEF q
  <2>4. ScopeBalanced' /\ BuilderInside'
    BY <2>1, <2>3, <1>2, <1>6 DEF BuilderFacts, ScopeBalanced, BuilderInside
  <2>5. ScopesBound'
    BY <2>2, <1>1, <1>2 DEF BuilderFacts, ScopesBound
  <2> QED BY <2>4, <2>5, <1>3, <1>4 DEF BuilderFacts
<1> QED BY <1>2, <1>5, <1>6

(* The first pass binds no reference. *)
LEMMA BuilderBindsNothing ==
  ASSUME BuilderNext
  PROVE  UNCHANGED <<id_symbol, call_symbol>>
BY DEF BuilderNext, VisitTranslationUnit, VisitFunctionDeclaration, DefineFunction,
   MergeDeclaration, RejectRedefinition, VisitVariableDeclaration, VisitBodyNode,
   HandlePostFuncDef, heap

(* Every callback of the first pass keeps the builder's part. *)
LEMMA BuilderFactsStep ==
  ASSUME TypeInv, TypeInv', BuilderFacts, BuilderNext
  PROVE  BuilderFacts'
BY FactsOfDeclaration, FactsOfDefinition, FactsOfMerge, FactsOfRejection, FactsOfBody
   DEF BuilderNext

----------------------------------------------------------------------------
(* The inductive invariant of the second pass. *)

(* What a name resolves to changes only with the function table. *)
LEMMA ResolutionStable ==
  ASSUME UNCHANGED <<tunit, func_table, def_scope>>
  PROVE  /\ \A r : NodeAt(r)' = NodeAt(r)
         /\ \A s, name : ResolveVariable(s, name)' = ResolveVariable(s, name)
         /\ \A name, args : ResolveCall(name, args)' = ResolveCall(name, args)
         /\ \A kind : References(kind)' = References(kind)
<1>1. \A r : NodeAt(r)' = NodeAt(r)
  BY DEF NodeAt
<1>2. \A s, name : ResolveVariable(s, name)' = ResolveVariable(s, name)
  BY DEF ResolveVariable, SelectInSeq
<1>3. \A name, args : ResolveCall(name, args)' = ResolveCall(name, args)
  BY DEF ResolveCall, SelectInSeq
<1>4. \A kind : References(kind)' = References(kind)
  BY DEF References
<1> QED BY <1>1, <1>2, <1>3, <1>4

(* The reference the resolver visits. *)
LEMMA HereIsReference ==
  ASSUME TypeInv, resolver_pos.at = "node"
  PROVE  /\ NodeAt(Here) = Visited
         /\ Here[1] = resolver_pos.fn
         /\ Here \in References(Visited.kind)
<1>1. /\ resolver_pos.fn \in DOMAIN tunit.defs
      /\ resolver_pos.k \in DOMAIN tunit.defs[resolver_pos.fn].body
  BY DEF TypeInv, Within
<1>2. NodeAt(Here) = Visited /\ Here[1] = resolver_pos.fn
  BY DEF NodeAt, Here, Visited
<1>3. Here \in References(Visited.kind)
  BY <1>1 DEF References, Here, Visited
<1> QED BY <1>2, <1>3

(* Every callback of the second pass keeps the resolver's part. *)
LEMMA ResolverFactsStep ==
  ASSUME TypeInv, TypeInv', ResolverInside, BoundByRule, ResolverNext,
         \A i \in DOMAIN def_scope : def_scope[i] # None
  PROVE  ResolverInside' /\ BoundByRule'
<1> DEFINE q == After(tunit, resolver_pos)
<1>1. /\ HeapTypeOK /\ ResolverTypeOK /\ Within(tunit, resolver_pos)
      /\ tunit \in TranslationUnit /\ resolver_pos \in Position
      /\ def_scope \in [DOMAIN tunit.defs -> {None} \cup DOMAIN func_table]
      /\ func_table \in Seq(FuncSymbol)
  BY TunitType DEF TypeInv, AnalyzerTypeOK, HeapTypeOK, ResolverTypeOK
<1>2. resolver_pos' = q /\ UNCHANGED <<tunit, func_table, decl_scope, def_scope>>
  BY DEF ResolverNext, EnterDefinition, VisitCallExpression, VisitIdentifier, VisitOther,
         InResolver, heap
<1>3. \/ resolver_pos.at = "def" /\ resolver_scope' = def_scope[resolver_pos.fn]
      \/ resolver_pos.at # "def" /\ resolver_scope' = resolver_scope
  BY DEF ResolverNext, EnterDefinition, VisitCallExpression, VisitIdentifier, VisitOther,
         InResolver
<1>4. ResolverInside'
  <2>1. CASE resolver_pos.at \in {"unit", "decl", "post_def", "end"}
    <3>1. q.at \notin {"var", "node", "post_def"}
      <4>1. CASE resolver_pos.at \in {"unit", "decl"}
        BY <4>1, <1>1, AfterDecl
      <4>2. CASE resolver_pos.at = "post_def"
        BY <4>2, <1>1, AfterPostDef
      <4>3. CASE resolver_pos.at = "end"
        BY <4>3 DEF After
      <4> QED BY <2>1, <4>1, <4>2, <4>3
    <3> HIDE DEF q
    <3> QED BY <3>1, <1>2 DEF ResolverInside
  <2>2. CASE resolver_pos.at \in {"def", "var", "node"}
    <3>1. q.fn = resolver_pos.fn
      BY <2>2, <1>1, AfterDef
    <3> HIDE DEF q
    <3>2. resolver_scope' = def_scope[resolver_pos.fn]
      BY <2>2, <1>3 DEF ResolverInside
    <3> QED BY <3>1, <3>2, <1>2 DEF ResolverInside
  <2> QED BY <2>1, <2>2, <1>1 DEF Position
<1>5. ASSUME NEW r \in DOMAIN id_symbol'
      PROVE  /\ r \in References("identifier")
             /\ def_scope[r[1]] # None
             /\ id_symbol'[r] = ResolveVariable(def_scope[r[1]], NodeAt(r).name)
             /\ id_symbol'[r] # NoVariable
  <2>1. CASE r \in DOMAIN id_symbol /\ id_symbol'[r] = id_symbol[r]
    BY <2>1 DEF BoundByRule
  <2>2. CASE ~(r \in DOMAIN id_symbol /\ id_symbol'[r] = id_symbol[r])
    <3> DEFINE v == ResolveVariable(resolver_scope, Visited.name)
    <3>1. VisitIdentifier /\ v # NoVariable /\ id_symbol' = Put(id_symbol, Here, v)
      BY <2>2 DEF ResolverNext, EnterDefinition, VisitCallExpression, VisitIdentifier,
                  VisitOther, heap
    <3>2. resolver_pos.at = "node" /\ Visited \in Ident
      BY <3>1 DEF VisitIdentifier, InResolver
    <3>3. resolver_scope = def_scope[resolver_pos.fn]
      BY <3>2 DEF ResolverInside
    <3>4. resolver_pos.fn \in DOMAIN def_scope
      BY <3>2, <1>1, VisitedType
    <3>5. Visited.kind = "identifier"
      BY <3>2 DEF Ident
    <3> HIDE DEF v
    <3>6. r = Here /\ id_symbol'[r] = v
      BY <2>2, <3>1 DEF Put
    <3> QED BY <3>1, <3>2, <3>3, <3>4, <3>5, <3>6, HereIsReference DEF v
  <2> QED BY <2>1, <2>2
<1>6. ASSUME NEW r \in DOMAIN call_symbol'
      PROVE  /\ r \in References("call_expression")
             /\ call_symbol'[r] = ResolveCall(NodeAt(r).name, NodeAt(r).args)
             /\ call_symbol'[r] # None
  <2>1. CASE r \in DOMAIN call_symbol /\ call_symbol'[r] = call_symbol[r]
    BY <2>1 DEF BoundByRule
  <2>2. CASE ~(r \in DOMAIN call_symbol /\ call_symbol'[r] = call_symbol[r])
    <3> DEFINE f == ResolveCall(Visited.name, Visited.args)
    <3>1. VisitCallExpression /\ f # None /\ call_symbol' = Put(call_symbol, Here, f)
      BY <2>2 DEF ResolverNext, EnterDefinition, VisitCallExpression, VisitIdentifier,
                  VisitOther, heap
    <3>2. resolver_pos.at = "node" /\ Visited \in Call
      BY <3>1 DEF VisitCallExpression, InResolver
    <3>3. Visited.kind = "call_expression"
      BY <3>2 DEF Call
    <3> HIDE DEF f
    <3>4. r = Here /\ call_symbol'[r] = f
      BY <2>2, <3>1 DEF Put
    <3> QED BY <3>1, <3>2, <3>3, <3>4, HereIsReference DEF f
  <2> QED BY <2>1, <2>2
<1>7. BoundByRule'
  BY <1>2, <1>5, <1>6, ResolutionStable DEF BoundByRule
<1> QED BY <1>4, <1>7

----------------------------------------------------------------------------
(* The invariant of the whole analysis. *)

(* The invariant holds before the analysis. *)
LEMMA AnalyzerInvInit == AnalyzerInit => AnalyzerInv
<1> SUFFICES ASSUME AnalyzerInit PROVE AnalyzerInv
  OBVIOUS
<1>1. TypeInv
  BY TypeInvInit
<1> USE DEF AnalyzerInit, HeapInit, BuilderInit, ResolverInit, Start, At
<1>2. ScopeBalanced /\ BuilderInside
  BY DEF ScopeBalanced, BuilderInside
<1>3. ScopesBound
  BY DEF ScopesBound, DeclPassed, DefPassed
<1>4. BoundOnce /\ TableByName
  <2>1. DOMAIN func_table = {}
    OBVIOUS
  <2> QED BY <2>1 DEF BoundOnce, TableByName
<1>5. OnePassAtATime /\ ResolverInside /\ BoundByRule
  BY DEF OnePassAtATime, ResolverInside, BoundByRule, EmptyMap
<1> QED BY <1>1, <1>2, <1>3, <1>4, <1>5 DEF AnalyzerInv

(* When the first pass is over without an error, every definition is bound. *)
LEMMA AllScopesBound ==
  ASSUME TypeInv, ScopesBound, builder_pos.at = "end", builder_errors = <<>>
  PROVE  \A i \in DOMAIN def_scope : def_scope[i] # None
BY DEF ScopesBound, DefPassed

(* Every step of the analysis keeps the invariant. *)
LEMMA AnalyzerInvStep == AnalyzerInv /\ [AnalyzerNext]_analyzer_vars => AnalyzerInv'
<1> SUFFICES ASSUME AnalyzerInv, [AnalyzerNext]_analyzer_vars PROVE AnalyzerInv'
  OBVIOUS
<1>1. /\ TypeInv /\ BuilderFacts /\ OnePassAtATime /\ ResolverInside /\ BoundByRule
      /\ phase \in Phase
  BY DEF AnalyzerInv, BuilderFacts, TypeInv, AnalyzerTypeOK
<1>2. TypeInv'
  BY <1>1, TypeInvStep
<1>3. ASSUME UNCHANGED <<heap, builder_vars>>
      PROVE  BuilderFacts'
  BY <1>1, <1>3 DEF BuilderFacts, heap, builder_vars, ScopeBalanced, BuilderInside,
                    ScopesBound, BoundOnce, TableByName
<1>4. ASSUME UNCHANGED <<heap, resolver_vars>>
      PROVE  ResolverInside' /\ BoundByRule'
  BY <1>1, <1>4, ResolutionStable DEF heap, resolver_vars, ResolverInside, BoundByRule
<1>5. CASE Build
  <2>1. BuilderNext /\ phase = "building" /\ UNCHANGED <<resolver_vars, phase>>
    BY <1>5 DEF Build
  <2>2. BuilderFacts'
    BY <1>1, <1>2, <2>1, BuilderFactsStep
  <2>3. UNCHANGED <<id_symbol, call_symbol>>
    BY <2>1, BuilderBindsNothing
  <2>4. OnePassAtATime'
    BY <1>1, <2>1, <2>3 DEF OnePassAtATime, resolver_vars
  <2>5. ResolverInside'
    BY <2>1, <2>4 DEF OnePassAtATime, ResolverInside, Start, At
  <2>6. BoundByRule'
    BY <2>1, <2>4 DEF OnePassAtATime, BoundByRule
  <2> QED BY <1>2, <2>2, <2>4, <2>5, <2>6 DEF AnalyzerInv, BuilderFacts
<1>6. CASE FinishBuilding
  <2>1. /\ UNCHANGED <<heap, builder_vars, resolver_vars>>
        /\ phase = "building" /\ builder_pos.at = "end"
        /\ phase' = IF builder_errors = <<>> THEN "resolving" ELSE "semantic_exception"
    BY <1>6 DEF FinishBuilding
  <2>2. OnePassAtATime'
    BY <2>1 DEF OnePassAtATime, builder_vars
  <2> QED BY <1>2, <1>3, <1>4, <2>1, <2>2 DEF AnalyzerInv, BuilderFacts
<1>7. CASE Resolve
  <2>1. ResolverNext /\ phase = "resolving" /\ UNCHANGED <<builder_vars, phase>>
    BY <1>7 DEF Resolve
  <2>2. UNCHANGED <<tunit, func_table, decl_scope, def_scope>>
    BY <1>1, <2>1, ResolverTypeStep DEF TypeInv, AnalyzerTypeOK
  <2>3. builder_pos.at = "end" /\ builder_errors = <<>>
    BY <1>1, <2>1 DEF OnePassAtATime
  <2>4. \A i \in DOMAIN def_scope : def_scope[i] # None
    BY <1>1, <2>3, AllScopesBound DEF BuilderFacts
  <2>5. ResolverInside' /\ BoundByRule'
    BY <1>1, <1>2, <2>1, <2>4, ResolverFactsStep
  <2>6. BuilderFacts'
    BY <1>1, <2>1, <2>2 DEF BuilderFacts, builder_vars, ScopeBalanced, BuilderInside,
                            ScopesBound, BoundOnce, TableByName
  <2>7. OnePassAtATime'
    BY <2>1, <2>3 DEF OnePassAtATime, builder_vars
  <2> QED BY <1>2, <2>5, <2>6, <2>7 DEF AnalyzerInv, BuilderFacts
<1>8. CASE FinishResolving
  <2>1. /\ UNCHANGED <<heap, builder_vars, resolver_vars>> /\ phase = "resolving"
        /\ phase' \in {"analyzed", "semantic_exception"}
    BY <1>8 DEF FinishResolving
  <2>2. OnePassAtATime'
    BY <1>1, <2>1 DEF OnePassAtATime, builder_vars
  <2> QED BY <1>2, <1>3, <1>4, <2>1, <2>2 DEF AnalyzerInv, BuilderFacts
<1>9. CASE AnalysisOver \/ UNCHANGED analyzer_vars
  <2>1. UNCHANGED <<heap, builder_vars, resolver_vars, phase>>
    BY <1>9 DEF AnalysisOver, analyzer_vars
  <2>2. OnePassAtATime'
    BY <1>1, <2>1 DEF OnePassAtATime, heap, builder_vars, resolver_vars
  <2> QED BY <1>2, <1>3, <1>4, <2>1, <2>2 DEF AnalyzerInv, BuilderFacts
<1> QED BY <1>5, <1>6, <1>7, <1>8, <1>9 DEF AnalyzerNext

(* The inductive invariant holds in every state of every analysis. *)
THEOREM Invariant == AnalyzerSpec => []AnalyzerInv
BY AnalyzerInvInit, AnalyzerInvStep, PTL DEF AnalyzerSpec

----------------------------------------------------------------------------
(* What follows from it. *)

(* Every switch of the builder's scope is undone once, however many         *)
(* "return" statements a body has and whether or not its definition was     *)
(* rejected.                                                                *)
THEOREM ScopesAreBalanced == AnalyzerSpec => []ScopeBalanced
<1>1. AnalyzerInv => ScopeBalanced
  BY DEF AnalyzerInv
<1> QED BY Invariant, <1>1, PTL

(* A function symbol is bound to at most one definition, and marked as a    *)
(* declaration exactly until it is.                                         *)
THEOREM DefinitionsBoundOnce == AnalyzerSpec => []BoundOnce
<1>1. AnalyzerInv => BoundOnce
  BY DEF AnalyzerInv
<1> QED BY Invariant, <1>1, PTL

(* symbol_resolver never meets a definition without a scope. *)
THEOREM ScopesAreReady == AnalyzerSpec => []ScopesReady
<1>1. AnalyzerInv => ScopesReady
  <2> SUFFICES ASSUME AnalyzerInv, phase \in {"resolving", "analyzed"}
               PROVE  \A i \in DOMAIN def_scope : def_scope[i] # None
    BY DEF ScopesReady
  <2> QED BY AllScopesBound DEF AnalyzerInv, OnePassAtATime
<1> QED BY Invariant, <1>1, PTL

(* Whatever an identifier or a call is bound to is alive, bears its name    *)
(* and, for a call, takes as many arguments: the weak_ptrs the generator    *)
(* will lock never dangle.                                                  *)
THEOREM BindingsAreSound == AnalyzerSpec => []BindingsHold
<1>1. AnalyzerInv => BindingsHold
  <2> SUFFICES ASSUME AnalyzerInv PROVE BindingsHold
    OBVIOUS
  <2>1. /\ HeapTypeOK /\ tunit \in TranslationUnit
        /\ func_table \in Seq(FuncSymbol)
        /\ def_scope \in [DOMAIN tunit.defs -> {None} \cup DOMAIN func_table]
    BY TunitType DEF AnalyzerInv, TypeInv, AnalyzerTypeOK, HeapTypeOK
  <2>2. ASSUME NEW r \in DOMAIN id_symbol
        PROVE  /\ id_symbol[r].name = NodeAt(r).name
               /\ def_scope[r[1]] # None
               /\ id_symbol[r] \in Owned(func_table[def_scope[r[1]]])
    <3> DEFINE f == def_scope[r[1]]
               name == NodeAt(r).name
    <3>1. /\ r \in References("identifier") /\ f # None
          /\ id_symbol[r] = ResolveVariable(f, name) /\ id_symbol[r] # NoVariable
      BY <2>2 DEF AnalyzerInv, BoundByRule
    <3>2. PICK i \in DOMAIN tunit.defs :
            \E k \in DOMAIN tunit.defs[i].body :
              r = <<i, k>> /\ tunit.defs[i].body[k].kind = "identifier"
      BY <3>1 DEF References
    <3>3. f \in DOMAIN func_table
      BY <3>1, <3>2, <2>1
    <3>4. name \in VarNames
      <4>1. PICK k \in DOMAIN tunit.defs[i].body :
              r = <<i, k>> /\ tunit.defs[i].body[k].kind = "identifier"
        BY <3>2
      <4>2. NodeAt(r) \in Node
        BY <4>1, <2>1, UnitType DEF NodeAt
      <4>3. NodeAt(r).kind = "identifier"
        BY <4>1 DEF NodeAt
      <4>4. NodeAt(r) \in Ident
        BY <4>2, <4>3 DEF Node, Number, Ident, Call, Binary, Jump
      <4> QED BY <4>4 DEF Ident
    <3> HIDE DEF f, name
    <3>5. id_symbol[r] \in Owned(func_table[f]) /\ (id_symbol[r].name = name
                                       \/ id_symbol[r] = func_table[f].var_table[name])
      BY <3>1, <3>3, <3>4, <2>1, ResolveVariableResult
    <3>6. id_symbol[r].name = name
      BY <3>1, <3>3, <3>4, <3>5 DEF AnalyzerInv, TableByName
    <3> QED BY <3>1, <3>5, <3>6 DEF f, name
  <2>3. ASSUME NEW r \in DOMAIN call_symbol
        PROVE  /\ func_table[call_symbol[r]].name = NodeAt(r).name
               /\ Len(func_table[call_symbol[r]].params) = NodeAt(r).args
    <3>1. call_symbol[r] = ResolveCall(NodeAt(r).name, NodeAt(r).args) /\ call_symbol[r] # None
      BY <2>3 DEF AnalyzerInv, BoundByRule
    <3> QED BY <3>1, <2>1, ResolveCallResult
  <2> QED BY <2>2, <2>3 DEF BindingsHold
<1> QED BY Invariant, <1>1, PTL

============================================================================
