---------------------------- MODULE CodeProofs ----------------------------
(***************************************************************************)
(* Proofs about the generator and the supported part of the language: the  *)
(* names the generator looks up mean what the analysis bound them to, the  *)
(* code it emits is valid, and the phases together come to the end the     *)
(* unit allows.                                                            *)
(***************************************************************************)
EXTENDS GeneratorProofs

(* The generator is at work on a supported unit. *)
Fitting == Generating /\ Supported(tunit) /\ CodeFits

----------------------------------------------------------------------------
(* The symbols of the names in a supported unit. *)

(* The function of a definition has the parameters of the definition. *)
LEMMA ParamsOfScope ==
  ASSUME Generating, MergedWithoutParameters(tunit), NEW i \in DOMAIN tunit.defs
  PROVE  /\ def_scope[i] \in DOMAIN func_table
         /\ func_table[def_scope[i]].params =
              [k \in DOMAIN tunit.defs[i].params |->
                 NewVariable(tunit.defs[i].params[k], "def", i, k)]
<1> DEFINE f == def_scope[i]
<1>1. /\ Built /\ f \in DOMAIN func_table
      /\ func_table[f].name = tunit.defs[i].name
  BY GeneratingFacts, SymbolNames
<1>2. BoundOnce /\ DOMAIN def_scope = DOMAIN tunit.defs /\ f # None
  BY <1>1, BuiltFacts DEF Built, AnalysisFacts, AnalyzerInv
<1>3. CASE f \in DOMAIN tunit.decls /\ func_table[f].name = tunit.decls[f].name
           /\ func_table[f].params = [k \in DOMAIN tunit.decls[f].params |->
                                NewVariable(tunit.decls[f].params[k], "decl", f, k)]
  <2>1. f \in DeclarationsOf(tunit, tunit.defs[i].name)
    BY <1>1, <1>3 DEF DeclarationsOf
  <2>2. tunit.defs[i].params = <<>> /\ tunit.decls[f].params = <<>>
    BY <2>1 DEF MergedWithoutParameters
  <2> QED BY <1>1, <1>3, <2>2
<1>4. CASE \E j \in DOMAIN tunit.defs :
             /\ def_scope[j] = f
             /\ func_table[f].params = [k \in DOMAIN tunit.defs[j].params |->
                                  NewVariable(tunit.defs[j].params[k], "def", j, k)]
  BY <1>1, <1>2, <1>4 DEF BoundOnce
<1> HIDE DEF f
<1>5. def_scope[i] = f
  BY DEF f
<1> QED BY <1>1, <1>3, <1>4, <1>5, SourceOfFunction

(* It has the local variables of the definition. *)
LEMMA LocalsOfDefinition ==
  ASSUME Generating, NamesDistinct(tunit), NEW i \in DOMAIN tunit.defs, NEW x \in VarNames
  PROVE  LET s == func_table[def_scope[i]].var_table[x]
         IN  /\ \A m \in DOMAIN tunit.defs[i].vars :
                  tunit.defs[i].vars[m] = x => s = NewVariable(x, "var", i, m)
             /\ (\A m \in DOMAIN tunit.defs[i].vars : tunit.defs[i].vars[m] # x)
                => s = NoVariable
<1> DEFINE s == func_table[def_scope[i]].var_table[x]
           vars == tunit.defs[i].vars
           places == {m \in DeclaredSoFar(i) : vars[m] = x}
<1>1. Built /\ builder_pos.at = "end" /\ def_scope[i] # None /\ DOMAIN def_scope = DOMAIN tunit.defs
  BY GeneratingFacts, BuiltFacts
<1>2. s = LatestLocal(i, x)
  BY <1>1 DEF Built, AnalysisFacts, TableFacts, LocalsAtHome
<1>3. DeclaredSoFar(i) = DOMAIN vars
  BY <1>1 DEF DeclaredSoFar
<1>4. vars \in Seq(VarNames)
  BY GeneratingFacts, UnitType
<1>5. ASSUME NEW m \in DOMAIN vars, vars[m] = x PROVE s = NewVariable(x, "var", i, m)
  <2>1. m \in Nat
    BY <1>4
  <2>2. Distinct(vars)
    BY DEF NamesDistinct
  <2>3. places = {m}
    BY <1>3, <1>5, <2>2 DEF Distinct
  <2>4. Max(places) = m
    BY <2>1, <2>3, MaxOfNewest
  <2> QED BY <1>2, <2>3, <2>4 DEF LatestLocal
<1>6. (\A m \in DOMAIN vars : vars[m] # x) => s = NoVariable
  BY <1>2, <1>3 DEF LatestLocal
<1> QED BY <1>5, <1>6

(* So an identifier means the local variable of its name, or the parameter. *)
LEMMA SymbolOfIdentifier ==
  ASSUME Generating, Supported(tunit), NEW i \in DOMAIN tunit.defs,
         NEW k \in DOMAIN tunit.defs[i].body, tunit.defs[i].body[k].kind = "identifier"
  PROVE  LET x == tunit.defs[i].body[k].name
             d == tunit.defs[i]
             s == id_symbol[<<i, k>>]
         IN  /\ x \in VarNames
             /\ Alive(s)
             /\ \/ \E m \in DOMAIN d.vars : d.vars[m] = x /\ s = NewVariable(x, "var", i, m)
                \/ /\ \A m \in DOMAIN d.vars : d.vars[m] # x
                   /\ \E m \in DOMAIN d.params :
                        d.params[m] = x /\ s = NewVariable(x, "def", i, m)
<1> DEFINE x == tunit.defs[i].body[k].name
           d == tunit.defs[i]
           s == id_symbol[<<i, k>>]
           f == func_table[def_scope[i]]
<1>1. x \in VarNames
  <2>1. d.body[k] \in Node
    BY SymbolsOfNodes
  <2>2. d.body[k] \in Ident
    BY <2>1, KindOfNode
  <2> QED BY <2>2 DEF Ident
<1>2. <<i, k>> \in DOMAIN id_symbol
  <2>1. <<i, k>> \in References("identifier")
    BY DEF References
  <2> QED BY <2>1, AnalysisDone DEF Generating
<1>3. s = ResolveVariable(def_scope[i], x) /\ s # NoVariable
  <2>1. NodeAt(<<i, k>>) = d.body[k]
    BY DEF NodeAt
  <2> QED BY <1>2, <2>1 DEF Generating, AnalysisFacts, AnalyzerInv, BoundByRule
<1>4. /\ Built /\ func_table \in Seq(FuncSymbol) /\ TableByName
      /\ def_scope[i] \in DOMAIN func_table /\ def_scope[i] # None
  BY GeneratingFacts, BuiltFacts DEF Built, AnalysisFacts, AnalyzerInv
<1>5. f.params = [m \in DOMAIN d.params |-> NewVariable(d.params[m], "def", i, m)]
  BY ParamsOfScope DEF Supported
<1>6. s \in Owned(f) /\ (s.name = x \/ s = f.var_table[x])
  BY <1>1, <1>3, <1>4, ResolveVariableResult
<1>7. Alive(s)
  BY <1>4, <1>6 DEF Alive
<1>8. DOMAIN f.var_table = VarNames
  <2>1. f \in FuncSymbol
    BY <1>4
  <2> HIDE DEF f
  <2> QED BY <2>1 DEF FuncSymbol
<1>9. CASE \E m \in DOMAIN d.vars : d.vars[m] = x
  <2>1. PICK m \in DOMAIN d.vars : d.vars[m] = x
    BY <1>9
  <2>2. f.var_table[x] = NewVariable(x, "var", i, m)
    BY <1>1, <2>1, LocalsOfDefinition DEF Supported
  <2>3. f.var_table[x] # NoVariable
    BY <2>2, VariableIsSome
  <2>4. s = f.var_table[x]
    BY <1>3, <1>4, <2>3, Zenon DEF ResolveVariable, Global, None
  <2> QED BY <1>1, <1>7, <2>1, <2>2, <2>4
<1>10. CASE \A m \in DOMAIN d.vars : d.vars[m] # x
  <2>1. f.var_table[x] = NoVariable
    BY <1>1, <1>10, LocalsOfDefinition DEF Supported
  <2>2. s.name = x
    BY <1>3, <1>6, <2>1
  <2>3. s \notin Range(f.var_table)
    <3>1. ASSUME NEW y \in VarNames, f.var_table[y] = s PROVE FALSE
      <4>1. s.name = y
        BY <1>3, <1>4, <3>1 DEF TableByName
      <4> QED BY <1>3, <2>1, <2>2, <3>1, <4>1
    <3> QED BY <1>8, <3>1 DEF Range
  <2>4. PICK m \in DOMAIN f.params : f.params[m] = s
    BY <1>6, <2>3 DEF Owned, Range
  <2>5. m \in DOMAIN d.params /\ s = NewVariable(d.params[m], "def", i, m)
    BY <1>5, <2>4
  <2>6. d.params[m] = x
    BY <2>2, <2>5 DEF NewVariable
  <2> QED BY <1>1, <1>7, <1>10, <2>5, <2>6
<1> QED BY <1>9, <1>10

(* The places of the storage of p parameters and v local variables lie in   *)
(* code that is as long.                                                    *)
LEMMA StoragePlaces ==
  ASSUME NEW p \in Nat, NEW v \in Nat, NEW l \in Nat, l >= 2 * p + v
  PROVE  /\ \A m \in 1 .. p : 2 * m - 1 \in 1 .. l
         /\ \A m \in 1 .. v : 2 * p + m \in 1 .. l
OBVIOUS

(* In a body every variable has its storage, and that of its symbol is what *)
(* the value table has under the name of an identifier.                     *)
LEMMA StorageOfIdentifier ==
  ASSUME Fitting, gen_pos.at = "node",
         NEW k \in DOMAIN CurrentDef.body, CurrentDef.body[k].kind = "identifier"
  PROVE  LET x == CurrentDef.body[k].name
             s == id_symbol[<<gen_pos.fn, k>>]
         IN  /\ x \in VarNames /\ Alive(s) /\ s.name = x
             /\ value_table[x] = StorageOf(s)
             /\ \E c \in 1 .. Len(CurrentCode) : StorageOf(s) = Storage(c)
<1> DEFINE i == gen_pos.fn
           x == CurrentDef.body[k].name
           s == id_symbol[<<i, k>>]
<1>1. InDefinition /\ i \in DOMAIN tunit.defs /\ Generating
  BY GeneratingFacts DEF Fitting, InDefinition
<1>2. /\ CurrentDef.params \in Seq(VarNames) /\ CurrentDef.vars \in Seq(VarNames)
  BY <1>1, GeneratingFacts, UnitType DEF CurrentDef
<1>3. ParamsStored = Len(CurrentDef.params) /\ VarsStored = Len(CurrentDef.vars)
  BY DEF ParamsStored, VarsStored
<1>4. /\ Len(CurrentCode) >= 2 * Len(CurrentDef.params) + Len(CurrentDef.vars)
      /\ \A m \in 1 .. Len(CurrentDef.vars) :
           value_table[CurrentDef.vars[m]] = Storage(2 * Len(CurrentDef.params) + m)
      /\ \A m \in 1 .. Len(CurrentDef.params) :
           (\A l \in 1 .. Len(CurrentDef.vars) : CurrentDef.vars[l] # CurrentDef.params[m]) =>
             value_table[CurrentDef.params[m]] = Storage(2 * m - 1)
  BY <1>1, <1>3 DEF Fitting, CodeFits, StorageByName
<1>5. /\ x \in VarNames /\ Alive(s)
      /\ \/ \E m \in DOMAIN CurrentDef.vars :
              CurrentDef.vars[m] = x /\ s = NewVariable(x, "var", i, m)
         \/ /\ \A m \in DOMAIN CurrentDef.vars : CurrentDef.vars[m] # x
            /\ \E m \in DOMAIN CurrentDef.params :
                 CurrentDef.params[m] = x /\ s = NewVariable(x, "def", i, m)
  BY <1>1, SymbolOfIdentifier DEF Fitting, CurrentDef
<1>6. Len(CurrentCode) \in Nat /\ Len(CurrentDef.params) \in Nat /\ Len(CurrentDef.vars) \in Nat
  BY <1>1, <1>2, InsertPointIsFunction, GeneratingFacts, FunctionFields DEF CurrentCode
<1>7. CASE \E m \in DOMAIN CurrentDef.vars :
             CurrentDef.vars[m] = x /\ s = NewVariable(x, "var", i, m)
  <2>1. PICK m \in DOMAIN CurrentDef.vars :
               CurrentDef.vars[m] = x /\ s = NewVariable(x, "var", i, m)
    BY <1>7
  <2>2. s.name = x /\ StorageOf(s) = Storage(2 * Len(CurrentDef.params) + m)
    BY <2>1 DEF StorageOf, Storage, NewVariable, CurrentDef
  <2>3. m \in 1 .. Len(CurrentDef.vars)
    BY <1>2
  <2>4. 2 * Len(CurrentDef.params) + m \in 1 .. Len(CurrentCode)
    BY <1>4, <1>6, <2>3, StoragePlaces
  <2> QED BY <1>4, <1>5, <2>1, <2>2, <2>3, <2>4
<1>8. CASE /\ \A m \in DOMAIN CurrentDef.vars : CurrentDef.vars[m] # x
           /\ \E m \in DOMAIN CurrentDef.params :
                CurrentDef.params[m] = x /\ s = NewVariable(x, "def", i, m)
  <2>1. PICK m \in DOMAIN CurrentDef.params :
               CurrentDef.params[m] = x /\ s = NewVariable(x, "def", i, m)
    BY <1>8
  <2>2. s.name = x /\ StorageOf(s) = Storage(2 * m - 1)
    BY <2>1 DEF StorageOf, Storage, NewVariable, CurrentDef
  <2>3. m \in 1 .. Len(CurrentDef.params) /\ DOMAIN CurrentDef.vars = 1 .. Len(CurrentDef.vars)
    BY <1>2
  <2>4. 2 * m - 1 \in 1 .. Len(CurrentCode)
    BY <1>4, <1>6, <2>3, StoragePlaces
  <2> QED BY <1>4, <1>5, <1>8, <2>1, <2>2, <2>3, <2>4
<1> QED BY <1>5, <1>7, <1>8

----------------------------------------------------------------------------
(* A step inside a definition that appends instructions which fit. *)

InstrFits(instr, m) ==
  /\ WellTyped(instr)
  /\ \A o \in DOMAIN instr.operands : Local(instr.operands[o], insert_point, Len(CurrentCode) + m)
  /\ instr.op = "call" => instr.callee \in DOMAIN functions

Extends(instrs) ==
  /\ UNCHANGED <<tunit, func_map, insert_point>>
  /\ InDefinition /\ InDefinition' /\ gen_pos'.fn = gen_pos.fn
  /\ Appended(instrs)
  /\ instrs # <<>> => gen_pos.at # "post_def" \/ frames # <<>>
  /\ \A m \in DOMAIN instrs : /\ InstrFits(instrs[m], m)
                              /\ instrs[m].op = "ret" => m = Len(instrs)

(* Inside a definition there is a function to append to, and its source is  *)
(* a tree the grammar produces.                                             *)
LEMMA InCode ==
  ASSUME Fitting, InDefinition
  PROVE  /\ insert_point \in DOMAIN functions /\ functions \in Seq(LlvmFunction)
         /\ CurrentCode \in Seq(Instruction) /\ Len(CurrentCode) \in Nat
         /\ gen_pos.fn \in DOMAIN tunit.defs /\ Generating
         /\ CurrentDef.body \in Seq(Node) /\ WellFormed(CurrentDef.body)
         /\ CurrentDef.params \in Seq(VarNames) /\ CurrentDef.vars \in Seq(VarNames)
         /\ status = "generating" /\ phase = "analyzed"
<1>1. Generating /\ tunit \in TranslationUnit /\ gen_pos.fn \in DOMAIN tunit.defs
  BY GeneratingFacts DEF Fitting
<1>2. insert_point \in DOMAIN functions /\ functions \in Seq(LlvmFunction)
  BY <1>1, InsertPointIsFunction, GeneratingFacts
<1>3. CurrentCode \in Seq(Instruction)
  BY <1>2, FunctionFields DEF CurrentCode
<1>4. /\ CurrentDef.body \in Seq(Node)
      /\ CurrentDef.params \in Seq(VarNames) /\ CurrentDef.vars \in Seq(VarNames)
  BY <1>1, UnitType DEF CurrentDef
<1>5. WellFormed(CurrentDef.body)
  BY <1>1 DEF CurrentDef, TranslationUnit
<1> QED BY <1>1, <1>2, <1>3, <1>4, <1>5 DEF Generating

(* What appending instructions leaves alone: names, arities and the code of *)
(* all other functions.                                                     *)
LEMMA CodeGrows ==
  ASSUME Fitting, NEW instrs \in Seq(Instruction), Extends(instrs)
  PROVE  /\ CurrentCode' = CurrentCode \o instrs
         /\ Len(CurrentCode') = Len(CurrentCode) + Len(instrs) /\ Len(instrs) \in Nat
         /\ DOMAIN functions' = DOMAIN functions
         /\ \A f \in DOMAIN functions :
              /\ functions'[f].name = functions[f].name
              /\ functions'[f].arity = functions[f].arity
              /\ f # insert_point => functions'[f].code = functions[f].code
         /\ CurrentDef' = CurrentDef
<1>1. /\ insert_point \in DOMAIN functions /\ functions \in Seq(LlvmFunction)
      /\ CurrentCode \in Seq(Instruction)
  BY InCode DEF Extends
<1>2. /\ DOMAIN functions' = DOMAIN functions
      /\ \A f \in DOMAIN functions :
           /\ functions'[f].name = functions[f].name
           /\ functions'[f].arity = functions[f].arity
           /\ functions'[f].code = IF f = insert_point THEN functions[f].code \o instrs
                                   ELSE functions[f].code
  BY <1>1, AppendedFunctions DEF Extends
<1>3. insert_point' = insert_point
  BY DEF Extends
<1>4. CurrentCode' = CurrentCode \o instrs
  BY <1>1, <1>2, <1>3 DEF CurrentCode
<1>5. Len(CurrentCode \o instrs) = Len(CurrentCode) + Len(instrs) /\ Len(instrs) \in Nat
  BY <1>1
<1>6. CurrentDef' = CurrentDef
  BY DEF Extends, CurrentDef
<1> QED BY <1>2, <1>4, <1>5, <1>6

(* As long as the generator is inside a body nothing is returned from it. *)
LEMMA NoReturnYet ==
  ASSUME Fitting, InDefinition, gen_pos.at # "post_def" \/ frames # <<>>
  PROVE  /\ \A j \in DOMAIN CurrentCode : CurrentCode[j].op # "ret"
         /\ ~EndsInReturn(CurrentCode)
<1>1. \A j \in DOMAIN CurrentCode : CurrentCode[j].op # "ret"
  BY DEF Fitting, CodeFits, ReturnEnds
<1>2. CurrentCode # <<>> => Len(CurrentCode) \in DOMAIN CurrentCode
  BY InCode
<1> QED BY <1>1, <1>2 DEF EndsInReturn

(* The instructions appended end up behind those that were there. *)
LEMMA InstructionsStillFit ==
  ASSUME Fitting, NEW instrs \in Seq(Instruction), Extends(instrs)
  PROVE  InstructionsFit'
<1>1. /\ CurrentCode' = CurrentCode \o instrs
      /\ Len(CurrentCode') = Len(CurrentCode) + Len(instrs) /\ Len(instrs) \in Nat
      /\ DOMAIN functions' = DOMAIN functions
      /\ \A f \in DOMAIN functions :
           /\ functions'[f].arity = functions[f].arity
           /\ f # insert_point => functions'[f].code = functions[f].code
  BY CodeGrows
<1>2. /\ insert_point \in DOMAIN functions /\ functions \in Seq(LlvmFunction)
      /\ CurrentCode \in Seq(Instruction) /\ Len(CurrentCode) \in Nat
  BY InCode DEF Extends
<1>3. insert_point' = insert_point
  BY DEF Extends
<1>4. ASSUME NEW instr, instr.op = "call" => instr.callee \in DOMAIN functions, WellTyped(instr)
      PROVE  WellTyped(instr)'
  BY <1>1, <1>4 DEF WellTyped
<1>5. \A v, j : \A f \in DOMAIN functions : Local(v, f, j) => Local(v, f, j)'
  BY <1>1 DEF Local
<1>6. InstructionsFit /\ CallsByName
  BY DEF Fitting, CodeFits, Generating, GeneratorInv
<1> SUFFICES ASSUME NEW f \in DOMAIN functions, NEW j \in DOMAIN functions'[f].code,
                    NEW instr, instr = functions'[f].code[j]
             PROVE  /\ WellTyped(instr)'
                    /\ \A o \in DOMAIN instr.operands : Local(instr.operands[o], f, j)'
                    /\ instr.op = "ret" => j = Len(functions'[f].code)
  BY <1>1 DEF InstructionsFit
<1>7. CASE f # insert_point \/ instrs = <<>>
  <2>1. functions'[f].code = functions[f].code
    <3>1. CASE f # insert_point
      BY <1>1, <3>1
    <3>2. CASE f = insert_point /\ instrs = <<>>
      BY <1>1, <1>2, <1>3, <3>2 DEF CurrentCode
    <3> QED BY <1>7, <3>1, <3>2
  <2>2. /\ WellTyped(instr)
        /\ \A o \in DOMAIN instr.operands : Local(instr.operands[o], f, j)
        /\ instr.op = "ret" => j = Len(functions'[f].code)
        /\ instr.op = "call" => instr.callee \in DOMAIN functions
    BY <1>6, <2>1 DEF InstructionsFit, CallsByName
  <2>3. WellTyped(instr)'
    BY <1>4, <2>2
  <2> QED BY <1>5, <2>2, <2>3
<1>8. CASE f = insert_point /\ instrs # <<>>
  <2>1. functions'[f].code = CurrentCode \o instrs
    BY <1>1, <1>3, <1>8 DEF CurrentCode
  <2>2. CASE j \in DOMAIN CurrentCode
    <3>1. instr = CurrentCode[j]
      BY <1>2, <2>1, <2>2
    <3>2. /\ WellTyped(instr)
          /\ \A o \in DOMAIN instr.operands : Local(instr.operands[o], f, j)
          /\ instr.op = "call" => instr.callee \in DOMAIN functions
      BY <1>2, <1>6, <1>8, <2>2, <3>1 DEF InstructionsFit, CallsByName, CurrentCode
    <3>3. instr.op # "ret"
      BY <1>8, <2>2, <3>1, NoReturnYet DEF Extends
    <3>4. WellTyped(instr)'
      BY <1>4, <3>2
    <3> QED BY <1>5, <3>2, <3>3, <3>4
  <2>3. CASE j \notin DOMAIN CurrentCode
    <3> DEFINE m == j - Len(CurrentCode)
    <3>1. j \in 1 .. (Len(CurrentCode) + Len(instrs)) /\ DOMAIN CurrentCode = 1 .. Len(CurrentCode)
      BY <1>2, <2>1
    <3>2. m \in DOMAIN instrs /\ instr = instrs[m] /\ j = Len(CurrentCode) + m
      BY <1>1, <1>2, <2>1, <2>3, <3>1
    <3>3. InstrFits(instr, m) /\ (instr.op = "ret" => m = Len(instrs))
      BY <3>2 DEF Extends
    <3> HIDE DEF m
    <3>4. /\ WellTyped(instr)
          /\ \A o \in DOMAIN instr.operands : Local(instr.operands[o], f, j)
          /\ instr.op = "call" => instr.callee \in DOMAIN functions
      BY <1>8, <3>2, <3>3 DEF InstrFits
    <3>5. WellTyped(instr)'
      BY <1>4, <3>4
    <3>6. Len(functions'[f].code) = Len(CurrentCode) + Len(instrs)
      BY <1>1, <2>1
    <3>7. instr.op = "ret" => j = Len(functions'[f].code)
      BY <3>2, <3>3, <3>6
    <3> QED BY <1>5, <3>4, <3>5, <3>7
  <2> QED BY <2>2, <2>3
<1> QED BY <1>7, <1>8

(* The functions of the definitions left behind are others. *)
LEMMA FunctionsApart ==
  ASSUME Fitting, NEW i \in DOMAIN tunit.defs, Begun(i)
  PROVE  /\ FunctionOf(i) \in DOMAIN functions
         /\ functions[FunctionOf(i)].name = tunit.defs[i].name
         /\ InDefinition /\ i # gen_pos.fn => FunctionOf(i) # insert_point
<1>1. Generating /\ tunit \in TranslationUnit /\ Built
  BY GeneratingFacts DEF Fitting
<1>2. tunit.defs[i].name \in FuncNames
  BY <1>1, UnitType
<1>3. FunctionOf(i) # NoFunction /\ functions[FunctionOf(i)].name = tunit.defs[i].name
  BY <1>1, <1>2 DEF Generating, GeneratorInv, FunctionsByName, FunctionOf
<1>4. FunctionOf(i) \in DOMAIN functions
  BY <1>1, <1>2, <1>3, GeneratingFacts DEF FunctionOf
<1>5. ASSUME InDefinition, i # gen_pos.fn PROVE FunctionOf(i) # insert_point
  <2>1. gen_pos.fn \in DOMAIN tunit.defs /\ insert_point = FunctionOf(gen_pos.fn)
    BY <1>1, <1>5, GeneratingFacts, InsertPointIsFunction
  <2>2. Begun(gen_pos.fn)
    <3>1. gen_pos.fn \in Nat
      BY <1>1, GeneratingFacts DEF IsPlace, GenPosition
    <3> QED BY <1>5, <3>1 DEF Begun
  <2>3. tunit.defs[gen_pos.fn].name \in FuncNames
    BY <1>1, <2>1, UnitType
  <2>4. functions[insert_point].name = tunit.defs[gen_pos.fn].name
    BY <1>1, <2>1, <2>2, <2>3 DEF Generating, GeneratorInv, FunctionsByName, FunctionOf
  <2>5. tunit.defs[i].name # tunit.defs[gen_pos.fn].name
    BY <1>1, <1>5, <2>1, BuiltDefinedOnce DEF Rules!DefinedOnce
  <2> QED BY <1>3, <2>4, <2>5
<1> QED BY <1>3, <1>4, <1>5

(* Such a step keeps what does not depend on where it leads. *)
LEMMA BodyFits ==
  ASSUME Fitting, NEW instrs \in Seq(Instruction), Extends(instrs),
         StorageByName', StackByTree', OperandsFit', ReturnEnds'
  PROVE  CodeFits'
<1>1. /\ DOMAIN functions' = DOMAIN functions
      /\ \A f \in DOMAIN functions :
           /\ functions'[f].arity = functions[f].arity
           /\ f # insert_point => functions'[f].code = functions[f].code
  BY CodeGrows
<1>2. ArityBySource'
  <2>1. ArityBySource /\ UNCHANGED <<tunit, func_map>>
    BY DEF Fitting, CodeFits, Extends
  <2>2. \A name \in FuncNames : func_map[name] # NoFunction => func_map[name] \in DOMAIN functions
    BY GeneratingFacts DEF Fitting
  <2>3. \A name : DeclarationsOf(tunit, name)' = DeclarationsOf(tunit, name)
    BY <2>1 DEF DeclarationsOf
  <2> QED BY <1>1, <2>1, <2>2, <2>3 DEF ArityBySource
<1>3. InstructionsFit'
  BY InstructionsStillFit
<1>4. BodiesClosed'
  <2>1. /\ InDefinition /\ InDefinition' /\ gen_pos'.fn = gen_pos.fn
        /\ UNCHANGED <<tunit, func_map>>
    BY DEF Extends
  <2> SUFFICES ASSUME NEW i \in DOMAIN tunit.defs, Begun(i)', i # gen_pos.fn
               PROVE  EndsInReturn(functions[FunctionOf(i)].code)'
    BY <2>1 DEF BodiesClosed
  <2>2. Begun(i)
    BY <2>1 DEF Begun, InDefinition
  <2>3. /\ FunctionOf(i) \in DOMAIN functions /\ FunctionOf(i) # insert_point
        /\ FunctionOf(i)' = FunctionOf(i)
    BY <2>1, <2>2, FunctionsApart DEF FunctionOf
  <2>4. EndsInReturn(functions[FunctionOf(i)].code)
    BY <2>1, <2>2 DEF Fitting, CodeFits, BodiesClosed
  <2> QED BY <1>1, <2>3, <2>4 DEF EndsInReturn
<1> QED BY <1>2, <1>3, <1>4 DEF CodeFits

(* Storage stays where it is while statements are generated. *)
LEMMA StorageKept ==
  ASSUME Fitting, NEW instrs \in Seq(Instruction), Extends(instrs), UNCHANGED value_table,
         gen_pos.at \in {"node", "post_def"}, gen_pos'.at \in {"node", "post_def"}
  PROVE  StorageByName'
<1>1. /\ Len(CurrentCode') = Len(CurrentCode) + Len(instrs) /\ Len(instrs) \in Nat
      /\ CurrentDef' = CurrentDef
  BY CodeGrows
<1>2. Len(CurrentCode) \in Nat /\ InDefinition
  BY InCode DEF Extends
<1>3. /\ ParamsStored = Len(CurrentDef.params) /\ VarsStored = Len(CurrentDef.vars)
      /\ ParamsStored' = Len(CurrentDef.params) /\ VarsStored' = Len(CurrentDef.vars)
  BY <1>1 DEF ParamsStored, VarsStored
<1>4. \A k : Storage(k)' = Storage(k)
  BY DEF Storage, Extends
<1>5. Len(CurrentDef.params) \in Nat /\ Len(CurrentDef.vars) \in Nat
  BY <1>2, InCode
<1>6. StorageByName
  BY DEF Fitting, CodeFits
<1>7. \A l, n, p, v \in Nat : l >= 2 * p + v => l + n >= 2 * p + v
  OBVIOUS
<1>8. Len(CurrentCode) >= 2 * Len(CurrentDef.params) + Len(CurrentDef.vars)
      => Len(CurrentCode') >= 2 * Len(CurrentDef.params) + Len(CurrentDef.vars)
  BY <1>1, <1>2, <1>5, <1>7
<1> QED BY <1>1, <1>2, <1>3, <1>4, <1>6, <1>8 DEF StorageByName

(* The values that wait stay values of the function. *)
LEMMA ValuesKept ==
  ASSUME Fitting, NEW instrs \in Seq(Instruction), Extends(instrs), NEW v \in Value,
         Local(v, insert_point, Len(CurrentCode) + 1)
  PROVE  Local(v, insert_point, Len(CurrentCode) + 1)'
<1>1. /\ Len(CurrentCode') = Len(CurrentCode) + Len(instrs) /\ Len(instrs) \in Nat
      /\ insert_point' = insert_point
      /\ functions'[insert_point].arity = functions[insert_point].arity
  BY InCode, CodeGrows DEF Extends
<1>2. Len(CurrentCode) \in Nat /\ v.k \in Int
  BY InCode DEF Extends, Value
<1> QED BY <1>1, <1>2 DEF Local

----------------------------------------------------------------------------
(* The stack of expressions follows the tree. *)

(* Behind the n nodes from here on the generator is at the next node or at  *)
(* the end of the body, where nothing is owed.                              *)
LEMMA OwedThere ==
  ASSUME Fitting, gen_pos.at = "node", NEW n \in {1, 2}, Pass(n), UNCHANGED tunit,
         gen_pos.k + n \in 1 .. (Len(CurrentDef.body) + 1)
  PROVE  /\ OwedNow' = OwedBefore(CurrentDef.body, gen_pos.k + n)
         /\ gen_pos'.fn = gen_pos.fn /\ InDefinition'
         /\ \/ gen_pos'.at = "node" /\ gen_pos'.k = gen_pos.k + n
            \/ gen_pos'.at = "post_def" /\ gen_pos.k + n = Len(CurrentDef.body) + 1
<1>1. gen_pos' = EnterNode(tunit, gen_pos.fn, gen_pos.k + n)
  BY DEF Pass
<1>2. CurrentDef.body \in Seq(Node) /\ WellFormed(CurrentDef.body)
  BY InCode DEF InDefinition
<1>3. OwedBefore(CurrentDef.body, Len(CurrentDef.body) + 1) = 0
  BY <1>2, OwedAtEnd
<1>4. tunit.defs[gen_pos.fn].body = CurrentDef.body
  BY DEF CurrentDef
<1>5. gen_pos'.fn = gen_pos.fn
  BY <1>1 DEF EnterNode, At
<1>6. CurrentDef' = CurrentDef
  BY <1>5 DEF CurrentDef
<1>7. CASE gen_pos.k + n <= Len(CurrentDef.body)
  <2>1. gen_pos' = At("node", gen_pos.fn, gen_pos.k + n)
    BY <1>1, <1>4, <1>7 DEF EnterNode
  <2> QED BY <1>6, <2>1 DEF At, OwedNow, InDefinition
<1>8. CASE gen_pos.k + n = Len(CurrentDef.body) + 1
  <2>1. gen_pos' = At("post_def", gen_pos.fn, 0)
    BY <1>1, <1>2, <1>4, <1>8 DEF EnterNode
  <2> QED BY <1>3, <1>8, <2>1 DEF At, OwedNow, InDefinition
<1> QED BY <1>2, <1>7, <1>8

(* The generator goes to the next node, and owes what the traversal says. *)
LEMMA OwedNext ==
  ASSUME Fitting, gen_pos.at = "node", Pass(1), UNCHANGED tunit
  PROVE  LET n == CurrentDef.body[gen_pos.k]
         IN  /\ gen_pos.k \in 1 .. Len(CurrentDef.body)
             /\ OwedNow \in Nat /\ Arity(n) \in Nat /\ n \in Node
             /\ OwedNow' = Rest(OwedNow) + Arity(n)
             /\ gen_pos'.fn = gen_pos.fn /\ InDefinition'
             /\ \/ gen_pos'.at = "node" /\ gen_pos'.k = gen_pos.k + 1
                \/ gen_pos'.at = "post_def" /\ gen_pos.k = Len(CurrentDef.body)
<1> DEFINE body == CurrentDef.body
           k == gen_pos.k
<1>1. body \in Seq(Node) /\ Len(body) \in Nat /\ Generating
  BY InCode DEF InDefinition
<1>2. k \in 1 .. Len(body)
  BY <1>1, GeneratingFacts DEF IsPlace, Within, CurrentDef
<1>3. /\ OwedBefore(body, k) \in Nat
      /\ OwedBefore(body, k + 1) = OwedAfter(OwedBefore(body, k), body[k])
  BY <1>1, <1>2, OwedCounts
<1>4. body[k] \in Node /\ Arity(body[k]) \in Nat
  BY <1>1, <1>2, ArityType
<1>5. k + 1 \in 1 .. (Len(body) + 1) /\ (k + 1 = Len(body) + 1 => k = Len(body))
  BY <1>1, <1>2
<1>6. OwedNow = OwedBefore(body, k)
  BY DEF OwedNow
<1>7. /\ OwedNow' = OwedBefore(body, k + 1)
      /\ gen_pos'.fn = gen_pos.fn /\ InDefinition'
      /\ \/ gen_pos'.at = "node" /\ gen_pos'.k = k + 1
         \/ gen_pos'.at = "post_def" /\ k + 1 = Len(body) + 1
  BY <1>5, OwedThere
<1>8. OwedAfter(OwedNow, body[k]) = Rest(OwedNow) + Arity(body[k])
  BY <1>3, <1>4, <1>6 DEF OwedAfter, Rest
<1> QED BY <1>2, <1>3, <1>4, <1>5, <1>6, <1>7, <1>8

(* An assignment is a statement, and behind its target one operand is owed. *)
LEMMA OwedNextButOne ==
  ASSUME Fitting, gen_pos.at = "node", Pass(2), UNCHANGED tunit,
         IsAssignment(CurrentDef.body[gen_pos.k])
  PROVE  /\ gen_pos.k \in 1 .. Len(CurrentDef.body)
         /\ gen_pos.k + 1 \in 1 .. Len(CurrentDef.body)
         /\ CurrentDef.body[gen_pos.k + 1] \in Ident
         /\ Arity(CurrentDef.body[gen_pos.k]) = 2
         /\ OwedNow = 0 /\ OwedNow' = 1
         /\ gen_pos'.fn = gen_pos.fn /\ InDefinition'
         /\ \/ gen_pos'.at = "node" /\ gen_pos'.k = gen_pos.k + 2
            \/ gen_pos'.at = "post_def" /\ gen_pos.k + 2 = Len(CurrentDef.body) + 1
<1> DEFINE body == CurrentDef.body
           k == gen_pos.k
<1>1. /\ body \in Seq(Node) /\ Len(body) \in Nat /\ Generating /\ WellFormed(body)
      /\ gen_pos.fn \in DOMAIN tunit.defs
  BY InCode DEF InDefinition
<1>2. k \in 1 .. Len(body) /\ DOMAIN body = 1 .. Len(body)
  BY <1>1, GeneratingFacts DEF IsPlace, Within, CurrentDef
<1>3. body[k] \in Binary /\ body[k].op = "=" /\ Arity(body[k]) = 2
  BY DEF IsAssignment, Binary, Arity
<1>4. k + 1 \in 1 .. Len(body)
  BY <1>1, <1>2, <1>3, OwedAtEnd
<1>5. body[k + 1] \in Ident /\ Arity(body[k + 1]) = 0
  <2>1. body[k + 1] \in Ident
    BY <1>1, <1>2, <1>3 DEF WellFormed
  <2> QED BY <2>1 DEF Ident, Arity
<1>6. OwedBefore(body, k) = 0
  BY <1>1, <1>2, <1>3 DEF Fitting, Supported, AssignmentsAreStatements, IsStatement, CurrentDef
<1>7. OwedBefore(body, k + 1) = 2
  <2>1. OwedBefore(body, k + 1) = OwedAfter(OwedBefore(body, k), body[k])
    BY <1>1, <1>2, OwedCounts
  <2> QED BY <1>3, <1>6, <2>1 DEF OwedAfter
<1>8. OwedBefore(body, k + 2) = 1
  <2>1. OwedBefore(body, (k + 1) + 1) = OwedAfter(OwedBefore(body, k + 1), body[k + 1])
    BY <1>1, <1>4, OwedCounts
  <2>2. (k + 1) + 1 = k + 2
    BY <1>1, <1>2
  <2> QED BY <1>5, <1>7, <2>1, <2>2 DEF OwedAfter
<1>9. k + 2 \in 1 .. (Len(body) + 1)
  <2> HIDE DEF body, k
  <2> QED BY <1>1, <1>2, <1>4
<1>10. /\ OwedNow' = OwedBefore(body, k + 2)
       /\ gen_pos'.fn = gen_pos.fn /\ InDefinition'
       /\ \/ gen_pos'.at = "node" /\ gen_pos'.k = k + 2
          \/ gen_pos'.at = "post_def" /\ k + 2 = Len(body) + 1
  BY <1>9, OwedThere
<1>11. OwedNow = 0
  BY <1>6 DEF OwedNow
<1> QED BY <1>2, <1>3, <1>4, <1>5, <1>8, <1>10, <1>11

(* What the stack wants is a number, and the top of the stack, if it has    *)
(* not all its operands, wants the next node.                               *)
LEMMA StackFacts ==
  ASSUME Fitting, InDefinition
  PROVE  /\ frames \in Seq(Frame) /\ Len(frames) \in Nat /\ DOMAIN frames = 1 .. Len(frames)
         /\ \A j \in DOMAIN frames :
              /\ frames[j] \in Frame /\ frames[j].operands \in Seq(Value)
              /\ frames[j].node \in 1 .. Len(CurrentDef.body)
              /\ FrameNode(j) \in Node
              /\ Wanting(j) \in Nat
              /\ OwedBefore(CurrentDef.body, frames[j].node) \in Nat
         /\ frames # <<>> => Top = frames[Len(frames)] /\ TopNode = FrameNode(Len(frames))
         /\ ~Complete /\ frames # <<>> => Wanting(Len(frames)) > 0
         /\ Complete => frames # <<>> /\ Wanting(Len(frames)) = 0
<1>1. frames \in Seq(Frame) /\ Len(frames) \in Nat /\ DOMAIN frames = 1 .. Len(frames)
  BY GeneratingFacts DEF Fitting
<1>2. CurrentDef.body \in Seq(Node)
  BY InCode
<1>3. ASSUME NEW j \in DOMAIN frames
      PROVE  /\ frames[j] \in Frame /\ frames[j].operands \in Seq(Value)
             /\ frames[j].node \in 1 .. Len(CurrentDef.body)
             /\ FrameNode(j) \in Node
             /\ Wanting(j) \in Nat
             /\ OwedBefore(CurrentDef.body, frames[j].node) \in Nat
  <2>1. frames[j] \in Frame /\ frames[j].operands \in Seq(Value)
    <3>1. frames[j] \in Frame
      BY <1>1
    <3>2. \A fr \in Frame : fr.operands \in Seq(Value)
      BY DEF Frame
    <3> QED BY <3>1, <3>2
  <2>2. frames[j].node \in 1 .. Len(CurrentDef.body)
    BY <1>2, GeneratingFacts DEF Fitting, CurrentDef
  <2>3. FrameNode(j) \in Node /\ Arity(FrameNode(j)) \in Nat
    BY <1>2, <2>2, ArityType DEF FrameNode
  <2>4. Wanting(j) >= 0
    BY DEF Fitting, CodeFits, StackByTree
  <2>5. Wanting(j) \in Nat
    BY <2>1, <2>3, <2>4 DEF Wanting
  <2> QED BY <1>2, <2>1, <2>2, <2>3, <2>5, OwedCounts
<1>4. frames # <<>> =>
        Len(frames) \in DOMAIN frames /\ Top = frames[Len(frames)] /\ TopNode = FrameNode(Len(frames))
  BY <1>1 DEF Top, TopNode, FrameNode, GenBody, CurrentDef
<1>5. frames # <<>> => (Complete <=> Wanting(Len(frames)) = 0)
  <2> HAVE frames # <<>>
  <2>1. Arity(TopNode) \in Nat /\ Len(Top.operands) \in Nat
    BY <1>3, <1>4, ArityType
  <2> QED BY <1>4, <2>1 DEF Complete, Wanting
<1>6. Complete => frames # <<>>
  BY DEF Complete
<1>7. frames # <<>> => Wanting(Len(frames)) \in Nat
  BY <1>3, <1>4
<1> QED BY <1>1, <1>3, <1>4, <1>5, <1>6, <1>7

(* The same of any stack, and what its three changes do. *)
Missing(body, frame) == Arity(body[frame.node]) - Len(frame.operands)

Below(body, stack, n) ==
  IF n = 0 THEN 0 ELSE Rest(OwedBefore(body, stack[n].node)) + Missing(body, stack[n])

Stacked(body, stack) ==
  \A j \in DOMAIN stack :
    /\ OwedBefore(body, stack[j].node) = Below(body, stack, j - 1)
    /\ Missing(body, stack[j]) >= 0
    /\ j < Len(stack) => Missing(body, stack[j]) > 0

InBody(body, stack) == \A j \in DOMAIN stack : stack[j].node \in 1 .. Len(body)

(* Deliver hands a value to the innermost expression and leaves the others  *)
(* alone.                                                                   *)
LEMMA DeliverIs ==
  ASSUME NEW stack \in Seq(Frame), stack # <<>>, NEW v \in Value
  PROVE  LET new == Deliver(stack, v)
             l == Len(stack)
         IN  /\ new \in Seq(Frame) /\ Len(new) = l /\ DOMAIN new = DOMAIN stack
             /\ l \in DOMAIN stack /\ l \in Nat
             /\ \A j \in DOMAIN stack : new[j].node = stack[j].node
             /\ \A j \in DOMAIN stack : j # l => new[j] = stack[j]
             /\ new[l].operands = Append(stack[l].operands, v)
             /\ stack[l].operands \in Seq(Value)
<1> DEFINE new == Deliver(stack, v)
           l == Len(stack)
           fr == [stack[l] EXCEPT !.operands = Append(@, v)]
<1>1. l \in DOMAIN stack /\ l \in Nat
  OBVIOUS
<1>2. /\ new \in Seq(Frame) /\ Len(new) = l /\ DOMAIN new = DOMAIN stack
      /\ \A j \in DOMAIN stack : new[j].node = stack[j].node
  BY DeliverType
<1>3. stack[l] \in Frame
  BY <1>1
<1>4. stack[l].operands \in Seq(Value) /\ fr.operands = Append(stack[l].operands, v)
  <2>1. \A f \in Frame : /\ f.operands \in Seq(Value)
                         /\ [f EXCEPT !.operands = Append(@, v)].operands = Append(f.operands, v)
    BY DEF Frame
  <2> QED BY <1>3, <2>1
<1>5. new = [stack EXCEPT ![l] = fr]
  BY DEF Deliver
<1> HIDE DEF fr
<1>6. new[l] = fr /\ \A j \in DOMAIN stack : j # l => new[j] = stack[j]
  BY <1>1, <1>5
<1> QED BY <1>1, <1>2, <1>4, <1>6

(* What is owed below the stack are numbers. *)
LEMMA BelowTypes ==
  ASSUME NEW body \in Seq(Node), NEW stack \in Seq(Frame), InBody(body, stack),
         NEW j \in DOMAIN stack
  PROVE  /\ OwedBefore(body, stack[j].node) \in Nat
         /\ Rest(OwedBefore(body, stack[j].node)) \in Nat
         /\ Missing(body, stack[j]) \in Int
         /\ Below(body, stack, j) = Rest(OwedBefore(body, stack[j].node)) + Missing(body, stack[j])
<1>1. stack[j].node \in 1 .. Len(body) /\ j # 0
  BY DEF InBody
<1>2. body[stack[j].node] \in Node
  BY <1>1
<1>3. Arity(body[stack[j].node]) \in Nat /\ OwedBefore(body, stack[j].node) \in Nat
  BY <1>1, <1>2, ArityType, OwedCounts
<1>4. Len(stack[j].operands) \in Nat
  <2>1. \A f \in Frame : Len(f.operands) \in Nat
    BY DEF Frame
  <2> QED BY <2>1
<1> QED BY <1>1, <1>3, <1>4 DEF Missing, Rest, Below

(* An operand delivered is one operand less to come. *)
LEMMA StackDelivered ==
  ASSUME NEW body \in Seq(Node), NEW stack \in Seq(Frame), stack # <<>>, NEW v \in Value,
         InBody(body, stack), Stacked(body, stack), Missing(body, stack[Len(stack)]) > 0
  PROVE  LET new == Deliver(stack, v)
         IN  /\ Stacked(body, new)
             /\ Below(body, new, Len(new)) = Below(body, stack, Len(stack)) - 1
<1> DEFINE new == Deliver(stack, v)
           l == Len(stack)
<1>1. /\ Len(new) = l /\ DOMAIN new = DOMAIN stack /\ l \in DOMAIN stack /\ l \in Nat
      /\ \A j \in DOMAIN stack : new[j].node = stack[j].node
      /\ \A j \in DOMAIN stack : j # l => new[j] = stack[j]
      /\ new[l].operands = Append(stack[l].operands, v)
      /\ stack[l].operands \in Seq(Value) /\ new \in Seq(Frame)
  BY DeliverIs
<1> HIDE DEF new
<1>2. InBody(body, new)
  BY <1>1 DEF InBody
<1>3. Missing(body, new[l]) = Missing(body, stack[l]) - 1
  <2>1. Len(new[l].operands) = Len(stack[l].operands) + 1 /\ Len(stack[l].operands) \in Nat
    BY <1>1
  <2>2. Arity(body[stack[l].node]) \in Nat
    BY <1>1, ArityType DEF InBody
  <2>3. /\ Missing(body, new[l]) = Arity(body[stack[l].node]) - Len(new[l].operands)
        /\ Missing(body, stack[l]) = Arity(body[stack[l].node]) - Len(stack[l].operands)
    BY <1>1 DEF Missing
  <2> QED BY <2>1, <2>2, <2>3
<1>4. Missing(body, stack[l]) \in Int /\ Rest(OwedBefore(body, stack[l].node)) \in Nat
  BY <1>1, BelowTypes
<1>5. Below(body, new, l) = Below(body, stack, l) - 1
  <2>1. /\ Below(body, new, l) = Rest(OwedBefore(body, new[l].node)) + Missing(body, new[l])
        /\ Below(body, stack, l) = Rest(OwedBefore(body, stack[l].node)) + Missing(body, stack[l])
    BY <1>1, <1>2, BelowTypes
  <2>2. OwedBefore(body, new[l].node) = OwedBefore(body, stack[l].node)
    BY <1>1
  <2>3. \A r, m \in Int : r + (m - 1) = (r + m) - 1
    OBVIOUS
  <2> QED BY <1>3, <1>4, <2>1, <2>2, <2>3
<1>6. ASSUME NEW j \in DOMAIN stack
      PROVE  /\ OwedBefore(body, new[j].node) = Below(body, new, j - 1)
             /\ Missing(body, new[j]) >= 0
             /\ j < l => Missing(body, new[j]) > 0
  <2>1. /\ OwedBefore(body, stack[j].node) = Below(body, stack, j - 1)
        /\ Missing(body, stack[j]) >= 0
        /\ j < l => Missing(body, stack[j]) > 0
    BY DEF Stacked
  <2>2. j \in 1 .. l /\ DOMAIN stack = 1 .. l
    OBVIOUS
  <2>3. j - 1 # 0 => new[j - 1] = stack[j - 1]
    <3>1. j - 1 # 0 => j - 1 \in 1 .. l /\ j - 1 # l
      BY <1>1, <2>2
    <3> QED BY <1>1, <2>2, <3>1
  <2>4. Below(body, new, j - 1) = Below(body, stack, j - 1)
    BY <2>3 DEF Below
  <2>5. Missing(body, new[j]) >= 0
    <3>1. CASE j = l
      BY <1>3, <1>4, <3>1
    <3>2. CASE j # l
      BY <1>1, <2>1, <3>2
    <3> QED BY <3>1, <3>2
  <2>6. j < l => Missing(body, new[j]) > 0
    BY <1>1, <2>1, <2>2
  <2> QED BY <1>1, <2>1, <2>4, <2>5, <2>6
<1>7. Stacked(body, new)
  BY <1>1, <1>6 DEF Stacked
<1> QED BY <1>1, <1>5, <1>7 DEF new

(* An expression begun takes the place of one operand and asks for its own. *)
LEMMA StackPushed ==
  ASSUME NEW body \in Seq(Node), NEW stack \in Seq(Frame), NEW frame \in Frame,
         Stacked(body, stack), stack # <<>> => Missing(body, stack[Len(stack)]) > 0,
         OwedBefore(body, frame.node) = Below(body, stack, Len(stack)),
         Missing(body, frame) >= 0
  PROVE  LET new == Append(stack, frame)
         IN  /\ Stacked(body, new)
             /\ Below(body, new, Len(new)) = Rest(OwedBefore(body, frame.node)) + Missing(body, frame)
<1> DEFINE new == Append(stack, frame)
           l == Len(stack)
<1>1. /\ l \in Nat /\ Len(new) = l + 1 /\ DOMAIN new = 1 .. (l + 1) /\ DOMAIN stack = 1 .. l
      /\ new[l + 1] = frame /\ \A j \in 1 .. l : new[j] = stack[j]
  OBVIOUS
<1> HIDE DEF new
<1>2. ASSUME NEW j \in 1 .. (l + 1) PROVE Below(body, new, j - 1) = Below(body, stack, j - 1)
  <2>1. j - 1 # 0 => j - 1 \in 1 .. l
    BY <1>1
  <2> QED BY <1>1, <2>1 DEF Below
<1>3. ASSUME NEW j \in 1 .. (l + 1)
      PROVE  /\ OwedBefore(body, new[j].node) = Below(body, new, j - 1)
             /\ Missing(body, new[j]) >= 0
             /\ j < l + 1 => Missing(body, new[j]) > 0
  <2>1. CASE j = l + 1
    <3>1. (l + 1) - 1 = l
      BY <1>1
    <3> QED BY <1>1, <1>2, <2>1, <3>1
  <2>2. CASE j # l + 1
    <3>1. j \in DOMAIN stack /\ (j < l \/ j = l)
      <4>1. \A n \in Nat : \A i \in 1 .. (n + 1) :
              i # n + 1 => i \in 1 .. n /\ (i < n \/ i = n)
        OBVIOUS
      <4> QED BY <1>1, <2>2, <4>1
    <3>2. stack # <<>>
      BY <1>1, <3>1
    <3> QED BY <1>1, <1>2, <2>2, <3>1, <3>2 DEF Stacked
  <2> QED BY <2>1, <2>2
<1>4. Stacked(body, new)
  BY <1>1, <1>3 DEF Stacked
<1>5. Below(body, new, l + 1) = Rest(OwedBefore(body, frame.node)) + Missing(body, frame)
  BY <1>1 DEF Below
<1> QED BY <1>1, <1>4, <1>5 DEF new

(* An expression with all its operands leaves the stack of those around it. *)
LEMMA StackPopped ==
  ASSUME NEW body \in Seq(Node), NEW stack \in Seq(Frame), stack # <<>>,
         InBody(body, stack), Stacked(body, stack)
  PROVE  LET l == Len(stack)
             new == Front(stack)
         IN  /\ Stacked(body, new) /\ InBody(body, new)
             /\ new # <<>> => Missing(body, new[Len(new)]) > 0
             /\ OwedBefore(body, stack[l].node) = Below(body, new, Len(new))
             /\ new = <<>> <=> l = 1
             /\ l # 1 => OwedBefore(body, stack[l].node) > 0
<1> DEFINE new == Front(stack)
           l == Len(stack)
<1>1. /\ l \in Nat /\ l # 0 /\ DOMAIN stack = 1 .. l
      /\ new \in Seq(Frame) /\ Len(new) = l - 1
      /\ DOMAIN new \subseteq DOMAIN stack /\ \A j \in DOMAIN new : new[j] = stack[j]
  BY FrontOfStack
<1> HIDE DEF new
<1>2. DOMAIN new = 1 .. (l - 1) /\ (new = <<>> <=> l = 1)
  BY <1>1
<1>3. ASSUME NEW j \in 1 .. l PROVE Below(body, new, j - 1) = Below(body, stack, j - 1)
  <2>1. j - 1 # 0 => j - 1 \in DOMAIN new
    BY <1>1, <1>2
  <2> QED BY <1>1, <2>1 DEF Below
<1>4. InBody(body, new)
  BY <1>1 DEF InBody
<1>5. ASSUME NEW j \in DOMAIN new
      PROVE  /\ OwedBefore(body, new[j].node) = Below(body, new, j - 1)
             /\ Missing(body, new[j]) > 0
  <2>1. j \in 1 .. l /\ j < l /\ j \in DOMAIN stack
    BY <1>1, <1>2
  <2> QED BY <1>1, <1>3, <2>1 DEF Stacked
<1>6. \A j \in DOMAIN new : Missing(body, new[j]) \in Int
  BY <1>1, <1>4, BelowTypes
<1>7. Stacked(body, new)
  BY <1>5, <1>6 DEF Stacked
<1>8. OwedBefore(body, stack[l].node) = Below(body, new, Len(new))
  <2>1. l \in 1 .. l /\ l \in DOMAIN stack
    BY <1>1
  <2> QED BY <1>1, <1>3, <2>1 DEF Stacked
<1>9. new # <<>> => Len(new) \in DOMAIN new
  BY <1>1
<1>10. l # 1 => OwedBefore(body, stack[l].node) > 0
  <2> HAVE l # 1
  <2>1. Len(new) \in DOMAIN new
    BY <1>2, <1>9
  <2>2. /\ Below(body, new, Len(new)) = Rest(OwedBefore(body, new[Len(new)].node))
                                         + Missing(body, new[Len(new)])
        /\ Rest(OwedBefore(body, new[Len(new)].node)) \in Nat
        /\ Missing(body, new[Len(new)]) > 0 /\ Missing(body, new[Len(new)]) \in Int
    BY <1>1, <1>4, <1>5, <2>1, BelowTypes
  <2> QED BY <1>8, <2>2
<1> QED BY <1>2, <1>4, <1>5, <1>7, <1>8, <1>9, <1>10 DEF new

(* StackByTree as a statement about a body and a stack. *)
LEMMA TreeIsStack ==
  ASSUME Fitting, InDefinition
  PROVE  /\ Stacked(CurrentDef.body, frames) /\ InBody(CurrentDef.body, frames)
         /\ OwedNow = Below(CurrentDef.body, frames, Len(frames))
         /\ \A j : Missing(CurrentDef.body, frames[j]) = Wanting(j)
         /\ gen_pos.at = "node" => \A j \in DOMAIN frames : frames[j].node < gen_pos.k
<1>1. \A j : Missing(CurrentDef.body, frames[j]) = Wanting(j)
  BY DEF Missing, Wanting, FrameNode
<1>2. \A n : OwedBelow(n) = Below(CurrentDef.body, frames, n)
  BY <1>1 DEF OwedBelow, Below
<1>3. StackByTree
  BY DEF Fitting, CodeFits
<1>4. InBody(CurrentDef.body, frames)
  BY StackFacts DEF InBody
<1> QED BY <1>1, <1>2, <1>3, <1>4 DEF StackByTree, Stacked

(* Such a statement about the next state gives StackByTree back. *)
LEMMA StackIsTree ==
  ASSUME CurrentDef' = CurrentDef,
         Stacked(CurrentDef.body, frames'),
         OwedNow' = Below(CurrentDef.body, frames', Len(frames')),
         gen_pos'.at = "node" => \A j \in DOMAIN frames' : frames'[j].node < gen_pos'.k
  PROVE  StackByTree'
<1>1. \A j : Wanting(j)' = Missing(CurrentDef.body, frames'[j])
  BY DEF Missing, Wanting, FrameNode
<1>2. \A n : OwedBelow(n)' = Below(CurrentDef.body, frames', n)
  BY <1>1 DEF OwedBelow, Below
<1> QED BY <1>1, <1>2 DEF StackByTree, Stacked

----------------------------------------------------------------------------
(* The operands that wait. *)

WaitingFits(frame) ==
  /\ IsAssignment(CurrentDef.body[frame.node]) => frame.operands # <<>>
  /\ \A o \in DOMAIN frame.operands :
       /\ Local(frame.operands[o], insert_point, Len(CurrentCode) + 1)
       /\ IsAddress(frame.operands[o]) <=> IsAssignment(CurrentDef.body[frame.node]) /\ o = 1

(* OperandsFit, one expression at a time. *)
LEMMA OperandsWait ==
  /\ OperandsFit => \A j \in DOMAIN frames : WaitingFits(frames[j])
  /\ (\A j \in DOMAIN frames' : \A frame : frame = frames'[j] => WaitingFits(frame)') => OperandsFit'
<1>1. OperandsFit => \A j \in DOMAIN frames : WaitingFits(frames[j])
  BY DEF OperandsFit, WaitingFits, FrameNode
<1>2. ASSUME \A j \in DOMAIN frames' : \A frame : frame = frames'[j] => WaitingFits(frame)'
      PROVE  OperandsFit'
  BY <1>2 DEF OperandsFit, WaitingFits, FrameNode
<1> QED BY <1>1, <1>2

(* Operands that wait still fit when code is appended. *)
LEMMA WaitingKept ==
  ASSUME Fitting, NEW instrs \in Seq(Instruction), Extends(instrs),
         NEW frame \in Frame, WaitingFits(frame)
  PROVE  WaitingFits(frame)'
<1>1. \A o \in DOMAIN frame.operands : frame.operands[o] \in Value
  BY DEF Frame
<1>2. CurrentDef' = CurrentDef
  BY CodeGrows
<1>3. \A v \in Value : Local(v, insert_point, Len(CurrentCode) + 1)
                        => Local(v, insert_point, Len(CurrentCode) + 1)'
  BY ValuesKept
<1> QED BY <1>1, <1>2, <1>3 DEF WaitingFits

(* One more operand, a value that is no address. *)
LEMMA WaitingDelivered ==
  ASSUME Fitting, NEW instrs \in Seq(Instruction), Extends(instrs),
         NEW frame \in Frame, WaitingFits(frame),
         NEW v \in Value, ~IsAddress(v), Local(v, insert_point, Len(CurrentCode) + 1)',
         NEW more, more.node = frame.node, more.operands = Append(frame.operands, v)
  PROVE  WaitingFits(more)'
<1>1. frame.operands \in Seq(Value)
  BY DEF Frame
<1> DEFINE l == Len(frame.operands)
<1>2. /\ DOMAIN more.operands = 1 .. (l + 1) /\ l \in Nat /\ DOMAIN frame.operands = 1 .. l
      /\ \A o \in 1 .. l : more.operands[o] = frame.operands[o]
      /\ more.operands[l + 1] = v
  BY <1>1
<1>3. WaitingFits(frame)'
  BY WaitingKept
<1>4. CurrentDef' = CurrentDef
  BY CodeGrows
<1>5. IsAssignment(CurrentDef.body[frame.node]) => l + 1 # 1
  BY <1>1 DEF WaitingFits
<1> HIDE DEF l
<1>6. ASSUME NEW o \in DOMAIN more.operands
      PROVE  /\ Local(more.operands[o], insert_point, Len(CurrentCode) + 1)'
             /\ IsAddress(more.operands[o]) <=> IsAssignment(CurrentDef.body[frame.node]) /\ o = 1
  <2>1. CASE o = l + 1
    BY <1>2, <1>5, <2>1
  <2>2. CASE o # l + 1
    <3>1. o \in DOMAIN frame.operands
      BY <1>2, <2>2
    <3> QED BY <1>2, <1>3, <1>4, <3>1 DEF WaitingFits
  <2> QED BY <2>1, <2>2
<1>7. more.operands # <<>>
  BY <1>2
<1> QED BY <1>4, <1>6, <1>7 DEF WaitingFits

(* A value is delivered to the top of a part of the stack. *)
LEMMA OperandsDelivered ==
  ASSUME Fitting, NEW instrs \in Seq(Instruction), Extends(instrs),
         NEW stack \in Seq(Frame), DOMAIN stack \subseteq DOMAIN frames,
         \A j \in DOMAIN stack : stack[j] = frames[j],
         NEW v \in Value,
         stack # <<>> => ~IsAddress(v) /\ Local(v, insert_point, Len(CurrentCode) + 1)',
         frames' = Deliver(stack, v)
  PROVE  OperandsFit'
<1>1. \A j \in DOMAIN stack : stack[j] \in Frame /\ WaitingFits(stack[j])
  BY OperandsWait DEF Fitting, CodeFits
<1>2. CASE stack = <<>>
  <2>1. frames' = <<>>
    BY <1>2 DEF Deliver
  <2> QED BY <2>1, OperandsWait
<1>3. CASE stack # <<>>
  <2> DEFINE l == Len(stack)
  <2>1. /\ DOMAIN frames' = DOMAIN stack /\ l \in DOMAIN stack
        /\ frames'[l].node = stack[l].node
        /\ \A j \in DOMAIN stack : j # l => frames'[j] = stack[j]
        /\ frames'[l].operands = Append(stack[l].operands, v)
    BY <1>3, DeliverIs
  <2> HIDE DEF l
  <2>2. ASSUME NEW j \in DOMAIN stack, NEW frame, frame = frames'[j]
        PROVE  WaitingFits(frame)'
    <3>1. CASE j = l
      BY <1>1, <1>3, <2>1, <2>2, <3>1, WaitingDelivered
    <3>2. CASE j # l
      <4>1. frame = stack[j] /\ frame \in Frame /\ WaitingFits(frame)
        BY <1>1, <2>1, <2>2, <3>2
      <4> QED BY <4>1, WaitingKept
    <3> QED BY <3>1, <3>2
  <2> QED BY <2>1, <2>2, OperandsWait
<1> QED BY <1>2, <1>3

----------------------------------------------------------------------------
(* The kinds of step inside a body. *)

NoReturnIn(instrs) == \A m \in DOMAIN instrs : instrs[m].op # "ret"

(* Code without a return, appended to such code. *)
LEMMA NoReturnAfter ==
  ASSUME Fitting, NEW instrs \in Seq(Instruction), Extends(instrs), NoReturnIn(instrs),
         gen_pos.at # "post_def" \/ frames # <<>>
  PROVE  \A j \in DOMAIN CurrentCode' : CurrentCode'[j].op # "ret"
<1>1. CurrentCode \in Seq(Instruction) /\ CurrentCode' = CurrentCode \o instrs
  BY InCode, CodeGrows DEF Extends
<1>2. \A j \in DOMAIN CurrentCode : CurrentCode[j].op # "ret"
  BY NoReturnYet DEF Extends
<1> QED BY <1>1, <1>2, AppendedCode DEF NoReturnIn

(* A return the generator has left behind while expressions wait, or ahead  *)
(* of the end, is the one that waits for its operand.                       *)
LEMMA ReturnWaits ==
  ASSUME Fitting, InDefinition, gen_pos.at # "post_def" \/ frames # <<>>,
         NEW k \in DOMAIN CurrentDef.body, CurrentDef.body[k] \in Jump, NodeLeft(k)
  PROVE  frames # <<>> /\ frames[1].node = k
BY NoReturnYet DEF Fitting, CodeFits, ReturnEnds

(* An operand without operands: a number or an identifier. *)
LEMMA LeafFits ==
  ASSUME Fitting, gen_pos.at = "node", ~Complete, Pass(1),
         Arity(CurrentDef.body[gen_pos.k]) = 0, CurrentDef.body[gen_pos.k] \notin Jump,
         NEW instrs \in Seq(Instruction), Extends(instrs), NoReturnIn(instrs),
         NEW v \in Value, ~IsAddress(v), Local(v, insert_point, Len(CurrentCode) + 1)',
         frames' = Deliver(frames, v), UNCHANGED value_table
  PROVE  CodeFits'
<1> DEFINE body == CurrentDef.body
           k == gen_pos.k
<1>1. InDefinition /\ CurrentDef' = CurrentDef /\ UNCHANGED tunit
  BY CodeGrows DEF Extends
<1>2. body \in Seq(Node) /\ frames \in Seq(Frame) /\ DOMAIN body = 1 .. Len(body) /\ Len(body) \in Nat
  BY <1>1, InCode, StackFacts
<1>3. /\ k \in 1 .. Len(body) /\ OwedNow \in Nat
      /\ OwedNow' = Rest(OwedNow) + 0
      /\ \/ gen_pos'.at = "node" /\ gen_pos'.k = k + 1
         \/ gen_pos'.at = "post_def" /\ k = Len(body)
  BY <1>1, OwedNext
<1>4. /\ Stacked(body, frames) /\ InBody(body, frames)
      /\ OwedNow = Below(body, frames, Len(frames))
      /\ frames # <<>> => Missing(body, frames[Len(frames)]) > 0
      /\ \A j \in DOMAIN frames : frames[j].node < k
  BY <1>1, TreeIsStack, StackFacts
<1>5. /\ Stacked(body, frames') /\ OwedNow' = Below(body, frames', Len(frames'))
      /\ DOMAIN frames' = DOMAIN frames /\ \A j \in DOMAIN frames : frames'[j].node = frames[j].node
  <2>1. CASE frames = <<>>
    <3>1. frames' = <<>> /\ OwedNow = 0
      BY <1>4, <2>1 DEF Deliver, Below
    <3> QED BY <1>3, <1>4, <2>1, <3>1 DEF Below, Rest
  <2>2. CASE frames # <<>>
    <3>1. /\ Stacked(body, frames') /\ Below(body, frames', Len(frames')) = OwedNow - 1
      BY <1>2, <1>4, <2>2, StackDelivered
    <3>2. OwedNow > 0
      <4>1. Len(frames) \in DOMAIN frames
        BY <1>2, <2>2
      <4>2. /\ Rest(OwedBefore(body, frames[Len(frames)].node)) \in Nat
            /\ Missing(body, frames[Len(frames)]) \in Int
            /\ OwedNow = Rest(OwedBefore(body, frames[Len(frames)].node)) + Missing(body, frames[Len(frames)])
        BY <1>2, <1>4, <4>1, BelowTypes
      <4> QED BY <1>4, <2>2, <4>2
    <3> QED BY <1>2, <1>3, <2>2, <3>1, <3>2, DeliverIs DEF Rest
  <2> QED BY <2>1, <2>2
<1>6. StackByTree'
  <2>1. gen_pos'.at = "node" => \A j \in DOMAIN frames' : frames'[j].node < gen_pos'.k
    <3>1. \A j \in DOMAIN frames : frames[j].node \in Nat
      BY <1>2, <1>4 DEF InBody
    <3> QED BY <1>3, <1>4, <1>5, <3>1
  <2> QED BY <1>1, <1>5, <2>1, StackIsTree
<1>7. OperandsFit'
  BY <1>2, OperandsDelivered
<1>8. gen_pos'.at \in {"node", "post_def"}
  BY <1>3
<1>9. StorageByName'
  BY <1>8, StorageKept
<1>10. ReturnEnds'
  <2>1. \A j \in DOMAIN CurrentCode' : CurrentCode'[j].op # "ret"
    BY NoReturnAfter
  <2>2. ASSUME NEW n \in DOMAIN body, body[n] \in Jump, NodeLeft(n)'
        PROVE  frames' # <<>> /\ frames'[1].node = n
    <3>1. n # k /\ n \in 1 .. Len(body)
      BY <1>2, <2>2
    <3>2. n < k
      BY <1>3, <2>2, <3>1 DEF NodeLeft
    <3>3. NodeLeft(n)
      BY <3>2 DEF NodeLeft
    <3>4. frames # <<>> /\ frames[1].node = n
      BY <1>1, <2>2, <3>3, ReturnWaits
    <3>5. 1 \in DOMAIN frames
      BY <1>2, <3>4
    <3> QED BY <1>5, <3>4, <3>5
  <2> QED BY <1>1, <2>1, <2>2 DEF ReturnEnds
<1> QED BY <1>6, <1>7, <1>9, <1>10, BodyFits

(* An expression, an assignment or a return that begins. *)
LEMMA PushFits ==
  ASSUME Fitting, gen_pos.at = "node", ~Complete, Extends(<<>>),
         NEW operands \in Seq(Value),
         frames' = Append(frames, [node |-> gen_pos.k, operands |-> operands]),
         UNCHANGED value_table,
         \/ /\ Pass(1) /\ operands = <<>>
            /\ ~IsAssignment(CurrentDef.body[gen_pos.k])
         \/ /\ Pass(2) /\ Len(operands) = 1
            /\ IsAssignment(CurrentDef.body[gen_pos.k])
            /\ IsAddress(operands[1]) /\ Local(operands[1], insert_point, Len(CurrentCode) + 1)
  PROVE  CodeFits'
<1> DEFINE body == CurrentDef.body
           k == gen_pos.k
           frame == [node |-> k, operands |-> operands]
<1>1. InDefinition /\ CurrentDef' = CurrentDef /\ UNCHANGED tunit /\ <<>> \in Seq(Instruction)
  <2>1. <<>> \in Seq(Instruction)
    OBVIOUS
  <2> QED BY <2>1, CodeGrows DEF Extends
<1>2. /\ body \in Seq(Node) /\ frames \in Seq(Frame) /\ DOMAIN body = 1 .. Len(body)
      /\ Len(body) \in Nat /\ Len(frames) \in Nat /\ DOMAIN frames = 1 .. Len(frames)
  BY <1>1, InCode, StackFacts
<1>3. /\ k \in 1 .. Len(body) /\ OwedNow \in Nat
      /\ OwedNow' = Rest(OwedNow) + Missing(body, frame) /\ Missing(body, frame) >= 0
      /\ \/ gen_pos'.at = "node" /\ k < gen_pos'.k
         \/ gen_pos'.at = "post_def"
      /\ \A n \in DOMAIN body : body[n] \in Jump /\ NodeLeft(n)' => n <= k
  <2>1. CASE Pass(1) /\ operands = <<>>
    <3>1. /\ k \in 1 .. Len(body) /\ OwedNow \in Nat /\ Arity(body[k]) \in Nat
          /\ OwedNow' = Rest(OwedNow) + Arity(body[k])
          /\ \/ gen_pos'.at = "node" /\ gen_pos'.k = k + 1
             \/ gen_pos'.at = "post_def" /\ k = Len(body)
      BY <1>1, <2>1, OwedNext
    <3>2. Missing(body, frame) = Arity(body[k])
      BY <2>1, <3>1 DEF Missing
    <3>3. k \in Nat /\ \A n \in DOMAIN body : NodeLeft(n)' => n <= k
      <4> HIDE DEF k, body
      <4>1. k \in Nat /\ \A n \in DOMAIN body : n \in Nat /\ n <= Len(body)
        BY <1>2, <3>1
      <4>2. \A n : NodeLeft(n)' => gen_pos'.at = "post_def" \/ (gen_pos'.at = "node" /\ n < gen_pos'.k)
        BY DEF NodeLeft
      <4>3. CASE gen_pos'.at = "node" /\ gen_pos'.k = k + 1
        BY <4>1, <4>2, <4>3
      <4>4. CASE gen_pos'.at = "post_def" /\ k = Len(body)
        BY <4>1, <4>4
      <4> QED BY <3>1, <4>1, <4>3, <4>4
    <3> QED BY <3>1, <3>2, <3>3
  <2>2. CASE Pass(2) /\ Len(operands) = 1 /\ IsAssignment(body[k])
    <3>1. /\ k \in 1 .. Len(body) /\ k + 1 \in 1 .. Len(body)
          /\ body[k + 1] \in Ident /\ Arity(body[k]) = 2
          /\ OwedNow = 0 /\ OwedNow' = 1
          /\ \/ gen_pos'.at = "node" /\ gen_pos'.k = k + 2
             \/ gen_pos'.at = "post_def" /\ k + 2 = Len(body) + 1
      BY <1>1, <2>2, OwedNextButOne
    <3>2. Missing(body, frame) = 1
      <4>1. Missing(body, frame) = Arity(body[k]) - Len(operands)
        BY DEF Missing
      <4> HIDE DEF frame, body, k
      <4> QED BY <2>2, <3>1, <4>1
    <3>3. body[k + 1] \notin Jump
      BY <3>1 DEF Ident, Jump
    <3>4. k \in Nat /\ \A n \in DOMAIN body : NodeLeft(n)' => n <= k \/ n = k + 1
      <4> HIDE DEF k, body
      <4>1. k \in Nat /\ k + 1 \in Nat /\ \A n \in DOMAIN body : n \in Nat /\ n <= Len(body)
        BY <1>2, <3>1
      <4>2. \A n : NodeLeft(n)' => gen_pos'.at = "post_def" \/ (gen_pos'.at = "node" /\ n < gen_pos'.k)
        BY DEF NodeLeft
      <4>3. CASE gen_pos'.at = "node" /\ gen_pos'.k = k + 2
        BY <4>1, <4>2, <4>3
      <4>4. CASE gen_pos'.at = "post_def" /\ k + 2 = Len(body) + 1
        BY <4>1, <4>4
      <4> QED BY <3>1, <4>1, <4>3, <4>4
    <3> QED BY <3>1, <3>2, <3>3, <3>4 DEF Rest
  <2> QED BY <2>1, <2>2
<1>4. /\ Stacked(body, frames) /\ InBody(body, frames)
      /\ OwedNow = Below(body, frames, Len(frames))
      /\ frames # <<>> => Missing(body, frames[Len(frames)]) > 0
      /\ \A j \in DOMAIN frames : frames[j].node < k
  BY <1>1, TreeIsStack, StackFacts
<1>5. frame \in Frame /\ OwedBefore(body, frame.node) = OwedNow
  BY <1>2, <1>3 DEF Frame, OwedNow
<1>6. /\ Stacked(body, frames') /\ Below(body, frames', Len(frames')) = OwedNow'
  BY <1>2, <1>3, <1>4, <1>5, StackPushed
<1>7. /\ DOMAIN frames' = 1 .. (Len(frames) + 1) /\ frames'[Len(frames) + 1] = frame
      /\ \A j \in DOMAIN frames : frames'[j] = frames[j]
  BY <1>2
<1>8. StackByTree'
  <2>1. gen_pos'.at = "node" => \A j \in DOMAIN frames' : frames'[j].node < gen_pos'.k
    <3>1. \A j \in DOMAIN frames : frames[j].node \in Nat
      BY <1>2, <1>4 DEF InBody
    <3>2. gen_pos'.at = "node" => gen_pos'.k \in Int
      BY <1>1, <1>2, <1>3, OwedNext, OwedNextButOne
    <3>3. ASSUME NEW j \in DOMAIN frames' PROVE frames'[j].node <= k /\ frames'[j].node \in Nat
      <4>1. CASE j = Len(frames) + 1
        BY <1>3, <1>7, <4>1
      <4>2. CASE j # Len(frames) + 1
        <5>1. j \in DOMAIN frames
          BY <1>2, <1>7, <4>2
        <5> QED BY <1>3, <1>4, <1>7, <3>1, <5>1
      <4> QED BY <4>1, <4>2
    <3> QED BY <1>3, <3>2, <3>3
  <2> QED BY <1>1, <1>6, <2>1, StackIsTree
<1>9. OperandsFit'
  <2>1. \A j \in DOMAIN frames : frames[j] \in Frame /\ WaitingFits(frames[j])
    BY <1>2, OperandsWait DEF Fitting, CodeFits
  <2>2. ASSUME NEW j \in DOMAIN frames', NEW fr, fr = frames'[j]
        PROVE  WaitingFits(fr)'
    <3>1. CASE j = Len(frames) + 1
      <4>1. WaitingFits(frame)
        BY DEF WaitingFits
      <4>2. fr = frame /\ fr \in Frame /\ WaitingFits(fr)
        BY <1>5, <1>7, <2>2, <3>1, <4>1
      <4> QED BY <1>1, <4>2, WaitingKept
    <3>2. CASE j # Len(frames) + 1
      <4>1. j \in DOMAIN frames
        BY <1>2, <1>7, <3>2
      <4>2. fr \in Frame /\ WaitingFits(fr)
        BY <1>7, <2>1, <2>2, <4>1
      <4> QED BY <1>1, <4>2, WaitingKept
    <3> QED BY <3>1, <3>2
  <2> QED BY <2>2, OperandsWait
<1>10. gen_pos'.at \in {"node", "post_def"}
  BY <1>3
<1>11. StorageByName'
  BY <1>1, <1>10, StorageKept
<1>12. ReturnEnds'
  <2>1. \A j \in DOMAIN CurrentCode' : CurrentCode'[j].op # "ret"
    <3>1. NoReturnIn(<<>>)
      BY DEF NoReturnIn
    <3> QED BY <1>1, <3>1, NoReturnAfter
  <2>2. ASSUME NEW n \in DOMAIN body, body[n] \in Jump, NodeLeft(n)'
        PROVE  frames' # <<>> /\ frames'[1].node = n
    <3>1. CASE n < k
      <4>1. NodeLeft(n)
        BY <3>1 DEF NodeLeft
      <4>2. frames # <<>> /\ frames[1].node = n
        BY <1>1, <2>2, <4>1, ReturnWaits
      <4>3. 1 \in DOMAIN frames
        BY <1>2, <4>2
      <4> QED BY <1>2, <1>7, <4>2, <4>3
    <3>2. CASE n = k
      <4>1. OwedNow = 0
        <5>1. WellFormed(body)
          BY <1>1, InCode
        <5> QED BY <2>2, <3>2, <5>1 DEF WellFormed, OwedNow
      <4>2. frames = <<>>
        <5> SUFFICES ASSUME frames # <<>> PROVE FALSE
          OBVIOUS
        <5>1. Len(frames) \in DOMAIN frames
          BY <1>2
        <5>2. /\ Rest(OwedBefore(body, frames[Len(frames)].node)) \in Nat
              /\ Missing(body, frames[Len(frames)]) \in Int
              /\ OwedNow = Rest(OwedBefore(body, frames[Len(frames)].node)) + Missing(body, frames[Len(frames)])
          BY <1>2, <1>4, <5>1, BelowTypes
        <5> QED BY <1>4, <4>1, <5>2
      <4> QED BY <1>7, <3>2, <4>2
    <3>3. n \in Nat /\ k \in Nat /\ n <= k
      BY <1>2, <1>3, <2>2
    <3> QED BY <3>1, <3>2, <3>3
  <2> QED BY <1>1, <2>1, <2>2 DEF ReturnEnds
<1> QED BY <1>1, <1>8, <1>9, <1>11, <1>12, BodyFits

(* The expression on top is done: what waits is the rest of the stack. *)
LEMMA StackBelow ==
  ASSUME Fitting, InDefinition, Complete
  PROVE  LET body == CurrentDef.body
             rest == Front(frames)
         IN  /\ frames # <<>> /\ Len(frames) \in Nat /\ Len(frames) \in DOMAIN frames
             /\ body \in Seq(Node) /\ rest \in Seq(Frame) /\ frames \in Seq(Frame)
             /\ Stacked(body, rest) /\ InBody(body, rest)
             /\ rest # <<>> => Missing(body, rest[Len(rest)]) > 0
             /\ OwedNow = Rest(Below(body, rest, Len(rest)))
             /\ OwedBefore(body, Top.node) = Below(body, rest, Len(rest))
             /\ rest = <<>> <=> Len(frames) = 1
             /\ rest # <<>> => OwedBefore(body, Top.node) > 0
             /\ OwedBefore(body, Top.node) \in Nat
             /\ DOMAIN rest \subseteq DOMAIN frames /\ \A j \in DOMAIN rest : rest[j] = frames[j]
             /\ Top.node \in DOMAIN body /\ TopNode = body[Top.node]
<1> DEFINE body == CurrentDef.body
           rest == Front(frames)
           l == Len(frames)
<1>1. /\ frames # <<>> /\ frames \in Seq(Frame) /\ l \in Nat /\ Top = frames[l]
      /\ TopNode = FrameNode(l) /\ Wanting(l) = 0 /\ DOMAIN frames = 1 .. l
  BY StackFacts
<1>2. l \in DOMAIN frames
  BY <1>1
<1>3. body \in Seq(Node)
  BY InCode
<1>4. /\ Stacked(body, frames) /\ InBody(body, frames) /\ OwedNow = Below(body, frames, l)
      /\ Missing(body, frames[l]) = 0
  BY <1>1, TreeIsStack
<1>5. /\ Stacked(body, rest) /\ InBody(body, rest)
      /\ rest # <<>> => Missing(body, rest[Len(rest)]) > 0
      /\ OwedBefore(body, frames[l].node) = Below(body, rest, Len(rest))
      /\ rest = <<>> <=> l = 1
      /\ l # 1 => OwedBefore(body, frames[l].node) > 0
  BY <1>1, <1>3, <1>4, StackPopped
<1>6. /\ OwedBefore(body, frames[l].node) \in Nat
      /\ Rest(OwedBefore(body, frames[l].node)) \in Nat
      /\ Below(body, frames, l) = Rest(OwedBefore(body, frames[l].node)) + Missing(body, frames[l])
  BY <1>1, <1>2, <1>3, <1>4, BelowTypes
<1>7. /\ rest \in Seq(Frame) /\ DOMAIN rest \subseteq DOMAIN frames
      /\ \A j \in DOMAIN rest : rest[j] = frames[j]
  BY <1>1, FrontOfStack
<1>8. OwedNow = Rest(Below(body, rest, Len(rest)))
  BY <1>4, <1>5, <1>6
<1>9. Top.node \in DOMAIN body /\ TopNode = body[Top.node]
  BY <1>1, <1>2, <1>3, <1>4 DEF InBody, FrameNode
<1> HIDE DEF rest, l, body
<1>10. rest = Front(frames) /\ l = Len(frames) /\ body = CurrentDef.body
  BY DEF rest, l, body
<1> QED BY <1>1, <1>2, <1>3, <1>5, <1>6, <1>7, <1>8, <1>9, <1>10

(* A statement has the stack for itself. *)
LEMMA StatementAlone ==
  ASSUME Fitting, InDefinition, Complete, TopNode \in Jump \/ IsAssignment(TopNode)
  PROVE  Front(frames) = <<>> /\ Len(frames) = 1 /\ OwedNow = 0
<1> DEFINE body == CurrentDef.body
<1>1. Top.node \in DOMAIN body /\ TopNode = body[Top.node]
  BY StackBelow
<1>2. OwedBefore(body, Top.node) = 0
  <2>1. CASE TopNode \in Jump
    <3>1. WellFormed(body)
      BY InCode
    <3> QED BY <1>1, <2>1, <3>1 DEF WellFormed
  <2>2. CASE IsAssignment(TopNode)
    <3>1. gen_pos.fn \in DOMAIN tunit.defs
      BY InCode
    <3> QED BY <1>1, <2>2, <3>1 DEF Fitting, Supported, AssignmentsAreStatements, IsStatement,
                                    IsAssignment, CurrentDef
  <2> QED BY <2>1, <2>2
<1>3. Front(frames) = <<>> /\ Len(frames) = 1
  BY <1>2, StackBelow
<1>4. Below(body, Front(frames), Len(Front(frames))) = 0
  BY <1>2, StackBelow
<1>5. OwedNow = 0
  BY <1>4, StackBelow DEF Rest
<1> QED BY <1>3, <1>5

(* An expression or an assignment that is done. *)
LEMMA PopFits ==
  ASSUME Fitting, Complete, TopNode \notin Jump, UNCHANGED <<gen_pos, value_table>>,
         NEW instrs \in Seq(Instruction), Extends(instrs), NoReturnIn(instrs),
         NEW v \in Value, frames' = Deliver(Front(frames), v),
         Front(frames) # <<>> => ~IsAddress(v) /\ Local(v, insert_point, Len(CurrentCode) + 1)'
  PROVE  CodeFits'
<1> DEFINE body == CurrentDef.body
           rest == Front(frames)
<1>1. InDefinition /\ CurrentDef' = CurrentDef
  BY CodeGrows DEF Extends
<1>2. /\ frames # <<>> /\ Len(frames) \in Nat
      /\ body \in Seq(Node) /\ rest \in Seq(Frame)
      /\ Stacked(body, rest) /\ InBody(body, rest)
      /\ rest # <<>> => Missing(body, rest[Len(rest)]) > 0
      /\ OwedNow = Rest(Below(body, rest, Len(rest)))
      /\ rest = <<>> <=> Len(frames) = 1
      /\ DOMAIN rest \subseteq DOMAIN frames /\ \A j \in DOMAIN rest : rest[j] = frames[j]
      /\ TopNode = body[Top.node] /\ frames \in Seq(Frame)
  BY <1>1, StackBelow
<1>3. OwedNow' = OwedNow
  BY <1>1 DEF OwedNow
<1>4. gen_pos.at \in {"node", "post_def"}
  BY <1>2, GeneratingFacts DEF Fitting
<1> HIDE DEF rest
<1>5. /\ Stacked(body, frames') /\ OwedNow' = Below(body, frames', Len(frames'))
      /\ DOMAIN frames' = DOMAIN rest /\ \A j \in DOMAIN rest : frames'[j].node = rest[j].node
  <2>1. frames' = Deliver(rest, v)
    BY DEF rest
  <2>2. CASE rest = <<>>
    <3>1. frames' = <<>>
      BY <2>1, <2>2 DEF Deliver
    <3> QED BY <1>2, <1>3, <2>2, <3>1 DEF Below, Rest
  <2>3. CASE rest # <<>>
    <3>1. /\ Stacked(body, frames')
          /\ Below(body, frames', Len(frames')) = Below(body, rest, Len(rest)) - 1
      BY <1>2, <2>1, <2>3, StackDelivered
    <3>2. Below(body, rest, Len(rest)) > 0
      <4>1. Len(rest) \in DOMAIN rest
        BY <1>2, <2>3
      <4>2. /\ Rest(OwedBefore(body, rest[Len(rest)].node)) \in Nat
            /\ Missing(body, rest[Len(rest)]) \in Int
            /\ Below(body, rest, Len(rest)) =
                 Rest(OwedBefore(body, rest[Len(rest)].node)) + Missing(body, rest[Len(rest)])
        BY <1>2, <4>1, BelowTypes
      <4> QED BY <1>2, <2>3, <4>2
    <3>3. OwedNow = Below(body, rest, Len(rest)) - 1
      BY <1>2, <3>2 DEF Rest
    <3> QED BY <1>2, <1>3, <2>1, <2>3, <3>1, <3>3, DeliverIs
  <2> QED BY <2>2, <2>3
<1>6. StackByTree'
  <2>1. gen_pos'.at = "node" => \A j \in DOMAIN frames' : frames'[j].node < gen_pos'.k
    BY <1>1, <1>2, <1>5, TreeIsStack
  <2> QED BY <1>1, <1>5, <2>1, StackIsTree
<1>7. OperandsFit'
  BY <1>2, OperandsDelivered DEF rest
<1>8. StorageByName'
  BY <1>4, StorageKept
<1>9. ReturnEnds'
  <2>1. \A j \in DOMAIN CurrentCode' : CurrentCode'[j].op # "ret"
    BY <1>2, NoReturnAfter
  <2>2. ASSUME NEW n \in DOMAIN body, body[n] \in Jump, NodeLeft(n)'
        PROVE  frames' # <<>> /\ frames'[1].node = n
    <3>1. NodeLeft(n)
      BY <2>2 DEF NodeLeft
    <3>2. frames[1].node = n
      BY <1>1, <1>2, <2>2, <3>1, ReturnWaits
    <3>3. Len(frames) # 1
      BY <1>2, <2>2, <3>2 DEF Top
    <3>4. 1 \in DOMAIN rest
      BY <1>2, <3>3
    <3> QED BY <1>2, <1>5, <3>2, <3>4
  <2> QED BY <1>1, <2>1, <2>2 DEF ReturnEnds
<1> QED BY <1>6, <1>7, <1>8, <1>9, BodyFits

(* A return that is done, which is the end of the body. *)
LEMMA ReturnFits ==
  ASSUME Fitting, Complete, TopNode \in Jump, UNCHANGED <<gen_pos, value_table>>,
         NEW ret \in Instruction, ret.op = "ret", Extends(<<ret>>),
         frames' = Front(frames)
  PROVE  CodeFits'
<1> DEFINE body == CurrentDef.body
           instrs == <<ret>>
<1>1. InDefinition /\ CurrentDef' = CurrentDef /\ instrs \in Seq(Instruction)
  <2>1. instrs \in Seq(Instruction)
    OBVIOUS
  <2> QED BY <2>1, CodeGrows DEF Extends
<1>2. frames' = <<>> /\ frames # <<>> /\ Len(frames) = 1 /\ OwedNow = 0
  BY <1>1, StatementAlone, StackBelow
<1>3. OwedNow' = 0
  BY <1>1, <1>2 DEF OwedNow
<1>4. gen_pos.at = "post_def"
  <2> SUFFICES ASSUME gen_pos.at = "node" PROVE FALSE
    BY <1>2, GeneratingFacts DEF Fitting
  <2>1. body \in Seq(Node) /\ gen_pos.fn \in DOMAIN tunit.defs
    BY <1>1, InCode
  <2>2. Top.node \in DOMAIN body /\ TopNode = body[Top.node] /\ Top = frames[1] /\ 1 \in DOMAIN frames
    BY <1>1, <1>2, StackBelow DEF Top
  <2>3. Top.node < gen_pos.k
    BY <1>1, <2>2, TreeIsStack
  <2>4. gen_pos.k \in DOMAIN body
    BY GeneratingFacts DEF Fitting, IsPlace, Within, CurrentDef
  <2>5. ~IsStatement(body, gen_pos.k)
    BY <2>1, <2>2, <2>3, <2>4 DEF Fitting, Supported, ReturnsOnceAtEnd, CurrentDef
  <2> QED BY <1>2, <2>5 DEF IsStatement, OwedNow
<1>5. StackByTree'
  <2>1. Stacked(body, <<>>)
    BY DEF Stacked
  <2> QED BY <1>1, <1>2, <1>3, <2>1, StackIsTree DEF Below
<1>6. OperandsFit'
  BY <1>2, OperandsWait
<1>7. StorageByName'
  BY <1>1, <1>4, StorageKept
<1>8. ReturnEnds'
  <2>1. CurrentCode \in Seq(Instruction) /\ CurrentCode' = CurrentCode \o instrs
    BY <1>1, InCode, CodeGrows
  <2>2. /\ Len(CurrentCode') = Len(CurrentCode) + 1 /\ CurrentCode' # <<>>
        /\ CurrentCode'[Len(CurrentCode) + 1] = ret
    BY <2>1
  <2>3. EndsInReturn(CurrentCode)'
    BY <2>2 DEF EndsInReturn
  <2> QED BY <1>2, <1>4, <2>3 DEF ReturnEnds
<1> QED BY <1>1, <1>5, <1>6, <1>7, <1>8, BodyFits

----------------------------------------------------------------------------
(* The steps inside a body. *)

(* Well typed instructions are emitted. *)
LEMMA Emitted ==
  ASSUME Fitting, NEW instrs, Emit(instrs), \A m \in DOMAIN instrs : WellTyped(instrs[m])
  PROVE  status' = "generating" /\ Appended(instrs)
BY DEF Fitting, Generating, Emit, Appended

(* Leaving the functions alone is to append nothing. *)
LEMMA NothingEmitted ==
  ASSUME Fitting, InDefinition, UNCHANGED functions
  PROVE  Appended(<<>>)
<1>1. insert_point \in DOMAIN functions /\ functions \in Seq(LlvmFunction)
  BY InCode
<1>2. functions[insert_point] \in LlvmFunction
  BY <1>1
<1>3. \A f \in LlvmFunction : [f EXCEPT !.code = f.code \o <<>>] = f
  <2> SUFFICES ASSUME NEW f \in LlvmFunction PROVE [f EXCEPT !.code = f.code \o <<>>] = f
    OBVIOUS
  <2>1. f.code \in Seq(Instruction)
    BY DEF LlvmFunction
  <2>2. f.code \o <<>> = f.code
    BY <2>1
  <2> QED BY <2>2 DEF LlvmFunction
<1>4. [functions[insert_point] EXCEPT !.code = functions[insert_point].code \o <<>>]
        = functions[insert_point]
  BY <1>2, <1>3
<1>5. [functions EXCEPT ![insert_point] = functions[insert_point]] = functions
  BY <1>1
<1>6. [functions EXCEPT ![insert_point].code = @ \o <<>>] =
        [functions EXCEPT ![insert_point] =
           [functions[insert_point] EXCEPT !.code = functions[insert_point].code \o <<>>]]
  OBVIOUS
<1> QED BY <1>4, <1>5, <1>6 DEF Appended

(* The result of an instruction fits behind it, storage fits everywhere.    *)
LEMMA ResultFits ==
  ASSUME Fitting, NEW instrs \in Seq(Instruction), Extends(instrs), Len(instrs) = 1,
         NEW v, v = NextValue("result")
  PROVE  v \in Value /\ ~IsAddress(v) /\ Local(v, insert_point, Len(CurrentCode) + 1)'
<1>1. /\ insert_point \in DOMAIN functions /\ functions \in Seq(LlvmFunction)
      /\ Len(CurrentCode) \in Nat
  BY InCode DEF Extends
<1>2. v \in Value
  BY <1>1, NextValueIsValue
<1>3. v.kind = "result" /\ v.fn = insert_point /\ v.k = Len(CurrentCode) + 1
  BY DEF NextValue, CurrentCode
<1>4. Len(CurrentCode') = Len(CurrentCode) + 1 /\ insert_point' = insert_point
  BY CodeGrows DEF Extends
<1>5. v.fn = insert_point' /\ v.k <= (Len(CurrentCode') + 1) - 1 /\ v.kind # "argument"
  BY <1>1, <1>3, <1>4
<1> QED BY <1>2, <1>3, <1>5 DEF Local, IsAddress

(* The address an alloca gave before is an operand for what comes later. *)
LEMMA StorageFits ==
  ASSUME NEW m \in Nat, NEW c \in 1 .. m
  PROVE  IsAddress(Storage(c)) /\ Local(Storage(c), insert_point, m + 1)
<1>1. c <= (m + 1) - 1
  OBVIOUS
<1> QED BY <1>1 DEF IsAddress, Storage, Local

(* The kinds of nodes. *)
LEMMA KindsApart ==
  ASSUME NEW n \in Node
  PROVE  /\ n.kind = "number_literal" => n \in Number /\ Arity(n) = 0 /\ n \notin Jump
         /\ n.kind = "identifier" => n \in Ident /\ Arity(n) = 0 /\ n \notin Jump
         /\ n.kind = "call_expression" => n \in Call /\ ~IsAssignment(n)
         /\ n.kind = "jump_statement" => n \in Jump /\ ~IsAssignment(n)
         /\ n.kind = "binary_expression" => n \in Binary /\ (IsAssignment(n) <=> n.op = "=")
         /\ n \in Call \cup Binary => n \notin Jump
         /\ n \in Call \cup Jump => ~IsAssignment(n)
<1>1. n \in Number \/ n \in Ident \/ n \in Call \/ n \in Binary \/ n \in Jump
  BY DEF Node
<1>2. CASE n \in Number
  BY <1>2 DEF Number, Ident, Call, Binary, Jump, Arity, IsAssignment
<1>3. CASE n \in Ident
  BY <1>3 DEF Number, Ident, Call, Binary, Jump, Arity, IsAssignment
<1>4. CASE n \in Call
  BY <1>4 DEF Number, Ident, Call, Binary, Jump, IsAssignment
<1>5. CASE n \in Binary
  BY <1>5 DEF Number, Ident, Call, Binary, Jump, IsAssignment
<1>6. CASE n \in Jump
  BY <1>6 DEF Number, Ident, Call, Binary, Jump, IsAssignment
<1> QED BY <1>1, <1>2, <1>3, <1>4, <1>5, <1>6

(* The node to generate is in the body of the definition. *)
LEMMA NodeHere ==
  ASSUME Fitting, gen_pos.at = "node"
  PROVE  /\ InDefinition
         /\ gen_pos.k \in DOMAIN CurrentDef.body /\ DOMAIN CurrentDef.body = 1 .. Len(CurrentDef.body)
         /\ GenBody = CurrentDef.body
         /\ CurrentDef.body[gen_pos.k] \in Node
<1>1. InDefinition /\ GenBody = CurrentDef.body
  BY DEF InDefinition, GenBody, CurrentDef
<1>2. CurrentDef.body \in Seq(Node)
  BY <1>1, InCode
<1>3. gen_pos.k \in DOMAIN CurrentDef.body
  BY GeneratingFacts DEF Fitting, IsPlace, Within, CurrentDef
<1> QED BY <1>1, <1>2, <1>3

(* A number is delivered or is a statement of its own. *)
LEMMA NumberFits ==
  ASSUME Fitting, GenNumber, UNCHANGED tunit
  PROVE  CodeFits' /\ status' = "generating"
<1> DEFINE n == CurrentDef.body[gen_pos.k]
<1>0. PICK v : v = Constant(n.value)
  OBVIOUS
<1>1. /\ gen_pos.at = "node" /\ ~Complete /\ n.kind = "number_literal"
      /\ frames' = Deliver(frames, v) /\ Pass(1)
      /\ UNCHANGED <<status, functions, func_map, value_table, insert_point>>
  BY <1>0, NodeHere DEF GenNumber, AtNode, tables
<1>2. n \in Number /\ Arity(n) = 0 /\ n \notin Jump
  BY <1>1, NodeHere, KindsApart
<1>3. v \in Value /\ IsConstant(v)
  <2>1. n.value \in Int
    BY <1>2, LimitAssumption DEF Number
  <2>2. v \in Value
    BY <1>0, <2>1, ConstantIsValue
  <2>3. v.kind = "constant"
    BY <1>0 DEF Constant
  <2> QED BY <2>2, <2>3 DEF IsConstant
<1>4. gen_pos'.fn = gen_pos.fn /\ InDefinition' /\ InDefinition
  BY <1>1, NodeHere, OwedNext
<1>5. Appended(<<>>) /\ <<>> \in Seq(Instruction) /\ NoReturnIn(<<>>)
  <2>1. <<>> \in Seq(Instruction)
    OBVIOUS
  <2> QED BY <1>1, <1>4, <2>1, NothingEmitted DEF NoReturnIn
<1>6. Extends(<<>>)
  BY <1>1, <1>4, <1>5 DEF Extends
<1>7. ~IsAddress(v) /\ Local(v, insert_point, Len(CurrentCode) + 1)'
  BY <1>3 DEF IsConstant, IsAddress, Local
<1>8. CodeFits'
  BY <1>1, <1>2, <1>3, <1>5, <1>6, <1>7, LeafFits
<1> QED BY <1>1, <1>8 DEF Fitting, Generating

(* One instruction is put behind the code. *)
LEMMA OneExtends ==
  ASSUME Fitting, InDefinition, UNCHANGED <<tunit, func_map, insert_point>>,
         gen_pos'.fn = gen_pos.fn, InDefinition', gen_pos.at # "post_def" \/ frames # <<>>,
         NEW instr \in Instruction, InstrFits(instr, 1), Emit(<<instr>>)
  PROVE  /\ status' = "generating"
         /\ <<instr>> \in Seq(Instruction) /\ Len(<<instr>>) = 1 /\ Extends(<<instr>>)
         /\ instr.op # "ret" => NoReturnIn(<<instr>>)
<1>1. <<instr>> \in Seq(Instruction) /\ Len(<<instr>>) = 1 /\ DOMAIN <<instr>> = {1}
      /\ <<instr>>[1] = instr
  OBVIOUS
<1>2. \A m \in DOMAIN <<instr>> : m = 1 /\ <<instr>>[m] = instr
  BY <1>1
<1>3. WellTyped(instr)
  BY DEF InstrFits
<1>4. status' = "generating" /\ Appended(<<instr>>)
  BY <1>2, <1>3, Emitted
<1> QED BY <1>1, <1>2, <1>4 DEF Extends, NoReturnIn

(* An identifier is loaded from the storage of its own function. *)
LEMMA IdentifierEmits ==
  ASSUME Fitting, GenIdentifier, UNCHANGED tunit
  PROVE  LET n == CurrentDef.body[gen_pos.k]
             symbol == id_symbol[<<gen_pos.fn, gen_pos.k>>]
         IN  /\ gen_pos.at = "node" /\ ~Complete /\ n.kind = "identifier"
             /\ Arity(n) = 0 /\ n \notin Jump
             /\ \E instr \in Instruction, v \in Value, c \in 1 .. Len(CurrentCode) :
                  /\ instr.op = "load" /\ instr.operands = <<Storage(c)>>
                  /\ value_table[symbol.name] = Storage(c) /\ v = NextValue("result")
                  /\ frames' = Deliver(frames, v) /\ Pass(1)
                  /\ UNCHANGED <<func_map, value_table, insert_point>>
                  /\ status' = "generating" /\ <<instr>> \in Seq(Instruction)
                  /\ Extends(<<instr>>) /\ NoReturnIn(<<instr>>)
                  /\ ~IsAddress(v) /\ Local(v, insert_point, Len(CurrentCode) + 1)'
<1> DEFINE n == CurrentDef.body[gen_pos.k]
           symbol == id_symbol[<<gen_pos.fn, gen_pos.k>>]
           source == value_table[symbol.name]
<1>1. gen_pos.at = "node" /\ ~Complete /\ n.kind = "identifier"
  BY NodeHere DEF GenIdentifier, AtNode
<1>2. InDefinition /\ gen_pos.k \in DOMAIN CurrentDef.body /\ n \in Node
  BY <1>1, NodeHere
<1>3. Arity(n) = 0 /\ n \notin Jump
  BY <1>1, <1>2, KindsApart
<1>4. PICK c \in 1 .. Len(CurrentCode) : source = Storage(c) /\ Alive(symbol)
  BY <1>1, <1>2, StorageOfIdentifier
<1>5. PICK instr : instr = Instr("load", <<source>>)
  OBVIOUS
<1>6. PICK v : v = NextValue("result")
  OBVIOUS
<1>7. Len(CurrentCode) \in Nat /\ insert_point \in DOMAIN functions /\ functions \in Seq(LlvmFunction)
  BY <1>2, InCode
<1>8. source \in Value
  <2>1. insert_point \in Nat /\ c \in Int
    BY <1>7
  <2>2. Storage(c) \in Value
    BY <2>1 DEF Storage, Value
  <2> QED BY <1>4, <2>2
<1>9. source # NoValue
  BY <1>8, ValueIsSome
<1>10. /\ Emit(<<instr>>) /\ frames' = Deliver(frames, v) /\ Pass(1)
       /\ UNCHANGED <<func_map, value_table, insert_point>>
  BY <1>4, <1>5, <1>6, <1>9 DEF GenIdentifier, tables
<1>11. instr \in Instruction /\ instr.op = "load" /\ instr.operands = <<source>>
  <2> HIDE DEF source
  <2>1. <<source>> \in Seq(Value)
    BY <1>8
  <2> QED BY <1>5, <2>1, PlainInstr DEF Instr
<1>12. InstrFits(instr, 1)
  <2>1. IsAddress(source) /\ Local(source, insert_point, Len(CurrentCode) + 1)
    BY <1>4, <1>7, StorageFits
  <2> HIDE DEF source
  <2>2. instr.operands[1] = source /\ \A o \in DOMAIN instr.operands : instr.operands[o] = source
    BY <1>11
  <2> QED BY <1>11, <2>1, <2>2 DEF InstrFits, WellTyped
<1>13. gen_pos'.fn = gen_pos.fn /\ InDefinition'
  BY <1>1, <1>10, OwedNext
<1>14. /\ status' = "generating"
       /\ <<instr>> \in Seq(Instruction) /\ Len(<<instr>>) = 1 /\ Extends(<<instr>>)
       /\ NoReturnIn(<<instr>>)
  BY <1>1, <1>2, <1>10, <1>11, <1>12, <1>13, OneExtends
<1>15. v \in Value /\ ~IsAddress(v) /\ Local(v, insert_point, Len(CurrentCode) + 1)'
  BY <1>6, <1>14, ResultFits
<1> QED BY <1>1, <1>3, <1>4, <1>6, <1>10, <1>11, <1>14, <1>15

LEMMA IdentifierFits ==
  ASSUME Fitting, GenIdentifier, UNCHANGED tunit
  PROVE  CodeFits' /\ status' = "generating"
BY IdentifierEmits, LeafFits

(* An expression begins without operands. *)
LEMMA BeginExpressionFits ==
  ASSUME Fitting, BeginExpression, UNCHANGED tunit
  PROVE  CodeFits' /\ status' = "generating"
<1> DEFINE n == CurrentDef.body[gen_pos.k]
<1>1. gen_pos.at = "node" /\ ~Complete
      /\ \/ n.kind = "call_expression" \/ n.kind = "jump_statement"
         \/ n.kind = "binary_expression" /\ n.op # "="
  BY NodeHere DEF BeginExpression, AtNode
<1>2. InDefinition /\ ~IsAssignment(n)
  BY <1>1, NodeHere, KindsApart
<1>3. /\ frames' = Append(frames, [node |-> gen_pos.k, operands |-> <<>>]) /\ Pass(1)
      /\ UNCHANGED <<status, functions, func_map, value_table, insert_point>>
  BY DEF BeginExpression, tables
<1>4. gen_pos'.fn = gen_pos.fn /\ InDefinition'
  BY <1>1, <1>3, OwedNext
<1>5. Extends(<<>>)
  BY <1>2, <1>3, <1>4, NothingEmitted DEF Extends
<1>6. <<>> \in Seq(Value)
  OBVIOUS
<1>7. CodeFits'
  BY <1>1, <1>2, <1>3, <1>5, <1>6, PushFits
<1> QED BY <1>3, <1>7 DEF Fitting, Generating

(* Behind "=" is the identifier to its left. *)
LEMMA TargetHere ==
  ASSUME Fitting, gen_pos.at = "node", CurrentDef.body[gen_pos.k].kind = "binary_expression",
         CurrentDef.body[gen_pos.k].op = "="
  PROVE  /\ gen_pos.k + 1 \in DOMAIN CurrentDef.body
         /\ CurrentDef.body[gen_pos.k + 1].kind = "identifier"
<1> DEFINE n == CurrentDef.body[gen_pos.k]
<1>1. InDefinition /\ IsAssignment(n) /\ n \in Binary /\ gen_pos.k \in DOMAIN CurrentDef.body
  BY NodeHere, KindsApart
<1>2. CurrentDef.body \in Seq(Node) /\ WellFormed(CurrentDef.body)
  BY <1>1, InCode
<1>3. Arity(n) > 0
  BY <1>1 DEF Binary, Arity
<1>4. gen_pos.k + 1 \in DOMAIN CurrentDef.body
  BY <1>1, <1>2, <1>3, OwedAtEnd
<1>5. CurrentDef.body[gen_pos.k + 1] \in Ident
  BY <1>1, <1>2 DEF WellFormed
<1> QED BY <1>4, <1>5 DEF Ident

(* An assignment begins with the address of its target. *)
LEMMA BeginAssignmentFits ==
  ASSUME Fitting, BeginAssignment, UNCHANGED tunit
  PROVE  CodeFits' /\ status' = "generating"
<1> DEFINE n == CurrentDef.body[gen_pos.k]
           x == CurrentDef.body[gen_pos.k + 1].name
<1>1. gen_pos.at = "node" /\ ~Complete /\ n.kind = "binary_expression" /\ n.op = "="
  BY NodeHere DEF BeginAssignment, AtNode
<1>2. InDefinition /\ IsAssignment(n) /\ n \in Binary /\ gen_pos.k \in DOMAIN CurrentDef.body
      /\ GenBody = CurrentDef.body
  BY <1>1, NodeHere, KindsApart
<1>3. gen_pos.k + 1 \in DOMAIN CurrentDef.body /\ CurrentDef.body[gen_pos.k + 1].kind = "identifier"
  BY <1>1, TargetHere
<1>4. PICK c \in 1 .. Len(CurrentCode) : value_table[x] = Storage(c)
  BY <1>1, <1>3, StorageOfIdentifier
<1>5. Len(CurrentCode) \in Nat /\ insert_point \in DOMAIN functions /\ functions \in Seq(LlvmFunction)
  BY <1>2, InCode
<1>6. value_table[x] \in Value
  <2>1. insert_point \in Nat /\ c \in Int
    BY <1>5
  <2>2. Storage(c) \in Value
    BY <2>1 DEF Storage, Value
  <2> QED BY <1>4, <2>2
<1>7. PICK operands : operands = <<value_table[x]>>
  OBVIOUS
<1>8. operands \in Seq(Value) /\ Len(operands) = 1 /\ operands[1] = Storage(c)
  BY <1>4, <1>6, <1>7
<1>9. /\ frames' = Append(frames, [node |-> gen_pos.k, operands |-> operands]) /\ Pass(2)
      /\ UNCHANGED <<status, functions, func_map, value_table, insert_point>>
  <2>1. value_table[x] # NoValue
    BY <1>6, ValueIsSome
  <2> QED BY <1>2, <1>3, <1>7, <2>1 DEF BeginAssignment, tables
<1>10. gen_pos'.fn = gen_pos.fn /\ InDefinition'
  BY <1>1, <1>2, <1>9, OwedNextButOne
<1>11. Extends(<<>>)
  BY <1>2, <1>9, <1>10, NothingEmitted DEF Extends
<1>12. IsAddress(operands[1]) /\ Local(operands[1], insert_point, Len(CurrentCode) + 1)
  BY <1>5, <1>8, StorageFits
<1>13. CodeFits'
  BY <1>1, <1>2, <1>8, <1>9, <1>11, <1>12, PushFits
<1> QED BY <1>9, <1>13 DEF Fitting, Generating

(* The operands of the expression on top. *)
LEMMA TopOperands ==
  ASSUME Fitting, Complete
  PROVE  /\ InDefinition /\ frames # <<>> /\ gen_pos.at \in {"node", "post_def"}
         /\ Top.operands \in Seq(Value) /\ Len(Top.operands) = Arity(TopNode) /\ TopNode \in Node
         /\ Top.node \in DOMAIN CurrentDef.body /\ TopNode = CurrentDef.body[Top.node]
         /\ \A o \in DOMAIN Top.operands :
              /\ Local(Top.operands[o], insert_point, Len(CurrentCode) + 1)
              /\ IsAddress(Top.operands[o]) <=> IsAssignment(TopNode) /\ o = 1
<1>1. /\ frames # <<>> /\ InDefinition /\ gen_pos.at \in {"node", "post_def"}
      /\ Top.operands \in Seq(Value) /\ Len(Top.operands) = Arity(TopNode) /\ TopNode \in Node
  BY TopOfStack DEF Fitting
<1>2. Len(frames) \in DOMAIN frames /\ Top.node \in DOMAIN CurrentDef.body
      /\ TopNode = CurrentDef.body[Top.node]
  BY <1>1, StackBelow
<1>3. WaitingFits(Top)
  BY <1>2, OperandsWait DEF Top, Fitting, CodeFits
<1> QED BY <1>1, <1>2, <1>3 DEF WaitingFits

(* What constants are folded into is a constant. *)
LEMMA FoldedIsConstant ==
  ASSUME NEW op \in {"+", "-", "*", "/"}, NEW v, NEW w, NEW u \in Folded(op, v, w)
  PROVE  IsConstant(u)
<1>1. IsConstant(Undef) /\ \A k : IsConstant(Constant(k))
  BY DEF IsConstant, Undef, Constant
<1>2. u = Undef \/ \E k : u = Constant(k)
  BY DEF Folded
<1> QED BY <1>1, <1>2

(* Operands are replaced, and nothing is emitted. *)
LEMMA FoldFits ==
  ASSUME Fitting, FoldConstants, UNCHANGED tunit
  PROVE  CodeFits' /\ status' = "generating"
<1>1. /\ Complete /\ TopNode \in Binary /\ TopNode.op # "=" /\ Generating
      /\ UNCHANGED <<gen_pos, status, functions, func_map, value_table, insert_point>>
  BY DEF FoldConstants, tables, Fitting
<1>2. PICK v \in Folded(TopNode.op, Top.operands[1], Top.operands[2]) :
             frames' = Deliver(Front(frames), v)
  BY DEF FoldConstants
<1>3. v \in Value /\ IsConstant(v)
  BY <1>1, <1>2, BinaryOperands, FoldedIsValue, FoldedIsConstant
<1>4. TopNode \notin Jump /\ InDefinition /\ InDefinition'
  <2>1. TopNode \notin Jump /\ InDefinition
    BY <1>1, TopOperands, KindsApart
  <2> QED BY <1>1, <2>1 DEF InDefinition
<1>5. <<>> \in Seq(Instruction) /\ NoReturnIn(<<>>)
  BY DEF NoReturnIn
<1>6. Extends(<<>>)
  BY <1>1, <1>4, NothingEmitted DEF Extends
<1>7. ~IsAddress(v) /\ Local(v, insert_point, Len(CurrentCode) + 1)'
  BY <1>3 DEF IsConstant, IsAddress, Local
<1>8. CodeFits'
  BY <1>1, <1>2, <1>3, <1>4, <1>5, <1>6, <1>7, PopFits
<1> QED BY <1>1, <1>8 DEF Generating

(* Inside a body with a complete expression there is room for one more      *)
(* instruction.                                                             *)
LEMMA FinishExtends ==
  ASSUME Fitting, Complete, UNCHANGED <<tunit, gen_pos, tables, insert_point>>,
         NEW instr \in Instruction, InstrFits(instr, 1), Emit(<<instr>>)
  PROVE  /\ status' = "generating"
         /\ <<instr>> \in Seq(Instruction) /\ Len(<<instr>>) = 1 /\ Extends(<<instr>>)
         /\ instr.op # "ret" => NoReturnIn(<<instr>>)
<1>1. InDefinition /\ frames # <<>>
  BY TopOperands
<1>2. InDefinition' /\ gen_pos'.fn = gen_pos.fn /\ UNCHANGED func_map
  BY <1>1 DEF InDefinition, tables
<1> QED BY <1>1, <1>2, OneExtends

(* Two operands become an instruction, or a number. *)
LEMMA BinaryEmits ==
  ASSUME Fitting, FinishBinary, UNCHANGED tunit
  PROVE  /\ Complete /\ TopNode \in Binary /\ TopNode.op # "="
         /\ TopNode \notin Jump /\ ~IsAssignment(TopNode)
         /\ \E instr \in Instruction, v \in Value :
              /\ instr.op = TopNode.op /\ instr.op \in {"+", "-", "*", "/"}
              /\ instr.operands = Top.operands /\ v = NextValue("result")
              /\ frames' = Deliver(Front(frames), v)
              /\ UNCHANGED <<gen_pos, func_map, value_table, insert_point>>
              /\ status' = "generating" /\ <<instr>> \in Seq(Instruction)
              /\ Extends(<<instr>>) /\ NoReturnIn(<<instr>>)
              /\ ~IsAddress(v) /\ Local(v, insert_point, Len(CurrentCode) + 1)'
<1>1. PICK instr : instr = Instr(TopNode.op, Top.operands)
  OBVIOUS
<1>2. PICK v : v = NextValue("result")
  OBVIOUS
<1>3. /\ Complete /\ TopNode \in Binary /\ TopNode.op # "=" /\ Generating
      /\ Emit(<<instr>>) /\ frames' = Deliver(Front(frames), v)
      /\ UNCHANGED <<gen_pos, tables, insert_point>>
  BY <1>1, <1>2 DEF FinishBinary, Finish, Fitting
<1>4. TopNode \notin Jump /\ ~IsAssignment(TopNode) /\ TopNode.op \in {"+", "-", "*", "/"}
  <2>1. TopNode \notin Jump
    BY <1>3, TopOperands, KindsApart
  <2> QED BY <1>3, <2>1, BinaryOperands DEF IsAssignment
<1>5. /\ instr \in Instruction /\ instr.op = TopNode.op
      /\ instr.op \in {"+", "-", "*", "/"} /\ instr.operands = Top.operands
  <2>1. instr \in Instruction /\ instr.op = TopNode.op
    BY <1>1, <1>3, <1>4, TopOperands, PlainInstr
  <2>2. instr.operands = Top.operands
    BY <1>1 DEF Instr
  <2> QED BY <1>4, <2>1, <2>2
<1>6. InstrFits(instr, 1)
  <2>1. WellTyped(instr)
    BY <1>3, <1>4, <1>5, TopOperands DEF WellTyped
  <2> QED BY <1>3, <1>5, <2>1, TopOperands DEF InstrFits
<1>7. /\ status' = "generating" /\ <<instr>> \in Seq(Instruction) /\ Len(<<instr>>) = 1
      /\ Extends(<<instr>>) /\ NoReturnIn(<<instr>>)
  BY <1>3, <1>5, <1>6, FinishExtends
<1>8. v \in Value /\ ~IsAddress(v) /\ Local(v, insert_point, Len(CurrentCode) + 1)'
  BY <1>2, <1>7, ResultFits
<1>9. UNCHANGED <<gen_pos, func_map, value_table, insert_point>>
  BY <1>3 DEF tables
<1> QED BY <1>2, <1>3, <1>4, <1>5, <1>7, <1>8, <1>9

LEMMA BinaryFits ==
  ASSUME Fitting, FinishBinary, UNCHANGED tunit
  PROVE  CodeFits' /\ status' = "generating"
BY BinaryEmits, PopFits

(* An assignment is a statement, so no expression gets its address.         *)
LEMMA AssignmentEmits ==
  ASSUME Fitting, FinishAssignment, UNCHANGED tunit
  PROVE  /\ Complete /\ TopNode \in Binary /\ IsAssignment(TopNode) /\ TopNode \notin Jump
         /\ Front(frames) = <<>> /\ Top.operands[1] \in Value
         /\ \E instr \in Instruction :
              /\ instr.op = "store"
              /\ instr.operands = <<Top.operands[2], Top.operands[1]>>
              /\ frames' = Deliver(Front(frames), Top.operands[1])
              /\ UNCHANGED <<gen_pos, func_map, value_table, insert_point>>
              /\ status' = "generating" /\ <<instr>> \in Seq(Instruction)
              /\ Extends(<<instr>>) /\ NoReturnIn(<<instr>>)
<1>1. PICK a, b : a = Top.operands[1] /\ b = Top.operands[2]
  OBVIOUS
<1>2. PICK instr : instr = Instr("store", <<b, a>>)
  OBVIOUS
<1>3. /\ Complete /\ TopNode \in Binary /\ TopNode.op = "=" /\ Generating
      /\ Emit(<<instr>>) /\ frames' = Deliver(Front(frames), a)
      /\ UNCHANGED <<gen_pos, tables, insert_point>>
  BY <1>1, <1>2 DEF FinishAssignment, Finish, Fitting
<1>4. TopNode \notin Jump /\ IsAssignment(TopNode) /\ InDefinition
  <2>1. TopNode \notin Jump /\ InDefinition
    BY <1>3, TopOperands, KindsApart
  <2> QED BY <1>3, <2>1 DEF IsAssignment
<1>5. Front(frames) = <<>>
  BY <1>3, <1>4, StatementAlone
<1>6. a \in Value /\ b \in Value /\ 1 \in DOMAIN Top.operands /\ 2 \in DOMAIN Top.operands
  BY <1>1, <1>3, BinaryOperands, TopOperands
<1>7. /\ IsAddress(a) /\ ~IsAddress(b)
      /\ Local(a, insert_point, Len(CurrentCode) + 1)
      /\ Local(b, insert_point, Len(CurrentCode) + 1)
  BY <1>1, <1>3, <1>4, <1>6, TopOperands
<1>8. instr \in Instruction /\ instr.op = "store" /\ instr.operands = <<b, a>>
  <2>1. <<b, a>> \in Seq(Value)
    BY <1>6
  <2> QED BY <1>2, <2>1, PlainInstr DEF Instr
<1>9. InstrFits(instr, 1)
  <2>1. \A o \in DOMAIN instr.operands : instr.operands[o] = a \/ instr.operands[o] = b
    BY <1>8
  <2>2. instr.operands[1] = b /\ instr.operands[2] = a
    BY <1>8
  <2> QED BY <1>7, <1>8, <2>1, <2>2 DEF InstrFits, WellTyped
<1>10. /\ status' = "generating" /\ <<instr>> \in Seq(Instruction)
       /\ Extends(<<instr>>) /\ NoReturnIn(<<instr>>)
  BY <1>3, <1>8, <1>9, FinishExtends
<1>11. UNCHANGED <<gen_pos, func_map, value_table, insert_point>>
  BY <1>3 DEF tables
<1> QED BY <1>1, <1>3, <1>4, <1>5, <1>6, <1>8, <1>10, <1>11

LEMMA AssignmentFits ==
  ASSUME Fitting, FinishAssignment, UNCHANGED tunit
  PROVE  CodeFits' /\ status' = "generating"
BY AssignmentEmits, PopFits

(* The operand of a return becomes the last instruction. *)
LEMMA ReturnEmits ==
  ASSUME Fitting, FinishReturn, UNCHANGED tunit
  PROVE  /\ Complete /\ TopNode \in Jump
         /\ \E instr \in Instruction :
              /\ instr.op = "ret" /\ instr.operands = Top.operands
              /\ frames' = Front(frames)
              /\ UNCHANGED <<gen_pos, func_map, value_table, insert_point>>
              /\ status' = "generating" /\ Extends(<<instr>>)
<1>1. PICK instr : instr = Instr("ret", Top.operands)
  OBVIOUS
<1>2. /\ Complete /\ TopNode \in Jump
      /\ Emit(<<instr>>) /\ frames' = Front(frames)
      /\ UNCHANGED <<gen_pos, tables, insert_point>>
  BY <1>1 DEF FinishReturn
<1>3. instr \in Instruction /\ instr.op = "ret" /\ instr.operands = Top.operands
  BY <1>1, <1>2, TopOperands, PlainInstr DEF Instr
<1>4. ~IsAssignment(TopNode)
  BY <1>2, TopOperands, KindsApart
<1>5. InstrFits(instr, 1)
  <2>1. WellTyped(instr)
    BY <1>2, <1>3, <1>4, TopOperands DEF WellTyped
  <2> QED BY <1>2, <1>3, <2>1, TopOperands DEF InstrFits
<1>6. status' = "generating" /\ Extends(<<instr>>)
  BY <1>2, <1>3, <1>5, FinishExtends
<1>7. UNCHANGED <<gen_pos, func_map, value_table, insert_point>>
  BY <1>2 DEF tables
<1> QED BY <1>2, <1>3, <1>6, <1>7

LEMMA ReturnStepFits ==
  ASSUME Fitting, FinishReturn, UNCHANGED tunit
  PROVE  CodeFits' /\ status' = "generating"
BY ReturnEmits, ReturnFits

(* In a supported unit the function a call needs is there, with as many     *)
(* parameters as the call has arguments.                                    *)
LEMMA CalleeFits ==
  ASSUME Fitting, Complete, TopNode \in Call
  PROVE  LET fn == func_map[func_table[call_symbol[<<gen_pos.fn, Top.node>>]].name]
         IN  /\ fn # NoFunction /\ fn \in DOMAIN functions
             /\ functions[fn].arity = Len(Top.operands)
             /\ functions[fn].name = TopNode.name
<1> DEFINE i == gen_pos.fn
           n == TopNode
           r == <<gen_pos.fn, Top.node>>
           g == call_symbol[r]
           fn == func_map[func_table[g].name]
<1>1. /\ Generating /\ InDefinition /\ i \in DOMAIN tunit.defs
      /\ Top.node \in DOMAIN tunit.defs[i].body /\ n = tunit.defs[i].body[Top.node]
      /\ Len(Top.operands) = Arity(n)
  BY TopOfStack DEF Fitting
<1>2. n.kind = "call_expression" /\ n.name \in FuncNames /\ Arity(n) = n.args
  BY DEF Call, Arity
<1>3. r \in DOMAIN call_symbol /\ NodeAt(r) = n
  <2>1. r \in References("call_expression")
    <3>1. PICK j, m, body : j = i /\ m = Top.node /\ body = tunit.defs[j].body
      OBVIOUS
    <3>2. j \in DOMAIN tunit.defs /\ m \in {k \in DOMAIN body : body[k].kind = "call_expression"}
      BY <1>1, <1>2, <3>1
    <3>3. <<j, m>> \in References("call_expression")
      BY <3>1, <3>2 DEF References
    <3> QED BY <3>1, <3>3
  <2> QED BY <1>1, <2>1, AnalysisDone DEF Generating, NodeAt
<1>4. g = ResolveCall(n.name, n.args) /\ g # None
  <2>1. BoundByRule
    BY <1>1 DEF Generating, AnalysisFacts, AnalyzerInv
  <2> HIDE DEF r, n
  <2> QED BY <1>3, <2>1 DEF BoundByRule
<1>5. /\ Built /\ func_table \in Seq(FuncSymbol) /\ tunit \in TranslationUnit
      /\ func_map \in [FuncNames -> {NoFunction} \cup DOMAIN functions]
      /\ tunit.decls \in Seq(Prototype) /\ tunit.defs \in Seq(Definition)
  BY <1>1, GeneratingFacts, BuiltFacts, UnitType
<1>6. /\ g \in DOMAIN func_table /\ func_table[g].name = n.name
      /\ Len(func_table[g].params) = n.args
  BY <1>4, <1>5, ResolveCallResult
<1>7. func_map[n.name] # NoFunction
  <2>1. \/ DeclarationsOf(tunit, n.name) # {}
        \/ \E j \in 1 .. i : tunit.defs[j].name = n.name
    BY <1>1 DEF Fitting, Supported, CalleesKnown, Known
  <2>2. FunctionsByName
    BY <1>1 DEF Generating, GeneratorInv
  <2>3. CASE DeclarationsOf(tunit, n.name) # {}
    <3>1. \A d : DeclPassed(gen_pos, d)
      BY <1>1 DEF DeclPassed, InDefinition
    <3> QED BY <1>2, <2>2, <2>3, <3>1 DEF FunctionsByName, DeclarationsOf
  <2>4. CASE \E j \in 1 .. i : tunit.defs[j].name = n.name
    <3>1. PICK j \in 1 .. i : tunit.defs[j].name = n.name
      BY <2>4
    <3>2. j \in DOMAIN tunit.defs /\ j <= i
      BY <1>1, <1>5
    <3>3. Begun(j)
      BY <1>1, <3>2 DEF Begun
    <3> QED BY <1>2, <2>2, <3>1, <3>2, <3>3 DEF FunctionsByName
  <2> QED BY <2>1, <2>3, <2>4
<1>8. fn = func_map[n.name] /\ fn \in DOMAIN functions
  BY <1>2, <1>5, <1>6, <1>7
<1>12. functions[fn].name = n.name
  <2>1. FunctionsByName
    BY <1>1 DEF Generating, GeneratorInv
  <2> QED BY <1>2, <1>7, <1>8, <2>1 DEF FunctionsByName
<1>9. ArityBySource
  BY DEF Fitting, CodeFits
<1>10. CASE /\ g \in DOMAIN tunit.decls /\ func_table[g].name = tunit.decls[g].name
            /\ func_table[g].params = [k \in DOMAIN tunit.decls[g].params |->
                                 NewVariable(tunit.decls[g].params[k], "decl", g, k)]
  <2>1. g \in DeclarationsOf(tunit, n.name)
    BY <1>6, <1>10 DEF DeclarationsOf
  <2>2. functions[func_map[n.name]].arity = Len(tunit.decls[g].params)
    BY <1>2, <1>7, <1>9, <2>1 DEF ArityBySource
  <2>3. tunit.decls[g].params \in Seq(VarNames)
    BY <1>5, <1>10, UnitType
  <2>4. Len(func_table[g].params) = Len(tunit.decls[g].params)
    <3>1. DOMAIN func_table[g].params = DOMAIN tunit.decls[g].params
      BY <1>10
    <3>2. func_table[g].params \in Seq(VariableSymbol)
      <4>1. func_table[g] \in FuncSymbol
        BY <1>5, <1>6
      <4> QED BY <4>1 DEF FuncSymbol
    <3> HIDE DEF g
    <3> QED BY <2>3, <3>1, <3>2, SameLength
  <2> QED BY <1>1, <1>2, <1>6, <1>7, <1>8, <1>12, <2>2, <2>4
<1>11. CASE /\ g \notin DOMAIN tunit.decls
            /\ \E j \in DOMAIN tunit.defs :
                 /\ def_scope[j] = g
                 /\ func_table[g].name = tunit.defs[j].name
                 /\ func_table[g].params = [k \in DOMAIN tunit.defs[j].params |->
                                      NewVariable(tunit.defs[j].params[k], "def", j, k)]
  <2>1. PICK j \in DOMAIN tunit.defs :
          /\ def_scope[j] = g
          /\ func_table[g].name = tunit.defs[j].name
          /\ func_table[g].params = [k \in DOMAIN tunit.defs[j].params |->
                               NewVariable(tunit.defs[j].params[k], "def", j, k)]
    BY <1>11
  <2>2. DeclarationsOf(tunit, n.name) = {}
    <3>1. g = ResolveFunc(n.name)
      BY <1>5, <1>6, <2>1, BuiltFacts
    <3>2. Rules!DeclarationsOf(tunit, n.name) # {} => g \in DOMAIN tunit.decls
      BY <1>5, <3>1, DeclaredResolves DEF Rules!DeclarationsOf
    <3> QED BY <1>11, <3>2 DEF Rules!DeclarationsOf, DeclarationsOf
  <2>3. functions[func_map[n.name]].arity = Len(tunit.defs[j].params)
    BY <1>2, <1>6, <1>7, <1>9, <2>1, <2>2 DEF ArityBySource
  <2>4. tunit.defs[j].params \in Seq(VarNames)
    BY <1>5, UnitType
  <2>5. Len(func_table[g].params) = Len(tunit.defs[j].params)
    BY <2>1, <2>4
  <2> QED BY <1>1, <1>2, <1>6, <1>7, <1>8, <1>12, <2>3, <2>5
<1> QED BY <1>5, <1>6, <1>10, <1>11, SourceOfFunction

(* A call in a supported unit has its function, with as many parameters. *)
LEMMA CallEmits ==
  ASSUME Fitting, FinishCall, UNCHANGED tunit
  PROVE  /\ Complete /\ TopNode \in Call /\ TopNode \notin Jump
         /\ \E instr \in Instruction, v \in Value :
              /\ instr.op = "call" /\ instr.operands = Top.operands
              /\ instr.callee \in DOMAIN functions
              /\ functions[instr.callee].name = TopNode.name
              /\ v = NextValue("result") /\ frames' = Deliver(Front(frames), v)
              /\ UNCHANGED <<gen_pos, func_map, value_table, insert_point>>
              /\ status' = "generating" /\ <<instr>> \in Seq(Instruction)
              /\ Extends(<<instr>>) /\ NoReturnIn(<<instr>>)
              /\ ~IsAddress(v) /\ Local(v, insert_point, Len(CurrentCode) + 1)'
<1>1. PICK fn : fn = func_map[func_table[call_symbol[<<gen_pos.fn, Top.node>>]].name]
  OBVIOUS
<1>2. PICK instr : instr = [op |-> "call", operands |-> Top.operands, callee |-> fn]
  OBVIOUS
<1>3. PICK v : v = NextValue("result")
  OBVIOUS
<1>4. Complete /\ TopNode \in Call
  BY DEF FinishCall
<1>5. /\ fn # NoFunction /\ fn \in DOMAIN functions /\ functions[fn].arity = Len(Top.operands)
      /\ functions[fn].name = TopNode.name
  BY <1>1, <1>4, CalleeFits
<1>6. /\ Emit(<<instr>>) /\ frames' = Deliver(Front(frames), v)
      /\ UNCHANGED <<gen_pos, tables, insert_point>>
  BY <1>1, <1>2, <1>3, <1>5 DEF FinishCall, Finish
<1>7. TopNode \notin Jump /\ ~IsAssignment(TopNode) /\ Top.operands \in Seq(Value) /\ InDefinition
  BY <1>4, TopOperands, KindsApart
<1>8. instr \in Instruction /\ instr.op = "call" /\ instr.operands = Top.operands /\ instr.callee = fn
  <2>1. fn \in Nat
    BY <1>5, <1>7, InCode
  <2> QED BY <1>2, <1>7, <2>1 DEF Instruction
<1>9. InstrFits(instr, 1)
  <2>1. WellTyped(instr)
    BY <1>4, <1>5, <1>7, <1>8, TopOperands DEF WellTyped
  <2> QED BY <1>4, <1>5, <1>8, <2>1, TopOperands DEF InstrFits
<1>10. /\ status' = "generating" /\ <<instr>> \in Seq(Instruction) /\ Len(<<instr>>) = 1
       /\ Extends(<<instr>>) /\ NoReturnIn(<<instr>>)
  BY <1>4, <1>6, <1>8, <1>9, FinishExtends
<1>11. v \in Value /\ ~IsAddress(v) /\ Local(v, insert_point, Len(CurrentCode) + 1)'
  BY <1>3, <1>10, ResultFits
<1>12. UNCHANGED <<gen_pos, func_map, value_table, insert_point>>
  BY <1>6 DEF tables
<1> QED BY <1>3, <1>4, <1>5, <1>6, <1>7, <1>8, <1>10, <1>11, <1>12

LEMMA CallFits ==
  ASSUME Fitting, FinishCall, UNCHANGED tunit
  PROVE  CodeFits' /\ status' = "generating"
BY CallEmits, PopFits

----------------------------------------------------------------------------
(* The storage of the parameters and the local variables. *)

(* At the k-th local variable of a definition, or behind the last one,      *)
(* those before it have their storage and no node was taken.                *)
LEMMA VarEntered ==
  ASSUME tunit \in TranslationUnit, UNCHANGED tunit, NEW i \in DOMAIN tunit.defs,
         NEW k \in Nat, k > 0, k <= Len(tunit.defs[i].vars) + 1,
         gen_pos' = EnterVar(tunit, i, k)
  PROVE  /\ InDefinition' /\ gen_pos'.fn = i /\ CurrentDef' = tunit.defs[i]
         /\ gen_pos'.at # "param"
         /\ ParamsStored' = Len(tunit.defs[i].params) /\ VarsStored' = k - 1
         /\ OwedNow' = 0
         /\ \A m \in DOMAIN tunit.defs[i].body : ~NodeLeft(m)'
<1> DEFINE d == tunit.defs[i]
<1>1. d.vars \in Seq(VarNames) /\ d.body \in Seq(Node) /\ Len(d.vars) \in Nat /\ Len(d.body) \in Nat
  BY UnitType
<1>2. gen_pos'.fn = i
  BY DEF EnterVar, EnterNode, At
<1>3. CurrentDef' = d
  BY <1>2 DEF CurrentDef
<1>4. CASE k <= Len(d.vars)
  <2>1. gen_pos' = At("var", i, k)
    BY <1>4 DEF EnterVar
  <2>2. gen_pos'.at = "var" /\ gen_pos'.k = k
    BY <2>1 DEF At
  <2> QED BY <1>2, <1>3, <2>2 DEF InDefinition, ParamsStored, VarsStored, OwedNow, NodeLeft
<1>5. CASE ~(k <= Len(d.vars))
  <2>1. k - 1 = Len(d.vars) /\ gen_pos' = EnterNode(tunit, i, 1)
    BY <1>1, <1>5 DEF EnterVar
  <2>2. CASE 1 <= Len(d.body)
    <3>1. gen_pos'.at = "node" /\ gen_pos'.k = 1
      BY <2>1, <2>2 DEF EnterNode, At
    <3>2. OwedNow' = OwedBefore(d.body, 1)
      BY <1>3, <3>1 DEF OwedNow
    <3>3. OwedBefore(d.body, 1) = 0
      BY <1>1, OwedCounts
    <3>4. \A m \in DOMAIN d.body : ~(m < 1)
      BY <1>1
    <3> QED BY <1>2, <1>3, <2>1, <3>1, <3>2, <3>3, <3>4
            DEF InDefinition, ParamsStored, VarsStored, NodeLeft
  <2>3. CASE ~(1 <= Len(d.body))
    <3>1. gen_pos'.at = "post_def" /\ DOMAIN d.body = {}
      BY <1>1, <2>1, <2>3 DEF EnterNode, At
    <3> QED BY <1>2, <1>3, <2>1, <3>1 DEF InDefinition, ParamsStored, VarsStored, OwedNow
  <2> QED BY <2>2, <2>3
<1> QED BY <1>4, <1>5

(* Where the generator goes from one parameter to the next. *)
LEMMA ParamEntered ==
  ASSUME tunit \in TranslationUnit, UNCHANGED tunit, NEW i \in DOMAIN tunit.defs,
         NEW k \in Nat, k > 0, k <= Len(tunit.defs[i].params) + 1,
         gen_pos' = EnterParam(tunit, i, k)
  PROVE  /\ InDefinition' /\ gen_pos'.fn = i /\ CurrentDef' = tunit.defs[i]
         /\ gen_pos'.at = "param" => gen_pos'.k = k
         /\ ParamsStored' = k - 1 /\ VarsStored' = 0
         /\ OwedNow' = 0
         /\ \A m \in DOMAIN tunit.defs[i].body : ~NodeLeft(m)'
<1> DEFINE d == tunit.defs[i]
<1>1. Len(d.params) \in Nat /\ Len(d.vars) \in Nat
  <2>1. d.params \in Seq(VarNames) /\ d.vars \in Seq(VarNames)
    BY UnitType
  <2> QED BY <2>1
<1>2. CASE k <= Len(d.params)
  <2>1. gen_pos' = At("param", i, k)
    BY <1>2 DEF EnterParam
  <2>2. gen_pos'.at = "param" /\ gen_pos'.k = k /\ gen_pos'.fn = i
    BY <2>1 DEF At
  <2>3. CurrentDef' = d
    BY <2>2 DEF CurrentDef
  <2> QED BY <2>2, <2>3 DEF InDefinition, ParamsStored, VarsStored, OwedNow, NodeLeft
<1>3. CASE ~(k <= Len(d.params))
  <2>1. k - 1 = Len(d.params) /\ gen_pos' = EnterVar(tunit, i, 1)
    BY <1>1, <1>3 DEF EnterParam
  <2>2. 1 <= Len(d.vars) + 1
    BY <1>1
  <2> QED BY <2>1, <2>2, VarEntered
<1> QED BY <1>2, <1>3

(* A step that stays ahead of the body. *)
LEMMA EntryFits ==
  ASSUME Fitting, gen_pos.at \in {"param", "var"}, UNCHANGED frames,
         NEW instrs \in Seq(Instruction), Extends(instrs), NoReturnIn(instrs),
         OwedNow' = 0, \A m \in DOMAIN CurrentDef.body : ~NodeLeft(m)', StorageByName'
  PROVE  CodeFits'
<1>1. CurrentDef' = CurrentDef
  BY CodeGrows
<1>2. frames = <<>> /\ frames' = <<>>
  BY GeneratingFacts DEF Fitting
<1>3. StackByTree'
  <2>1. Stacked(CurrentDef.body, <<>>)
    BY DEF Stacked
  <2> QED BY <1>1, <1>2, <2>1, StackIsTree DEF Below
<1>4. OperandsFit'
  BY <1>2, OperandsWait
<1>5. ReturnEnds'
  <2>1. \A j \in DOMAIN CurrentCode' : CurrentCode'[j].op # "ret"
    BY NoReturnAfter
  <2> QED BY <1>1, <2>1 DEF ReturnEnds
<1> QED BY <1>3, <1>4, <1>5, BodyFits

(* A symbol of a function in the table is there. *)
LEMMA OwnedIsAlive ==
  ASSUME Generating, NEW f \in DOMAIN func_table, NEW s, s # NoVariable,
         \/ \E k \in DOMAIN func_table[f].params : func_table[f].params[k] = s
         \/ \E x \in VarNames : func_table[f].var_table[x] = s
  PROVE  Alive(s)
<1>1. DOMAIN func_table[f].var_table = VarNames
  <2>1. func_table[f] \in FuncSymbol
    BY GeneratingFacts, BuiltFacts
  <2> QED BY <2>1 DEF FuncSymbol
<1>2. s \in Range(func_table[f].params) \cup Range(func_table[f].var_table)
  BY <1>1 DEF Range
<1>3. s \in Owned(func_table[f])
  BY <1>2 DEF Owned
<1> QED BY <1>3 DEF Alive

(* The instructions that make storage. *)
LEMMA AllocaFits ==
  ASSUME Fitting, InDefinition, NEW c, c = NextValue("alloca")
  PROVE  /\ InstrFits(Instr("alloca", <<>>), 1)
         /\ c = Storage(Len(CurrentCode) + 1) /\ c \in Value
         /\ IsAddress(c) /\ Local(c, insert_point, Len(CurrentCode) + 2)
<1>1. /\ insert_point \in DOMAIN functions /\ functions \in Seq(LlvmFunction)
      /\ Len(CurrentCode) \in Nat
  BY InCode
<1>2. c = Storage(Len(CurrentCode) + 1)
  BY DEF NextValue, Storage, CurrentCode
<1>3. c \in Value
  BY <1>1, NextValueIsValue
<1>4. IsAddress(c) /\ Local(c, insert_point, Len(CurrentCode) + 2)
  <2>1. Len(CurrentCode) + 1 <= (Len(CurrentCode) + 2) - 1
    BY <1>1
  <2> QED BY <1>2, <2>1 DEF Storage, IsAddress, Local
<1>5. InstrFits(Instr("alloca", <<>>), 1)
  BY DEF InstrFits, Instr, WellTyped
<1> QED BY <1>2, <1>3, <1>4, <1>5

(* The parameters of a supported definition have different names, and so    *)
(* have its local variables.                                                *)
LEMMA NamesApart ==
  ASSUME Fitting, NEW i \in DOMAIN tunit.defs
  PROVE  /\ \A j, k \in DOMAIN tunit.defs[i].params :
              tunit.defs[i].params[j] = tunit.defs[i].params[k] => j = k
         /\ \A j, k \in DOMAIN tunit.defs[i].vars :
              tunit.defs[i].vars[j] = tunit.defs[i].vars[k] => j = k
<1>1. NamesDistinct(tunit)
  BY DEF Fitting, Supported
<1> QED BY <1>1 DEF NamesDistinct, Distinct

(* A parameter gets its storage in its place. *)
LEMMA ParameterFits ==
  ASSUME Fitting, GenParameter, UNCHANGED tunit
  PROVE  CodeFits' /\ status' = "generating"
<1> DEFINE i == gen_pos.fn
           k == gen_pos.k
           d == tunit.defs[i]
           x == d.params[k]
<1>1. gen_pos.at = "param" /\ InDefinition /\ Generating /\ CurrentDef = d
  BY DEF GenParameter, InDefinition, Fitting, CurrentDef
<1>2. /\ insert_point \in DOMAIN functions /\ functions \in Seq(LlvmFunction)
      /\ Len(CurrentCode) \in Nat /\ i \in DOMAIN tunit.defs /\ tunit \in TranslationUnit
  BY <1>1, InCode, GeneratingFacts
<1>3. /\ k \in 1 .. Len(d.params) /\ DOMAIN d.params = 1 .. Len(d.params)
      /\ Len(d.params) \in Nat /\ d.params \in Seq(VarNames) /\ x \in VarNames
  <2>1. k \in DOMAIN d.params
    BY <1>1, GeneratingFacts DEF IsPlace
  <2>2. d.params \in Seq(VarNames)
    BY <1>2, UnitType
  <2> QED BY <2>1, <2>2
<1>4. Alive(NewVariable(x, "def", i, k))
  <2>1. /\ def_scope[i] \in DOMAIN func_table
        /\ func_table[def_scope[i]].params =
             [m \in DOMAIN d.params |-> NewVariable(d.params[m], "def", i, m)]
    BY <1>1, <1>2, ParamsOfScope DEF Fitting, Supported
  <2>2. k \in DOMAIN func_table[def_scope[i]].params
        /\ func_table[def_scope[i]].params[k] = NewVariable(x, "def", i, k)
    BY <1>3, <2>1
  <2>3. NewVariable(x, "def", i, k) # NoVariable
    BY DEF NewVariable, NoVariable
  <2> QED BY <1>1, <2>1, <2>2, <2>3, OwnedIsAlive
<1>5. /\ Len(CurrentCode) = 2 * (k - 1)
      /\ \A m \in 1 .. (k - 1) : value_table[d.params[m]] = Storage(2 * m - 1)
      /\ \A m \in k .. Len(d.params) : /\ value_table[d.params[m]] = Argument(insert_point, m)
                                       /\ m <= functions[insert_point].arity
  <2>1. ParamsStored = k - 1 /\ VarsStored = 0
    BY <1>1 DEF ParamsStored, VarsStored
  <2>2. StorageByName
    BY DEF Fitting, CodeFits
  <2>3. \A l \in 1 .. VarsStored : FALSE
    BY <2>1
  <2>4. Len(CurrentCode) = 2 * (k - 1) + 0
    BY <1>1, <2>1, <2>2 DEF StorageByName
  <2>5. \A m \in 1 .. (k - 1) : value_table[d.params[m]] = Storage(2 * m - 1)
    BY <1>1, <2>1, <2>2, <2>3 DEF StorageByName
  <2>6. \A m \in k .. Len(d.params) : /\ value_table[d.params[m]] = Argument(insert_point, m)
                                       /\ m <= functions[insert_point].arity
    <3>1. gen_pos.at = "param" =>
            \A m \in gen_pos.k .. Len(CurrentDef.params) :
               /\ value_table[CurrentDef.params[m]] = Argument(insert_point, m)
               /\ m <= functions[insert_point].arity
      BY <1>1, <2>2 DEF StorageByName
    <3> QED BY <1>1, <3>1
  <2>7. 2 * (k - 1) + 0 = 2 * (k - 1)
    BY <1>3
  <2> QED BY <2>4, <2>5, <2>6, <2>7
<1>6. PICK a : a = Argument(insert_point, k)
  OBVIOUS
<1>7. PICK c : c = NextValue("alloca")
  OBVIOUS
<1>8. /\ value_table[x] = a /\ a \in Value /\ ~IsAddress(a)
      /\ Local(a, insert_point, Len(CurrentCode) + 2)
  <2>1. value_table[x] = a /\ k <= functions[insert_point].arity
    <3>1. k \in k .. Len(d.params)
      BY <1>3
    <3>2. value_table[d.params[k]] = Argument(insert_point, k)
          /\ k <= functions[insert_point].arity
      BY <1>5, <3>1
    <3> QED BY <1>6, <3>2
  <2>2. insert_point \in Nat /\ k \in Int
    BY <1>2, <1>3
  <2> QED BY <1>6, <2>1, <2>2 DEF Argument, Value, IsAddress, Local
<1>9. /\ InstrFits(Instr("alloca", <<>>), 1)
      /\ c = Storage(Len(CurrentCode) + 1) /\ c \in Value
      /\ IsAddress(c) /\ Local(c, insert_point, Len(CurrentCode) + 2)
  BY <1>1, <1>7, AllocaFits
<1>10. PICK make, put : make = Instr("alloca", <<>>) /\ put = Instr("store", <<a, c>>)
  OBVIOUS
<1>11. /\ make \in Instruction /\ make.op = "alloca"
       /\ put \in Instruction /\ put.op = "store" /\ put.operands = <<a, c>>
  <2>1. <<a, c>> \in Seq(Value)
    BY <1>8, <1>9
  <2> QED BY <1>10, <2>1, AllocaInstr, PlainInstr DEF Instr
<1>12. InstrFits(make, 1) /\ InstrFits(put, 2)
  <2>1. /\ \A o \in DOMAIN put.operands : put.operands[o] = a \/ put.operands[o] = c
        /\ put.operands[1] = a /\ put.operands[2] = c
    BY <1>11
  <2>2. InstrFits(put, 2)
    BY <1>8, <1>9, <1>11, <2>1 DEF InstrFits, WellTyped
  <2> QED BY <1>9, <1>10, <2>2
<1>13. PICK instrs : instrs = <<make, put>>
  OBVIOUS
<1>14. /\ instrs \in Seq(Instruction) /\ Len(instrs) = 2
       /\ \A m \in DOMAIN instrs : \/ m = 1 /\ instrs[m] = make
                                   \/ m = 2 /\ instrs[m] = put
  BY <1>11, <1>13
<1>15. /\ Emit(instrs) /\ value_table' = [value_table EXCEPT ![x] = c]
       /\ gen_pos' = EnterParam(tunit, i, k + 1)
       /\ UNCHANGED <<func_map, insert_point, frames>>
  <2>1. value_table[x] # NoValue
    BY <1>8, ValueIsSome
  <2> QED BY <1>4, <1>7, <1>8, <1>10, <1>13, <2>1 DEF GenParameter
<1>16. /\ InDefinition' /\ gen_pos'.fn = i /\ CurrentDef' = d
       /\ gen_pos'.at = "param" => gen_pos'.k = k + 1
       /\ ParamsStored' = k /\ VarsStored' = 0
       /\ OwedNow' = 0
       /\ \A m \in DOMAIN d.body : ~NodeLeft(m)'
  <2>1. k + 1 \in Nat /\ k + 1 > 0 /\ k + 1 <= Len(d.params) + 1 /\ (k + 1) - 1 = k
    BY <1>3
  <2> QED BY <1>2, <1>15, <2>1, ParamEntered
<1>17. status' = "generating" /\ Extends(instrs) /\ NoReturnIn(instrs)
  <2>1. \A m \in DOMAIN instrs : InstrFits(instrs[m], m) /\ instrs[m].op # "ret"
    BY <1>11, <1>12, <1>14
  <2>2. status' = "generating" /\ Appended(instrs)
    BY <1>15, <2>1, Emitted DEF InstrFits
  <2> QED BY <1>1, <1>15, <1>16, <2>1, <2>2 DEF Extends, NoReturnIn
<1>18. Len(CurrentCode') = 2 * k /\ functions'[insert_point'].arity = functions[insert_point].arity
       /\ \A m : Storage(m)' = Storage(m)
  <2>1. Len(CurrentCode') = 2 * (k - 1) + 2
    BY <1>5, <1>14, <1>17, CodeGrows
  <2>2. functions'[insert_point'].arity = functions[insert_point].arity
    BY <1>2, <1>14, <1>15, <1>17, CodeGrows
  <2> QED BY <1>3, <1>15, <2>1, <2>2 DEF Storage
<1>19. /\ \A m \in 1 .. k : value_table'[d.params[m]] = Storage(2 * m - 1)
       /\ \A m \in (k + 1) .. Len(d.params) : value_table'[d.params[m]] = Argument(insert_point, m)
  <2>1. value_table' [x] = c /\ \A y \in VarNames : y # x => value_table'[y] = value_table[y]
    BY <1>3, <1>15, GeneratingFacts, <1>1
  <2>2. \A m \in 1 .. Len(d.params) : d.params[m] \in VarNames /\ (d.params[m] = x => m = k)
    <3>1. \A m, n \in DOMAIN d.params : d.params[m] = d.params[n] => m = n
      BY <1>2, NamesApart
    <3>2. \A m \in 1 .. Len(d.params) : d.params[m] = x => m = k
      BY <1>3, <3>1
    <3>3. \A m \in 1 .. Len(d.params) : d.params[m] \in VarNames
      BY <1>3
    <3> QED BY <3>2, <3>3
  <2>3. c = Storage(2 * k - 1)
    <3>1. 2 * (k - 1) + 1 = 2 * k - 1
      BY <1>3
    <3> QED BY <1>5, <1>9, <3>1
  <2>4. \A m \in 1 .. k : m \in 1 .. Len(d.params) /\ (m # k => m \in 1 .. (k - 1))
    BY <1>3
  <2>5. \A m \in (k + 1) .. Len(d.params) :
          m \in 1 .. Len(d.params) /\ m # k /\ m \in k .. Len(d.params)
    BY <1>3
  <2>6. ASSUME NEW m \in 1 .. k PROVE value_table'[d.params[m]] = Storage(2 * m - 1)
    BY <1>5, <2>1, <2>2, <2>3, <2>4
  <2>7. ASSUME NEW m \in (k + 1) .. Len(d.params)
        PROVE  value_table'[d.params[m]] = Argument(insert_point, m)
    BY <1>5, <2>1, <2>2, <2>5
  <2> QED BY <2>6, <2>7
<1>20. StorageByName'
  <2>1. 2 * k + 0 = 2 * k /\ \A l \in 1 .. 0 : FALSE
    BY <1>3
  <2>2. \A m \in (k + 1) .. Len(d.params) : m \in k .. Len(d.params)
    BY <1>3
  <2>3. Len(CurrentCode)' >= 2 * ParamsStored' + VarsStored'
        /\ Len(CurrentCode)' = 2 * ParamsStored' + VarsStored'
    BY <1>3, <1>16, <1>18, <2>1
  <2>4. \A m \in 1 .. VarsStored' : FALSE
    BY <1>16, <2>1
  <2>5. \A m \in 1 .. ParamsStored' : value_table'[CurrentDef'.params[m]] = Storage(2 * m - 1)'
    BY <1>16, <1>18, <1>19
  <2>6. gen_pos'.at = "param" => \A m \in gen_pos'.k .. Len(CurrentDef'.params) :
          /\ value_table'[CurrentDef'.params[m]] = Argument(insert_point, m)'
          /\ m <= functions'[insert_point'].arity
    BY <1>5, <1>15, <1>16, <1>18, <1>19, <2>2 DEF Argument
  <2> QED BY <2>3, <2>4, <2>5, <2>6 DEF StorageByName
<1>21. CodeFits'
  BY <1>1, <1>14, <1>15, <1>16, <1>17, <1>20, EntryFits
<1> QED BY <1>17, <1>21

(* A local variable gets its storage in its place, and takes over the name. *)
LEMMA VariableFits ==
  ASSUME Fitting, GenVariable, UNCHANGED tunit
  PROVE  CodeFits' /\ status' = "generating"
<1> DEFINE i == gen_pos.fn
           k == gen_pos.k
           d == tunit.defs[i]
           x == d.vars[k]
           p == Len(d.params)
<1>1. gen_pos.at = "var" /\ InDefinition /\ Generating /\ CurrentDef = d
  BY DEF GenVariable, InDefinition, Fitting, CurrentDef
<1>2. /\ insert_point \in DOMAIN functions /\ functions \in Seq(LlvmFunction)
      /\ Len(CurrentCode) \in Nat /\ i \in DOMAIN tunit.defs /\ tunit \in TranslationUnit
      /\ d.params \in Seq(VarNames) /\ p \in Nat
  BY <1>1, InCode, GeneratingFacts
<1>3. /\ k \in 1 .. Len(d.vars) /\ DOMAIN d.vars = 1 .. Len(d.vars)
      /\ Len(d.vars) \in Nat /\ d.vars \in Seq(VarNames) /\ x \in VarNames
  <2>1. k \in DOMAIN d.vars
    BY <1>1, GeneratingFacts DEF IsPlace, Within
  <2>2. d.vars \in Seq(VarNames)
    BY <1>2, UnitType
  <2> QED BY <2>1, <2>2
<1>4. Alive(NewVariable(x, "var", i, k))
  <2>1. def_scope[i] \in DOMAIN func_table
    BY <1>1, <1>2, GeneratingFacts, BuiltFacts
  <2>2. func_table[def_scope[i]].var_table[x] = NewVariable(x, "var", i, k)
    <3>1. NamesDistinct(tunit)
      BY DEF Fitting, Supported
    <3>2. k \in DOMAIN tunit.defs[i].vars /\ tunit.defs[i].vars[k] = x
      BY <1>3
    <3> HIDE DEF x, k, NoVariable
    <3> QED BY <1>1, <1>2, <1>3, <3>1, <3>2, LocalsOfDefinition
  <2>3. NewVariable(x, "var", i, k) # NoVariable
    BY DEF NewVariable, NoVariable
  <2> QED BY <1>1, <1>3, <2>1, <2>2, <2>3, OwnedIsAlive
<1>5. /\ Len(CurrentCode) = 2 * p + (k - 1)
      /\ \A m \in 1 .. (k - 1) : value_table[d.vars[m]] = Storage(2 * p + m)
      /\ \A m \in 1 .. p : (\A l \in 1 .. (k - 1) : d.vars[l] # d.params[m]) =>
                             value_table[d.params[m]] = Storage(2 * m - 1)
  <2>1. ParamsStored = p /\ VarsStored = k - 1
    BY <1>1 DEF ParamsStored, VarsStored
  <2>2. StorageByName
    BY DEF Fitting, CodeFits
  <2> QED BY <1>1, <2>1, <2>2 DEF StorageByName
<1>6. PICK c : c = NextValue("alloca")
  OBVIOUS
<1>7. InstrFits(Instr("alloca", <<>>), 1) /\ c = Storage(Len(CurrentCode) + 1)
  BY <1>1, <1>6, AllocaFits
<1>8. PICK make : make = Instr("alloca", <<>>)
  OBVIOUS
<1>9. make \in Instruction /\ make.op = "alloca" /\ InstrFits(make, 1)
  BY <1>7, <1>8, AllocaInstr
<1>10. /\ Emit(<<make>>) /\ value_table' = [value_table EXCEPT ![x] = c]
       /\ gen_pos' = EnterVar(tunit, i, k + 1)
       /\ UNCHANGED <<func_map, insert_point, frames>>
  BY <1>4, <1>6, <1>8 DEF GenVariable
<1>11. /\ InDefinition' /\ gen_pos'.fn = i /\ CurrentDef' = d
       /\ gen_pos'.at # "param"
       /\ ParamsStored' = p /\ VarsStored' = k
       /\ OwedNow' = 0
       /\ \A m \in DOMAIN d.body : ~NodeLeft(m)'
  <2>1. k + 1 \in Nat /\ k + 1 > 0 /\ k + 1 <= Len(d.vars) + 1 /\ (k + 1) - 1 = k
    BY <1>3
  <2> QED BY <1>2, <1>10, <2>1, VarEntered
<1>12. /\ status' = "generating"
       /\ <<make>> \in Seq(Instruction) /\ Len(<<make>>) = 1 /\ Extends(<<make>>)
       /\ NoReturnIn(<<make>>)
  BY <1>1, <1>9, <1>10, <1>11, OneExtends
<1>13. Len(CurrentCode') = 2 * p + k /\ \A m : Storage(m)' = Storage(m)
  <2>1. Len(CurrentCode') = (2 * p + (k - 1)) + 1
    BY <1>5, <1>12, CodeGrows
  <2>2. k \in Int /\ p \in Int
    BY <1>2, <1>3
  <2> HIDE DEF p, k
  <2> QED BY <1>10, <2>1, <2>2 DEF Storage
<1>14. value_table'[x] = c /\ \A y \in VarNames : y # x => value_table'[y] = value_table[y]
  BY <1>1, <1>3, <1>10, GeneratingFacts
<1>15. c = Storage(2 * p + k)
  <2>1. k \in Int /\ p \in Int
    BY <1>2, <1>3
  <2> HIDE DEF p, k
  <2>2. (2 * p + (k - 1)) + 1 = 2 * p + k
    BY <2>1
  <2> QED BY <1>5, <1>7, <2>2
<1>16. ASSUME NEW m \in 1 .. k PROVE value_table'[d.vars[m]] = Storage(2 * p + m)
  <2>1. m \in 1 .. Len(d.vars) /\ (m # k => m \in 1 .. (k - 1))
    BY <1>3
  <2>2. d.vars[m] \in VarNames /\ (d.vars[m] = x => m = k)
    BY <1>2, <1>3, <2>1, NamesApart
  <2> QED BY <1>5, <1>14, <1>15, <2>1, <2>2
<1>17. ASSUME NEW m \in 1 .. p, \A l \in 1 .. k : d.vars[l] # d.params[m]
       PROVE  value_table'[d.params[m]] = Storage(2 * m - 1)
  <2>1. k \in 1 .. k /\ \A l \in 1 .. (k - 1) : l \in 1 .. k
    BY <1>3
  <2>2. d.params[m] \in VarNames /\ d.params[m] # x
    BY <1>2, <1>17, <2>1
  <2> QED BY <1>5, <1>14, <1>17, <2>1, <2>2
<1>18. StorageByName'
  <2>1. Len(CurrentCode)' = 2 * ParamsStored' + VarsStored'
        /\ Len(CurrentCode)' >= 2 * ParamsStored' + VarsStored'
    <3>1. 2 * p + k \in Int
      <4> HIDE DEF k, p, d
      <4> QED BY <1>2, <1>3
    <3> QED BY <1>11, <1>13, <3>1
  <2>2. \A m \in 1 .. VarsStored' :
          value_table'[CurrentDef'.vars[m]] = Storage(2 * Len(CurrentDef.params) + m)'
    <3>1. \A m \in 1 .. k : value_table'[d.vars[m]] = Storage(2 * p + m)
      BY <1>16
    <3>2. \A m : Storage(2 * Len(CurrentDef.params) + m)' = Storage(2 * p + m)
      BY <1>10, <1>11 DEF Storage
    <3> QED BY <1>11, <3>1, <3>2
  <2>3. \A m \in 1 .. ParamsStored' :
          (\A l \in 1 .. VarsStored' : CurrentDef'.vars[l] # CurrentDef'.params[m]) =>
            value_table'[CurrentDef'.params[m]] = Storage(2 * m - 1)'
    BY <1>11, <1>13, <1>17
  <2> QED BY <1>11, <2>1, <2>2, <2>3 DEF StorageByName
<1>19. CodeFits'
  BY <1>1, <1>10, <1>11, <1>12, <1>18, EntryFits
<1> QED BY <1>12, <1>19

----------------------------------------------------------------------------
(* Between the definitions. *)

(* The functions of the module stay, and what is new has no code. *)
ModuleGrows ==
  /\ \A f \in DOMAIN functions :
       /\ f \in DOMAIN functions'
       /\ functions'[f].name = functions[f].name
       /\ functions'[f].arity = functions[f].arity
       /\ functions'[f].code = functions[f].code
  /\ \A f \in DOMAIN functions' : f \notin DOMAIN functions => functions'[f].code = <<>>

(* The definitions begun keep their functions. *)
BegunKept ==
  \A j \in DOMAIN tunit.defs : Begun(j) =>
    FunctionOf(j) \in DOMAIN functions /\ FunctionOf(j)' = FunctionOf(j)

(* The code that is there is not disturbed by functions made behind it. *)
LEMMA CodeKept ==
  ASSUME Fitting, ModuleGrows
  PROVE  InstructionsFit'
<1>1. InstructionsFit /\ CallsByName
  BY DEF Fitting, CodeFits, Generating, GeneratorInv
<1>2. ASSUME NEW instr, instr.op = "call" => instr.callee \in DOMAIN functions, WellTyped(instr)
      PROVE  WellTyped(instr)'
  BY <1>2 DEF WellTyped, ModuleGrows
<1>3. \A v, j : \A f \in DOMAIN functions : Local(v, f, j) => Local(v, f, j)'
  BY DEF Local, ModuleGrows
<1> SUFFICES ASSUME NEW f \in DOMAIN functions', NEW j \in DOMAIN functions'[f].code,
                    NEW instr, instr = functions'[f].code[j]
             PROVE  /\ WellTyped(instr)'
                    /\ \A o \in DOMAIN instr.operands : Local(instr.operands[o], f, j)'
                    /\ instr.op = "ret" => j = Len(functions'[f].code)
  BY DEF InstructionsFit
<1>4. f \in DOMAIN functions /\ functions'[f].code = functions[f].code
  <2>1. f \notin DOMAIN functions => functions'[f].code = <<>>
    BY DEF ModuleGrows
  <2>2. f \in DOMAIN functions
    BY <2>1
  <2> QED BY <2>2 DEF ModuleGrows
<1>5. instr = functions[f].code[j] /\ j \in DOMAIN functions[f].code
  BY <1>4
<1>6. instr.op = "call" => instr.callee \in DOMAIN functions
  BY <1>1, <1>4, <1>5 DEF CallsByName
<1>7. /\ WellTyped(instr)
      /\ \A o \in DOMAIN instr.operands : Local(instr.operands[o], f, j)
      /\ instr.op = "ret" => j = Len(functions[f].code)
  BY <1>1, <1>4, <1>5 DEF InstructionsFit
<1> QED BY <1>2, <1>3, <1>4, <1>6, <1>7

(* A function made for a symbol has its parameters, and under their names   *)
(* the value table has its arguments.                                       *)
LEMMA ArgumentsMade ==
  ASSUME Generating, NEW s \in DOMAIN func_table, NEW b \in Nat,
         functions' = Append(functions, [NewFunction(s) EXCEPT !.blocks = b]),
         value_table' = WithArguments(s, Len(functions'))
  PROVE  LET l      == Len(functions')
             params == func_table[s].params
         IN  /\ functions'[l].arity = Len(params)
             /\ \A k \in DOMAIN params :
                  params[k].name \in VarNames
                  /\ (\A m \in DOMAIN params : params[m].name = params[k].name => m = k)
                  => value_table'[params[k].name] = Argument(l, k)
<1> DEFINE params == func_table[s].params
           places(x) == {k \in DOMAIN params : params[k].name = x}
<1>1. functions'[Len(functions')].arity = Len(params)
  <2>1. functions'[Len(functions')] = [NewFunction(s) EXCEPT !.blocks = b]
    BY GeneratingFacts
  <2> QED BY <2>1 DEF NewFunction
<1>2. params \in Seq(VariableSymbol)
  <2>1. func_table[s] \in FuncSymbol
    BY GeneratingFacts, BuiltFacts
  <2> QED BY <2>1 DEF FuncSymbol
<1>3. value_table' = [x \in VarNames |-> IF places(x) = {} THEN value_table[x]
                                         ELSE Argument(Len(functions'), Max(places(x)))]
  BY DEF WithArguments
<1>4. ASSUME NEW k \in DOMAIN params, params[k].name \in VarNames,
             \A m \in DOMAIN params : params[m].name = params[k].name => m = k
      PROVE  value_table'[params[k].name] = Argument(Len(functions'), k)
  <2>1. places(params[k].name) = {k} /\ k \in Nat
    BY <1>2, <1>4
  <2> HIDE DEF places, params
  <2>2. Max(places(params[k].name)) = k
    <3> DEFINE T == places(params[k].name)
    <3>1. k \in Nat /\ k \in T /\ \A m \in T : m \in Nat /\ m <= k
      BY <2>1
    <3> HIDE DEF T
    <3>2. Max(T) = k
      BY <3>1, MaxOfNewest
    <3> QED BY <3>2 DEF T
  <2> QED BY <1>3, <1>4, <2>1, <2>2
<1> QED BY <1>1, <1>4

(* What ArityBySource says of one name. *)
HasItsArity(name) ==
  func_map[name] # NoFunction =>
    /\ \A d \in DeclarationsOf(tunit, name) :
         functions[func_map[name]].arity = Len(tunit.decls[d].params)
    /\ DeclarationsOf(tunit, name) = {} =>
         \A i \in DOMAIN tunit.defs : tunit.defs[i].name = name =>
           functions[func_map[name]].arity = Len(tunit.defs[i].params)

(* A name that keeps its function keeps the number of its parameters. *)
LEMMA ArityKept ==
  ASSUME Fitting, ModuleGrows, UNCHANGED tunit, NEW x \in FuncNames, func_map'[x] = func_map[x]
  PROVE  HasItsArity(x)'
<1>1. HasItsArity(x)
  BY DEF Fitting, CodeFits, ArityBySource, HasItsArity
<1>2. func_map[x] # NoFunction => func_map[x] \in DOMAIN functions
  BY GeneratingFacts DEF Fitting
<1>3. func_map[x] # NoFunction => functions'[func_map[x]].arity = functions[func_map[x]].arity
  BY <1>2 DEF ModuleGrows
<1> QED BY <1>1, <1>3 DEF HasItsArity, DeclarationsOf

(* A declaration makes a function without code. *)
LEMMA DeclarationFits ==
  ASSUME Fitting, GenDeclaration, UNCHANGED tunit
  PROVE  /\ CodeFits' /\ status' = "generating"
         /\ ~InDefinition' /\ \A j \in DOMAIN tunit.defs : ~Begun(j)'
<1> DEFINE i == gen_pos.fn
           s == decl_scope[i]
           l == Len(functions')
           name == tunit.decls[i].name
<1>1. Generating /\ gen_pos.at = "decl" /\ ~InDefinition
  BY DEF GenDeclaration, InDefinition, Fitting
<1>2. i \in DOMAIN tunit.decls /\ tunit \in TranslationUnit /\ Built
  BY <1>1, GeneratingFacts DEF IsPlace, Within
<1>3. s \in DOMAIN func_table /\ func_table[s].name = name /\ s = i
  BY <1>2, SymbolNames, BuiltFacts
<1>4. /\ functions' = Append(functions, [NewFunction(s) EXCEPT !.blocks = 0])
      /\ func_map' = [func_map EXCEPT ![func_table[s].name] = Len(functions')]
      /\ value_table' = WithArguments(s, Len(functions'))
      /\ gen_pos' = EnterDecl(tunit, i + 1)
      /\ UNCHANGED <<status, insert_point, frames>>
  <2>1. NewFunction(s) = [NewFunction(s) EXCEPT !.blocks = 0]
    BY DEF NewFunction
  <2> QED BY <2>1 DEF GenDeclaration
<1>5. Len(func_table[s].params) = Len(tunit.decls[i].params)
  <2>1. func_table[s].params = [k \in DOMAIN tunit.decls[s].params |->
                                  NewVariable(tunit.decls[s].params[k], "decl", s, k)]
    BY <1>2, <1>3, SourceOfFunction
  <2>2. tunit.decls[s].params \in Seq(VarNames) /\ s = i
    BY <1>2, <1>3, UnitType
  <2>3. func_table[s].params \in Seq(VariableSymbol)
    <3>1. func_table[s] \in FuncSymbol
      BY <1>1, <1>3, GeneratingFacts, BuiltFacts
    <3> QED BY <3>1 DEF FuncSymbol
  <2>4. DOMAIN func_table[s].params = DOMAIN tunit.decls[s].params
    BY <2>1
  <2>5. Len(func_table[s].params) = Len(tunit.decls[s].params)
    BY <2>2, <2>3, <2>4, SameLength
  <2> QED BY <2>2, <2>5
<1> HIDE DEF s
<1>6. /\ name \in FuncNames
      /\ DOMAIN functions' = DOMAIN functions \cup {l} /\ l \notin DOMAIN functions
      /\ functions'[l].name = name /\ functions'[l].code = <<>>
      /\ \A f \in DOMAIN functions : functions'[f] = functions[f]
      /\ \A x \in FuncNames : func_map'[x] = IF x = name THEN l ELSE func_map[x]
  <2> HIDE DEF i, name
  <2>1. func_map' = [func_map EXCEPT ![name] = Len(functions')]
    BY <1>3, <1>4
  <2> QED BY <1>1, <1>3, <1>4, <2>1, FunctionMade
<1>7. functions'[l].arity = Len(tunit.decls[i].params)
  BY <1>1, <1>3, <1>4, <1>5, ArgumentsMade
<1> HIDE DEF l
<1>8. ModuleGrows
  BY <1>6 DEF ModuleGrows
<1>9. /\ IsPlace(gen_pos') /\ gen_pos'.at \in {"decl", "def", "end"}
      /\ gen_pos'.at = "def" => gen_pos'.fn = 1
      /\ gen_pos'.at = "end" => DOMAIN tunit.defs = {}
  <2>1. i + 1 \in Nat /\ i + 1 > 0
    <3>1. tunit.decls \in Seq(Prototype)
      BY <1>2, UnitType
    <3> QED BY <1>2, <3>1
  <2> QED BY <1>2, <1>4, <2>1, EnterDeclPlace
<1>10. ~InDefinition' /\ frames' = <<>>
  BY <1>1, <1>4, <1>9, GeneratingFacts DEF InDefinition
<1>11. \A j \in DOMAIN tunit.defs : ~Begun(j)'
  <2>1. \A j \in DOMAIN tunit.defs : j \in Nat /\ j > 0
    <3>1. tunit.defs \in Seq(Definition)
      BY <1>2, UnitType
    <3> QED BY <3>1
  <2> QED BY <1>9, <1>10, <2>1 DEF Begun
<1>12. ArityBySource'
  <2>1. ASSUME NEW x \in FuncNames PROVE HasItsArity(x)'
    <3>1. CASE x # name
      BY <1>6, <1>8, <3>1, ArityKept
    <3>2. CASE x = name
      <4>1. DeclarationsOf(tunit, name) = {i}
        <5>1. DeclaredOnce(tunit)
          BY DEF Fitting, Supported
        <5> QED BY <1>2, <5>1 DEF DeclaredOnce, Distinct, DeclarationsOf
      <4>2. functions'[func_map'[x]].arity = Len(tunit.decls[i].params)
        BY <1>6, <1>7, <3>2
      <4>3. DeclarationsOf(tunit, x)' = {i}
        BY <3>2, <4>1 DEF DeclarationsOf
      <4> QED BY <4>2, <4>3 DEF HasItsArity
    <3> QED BY <3>1, <3>2
  <2> QED BY <2>1 DEF ArityBySource, HasItsArity
<1>13. StorageByName' /\ ReturnEnds' /\ BodiesClosed'
  BY <1>10, <1>11 DEF StorageByName, ReturnEnds, BodiesClosed
<1>14. StackByTree' /\ OperandsFit'
  BY <1>10 DEF StackByTree, OperandsFit
<1>15. InstructionsFit'
  BY <1>8, CodeKept
<1>16. status' = "generating"
  BY <1>4 DEF Fitting, Generating
<1> QED BY <1>10, <1>11, <1>12, <1>13, <1>14, <1>15, <1>16 DEF CodeFits

(* A body is begun: its function has no code yet, and the arguments are     *)
(* there.                                                                   *)
LEMMA BodyBegins ==
  ASSUME Fitting, gen_pos.at = "def", gen_pos' = EnterParam(tunit, gen_pos.fn, 1),
         ModuleGrows, UNCHANGED <<tunit, frames>>, BegunKept,
         functions'[insert_point'].code = <<>>,
         \A k \in DOMAIN tunit.defs[gen_pos.fn].params :
           /\ value_table'[tunit.defs[gen_pos.fn].params[k]] = Argument(insert_point', k)
           /\ k <= functions'[insert_point'].arity,
         ArityBySource'
  PROVE  CodeFits'
<1> DEFINE i == gen_pos.fn
           d == tunit.defs[i]
<1>1. Generating
  BY DEF Fitting
<1>2. /\ i \in DOMAIN tunit.defs /\ gen_pos'.fn = i
      /\ \A j \in DOMAIN tunit.defs : Begun(j)' <=> Begun(j) \/ j = i
      /\ frames = <<>> /\ ~InDefinition
  BY <1>1, BeginDefinition DEF InDefinition
<1>3. tunit \in TranslationUnit /\ d.params \in Seq(VarNames)
  BY <1>1, <1>2, GeneratingFacts, UnitType
<1>4. /\ InDefinition' /\ CurrentDef' = d
      /\ gen_pos'.at = "param" => gen_pos'.k = 1
      /\ ParamsStored' = 0 /\ VarsStored' = 0 /\ OwedNow' = 0
      /\ \A m \in DOMAIN d.body : ~NodeLeft(m)'
  <2>1. 1 \in Nat /\ 1 > 0 /\ 1 <= Len(d.params) + 1 /\ 1 - 1 = 0
    BY <1>3
  <2> QED BY <1>2, <1>3, <2>1, ParamEntered
<1>5. CurrentCode' = <<>> /\ Len(CurrentCode') = 0
  BY DEF CurrentCode
<1>6. StorageByName'
  <2>1. \A k \in 1 .. 0 : FALSE
    OBVIOUS
  <2>2. \A k \in 1 .. Len(d.params) : k \in DOMAIN d.params
    BY <1>3
  <2>3. gen_pos'.at = "param" => \A k \in gen_pos'.k .. Len(CurrentDef'.params) :
          /\ value_table'[CurrentDef'.params[k]] = Argument(insert_point, k)'
          /\ k <= functions'[insert_point'].arity
    BY <1>4, <2>2 DEF Argument
  <2>4. Len(CurrentCode)' >= 2 * ParamsStored' + VarsStored'
        /\ Len(CurrentCode)' = 2 * ParamsStored' + VarsStored'
    BY <1>4, <1>5
  <2>5. (\A k \in 1 .. VarsStored' : FALSE) /\ (\A k \in 1 .. ParamsStored' : FALSE)
    BY <1>4, <2>1
  <2> QED BY <2>3, <2>4, <2>5 DEF StorageByName
<1>7. StackByTree'
  <2>1. CurrentDef' = CurrentDef
    BY <1>4 DEF CurrentDef
  <2>2. Stacked(CurrentDef.body, <<>>)
    BY DEF Stacked
  <2>3. frames' = <<>>
    BY <1>2
  <2>4. OwedNow' = Below(CurrentDef.body, frames', Len(frames'))
    BY <1>4, <2>3 DEF Below
  <2> QED BY <2>1, <2>2, <2>3, <2>4, StackIsTree
<1>8. OperandsFit'
  BY <1>2, OperandsWait
<1>9. InstructionsFit'
  BY CodeKept
<1>10. ReturnEnds'
  BY <1>4, <1>5 DEF ReturnEnds
<1>11. BodiesClosed'
  <2> SUFFICES ASSUME NEW j \in DOMAIN tunit.defs, Begun(j)', j # i
               PROVE  EndsInReturn(functions[FunctionOf(j)].code)'
    BY <1>2, <1>4 DEF BodiesClosed
  <2>1. Begun(j)
    BY <1>2
  <2>2. EndsInReturn(functions[FunctionOf(j)].code)
    BY <1>2, <2>1 DEF Fitting, CodeFits, BodiesClosed
  <2>3. functions'[FunctionOf(j)'].code = functions[FunctionOf(j)].code
    BY <2>1 DEF ModuleGrows, BegunKept
  <2> QED BY <2>2, <2>3 DEF EndsInReturn
<1> QED BY <1>6, <1>7, <1>8, <1>9, <1>10, <1>11 DEF CodeFits

(* Where the definitions begun have their functions. *)
LEMMA FunctionsOfBegun ==
  ASSUME Generating, NEW j \in DOMAIN tunit.defs, Begun(j)
  PROVE  /\ tunit.defs[j].name \in FuncNames
         /\ FunctionOf(j) \in DOMAIN functions /\ FunctionOf(j) # NoFunction
         /\ functions[FunctionOf(j)].name = tunit.defs[j].name
<1>1. tunit.defs[j].name \in FuncNames
  BY GeneratingFacts, UnitType
<1>2. FunctionOf(j) # NoFunction /\ functions[FunctionOf(j)].name = tunit.defs[j].name
  BY <1>1 DEF Generating, GeneratorInv, FunctionsByName, FunctionOf
<1> QED BY <1>1, <1>2, GeneratingFacts DEF FunctionOf

(* A definition that was not declared makes a function and begins its body. *)
LEMMA NewDefinitionFits ==
  ASSUME Fitting, GenNewDefinition, UNCHANGED tunit
  PROVE  /\ CodeFits' /\ status' = "generating"
         /\ ModuleGrows /\ BegunKept /\ functions'[insert_point'].code = <<>>
<1> DEFINE i == gen_pos.fn
           d == tunit.defs[i]
           s == def_scope[i]
           l == Len(functions')
           name == tunit.defs[i].name
<1>1. /\ Generating /\ gen_pos.at = "def" /\ func_map[name] = NoFunction
      /\ gen_pos' = EnterParam(tunit, i, 1)
  BY DEF GenNewDefinition, Fitting
<1>2. /\ i \in DOMAIN tunit.defs /\ gen_pos'.fn = i
      /\ ~Begun(i) /\ \A e : DeclPassed(gen_pos, e)
  BY <1>1, BeginDefinition
<1>3. /\ s \in DOMAIN func_table /\ func_table[s].name = name /\ Built
      /\ tunit \in TranslationUnit /\ d.params \in Seq(VarNames) /\ name \in FuncNames
  BY <1>1, <1>2, GeneratingFacts, SymbolNames, UnitType
<1>4. /\ functions' = Append(functions, [NewFunction(s) EXCEPT !.blocks = 1])
      /\ func_map' = [func_map EXCEPT ![func_table[s].name] = Len(functions')]
      /\ value_table' = WithArguments(s, Len(functions'))
      /\ insert_point' = l
      /\ UNCHANGED <<status, frames>>
  BY <1>3 DEF GenNewDefinition
<1>5. func_table[s].params = [k \in DOMAIN d.params |-> NewVariable(d.params[k], "def", i, k)]
  BY <1>1, <1>2, ParamsOfScope DEF Fitting, Supported
<1>6. /\ DOMAIN functions' = DOMAIN functions \cup {l} /\ l \notin DOMAIN functions
      /\ functions'[l].name = name /\ functions'[l].code = <<>>
      /\ \A f \in DOMAIN functions : functions'[f] = functions[f]
      /\ \A x \in FuncNames : func_map'[x] = IF x = name THEN l ELSE func_map[x]
  <2> HIDE DEF i, s, d, name
  <2>1. func_map' = [func_map EXCEPT ![name] = Len(functions')]
    BY <1>3, <1>4
  <2> QED BY <1>1, <1>3, <1>4, <2>1, FunctionMade
<1>7. /\ functions'[l].arity = Len(func_table[s].params)
      /\ \A k \in DOMAIN func_table[s].params :
           func_table[s].params[k].name \in VarNames
           /\ (\A m \in DOMAIN func_table[s].params :
                 func_table[s].params[m].name = func_table[s].params[k].name => m = k)
           => value_table'[func_table[s].params[k].name] = Argument(l, k)
  BY <1>1, <1>3, <1>4, ArgumentsMade
<1>8. functions'[l].arity = Len(d.params)
  <2>1. func_table[s].params \in Seq(VariableSymbol)
    <3>1. func_table[s] \in FuncSymbol
      BY <1>1, <1>3, GeneratingFacts, BuiltFacts
    <3> QED BY <3>1 DEF FuncSymbol
  <2>2. DOMAIN func_table[s].params = DOMAIN d.params
    BY <1>5
  <2> HIDE DEF s, l, d
  <2>3. Len(func_table[s].params) = Len(d.params)
    BY <1>3, <2>1, <2>2, SameLength
  <2> QED BY <1>7, <2>3
<1>9. \A k \in DOMAIN d.params :
        value_table'[d.params[k]] = Argument(l, k) /\ k <= functions'[l].arity
  <2> SUFFICES ASSUME NEW k \in DOMAIN d.params
               PROVE  value_table'[d.params[k]] = Argument(l, k) /\ k <= functions'[l].arity
    OBVIOUS
  <2>1. \A m \in DOMAIN d.params :
          m \in DOMAIN func_table[s].params /\ func_table[s].params[m].name = d.params[m]
    BY <1>5 DEF NewVariable
  <2>2. DOMAIN func_table[s].params = DOMAIN d.params
    BY <1>5
  <2>3. \A m \in DOMAIN d.params : d.params[m] = d.params[k] => m = k
    BY <1>2, NamesApart
  <2>4. d.params[k] \in VarNames /\ k <= Len(d.params)
    BY <1>3
  <2> HIDE DEF s, l, d
  <2> QED BY <1>7, <1>8, <2>1, <2>2, <2>3, <2>4
<1> HIDE DEF s, l
<1>10. ModuleGrows
  BY <1>6 DEF ModuleGrows
<1>11. BegunKept
  BY <1>1, <1>2, <1>6, FunctionsOfBegun, BegunNames DEF BegunKept, FunctionOf
<1>12. ArityBySource'
  <2>1. ASSUME NEW x \in FuncNames PROVE HasItsArity(x)'
    <3>1. CASE x # name
      BY <1>6, <1>10, <3>1, ArityKept
    <3>2. CASE x = name
      <4>1. DeclarationsOf(tunit, name) = {}
        <5>1. FunctionsByName
          BY <1>1 DEF Generating, GeneratorInv
        <5> QED BY <1>1, <1>2, <1>3, <5>1 DEF FunctionsByName, DeclarationsOf
      <4>2. \A j \in DOMAIN tunit.defs : tunit.defs[j].name = name => j = i
        BY <1>2, <1>3, BuiltDefinedOnce DEF Rules!DefinedOnce
      <4>3. functions'[func_map'[x]].arity = Len(d.params)
        BY <1>6, <1>8, <3>2
      <4>4. DeclarationsOf(tunit, x)' = {}
        BY <3>2, <4>1 DEF DeclarationsOf
      <4> QED BY <3>2, <4>2, <4>3, <4>4 DEF HasItsArity
    <3> QED BY <3>1, <3>2
  <2> QED BY <2>1 DEF ArityBySource, HasItsArity
<1>13. status' = "generating"
  BY <1>1, <1>4 DEF Generating
<1>14. functions'[insert_point'].code = <<>>
  BY <1>4, <1>6
<1>15. CodeFits'
  BY <1>1, <1>4, <1>9, <1>10, <1>11, <1>12, <1>14, BodyBegins
<1> QED BY <1>10, <1>11, <1>13, <1>14, <1>15

(* A definition that was declared begins the body of the function there is. *)
LEMMA KnownDefinitionFits ==
  ASSUME Fitting, GenKnownDefinition, UNCHANGED tunit
  PROVE  /\ CodeFits' /\ status' = "generating"
         /\ ModuleGrows /\ BegunKept /\ functions'[insert_point'].code = <<>>
<1> DEFINE i == gen_pos.fn
           name == tunit.defs[i].name
           fn == func_map[name]
           new == [functions[fn] EXCEPT !.blocks = functions[fn].blocks + 1]
<1>1. /\ Generating /\ gen_pos.at = "def" /\ fn # NoFunction
      /\ gen_pos' = EnterParam(tunit, i, 1)
      /\ functions' = [functions EXCEPT ![fn] = new]
      /\ insert_point' = fn
      /\ UNCHANGED <<status, func_map, value_table, frames>>
  BY DEF GenKnownDefinition, tables, Fitting
<1>2. /\ i \in DOMAIN tunit.defs /\ gen_pos'.fn = i
      /\ ~Begun(i) /\ \A e : DeclPassed(gen_pos, e)
  BY <1>1, BeginDefinition
<1>3. /\ Built /\ tunit \in TranslationUnit /\ functions \in Seq(LlvmFunction)
      /\ func_map \in [FuncNames -> {NoFunction} \cup DOMAIN functions]
      /\ name \in FuncNames /\ fn \in DOMAIN functions
  BY <1>1, <1>2, GeneratingFacts, UnitType
<1>4. FunctionsByName /\ BodiesByDefinition
  BY <1>1 DEF Generating, GeneratorInv
<1>5. functions[fn].code = <<>>
  <2> SUFFICES ASSUME functions[fn].blocks # 0 PROVE FALSE
    BY <1>3, <1>4 DEF BodiesByDefinition
  <2>1. PICK j \in DOMAIN tunit.defs : Begun(j) /\ FunctionOf(j) = fn
    BY <1>3, <1>4 DEF BodiesByDefinition
  <2>2. functions[fn].name = tunit.defs[j].name /\ functions[fn].name = name
    BY <1>1, <1>3, <1>4, <2>1, FunctionsOfBegun DEF FunctionsByName
  <2> QED BY <1>1, <1>2, <2>1, <2>2, BegunNames
<1>6. functions[fn] \in LlvmFunction
  BY <1>3
<1> HIDE DEF fn
<1>7. new.name = functions[fn].name /\ new.arity = functions[fn].arity /\ new.code = functions[fn].code
  BY <1>6 DEF LlvmFunction
<1> HIDE DEF new
<1>8. ModuleGrows /\ functions'[fn].code = <<>>
  BY <1>1, <1>3, <1>5, <1>7 DEF ModuleGrows
<1>9. BegunKept
  BY <1>1, FunctionsOfBegun DEF BegunKept, FunctionOf
<1>10. tunit.defs[i].params = <<>>
  <2>1. \A j \in DOMAIN tunit.defs : Begun(j) => tunit.defs[j].name # name
    BY <1>1, <1>2, BegunNames
  <2>2. PICK e \in DOMAIN tunit.decls : tunit.decls[e].name = name
    BY <1>1, <1>3, <1>4, <2>1 DEF FunctionsByName, fn
  <2>3. e \in DeclarationsOf(tunit, name)
    BY <2>2 DEF DeclarationsOf
  <2> QED BY <1>2, <2>3 DEF Fitting, Supported, MergedWithoutParameters
<1>11. ArityBySource'
  <2>1. ASSUME NEW x \in FuncNames PROVE HasItsArity(x)'
    BY <1>1, <1>8, ArityKept
  <2> QED BY <2>1 DEF ArityBySource, HasItsArity
<1>12. status' = "generating"
  BY <1>1 DEF Generating
<1>13. functions'[insert_point'].code = <<>>
  BY <1>1, <1>8
<1>14. CodeFits'
  <2>1. \A k \in DOMAIN tunit.defs[gen_pos.fn].params : FALSE
    BY <1>10
  <2> QED BY <1>1, <1>8, <1>9, <1>11, <1>13, <2>1, BodyBegins
<1> QED BY <1>8, <1>9, <1>12, <1>13, <1>14

(* A definition left behind is closed by its "return". *)
LEMMA LeaveFits ==
  ASSUME Fitting, LeaveDefinition \/ LeaveUnit, UNCHANGED tunit
  PROVE  CodeFits' /\ status' \in {"generating", "generated"}
<1>1. UNCHANGED <<functions, func_map, value_table, insert_point, frames>> /\ Generating
  BY DEF LeaveDefinition, LeaveUnit, tables, Fitting
<1>2. /\ tunit \in TranslationUnit /\ IsPlace(gen_pos) /\ tunit.defs \in Seq(Definition)
      /\ DOMAIN tunit.defs = 1 .. Len(tunit.defs) /\ Len(tunit.defs) \in Nat
  BY <1>1, GeneratingFacts, UnitType
<1>3. CodeFits
  BY DEF Fitting
<1>4. /\ frames = <<>> /\ ~InDefinition' /\ status' \in {"generating", "generated"}
      /\ \A j \in DOMAIN tunit.defs : Begun(j)' =>
           Begun(j) /\ (InDefinition => j # gen_pos.fn \/ EndsInReturn(CurrentCode))
  <2>1. CASE LeaveUnit
    <3>1. gen_pos.at = "end" /\ gen_pos' = gen_pos /\ status' = "generated" /\ ~InDefinition
      BY <2>1 DEF LeaveUnit, InDefinition
    <3> QED BY <1>1, <3>1, GeneratingFacts DEF InDefinition, Begun
  <2>2. CASE LeaveDefinition
    <3> DEFINE i == gen_pos.fn
    <3>1. /\ gen_pos.at = "post_def" /\ frames = <<>>
          /\ gen_pos' = EnterDef(tunit, i + 1) /\ UNCHANGED status
      BY <2>2 DEF LeaveDefinition
    <3>2. i \in DOMAIN tunit.defs /\ i \in Nat
      BY <1>2, <3>1 DEF IsPlace, Within
    <3>3. /\ gen_pos'.at \in {"def", "end"}
          /\ gen_pos'.at = "def" => gen_pos'.fn = i + 1
          /\ gen_pos'.at = "end" => i + 1 > Len(tunit.defs)
      BY <1>2, <3>1, <3>2, EnterDefPlace
    <3>4. \A j \in DOMAIN tunit.defs : Begun(j) <=> j <= i
      BY <3>1 DEF Begun, InDefinition
    <3>5. \A j \in DOMAIN tunit.defs : Begun(j)' => j <= i
      <4>1. \A j \in DOMAIN tunit.defs : j \in Nat /\ j <= Len(tunit.defs)
        BY <1>2
      <4> QED BY <1>2, <3>2, <3>3, <4>1 DEF Begun, InDefinition
    <3>6. EndsInReturn(CurrentCode)
      <4>1. PICK k \in DOMAIN tunit.defs[i].body : tunit.defs[i].body[k] \in Jump
        BY <3>2 DEF Fitting, Supported, ReturnsOnceAtEnd
      <4>2. InDefinition /\ NodeLeft(k) /\ CurrentDef = tunit.defs[i]
        BY <3>1 DEF InDefinition, NodeLeft, CurrentDef
      <4> QED BY <1>3, <3>1, <4>1, <4>2 DEF CodeFits, ReturnEnds
    <3> QED BY <3>1, <3>3, <3>4, <3>5, <3>6, <1>1 DEF InDefinition, Generating
  <2> QED BY <2>1, <2>2
<1>5. BodiesClosed'
  <2> SUFFICES ASSUME NEW j \in DOMAIN tunit.defs, Begun(j)'
               PROVE  EndsInReturn(functions'[FunctionOf(j)'].code)
    BY <1>4 DEF BodiesClosed
  <2>1. FunctionOf(j)' = FunctionOf(j)
    BY <1>1 DEF FunctionOf
  <2>2. Begun(j) /\ (InDefinition => j # gen_pos.fn \/ EndsInReturn(CurrentCode))
    BY <1>4
  <2>3. InDefinition /\ j = gen_pos.fn => insert_point = FunctionOf(j)
    BY <1>1, InsertPointIsFunction
  <2>4. EndsInReturn(functions[FunctionOf(j)].code)
    BY <1>3, <2>2, <2>3 DEF CodeFits, BodiesClosed, CurrentCode
  <2> QED BY <1>1, <2>1, <2>4
<1>6. ModuleGrows
  BY <1>1 DEF ModuleGrows
<1>7. InstructionsFit'
  BY <1>6, CodeKept
<1>8. ArityBySource'
  <2>1. ASSUME NEW x \in FuncNames PROVE HasItsArity(x)'
    BY <1>1, <1>6, ArityKept
  <2> QED BY <2>1 DEF ArityBySource, HasItsArity
<1>9. StorageByName' /\ ReturnEnds' /\ StackByTree' /\ OperandsFit'
  <2>1. frames' = <<>>
    BY <1>1, <1>4
  <2> QED BY <1>4, <2>1 DEF StorageByName, ReturnEnds, StackByTree, OperandsFit
<1> QED BY <1>4, <1>5, <1>7, <1>8, <1>9 DEF CodeFits

----------------------------------------------------------------------------
(* The compiler. *)

(* The generator neither fails on a supported unit nor leaves the rules of  *)
(* its code.                                                                *)
LEMMA CodeStep ==
  ASSUME Fitting, GeneratorNext, UNCHANGED tunit
  PROVE  CodeFits' /\ status' \in {"generating", "generated"}
<1>1. CASE \/ GenDeclaration \/ GenNewDefinition \/ GenKnownDefinition
           \/ GenParameter \/ GenVariable
  BY <1>1, DeclarationFits, NewDefinitionFits, KnownDefinitionFits, ParameterFits, VariableFits
<1>2. CASE \/ GenNumber \/ GenIdentifier \/ BeginExpression \/ BeginAssignment
  BY <1>2, NumberFits, IdentifierFits, BeginExpressionFits, BeginAssignmentFits
<1>3. CASE \/ FoldConstants \/ FinishBinary \/ FinishAssignment \/ FinishCall \/ FinishReturn
  BY <1>3, FoldFits, BinaryFits, AssignmentFits, CallFits, ReturnStepFits
<1>4. CASE LeaveDefinition \/ LeaveUnit
  BY <1>4, LeaveFits
<1> QED BY <1>1, <1>2, <1>3, <1>4 DEF GeneratorNext

(* What the generator keeps to is about the unit and its own state. *)
LEMMA CodeFitsStable ==
  ASSUME CodeFits, UNCHANGED <<tunit, gen_vars>>
  PROVE  CodeFits'
<1>1. UNCHANGED <<gen_pos, status, functions, func_map, value_table, insert_point, frames>>
  BY DEF gen_vars, tables
<1>2. /\ CurrentDef' = CurrentDef /\ CurrentCode' = CurrentCode
      /\ ParamsStored' = ParamsStored /\ VarsStored' = VarsStored /\ OwedNow' = OwedNow
      /\ InDefinition' <=> InDefinition
      /\ \A k : Storage(k)' = Storage(k)
  BY <1>1 DEF CurrentDef, CurrentCode, ParamsStored, VarsStored, OwedNow, InDefinition, Storage
<1>3. /\ \A j : FrameNode(j)' = FrameNode(j) /\ Wanting(j)' = Wanting(j)
      /\ \A n : OwedBelow(n)' = OwedBelow(n)
      /\ \A k : NodeLeft(k)' <=> NodeLeft(k)
      /\ \A i : (Begun(i)' <=> Begun(i)) /\ FunctionOf(i)' = FunctionOf(i)
  BY <1>1, <1>2 DEF FrameNode, Wanting, OwedBelow, NodeLeft, Begun, FunctionOf, InDefinition
<1>4. StorageByName'
  BY <1>1 DEF CodeFits, StorageByName, CurrentDef, CurrentCode, ParamsStored, VarsStored,
              InDefinition, Storage
<1>5. ArityBySource'
  BY <1>1 DEF CodeFits, ArityBySource, DeclarationsOf
<1>6. StackByTree' /\ OperandsFit'
  BY <1>1, <1>2, <1>3 DEF CodeFits, StackByTree, OperandsFit, Local
<1>7. InstructionsFit'
  BY <1>1 DEF CodeFits, InstructionsFit, Local, WellTyped
<1>8. ReturnEnds' /\ BodiesClosed'
  BY <1>1, <1>2, <1>3 DEF CodeFits, ReturnEnds, BodiesClosed
<1> QED BY <1>4, <1>5, <1>6, <1>7, <1>8 DEF CodeFits

(* Before the generator begins there is nothing to fit. *)
LEMMA CodeInvInit == CompilerInit => CodeInv
<1> SUFFICES ASSUME CompilerInit PROVE CodeInv
  OBVIOUS
<1>1. /\ status = "generating" /\ functions = <<>> /\ frames = <<>>
      /\ func_map = [f \in FuncNames |-> NoFunction]
      /\ gen_pos = EnterDecl(tunit, 1)
  BY DEF CompilerInit, GeneratorInit
<1>2. /\ tunit \in TranslationUnit /\ tunit.decls \in Seq(Prototype)
      /\ tunit.defs \in Seq(Definition)
  <2>1. tunit \in TranslationUnit
    BY ProgramsAssumption DEF CompilerInit, AnalyzerInit, HeapInit
  <2> QED BY <2>1, UnitType
<1>3. /\ gen_pos.at \in {"decl", "def", "end"}
      /\ gen_pos.at = "def" => gen_pos.fn = 1
      /\ gen_pos.at = "end" => DOMAIN tunit.defs = {}
  <2>1. 1 \in Nat /\ 1 > 0
    OBVIOUS
  <2> QED BY <1>1, <1>2, <2>1, EnterDeclPlace
<1>4. ~InDefinition
  BY <1>3 DEF InDefinition
<1>5. \A i \in DOMAIN tunit.defs : ~Begun(i)
  <2>1. \A i \in DOMAIN tunit.defs : i \in Nat /\ i > 0
    BY <1>2
  <2> QED BY <1>3, <1>4, <2>1 DEF Begun
<1>6. StorageByName /\ ReturnEnds /\ BodiesClosed
  BY <1>4, <1>5 DEF StorageByName, ReturnEnds, BodiesClosed
<1>7. StackByTree /\ OperandsFit
  BY <1>1, <1>4 DEF StackByTree, OperandsFit
<1>8. ArityBySource /\ InstructionsFit
  BY <1>1 DEF ArityBySource, InstructionsFit
<1> QED BY <1>6, <1>7, <1>8, <1>1 DEF CodeInv, CodeFits, CompilerInit

(* What the analysis and the generator know, and what a supported unit adds.*)
CompilerFacts == CompilerInv /\ CodeInv

(* A step of the analysis leaves the generator at its beginning; one of the *)
(* generator keeps to the code.                                             *)
LEMMA CodeInvStep == CompilerFacts /\ [CompilerNext]_compiler_vars => CodeInv'
<1> SUFFICES ASSUME CompilerInv, CodeInv, [CompilerNext]_compiler_vars PROVE CodeInv'
  BY DEF CompilerFacts
<1>1. AnalysisFacts /\ GeneratorInv /\ TypeInv
  BY DEF CompilerInv, AnalysisFacts, AnalyzerInv
<1>2. ASSUME UNCHANGED <<tunit, gen_vars>>, phase = "analyzed" => phase' = "analyzed"
      PROVE  CodeInv'
  <2>1. status' = status /\ (GeneratorInit => GeneratorInit')
    BY <1>2 DEF gen_vars, tables, GeneratorInit
  <2>2. Supported(tunit)' <=> Supported(tunit)
    BY <1>2
  <2>3. Supported(tunit) => CodeFits'
    BY <1>2, CodeFitsStable DEF CodeInv
  <2> QED BY <1>2, <2>1, <2>2, <2>3 DEF CodeInv
<1>3. CASE Analyze
  <2>1. AnalyzerNext /\ UNCHANGED gen_vars
    BY <1>3 DEF Analyze
  <2>2. UNCHANGED tunit
    BY <1>1, <2>1, TunitFixed
  <2>3. phase = "analyzed" => phase' = "analyzed"
    BY <2>1 DEF AnalyzerNext, Build, FinishBuilding, Resolve, FinishResolving, AnalysisOver,
                analyzer_vars
  <2> QED BY <1>2, <2>1, <2>2, <2>3
<1>4. CASE Generate
  <2>1. /\ phase = "analyzed" /\ GeneratorNext /\ UNCHANGED <<phase, tunit>>
    BY <1>4 DEF Generate, analyzer_vars, heap
  <2>2. Supported(tunit)' <=> Supported(tunit)
    BY <2>1
  <2>3. Supported(tunit) => CodeFits' /\ status' \in {"generating", "generated"}
    <3>1. Supported(tunit) => Fitting
      BY <1>1, <2>1 DEF CodeInv, Fitting, Generating, GeneratorNext
    <3> QED BY <2>1, <3>1, CodeStep
  <2> QED BY <2>1, <2>2, <2>3 DEF CodeInv
<1>5. CASE CompilerOver \/ UNCHANGED compiler_vars
  <2>1. UNCHANGED <<analyzer_vars, gen_vars>>
    BY <1>5 DEF CompilerOver, compiler_vars
  <2>2. UNCHANGED <<tunit, phase>>
    BY <2>1 DEF analyzer_vars, heap
  <2> QED BY <1>2, <2>1, <2>2 DEF CodeInv
<1> QED BY <1>3, <1>4, <1>5 DEF CompilerNext

(* All that is known of the compiler, in every reachable state. *)
LEMMA CompilerFactsHold == CompilerSpec => []CompilerFacts
<1>1. CompilerInit => CompilerFacts
  BY CompilerInvInit, CodeInvInit DEF CompilerFacts
<1>2. CompilerFacts /\ [CompilerNext]_compiler_vars => CompilerFacts'
  BY CompilerInvStep, CodeInvStep DEF CompilerFacts
<1> QED BY <1>1, <1>2, PTL DEF CompilerSpec

(* On every supported unit the value table, the stack of expressions, the   *)
(* arities and the code agree with the tree all the time, and the generator *)
(* never crashes.                                                           *)
THEOREM CodeInvariant == CompilerSpec => []CodeInv
<1>1. CompilerFacts => CodeInv
  BY DEF CompilerFacts
<1> QED BY CompilerFactsHold, <1>1, PTL

(* ir_generator gives a supported unit valid code at every moment: operands *)
(* of the function itself, of the types asked for, calls with as many       *)
(* operands as their callee has parameters, and nothing behind a return.    *)
THEOREM CodeIsValid == CompilerSpec => []CodeValid
<1>1. CodeInv => CodeValid
  BY DEF CodeInv, CodeFits, CodeValid
<1> QED BY CodeInvariant, <1>1, PTL

(* The generator looks every variable up by its name in a table that no     *)
(* scope clears, and finds the storage of the symbol the analysis bound.    *)
THEOREM NamesMeanSymbols == CompilerSpec => []NameMeansSymbol
<1>1. CompilerFacts => NameMeansSymbol
  <2> SUFFICES ASSUME CompilerFacts, Supported(tunit), status = "generating",
                      gen_pos.at = "node", NEW i, i = gen_pos.fn, NEW k, k = gen_pos.k
               PROVE  /\ AtNode("identifier") =>
                           value_table[NodeAt(<<i, k>>).name] = StorageOf(id_symbol[<<i, k>>])
                      /\ AtNode("binary_expression") /\ NodeAt(<<i, k>>).op = "=" =>
                           value_table[NodeAt(<<i, k + 1>>).name] =
                             StorageOf(id_symbol[<<i, k + 1>>])
    BY DEF NameMeansSymbol
  <2>1. phase = "analyzed"
    <3>1. ~GeneratorInit
      <4>1. tunit \in TranslationUnit
        BY TunitType DEF CompilerFacts, CompilerInv, AnalysisFacts, AnalyzerInv, TypeInv,
                         AnalyzerTypeOK
      <4>2. 1 \in Nat /\ 1 > 0
        OBVIOUS
      <4>3. EnterDecl(tunit, 1).at # "node"
        BY <4>1, <4>2, EnterDeclPlace
      <4> QED BY <4>3 DEF GeneratorInit
    <3> QED BY <3>1 DEF CompilerFacts, CodeInv
  <2>2. Fitting
    BY <2>1 DEF CompilerFacts, CompilerInv, CodeInv, Fitting, Generating
  <2>3. \A m : NodeAt(<<i, m>>) = CurrentDef.body[m]
    BY DEF NodeAt, CurrentDef
  <2>4. ASSUME NEW m \in DOMAIN CurrentDef.body, CurrentDef.body[m].kind = "identifier"
        PROVE  value_table[NodeAt(<<i, m>>).name] = StorageOf(id_symbol[<<i, m>>])
    BY <2>2, <2>3, <2>4, StorageOfIdentifier
  <2>5. ASSUME AtNode("identifier")
        PROVE  value_table[NodeAt(<<i, k>>).name] = StorageOf(id_symbol[<<i, k>>])
    BY <2>2, <2>4, <2>5, NodeHere DEF AtNode
  <2>6. ASSUME AtNode("binary_expression"), NodeAt(<<i, k>>).op = "="
        PROVE  value_table[NodeAt(<<i, k + 1>>).name] = StorageOf(id_symbol[<<i, k + 1>>])
    <3>1. CurrentDef.body[k].kind = "binary_expression" /\ CurrentDef.body[k].op = "="
      BY <2>2, <2>3, <2>6, NodeHere DEF AtNode
    <3>2. k + 1 \in DOMAIN CurrentDef.body /\ CurrentDef.body[k + 1].kind = "identifier"
      BY <2>2, <3>1, TargetHere
    <3> QED BY <2>4, <3>2
  <2> QED BY <2>5, <2>6
<1> QED BY CompilerFactsHold, <1>1, PTL

----------------------------------------------------------------------------
(* What a unit had that was generated. *)

(* A local variable has its symbol only if no later one has its name. *)
LEMMA AliveLatest ==
  ASSUME Built, NEW i \in DOMAIN tunit.defs, NEW x \in VarNames, NEW k,
         Alive(NewVariable(x, "var", i, k))
  PROVE  NewVariable(x, "var", i, k) = LatestLocal(i, x)
<1> DEFINE v == NewVariable(x, "var", i, k)
<1>1. PICK f \in DOMAIN func_table : v \in Owned(func_table[f])
  BY DEF Alive
<1>2. v.site = "var" /\ v.fn = i /\ v.name = x /\ NoVariable.site = "none"
  BY DEF NewVariable, NoVariable
<1>3. v \notin Range(func_table[f].params)
  <2> HIDE DEF v
  <2>1. \A w \in Range(func_table[f].params) : w.site \in {"decl", "def"}
    <3>1. CASE func_table[f].params = [m \in DOMAIN tunit.decls[f].params |->
                                NewVariable(tunit.decls[f].params[m], "decl", f, m)]
      BY <3>1 DEF Range, NewVariable
    <3>2. CASE \E j \in DOMAIN tunit.defs :
                 func_table[f].params = [m \in DOMAIN tunit.defs[j].params |->
                                     NewVariable(tunit.defs[j].params[m], "def", j, m)]
      BY <3>2 DEF Range, NewVariable
    <3> QED BY <3>1, <3>2, SourceOfFunction
  <2> QED BY <1>2, <2>1
<1>4. func_table[f].var_table \in [VarNames -> VariableSymbol \cup {NoVariable}]
  <2>1. func_table[f] \in FuncSymbol
    BY BuiltFacts
  <2> QED BY <2>1 DEF FuncSymbol
<1> HIDE DEF v
<1>5. PICK y \in VarNames : func_table[f].var_table[y] = v
  BY <1>1, <1>3, <1>4 DEF Owned, Range
<1>6. LocalsAtHome /\ BoundOnce /\ DOMAIN def_scope = DOMAIN tunit.defs
  BY BuiltFacts DEF Built, AnalysisFacts, AnalyzerInv, TableFacts
<1>7. ~func_table[f].is_declaration
  <2>1. v # NoVariable /\ v \in Range(func_table[f].var_table)
    BY <1>2, <1>4, <1>5 DEF Range
  <2> QED BY <1>6, <2>1 DEF LocalsAtHome
<1>8. PICK j \in DOMAIN tunit.defs : def_scope[j] = f
  BY <1>6, <1>7 DEF BoundOnce
<1>9. v = LatestLocal(j, y)
  BY <1>5, <1>6, <1>8, BuiltFacts DEF LocalsAtHome
<1>10. j = i /\ y = x
  BY <1>2, <1>9 DEF LatestLocal, NewVariable
<1> QED BY <1>9, <1>10 DEF v

(* Where the generator goes. *)
LEMMA ParamAt ==
  ASSUME NEW t, NEW i, NEW k, NEW p, p = EnterParam(t, i, k)
  PROVE  /\ p.at = "param" => p.k = k
         /\ p.at # "param" => ~(k <= Len(t.defs[i].params)) /\ p = EnterVar(t, i, 1)
BY DEF EnterParam, EnterVar, EnterNode, At

LEMMA VarAt ==
  ASSUME NEW t, NEW i, NEW k, NEW p, p = EnterVar(t, i, k)
  PROVE  /\ p.at = "var" => p.k = k
         /\ p.at # "var" => ~(k <= Len(t.defs[i].vars)) /\ p = EnterNode(t, i, 1)
         /\ p.at # "param"
BY DEF EnterVar, EnterNode, At

LEMMA NodePlaceAt ==
  ASSUME NEW t, NEW i, NEW k, NEW p, p = EnterNode(t, i, k)
  PROVE  /\ p.at = "node" => p.k = k
         /\ p.at # "node" => ~(k <= Len(t.defs[i].body))
         /\ p.at \in {"node", "post_def"}
BY DEF EnterNode, At

(* What a step adds to what is left behind has its symbol. *)
LeavesFound ==
  \A i \in DOMAIN tunit.defs :
    LET def == tunit.defs[i]
    IN  /\ \A k \in DOMAIN def.params : ParamLeft(i, k)' =>
             ParamLeft(i, k) \/ Alive(NewVariable(def.params[k], "def", i, k))
        /\ \A k \in DOMAIN def.vars : VarLeft(i, k)' =>
             VarLeft(i, k) \/ Alive(NewVariable(def.vars[k], "var", i, k))
        /\ \A k \in DOMAIN def.body : def.body[k] \in Call /\ ExpressionLeft(i, k)' =>
             ExpressionLeft(i, k) \/ Known(tunit, i, def.body[k].name)

(* A step that stays where it is. *)
LEMMA StayLeaves ==
  ASSUME UNCHANGED <<gen_pos, frames>>
  PROVE  LeavesFound
BY DEF LeavesFound, ParamLeft, VarLeft, ExpressionLeft, Begun, InDefinition

(* A declaration is no part of a definition. *)
LEMMA DeclarationLeaves ==
  ASSUME Generating, GenDeclaration
  PROVE  LeavesFound
<1>1. /\ tunit \in TranslationUnit /\ IsPlace(gen_pos) /\ gen_pos.at = "decl"
      /\ gen_pos' = EnterDecl(tunit, gen_pos.fn + 1)
      /\ tunit.defs \in Seq(Definition)
  BY GeneratingFacts, UnitType DEF GenDeclaration
<1>2. gen_pos.fn + 1 \in Nat /\ gen_pos.fn + 1 > 0
  BY <1>1 DEF IsPlace, GenPosition
<1>3. /\ gen_pos'.at \in {"decl", "def", "end"}
      /\ gen_pos'.at = "def" => gen_pos'.fn = 1
      /\ gen_pos'.at = "end" => DOMAIN tunit.defs = {}
  BY <1>1, <1>2, EnterDeclPlace
<1>4. \A i \in DOMAIN tunit.defs : ~Begun(i)'
  <2>1. \A i \in DOMAIN tunit.defs : i \in Nat /\ i > 0
    BY <1>1
  <2> QED BY <1>3, <2>1 DEF Begun, InDefinition
<1> QED BY <1>4 DEF LeavesFound, ParamLeft, VarLeft, ExpressionLeft

(* At its beginning nothing of a definition is left behind. *)
LEMMA BeginLeaves ==
  ASSUME Generating, GenNewDefinition \/ GenKnownDefinition
  PROVE  LeavesFound
<1>0. PICK d : d = gen_pos.fn
  OBVIOUS
<1>1. /\ tunit \in TranslationUnit /\ IsPlace(gen_pos) /\ gen_pos.at = "def"
      /\ gen_pos' = EnterParam(tunit, d, 1)
      /\ tunit.defs \in Seq(Definition)
  BY <1>0, GeneratingFacts, UnitType DEF GenNewDefinition, GenKnownDefinition
<1>2. d \in DOMAIN tunit.defs /\ d \in Nat /\ 1 \in Nat /\ 1 > 0
  BY <1>0, <1>1 DEF IsPlace, Within, GenPosition
<1>3. gen_pos'.fn = d /\ gen_pos'.at \in {"param", "var", "node", "post_def"}
  BY <1>1, <1>2, EnterParamPlace
<1>4. \A i \in DOMAIN tunit.defs : i \in Nat /\ (Begun(i)' <=> i <= d) /\ (Begun(i) <=> i < d)
  BY <1>0, <1>1, <1>3 DEF Begun, InDefinition
<1>5. ASSUME NEW i \in DOMAIN tunit.defs, i # d
      PROVE  Begun(i)' => /\ \A k : ParamLeft(i, k) /\ VarLeft(i, k)
                          /\ \A k : ExpressionLeft(i, k)
  BY <1>0, <1>2, <1>4, <1>5 DEF ParamLeft, VarLeft, ExpressionLeft
<1>6. /\ \A k \in DOMAIN tunit.defs[d].params : ~ParamLeft(d, k)'
      /\ \A k \in DOMAIN tunit.defs[d].vars : ~VarLeft(d, k)'
      /\ \A k \in DOMAIN tunit.defs[d].body : ~ExpressionLeft(d, k)'
  <2> DEFINE def == tunit.defs[d]
  <2>1. def.params \in Seq(VarNames) /\ def.vars \in Seq(VarNames) /\ def.body \in Seq(Node)
    BY <1>1, <1>2, UnitType
  <2>2. /\ \A k \in DOMAIN def.params : k \in Nat /\ 1 <= k /\ 1 <= Len(def.params)
        /\ \A k \in DOMAIN def.vars : k \in Nat /\ 1 <= k /\ 1 <= Len(def.vars)
        /\ \A k \in DOMAIN def.body : k \in Nat /\ 1 <= k /\ 1 <= Len(def.body)
    BY <2>1
  <2> HIDE DEF def
  <2>3. /\ gen_pos'.at = "param" => gen_pos'.k = 1
        /\ gen_pos'.at # "param" => ~(1 <= Len(def.params)) /\ gen_pos' = EnterVar(tunit, d, 1)
    BY <1>1, ParamAt DEF def
  <2>4. /\ gen_pos'.at = "var" => gen_pos'.k = 1
        /\ gen_pos'.at \in {"node", "post_def"} =>
             ~(1 <= Len(def.vars)) /\ gen_pos' = EnterNode(tunit, d, 1)
    BY <2>3, VarAt DEF def
  <2>5. /\ gen_pos'.at = "node" => gen_pos'.k = 1
        /\ gen_pos'.at = "post_def" => ~(1 <= Len(def.body))
    BY <2>4, NodePlaceAt DEF def
  <2>6. \A k \in DOMAIN def.params : ~ParamLeft(d, k)'
    BY <1>3, <2>2, <2>3 DEF ParamLeft
  <2>7. \A k \in DOMAIN def.vars : ~VarLeft(d, k)'
    BY <1>3, <2>2, <2>4 DEF VarLeft
  <2>8. \A k \in DOMAIN def.body : ~ExpressionLeft(d, k)'
    BY <1>3, <2>2, <2>5 DEF ExpressionLeft
  <2> QED BY <2>6, <2>7, <2>8 DEF def
<1>7. ASSUME NEW i \in DOMAIN tunit.defs
      PROVE  /\ \A k \in DOMAIN tunit.defs[i].params : ParamLeft(i, k)' => ParamLeft(i, k)
             /\ \A k \in DOMAIN tunit.defs[i].vars : VarLeft(i, k)' => VarLeft(i, k)
             /\ \A k \in DOMAIN tunit.defs[i].body : ExpressionLeft(i, k)' => ExpressionLeft(i, k)
  <2>1. CASE i = d
    BY <1>6, <2>1
  <2>2. CASE i # d
    <3>1. /\ \A k : ParamLeft(i, k)' \/ VarLeft(i, k)' => Begun(i)'
          /\ \A k : ExpressionLeft(i, k)' => Begun(i)'
      BY DEF ParamLeft, VarLeft, ExpressionLeft
    <3> QED BY <1>5, <2>2, <3>1
  <2> QED BY <2>1, <2>2
<1> QED BY <1>7 DEF LeavesFound

(* Inside a definition the others stay as they are. *)
LEMMA BesideLeaves ==
  ASSUME Generating, InDefinition, InDefinition', gen_pos'.fn = gen_pos.fn
  PROVE  /\ \A i \in DOMAIN tunit.defs : Begun(i)' <=> Begun(i)
         /\ \A i \in DOMAIN tunit.defs : i # gen_pos.fn =>
              /\ \A k : ParamLeft(i, k)' <=> ParamLeft(i, k)
              /\ \A k : VarLeft(i, k)' <=> VarLeft(i, k)
              /\ \A k : ExpressionLeft(i, k)' <=> ExpressionLeft(i, k)
<1>1. \A i \in DOMAIN tunit.defs : Begun(i)' <=> Begun(i)
  BY DEF Begun, InDefinition
<1> QED BY <1>1 DEF ParamLeft, VarLeft, ExpressionLeft

(* A parameter with storage had its symbol. *)
LEMMA ParameterLeaves ==
  ASSUME Generating, GenParameter
  PROVE  LeavesFound
<1>0. PICK d, k0 : d = gen_pos.fn /\ k0 = gen_pos.k
  OBVIOUS
<1> DEFINE def == tunit.defs[d]
<1>1. gen_pos.at = "param" /\ InDefinition /\ d \in DOMAIN tunit.defs /\ k0 \in DOMAIN def.params
      /\ tunit \in TranslationUnit /\ frames = <<>>
  BY <1>0, GeneratingFacts DEF GenParameter, IsPlace, InDefinition
<1>2. def.params \in Seq(VarNames) /\ def.vars \in Seq(VarNames) /\ def.body \in Seq(Node)
  BY <1>1, UnitType
<1>3. k0 \in Nat /\ k0 + 1 \in Nat /\ k0 + 1 > 0
  <2>1. DOMAIN def.params \subseteq Nat
    BY <1>2
  <2> QED BY <1>1, <2>1
<1>4. CASE UNCHANGED <<gen_pos, frames>>
  BY <1>4, StayLeaves
<1>5. CASE ~UNCHANGED <<gen_pos, frames>>
  <2>1. /\ Alive(NewVariable(def.params[k0], "def", d, k0))
        /\ gen_pos' = EnterParam(tunit, d, k0 + 1) /\ UNCHANGED frames
    BY <1>0, <1>5 DEF GenParameter, Stop
  <2>2. gen_pos'.fn = d /\ gen_pos'.at \in {"param", "var", "node", "post_def"}
    BY <1>1, <1>3, <2>1, EnterParamPlace
  <2>3. InDefinition'
    BY <2>2 DEF InDefinition
  <2>4. /\ gen_pos'.at = "param" => gen_pos'.k = k0 + 1
        /\ gen_pos'.at # "param" => gen_pos' = EnterVar(tunit, d, 1)
    BY <2>1, ParamAt
  <2>5. /\ gen_pos'.at = "var" => gen_pos'.k = 1
        /\ gen_pos'.at \in {"node", "post_def"} =>
             ~(1 <= Len(def.vars)) /\ gen_pos' = EnterNode(tunit, d, 1)
    BY <2>4, VarAt
  <2>6. /\ gen_pos'.at = "node" => gen_pos'.k = 1
        /\ gen_pos'.at = "post_def" => ~(1 <= Len(def.body))
    BY <2>5, NodePlaceAt
  <2>7. Begun(d)
    <3>1. d \in Nat
      BY <1>0, GeneratingFacts DEF IsPlace, GenPosition
    <3> QED BY <1>0, <1>1, <3>1 DEF Begun
  <2> HIDE DEF def
  <2>8. ASSUME NEW k \in DOMAIN def.params, ParamLeft(d, k)'
        PROVE  ParamLeft(d, k) \/ k = k0
    <3>1. k \in Nat /\ 1 <= k
      BY <1>2
    <3>2. gen_pos'.at = "param" => ~(k0 + 1 <= k)
      BY <2>2, <2>4, <2>8 DEF ParamLeft
    <3>3. gen_pos'.at # "param" => ~(k0 + 1 <= Len(def.params))
      BY <2>1, ParamAt DEF def
    <3>4. k <= Len(def.params) /\ Len(def.params) \in Nat
      BY <1>2
    <3>5. k <= k0
      BY <1>3, <3>1, <3>2, <3>3, <3>4
    <3>6. k = k0 \/ ~(k0 <= k)
      BY <1>3, <3>1, <3>5
    <3> QED BY <1>0, <1>1, <2>7, <3>6 DEF ParamLeft
  <2>9. \A k \in DOMAIN def.vars : ~VarLeft(d, k)'
    <3>1. \A k \in DOMAIN def.vars : k \in Nat /\ 1 <= k /\ 1 <= Len(def.vars)
      BY <1>2
    <3> QED BY <2>2, <2>5, <3>1 DEF VarLeft, def
  <2>10. \A k \in DOMAIN def.body : ~ExpressionLeft(d, k)'
    <3>1. \A k \in DOMAIN def.body : k \in Nat /\ 1 <= k /\ 1 <= Len(def.body)
      BY <1>2
    <3> QED BY <2>2, <2>6, <3>1 DEF ExpressionLeft, def
  <2>11. \A i \in DOMAIN tunit.defs : i # d =>
              /\ \A k : ParamLeft(i, k)' <=> ParamLeft(i, k)
              /\ \A k : VarLeft(i, k)' <=> VarLeft(i, k)
              /\ \A k : ExpressionLeft(i, k)' <=> ExpressionLeft(i, k)
    BY <1>0, <1>1, <2>2, <2>3, BesideLeaves
  <2> QED BY <2>1, <2>8, <2>9, <2>10, <2>11 DEF LeavesFound, def
<1> QED BY <1>4, <1>5

(* A local variable with storage had its symbol. *)
LEMMA VariableLeaves ==
  ASSUME Generating, GenVariable
  PROVE  LeavesFound
<1>0. PICK d, k0 : d = gen_pos.fn /\ k0 = gen_pos.k
  OBVIOUS
<1> DEFINE def == tunit.defs[d]
<1>1. gen_pos.at = "var" /\ InDefinition /\ d \in DOMAIN tunit.defs /\ k0 \in DOMAIN def.vars
      /\ tunit \in TranslationUnit
  BY <1>0, GeneratingFacts DEF GenVariable, IsPlace, Within, InDefinition
<1>2. def.params \in Seq(VarNames) /\ def.vars \in Seq(VarNames) /\ def.body \in Seq(Node)
  BY <1>1, UnitType
<1>3. k0 \in Nat /\ k0 + 1 \in Nat /\ k0 + 1 > 0
  <2>1. DOMAIN def.vars \subseteq Nat
    BY <1>2
  <2> QED BY <1>1, <2>1
<1>4. CASE UNCHANGED <<gen_pos, frames>>
  BY <1>4, StayLeaves
<1>5. CASE ~UNCHANGED <<gen_pos, frames>>
  <2>1. /\ Alive(NewVariable(def.vars[k0], "var", d, k0))
        /\ gen_pos' = EnterVar(tunit, d, k0 + 1) /\ UNCHANGED frames
    BY <1>0, <1>5 DEF GenVariable, Stop
  <2>2. gen_pos'.fn = d /\ gen_pos'.at \in {"var", "node", "post_def"}
    BY <1>1, <1>3, <2>1, EnterVarPlace
  <2>3. InDefinition'
    BY <2>2 DEF InDefinition
  <2>4. /\ gen_pos'.at = "var" => gen_pos'.k = k0 + 1
        /\ gen_pos'.at # "var" => ~(k0 + 1 <= Len(def.vars)) /\ gen_pos' = EnterNode(tunit, d, 1)
    BY <2>1, VarAt
  <2>5. /\ gen_pos'.at = "node" => gen_pos'.k = 1
        /\ gen_pos'.at = "post_def" => ~(1 <= Len(def.body))
    BY <2>2, <2>4, NodePlaceAt
  <2>6. Begun(d)
    <3>1. d \in Nat
      BY <1>0, GeneratingFacts DEF IsPlace, GenPosition
    <3> QED BY <1>0, <1>1, <3>1 DEF Begun
  <2> HIDE DEF def
  <2>7. \A k : ParamLeft(d, k)
    BY <1>1, <2>6 DEF ParamLeft
  <2>8. ASSUME NEW k \in DOMAIN def.vars, VarLeft(d, k)'
        PROVE  VarLeft(d, k) \/ k = k0
    <3>1. k \in Nat /\ k <= Len(def.vars) /\ Len(def.vars) \in Nat
      BY <1>2
    <3>2. gen_pos'.at = "var" => ~(k0 + 1 <= k)
      BY <2>2, <2>4, <2>8 DEF VarLeft
    <3>3. k <= k0
      BY <1>3, <2>4, <3>1, <3>2
    <3>4. k = k0 \/ ~(k0 <= k)
      BY <1>3, <3>1, <3>3
    <3> QED BY <1>0, <1>1, <2>6, <3>4 DEF VarLeft
  <2>9. \A k \in DOMAIN def.body : ~ExpressionLeft(d, k)'
    <3>1. \A k \in DOMAIN def.body : k \in Nat /\ 1 <= k /\ 1 <= Len(def.body)
      BY <1>2
    <3> QED BY <2>2, <2>5, <3>1 DEF ExpressionLeft, def
  <2>10. \A i \in DOMAIN tunit.defs : i # d =>
              /\ \A k : ParamLeft(i, k)' <=> ParamLeft(i, k)
              /\ \A k : VarLeft(i, k)' <=> VarLeft(i, k)
              /\ \A k : ExpressionLeft(i, k)' <=> ExpressionLeft(i, k)
    BY <1>0, <1>1, <2>2, <2>3, BesideLeaves
  <2> QED BY <2>1, <2>7, <2>8, <2>9, <2>10 DEF LeavesFound, def
<1> QED BY <1>4, <1>5

(* Inside a body only expressions are left behind. *)
LEMMA BodyLeaves ==
  ASSUME Generating, gen_pos.at \in {"node", "post_def"}, gen_pos.fn \in DOMAIN tunit.defs,
         gen_pos'.at \in {"node", "post_def"}, gen_pos'.fn = gen_pos.fn,
         \A k \in DOMAIN tunit.defs[gen_pos.fn].body :
           tunit.defs[gen_pos.fn].body[k] \in Call /\ ExpressionLeft(gen_pos.fn, k)' =>
             \/ ExpressionLeft(gen_pos.fn, k)
             \/ Known(tunit, gen_pos.fn, tunit.defs[gen_pos.fn].body[k].name)
  PROVE  LeavesFound
<1> DEFINE d == gen_pos.fn
<1>1. InDefinition /\ InDefinition'
  BY DEF InDefinition
<1>2. /\ \A i \in DOMAIN tunit.defs : Begun(i)' <=> Begun(i)
      /\ \A i \in DOMAIN tunit.defs : i # d => \A k : ExpressionLeft(i, k)' <=> ExpressionLeft(i, k)
  BY <1>1, BesideLeaves
<1>3. /\ \A i \in DOMAIN tunit.defs : \A k : ParamLeft(i, k)' <=> ParamLeft(i, k)
      /\ \A i \in DOMAIN tunit.defs : \A k : VarLeft(i, k)' <=> VarLeft(i, k)
  BY <1>2 DEF ParamLeft, VarLeft
<1> QED BY <1>2, <1>3 DEF LeavesFound

(* What is passed at once holds no call. *)
LEMMA PassLeaves ==
  ASSUME Generating, gen_pos.at = "node", NEW n \in {1, 2}, Pass(n),
         gen_pos.fn \in DOMAIN tunit.defs,
         \A j \in DOMAIN frames : \E m \in DOMAIN frames' : frames'[m].node = frames[j].node,
         GenBody[gen_pos.k] \in Call => \E m \in DOMAIN frames' : frames'[m].node = gen_pos.k,
         n = 2 => GenBody[gen_pos.k + 1] \notin Call
  PROVE  LeavesFound
<1> DEFINE d == gen_pos.fn
           body == tunit.defs[d].body
           k0 == gen_pos.k
<1>1. /\ k0 \in DOMAIN body /\ gen_pos'.fn = d /\ gen_pos'.at \in {"node", "post_def"}
      /\ tunit \in TranslationUnit /\ d \in Nat
  BY PassPlace, GeneratingFacts DEF IsPlace, GenPosition
<1>2. body \in Seq(Node)
  BY <1>1, UnitType
<1>3. /\ gen_pos'.at = "node" => gen_pos'.k = k0 + n
      /\ gen_pos'.at # "node" => ~(k0 + n <= Len(body))
  BY NodePlaceAt DEF Pass
<1>4. Begun(d)
  BY <1>1 DEF Begun, InDefinition
<1>5. GenBody = body
  BY DEF GenBody
<1> HIDE DEF body
<1>6. ASSUME NEW k \in DOMAIN body, body[k] \in Call, ExpressionLeft(d, k)'
      PROVE  ExpressionLeft(d, k)
  <2>1. k \in Nat /\ k <= Len(body) /\ Len(body) \in Nat /\ k0 \in Nat
    BY <1>1, <1>2
  <2>2. gen_pos'.at = "node" => ~(k0 + n <= k)
    BY <1>1, <1>3, <1>6 DEF ExpressionLeft
  <2>3. ~(k0 + n <= k)
    BY <1>1, <1>3, <2>1, <2>2
  <2>4. \A m \in DOMAIN frames' : frames'[m].node # k
    BY <1>1, <1>6 DEF ExpressionLeft
  <2>5. k # k0 /\ (n = 2 => k # k0 + 1)
    BY <1>5, <1>6, <2>4
  <2>6. ~(k0 <= k)
    BY <2>1, <2>3, <2>5
  <2>7. ~ \E j \in DOMAIN frames : frames[j].node = k
    BY <2>4
  <2> QED BY <1>4, <2>6, <2>7 DEF ExpressionLeft
<1>7. \A k \in DOMAIN body : body[k] \in Call /\ ExpressionLeft(d, k)' => ExpressionLeft(d, k)
  BY <1>6
<1> QED BY <1>1, <1>7, BodyLeaves DEF body

(* Whatever is delivered, the expressions stay. *)
LEMMA DeliverNodes ==
  ASSUME NEW stack \in Seq(Frame), NEW v
  PROVE  /\ DOMAIN Deliver(stack, v) = DOMAIN stack
         /\ \A j \in DOMAIN stack : Deliver(stack, v)[j].node = stack[j].node
<1>1. CASE stack = <<>>
  BY <1>1 DEF Deliver
<1>2. CASE stack # <<>>
  <2> DEFINE e == [stack[Len(stack)] EXCEPT !.operands = Append(@, v)]
  <2>1. Len(stack) \in DOMAIN stack /\ stack[Len(stack)] \in Frame
    BY <1>2, EmptySeq
  <2>2. e.node = stack[Len(stack)].node
    BY <2>1 DEF Frame
  <2>3. Deliver(stack, v) = [stack EXCEPT ![Len(stack)] = e]
    BY <1>2 DEF Deliver
  <2> HIDE DEF e
  <2> QED BY <2>1, <2>2, <2>3
<1> QED BY <1>1, <1>2

(* Only the expression on top is left behind when it is done. *)
LEMMA FinishLeaves ==
  ASSUME Generating, Complete, UNCHANGED gen_pos,
         UNCHANGED frames \/ frames' = Front(frames) \/ \E v : frames' = Deliver(Front(frames), v),
         TopNode \in Call => UNCHANGED frames \/ Known(tunit, gen_pos.fn, TopNode.name)
  PROVE  LeavesFound
<1> DEFINE d == gen_pos.fn
           body == tunit.defs[d].body
<1>1. CASE UNCHANGED frames
  BY <1>1, StayLeaves
<1>2. CASE ~UNCHANGED frames
  <2>1. /\ frames \in Seq(Frame) /\ frames # <<>> /\ TopNode = body[Top.node]
        /\ gen_pos.at \in {"node", "post_def"} /\ d \in DOMAIN tunit.defs
    BY TopOfStack, GeneratingFacts
  <2>2. /\ Front(frames) \in Seq(Frame) /\ Len(Front(frames)) = Len(frames) - 1
        /\ \A j \in DOMAIN Front(frames) : Front(frames)[j] = frames[j]
    BY <2>1, FrontOfStack
  <2>3. /\ DOMAIN frames' = DOMAIN Front(frames)
        /\ \A j \in DOMAIN Front(frames) : frames'[j].node = frames[j].node
    BY <1>2, <2>2, DeliverNodes
  <2>4. \A j \in DOMAIN frames : j = Len(frames) \/ j \in DOMAIN frames'
    BY <2>1, <2>2, <2>3
  <2> HIDE DEF body
  <2>5. ASSUME NEW k \in DOMAIN body, body[k] \in Call, ExpressionLeft(d, k)'
        PROVE  ExpressionLeft(d, k) \/ Known(tunit, d, body[k].name)
    <3>1. CASE k = Top.node
      BY <1>2, <2>1, <2>5, <3>1 DEF body
    <3>2. CASE k # Top.node
      <4>1. \A j \in DOMAIN frames' : frames'[j].node # k
        BY <2>1, <2>5 DEF ExpressionLeft
      <4>2. \A j \in DOMAIN frames : frames[j].node # k
        BY <2>2, <2>3, <2>4, <3>2, <4>1 DEF Top
      <4>3. Begun(d) /\ ~(gen_pos.at = "node" /\ gen_pos.k <= k)
        BY <2>5 DEF ExpressionLeft, Begun, InDefinition
      <4> QED BY <2>1, <4>2, <4>3 DEF ExpressionLeft
    <3> QED BY <3>1, <3>2
  <2>6. \A k \in DOMAIN body : body[k] \in Call /\ ExpressionLeft(d, k)' =>
          ExpressionLeft(d, k) \/ Known(tunit, d, body[k].name)
    BY <2>5
  <2> QED BY <2>1, <2>6, BodyLeaves DEF body
<1> QED BY <1>1, <1>2

(* The function symbol of a call has its name. *)
LEMMA CalleeNamed ==
  ASSUME Generating, Complete, TopNode \in Call
  PROVE  /\ TopNode.name \in FuncNames
         /\ func_table[call_symbol[<<gen_pos.fn, Top.node>>]].name = TopNode.name
<1> DEFINE n == TopNode
           r == <<gen_pos.fn, Top.node>>
<1>1. /\ gen_pos.fn \in DOMAIN tunit.defs /\ Top.node \in DOMAIN tunit.defs[gen_pos.fn].body
      /\ n = tunit.defs[gen_pos.fn].body[Top.node]
  BY TopOfStack
<1>2. n.kind = "call_expression" /\ n.name \in FuncNames
  BY DEF Call
<1>3. r \in DOMAIN call_symbol /\ NodeAt(r) = n
  <2>1. r \in References("call_expression")
    BY <1>1, <1>2 DEF References
  <2> QED BY <1>1, <2>1, AnalysisDone DEF Generating, NodeAt
<1>4. call_symbol[r] = ResolveCall(n.name, n.args) /\ call_symbol[r] # None
  <2>1. BoundByRule
    BY DEF Generating, AnalysisFacts, AnalyzerInv
  <2> HIDE DEF r, n
  <2> QED BY <1>3, <2>1 DEF BoundByRule
<1>5. func_table \in Seq(FuncSymbol)
  BY GeneratingFacts, BuiltFacts
<1>6. func_table[call_symbol[r]].name = n.name
  BY <1>4, <1>5, ResolveCallResult
<1> QED BY <1>2, <1>6

(* A call that was made had its function in func_map, from a declaration or *)
(* a definition the generator had come to.                                  *)
LEMMA CallLeaves ==
  ASSUME Generating, FinishCall
  PROVE  LeavesFound
<1>1. Complete /\ TopNode \in Call
  BY DEF FinishCall
<1>2. /\ TopNode.name \in FuncNames
      /\ func_table[call_symbol[<<gen_pos.fn, Top.node>>]].name = TopNode.name
  BY <1>1, CalleeNamed
<1>3. CASE func_map[TopNode.name] = NoFunction
  <2>1. Stop("crashed")
    BY <1>2, <1>3 DEF FinishCall
  <2> QED BY <2>1, StayLeaves DEF Stop
<1>4. CASE func_map[TopNode.name] # NoFunction
  <2>1. UNCHANGED gen_pos /\ \E v : frames' = Deliver(Front(frames), v)
    BY <1>2, <1>4 DEF FinishCall, Finish
  <2>2. Known(tunit, gen_pos.fn, TopNode.name)
    <3>1. \/ \E d \in DOMAIN tunit.decls : tunit.decls[d].name = TopNode.name
          \/ \E i \in DOMAIN tunit.defs : Begun(i) /\ tunit.defs[i].name = TopNode.name
      BY <1>2, <1>4 DEF Generating, GeneratorInv, FunctionsByName
    <3>2. InDefinition /\ gen_pos.at \in {"node", "post_def"} /\ tunit \in TranslationUnit
      BY <1>1, TopOfStack, GeneratingFacts
    <3>3. \A i \in DOMAIN tunit.defs : i \in Nat /\ 1 <= i
      BY <3>2, UnitType
    <3>4. gen_pos.fn \in Nat
      BY GeneratingFacts DEF IsPlace, GenPosition
    <3>5. \A i \in DOMAIN tunit.defs : Begun(i) => i \in 1 .. gen_pos.fn
      BY <3>2, <3>3, <3>4 DEF Begun
    <3> QED BY <3>1, <3>5 DEF Known, DeclarationsOf
  <2> QED BY <1>1, <2>1, <2>2, FinishLeaves
<1> QED BY <1>3, <1>4

(* The other expressions are no calls. *)
LEMMA ConcludeLeaves ==
  ASSUME Generating, FoldConstants \/ FinishBinary \/ FinishAssignment \/ FinishReturn
  PROVE  LeavesFound
<1>1. /\ Complete /\ (TopNode \in Binary \/ TopNode \in Jump)
      /\ UNCHANGED gen_pos
      /\ frames' = Front(frames) \/ \E v : frames' = Deliver(Front(frames), v)
  BY DEF FoldConstants, FinishBinary, FinishAssignment, FinishReturn, Finish
<1>2. TopNode \notin Call
  BY <1>1 DEF Binary, Jump, Call
<1> QED BY <1>1, <1>2, FinishLeaves

(* The next node of a body. *)
LEMMA TakeLeaves ==
  ASSUME Generating, GenNumber \/ GenIdentifier \/ BeginExpression \/ BeginAssignment
  PROVE  LeavesFound
<1> DEFINE n == GenBody[gen_pos.k]
<1>1. gen_pos.at = "node" /\ frames \in Seq(Frame) /\ gen_pos.fn \in DOMAIN tunit.defs
  BY GeneratingFacts DEF GenNumber, GenIdentifier, BeginExpression, BeginAssignment, AtNode,
                         InDefinition
<1>2. ASSUME NEW v, frames' = Deliver(frames, v)
      PROVE  \A j \in DOMAIN frames : \E m \in DOMAIN frames' : frames'[m].node = frames[j].node
  BY <1>1, <1>2, DeliverNodes
<1>3. ASSUME NEW e, e.node = gen_pos.k, frames' = Append(frames, e)
      PROVE  /\ \A j \in DOMAIN frames : \E m \in DOMAIN frames' : frames'[m].node = frames[j].node
             /\ \E m \in DOMAIN frames' : frames'[m].node = gen_pos.k
  <2> DEFINE S == Frame \cup {e}
  <2>1. e \in S /\ \A j \in DOMAIN frames : frames[j] \in S
    BY <1>1
  <2>2. frames \in Seq(S)
    <3> HIDE DEF S
    <3>1. frames \in [1 .. Len(frames) -> S] /\ Len(frames) \in Nat
      BY <1>1, <2>1
    <3> QED BY <3>1
  <2> HIDE DEF S
  <2>3. /\ DOMAIN frames' = 1 .. (Len(frames) + 1) /\ DOMAIN frames = 1 .. Len(frames)
        /\ Len(frames) \in Nat /\ frames'[Len(frames) + 1] = e
        /\ \A j \in DOMAIN frames : frames'[j] = frames[j]
    BY <1>3, <2>1, <2>2
  <2> QED BY <1>3, <2>3
<1>4. CASE GenNumber
  <2>1. n \notin Call /\ Pass(1) /\ \E v : frames' = Deliver(frames, v)
    BY <1>4 DEF GenNumber, AtNode, Call
  <2> QED BY <1>1, <1>2, <2>1, PassLeaves
<1>5. CASE GenIdentifier
  <2>1. n \notin Call
    BY <1>5 DEF GenIdentifier, AtNode, Call
  <2>2. CASE Stop("crashed")
    BY <2>2, StayLeaves DEF Stop
  <2>3. CASE ~Stop("crashed")
    <3>1. Pass(1) /\ \E v : frames' = Deliver(frames, v)
      BY <1>5, <2>3 DEF GenIdentifier
    <3> QED BY <1>1, <1>2, <2>1, <3>1, PassLeaves
  <2> QED BY <2>2, <2>3
<1>6. CASE BeginExpression
  <2>1. Pass(1) /\ frames' = Append(frames, [node |-> gen_pos.k, operands |-> <<>>])
    BY <1>6 DEF BeginExpression
  <2> QED BY <1>1, <1>3, <2>1, PassLeaves
<1>7. CASE BeginAssignment
  <2>1. CASE UNCHANGED <<gen_pos, frames>>
    BY <2>1, StayLeaves
  <2>2. CASE ~UNCHANGED <<gen_pos, frames>>
    <3>1. /\ Pass(2) /\ GenBody[gen_pos.k + 1].kind = "identifier"
          /\ \E e : e.node = gen_pos.k /\ frames' = Append(frames, e)
      BY <1>7, <2>2 DEF BeginAssignment, Stop
    <3>2. GenBody[gen_pos.k + 1] \notin Call
      BY <3>1 DEF Call
    <3> QED BY <1>1, <1>3, <3>1, <3>2, PassLeaves
  <2> QED BY <2>1, <2>2
<1> QED BY <1>4, <1>5, <1>6, <1>7

(* Leaving a definition leaves nothing new behind. *)
LEMMA EndLeaves ==
  ASSUME Generating, LeaveDefinition \/ LeaveUnit
  PROVE  LeavesFound
<1>1. CASE LeaveUnit
  BY <1>1, StayLeaves DEF LeaveUnit
<1>2. CASE LeaveDefinition
  <2> DEFINE d == gen_pos.fn
  <2>1. /\ gen_pos.at = "post_def" /\ frames = <<>> /\ UNCHANGED frames
        /\ gen_pos' = EnterDef(tunit, d + 1)
    BY <1>2 DEF LeaveDefinition
  <2>2. tunit \in TranslationUnit /\ d \in DOMAIN tunit.defs /\ tunit.defs \in Seq(Definition)
    BY <2>1, GeneratingFacts, UnitType DEF InDefinition
  <2>3. /\ gen_pos'.at \in {"def", "end"}
        /\ gen_pos'.at = "def" => gen_pos'.fn = d + 1
        /\ gen_pos'.at = "end" => d + 1 > Len(tunit.defs)
    BY <2>1, <2>2, EnterDefPlace
  <2>4. \A i \in DOMAIN tunit.defs : Begun(i)' => Begun(i)
    <3>1. \A i \in DOMAIN tunit.defs : i \in Nat /\ i <= Len(tunit.defs)
      BY <2>2
    <3> QED BY <2>1, <2>2, <2>3, <3>1 DEF Begun, InDefinition
  <2>5. \A i \in DOMAIN tunit.defs :
          /\ \A k : ParamLeft(i, k)' => ParamLeft(i, k)
          /\ \A k : VarLeft(i, k)' => VarLeft(i, k)
          /\ \A k : ExpressionLeft(i, k)' => ExpressionLeft(i, k)
    BY <2>1, <2>4 DEF ParamLeft, VarLeft, ExpressionLeft
  <2> QED BY <2>5 DEF LeavesFound
<1> QED BY <1>1, <1>2

(* Each step leaves behind only what had its symbols. *)
LEMMA StepLeaves ==
  ASSUME Generating, GeneratorNext
  PROVE  LeavesFound
BY DeclarationLeaves, BeginLeaves, ParameterLeaves, VariableLeaves, EndLeaves, TakeLeaves,
   CallLeaves, ConcludeLeaves DEF GeneratorNext

(* Before the generator begins no definition is begun ... *)
LEMMA NotBegunYet ==
  ASSUME GeneratorInit, tunit \in TranslationUnit
  PROVE  ~InDefinition /\ \A i \in DOMAIN tunit.defs : ~Begun(i)
<1>1. gen_pos = EnterDecl(tunit, 1) /\ 1 \in Nat /\ 1 > 0
  BY DEF GeneratorInit
<1>2. tunit.defs \in Seq(Definition)
  BY UnitType
<1>3. /\ gen_pos.at \in {"decl", "def", "end"}
      /\ gen_pos.at = "def" => gen_pos.fn = 1
      /\ gen_pos.at = "end" => DOMAIN tunit.defs = {}
  BY <1>1, EnterDeclPlace
<1> QED BY <1>2, <1>3 DEF Begun, InDefinition

(* ... and nothing is left behind. *)
LEMMA SymbolsFoundInit == CompilerInit => SymbolsFound
<1> SUFFICES ASSUME CompilerInit, NEW i \in DOMAIN tunit.defs PROVE ~Begun(i)
  BY DEF SymbolsFound, ParamLeft, VarLeft, ExpressionLeft
<1>1. GeneratorInit /\ tunit \in TranslationUnit
  BY ProgramsAssumption DEF CompilerInit, AnalyzerInit, HeapInit
<1> QED BY <1>1, NotBegunYet

(* A step of the analysis finds the generator at its beginning. *)
LEMMA SymbolsFoundStep ==
  CompilerFacts /\ SymbolsFound /\ [CompilerNext]_compiler_vars => SymbolsFound'
<1> SUFFICES ASSUME CompilerFacts, SymbolsFound, [CompilerNext]_compiler_vars,
                    status' # "crashed"
             PROVE  SymbolsFound'
  BY DEF SymbolsFound
<1>1. AnalysisFacts /\ GeneratorInv /\ CodeInv /\ TypeInv /\ tunit \in TranslationUnit
  BY TunitType DEF CompilerFacts, CompilerInv, AnalysisFacts, AnalyzerInv, TypeInv,
                   AnalyzerTypeOK
<1>2. CASE Generate
  <2>1. /\ Generating /\ GeneratorNext /\ status = "generating"
        /\ UNCHANGED <<tunit, func_table>>
    BY <1>1, <1>2 DEF Generate, Generating, GeneratorNext, analyzer_vars, heap
  <2>2. LeavesFound
    BY <2>1, StepLeaves
  <2>3. \A s : Alive(s)' <=> Alive(s)
    BY <2>1 DEF Alive
  <2> QED BY <2>1, <2>2, <2>3 DEF SymbolsFound, LeavesFound
<1>3. CASE Analyze
  <2>1. AnalyzerNext /\ UNCHANGED gen_vars /\ UNCHANGED tunit
    BY <1>1, <1>3, TunitFixed DEF Analyze
  <2>2. CASE phase = "analyzed"
    <3>1. UNCHANGED analyzer_vars
      BY <2>1, <2>2 DEF AnalyzerNext, Build, FinishBuilding, Resolve, FinishResolving,
                        AnalysisOver, InBuilder, InResolver
    <3> QED BY <2>1, <3>1 DEF SymbolsFound, ParamLeft, VarLeft, ExpressionLeft, Begun,
                              InDefinition, Alive, gen_vars, analyzer_vars, heap
  <2>3. CASE phase # "analyzed"
    <3>1. \A i \in DOMAIN tunit.defs : ~Begun(i)
      BY <1>1, <2>3, NotBegunYet DEF CodeInv
    <3> QED BY <2>1, <3>1 DEF SymbolsFound, ParamLeft, VarLeft, ExpressionLeft, Begun,
                              InDefinition, gen_vars
  <2> QED BY <2>2, <2>3
<1>4. CASE CompilerOver \/ UNCHANGED compiler_vars
  <2>1. UNCHANGED <<analyzer_vars, gen_vars>>
    BY <1>4 DEF CompilerOver, compiler_vars
  <2> QED BY <2>1 DEF SymbolsFound, ParamLeft, VarLeft, ExpressionLeft, Begun,
                      InDefinition, Alive, gen_vars, analyzer_vars, heap
<1> QED BY <1>2, <1>3, <1>4 DEF CompilerNext

LEMMA SymbolsFoundHolds == CompilerSpec => []SymbolsFound
BY CompilerFactsHold, SymbolsFoundInit, SymbolsFoundStep, PTL DEF CompilerSpec

(* So a unit that was generated is none that the generator is sure to crash *)
(* on.                                                                      *)
LEMMA GeneratedNotDoomed ==
  CompilerFacts /\ SymbolsFound /\ phase = "analyzed" /\ status = "generated" => ~Doomed(tunit)
<1> SUFFICES ASSUME CompilerFacts, SymbolsFound, phase = "analyzed", status = "generated"
             PROVE  ~Doomed(tunit)
  OBVIOUS
<1>1. gen_pos.at = "end" /\ frames = <<>> /\ Built /\ tunit \in TranslationUnit
  BY AnalysisDone, BuiltFacts DEF CompilerFacts, CompilerInv, GeneratorInv, GeneratorInside
<1>2. \A i \in DOMAIN tunit.defs : \A k :
        ParamLeft(i, k) /\ VarLeft(i, k) /\ ExpressionLeft(i, k)
  BY <1>1 DEF ParamLeft, VarLeft, ExpressionLeft, Begun
<1>3. CalleesKnown(tunit)
  BY <1>2 DEF SymbolsFound, CalleesKnown
<1>4. ASSUME NEW i \in DOMAIN tunit.defs, tunit.defs[i].params # <<>>
      PROVE  DeclarationsOf(tunit, tunit.defs[i].name) = {}
  <2>1. 1 \in DOMAIN tunit.defs[i].params
    <3>1. tunit.defs[i].params \in Seq(VarNames)
      BY <1>1, UnitType
    <3> QED BY <1>4, <3>1, EmptySeq
  <2>2. Alive(NewVariable(tunit.defs[i].params[1], "def", i, 1))
    BY <1>2, <2>1 DEF SymbolsFound
  <2> QED BY <1>1, <2>2, AliveUndeclared
<1>5. ASSUME NEW i \in DOMAIN tunit.defs, NEW j \in DOMAIN tunit.defs[i].vars,
             NEW k \in DOMAIN tunit.defs[i].vars, tunit.defs[i].vars[j] = tunit.defs[i].vars[k]
      PROVE  j = k
  <2> DEFINE x == tunit.defs[i].vars[j]
  <2>1. x \in VarNames
    <3>1. tunit.defs[i].vars \in Seq(VarNames)
      BY <1>1, UnitType
    <3> QED BY <3>1
  <2>2. Alive(NewVariable(x, "var", i, j)) /\ Alive(NewVariable(x, "var", i, k))
    BY <1>2, <1>5 DEF SymbolsFound
  <2>3. NewVariable(x, "var", i, j) = NewVariable(x, "var", i, k)
    BY <1>1, <2>1, <2>2, AliveLatest
  <2> QED BY <2>3 DEF NewVariable
<1>6. \A i \in DOMAIN tunit.defs : Distinct(tunit.defs[i].vars)
  BY <1>5 DEF Distinct
<1> QED BY <1>3, <1>4, <1>6 DEF Doomed

----------------------------------------------------------------------------
(* The compiler as a whole. *)

OutcomeByPhase ==
  /\ phase = "semantic_exception" /\ status = "generating" => Outcome = "rejected"
  /\ phase # "semantic_exception" =>
       /\ status = "crashed" => Outcome = "crashed"
       /\ status = "generated" /\ (Supported(tunit) => ModuleComplete) => Outcome = "module"
       /\ status = "generating" => Outcome = "pending"

(* The outcome, read off the phase and the status. *)
LEMMA OutcomeIs == OutcomeByPhase
<1>1. /\ status = "generated" => status # "crashed" /\ status # "codegen_exception"
      /\ status = "generating" =>
           status # "crashed" /\ status # "codegen_exception" /\ status # "generated"
  OBVIOUS
<1>2. phase = "semantic_exception" /\ status = "generating" => Outcome = "rejected"
  BY <1>1, Zenon DEF Outcome
<1>3. phase # "semantic_exception" /\ status = "crashed" => Outcome = "crashed"
  BY Zenon DEF Outcome
<1>4. phase # "semantic_exception" /\ status = "generated"
      /\ (Supported(tunit) => ModuleComplete) => Outcome = "module"
  BY <1>1, Zenon DEF Outcome
<1>5. phase # "semantic_exception" /\ status = "generating" => Outcome = "pending"
  BY <1>1, Zenon DEF Outcome
<1> QED BY <1>2, <1>3, <1>4, <1>5 DEF OutcomeByPhase

(* Every definition of a supported unit has got its function, with a body   *)
(* that ends in a return.                                                   *)
LEMMA GeneratedIsComplete ==
  CompilerFacts /\ Supported(tunit) /\ gen_pos.at = "end" => ModuleComplete
<1> SUFFICES ASSUME CompilerFacts, Supported(tunit), gen_pos.at = "end",
                    NEW i \in DOMAIN tunit.defs
             PROVE  \E f \in DOMAIN functions :
                      /\ functions[f].name = tunit.defs[i].name /\ functions[f].blocks = 1
                      /\ Last(functions[f].code).op = "ret"
  BY DEF ModuleComplete
<1>1. GeneratorInv /\ CodeFits /\ tunit \in TranslationUnit
  BY TunitType DEF CompilerFacts, CompilerInv, CodeInv, AnalysisFacts, AnalyzerInv, TypeInv,
                   AnalyzerTypeOK
<1>2. Begun(i) /\ ~InDefinition
  BY DEF Begun, InDefinition
<1>3. tunit.defs[i].name \in FuncNames
  BY <1>1, UnitType
<1>4. FunctionOf(i) # NoFunction /\ functions[FunctionOf(i)].name = tunit.defs[i].name
  BY <1>1, <1>2, <1>3 DEF GeneratorInv, FunctionsByName, FunctionOf
<1>5. FunctionOf(i) \in DOMAIN functions
  BY <1>1, <1>3, <1>4 DEF GeneratorInv, GeneratorTypeOK, FunctionOf
<1>6. functions[FunctionOf(i)].blocks = 1
  BY <1>1, <1>2 DEF GeneratorInv, BodiesByDefinition
<1>7. EndsInReturn(functions[FunctionOf(i)].code)
  BY <1>1, <1>2 DEF CodeFits, BodiesClosed
<1> QED BY <1>4, <1>5, <1>6, <1>7 DEF EndsInReturn, Last

(* The rules of the abstract compiler are those of the names and of the     *)
(* supported units.                                                         *)
LEMMA WholeRules ==
  /\ Whole!WellNamed(tunit) <=> Rules!WellNamed(tunit)
  /\ Whole!Supported(tunit) <=> Supported(tunit)
  /\ Whole!Doomed(tunit) <=> Doomed(tunit)
<1>1. Whole!WellNamed(tunit) <=> Rules!WellNamed(tunit)
  BY DEF Whole!WellNamed, Whole!DefinedOnce, Whole!Refers, Whole!Visible, Whole!Parameters,
         Whole!Callable, Whole!DeclarationsOf, Whole!Ident, Whole!Call, Whole!Range, Whole!Min,
         Rules!WellNamed, Rules!DefinedOnce, Rules!Refers, Rules!Visible, Rules!Parameters,
         Rules!Callable, Rules!DeclarationsOf, Rules!Ident, Rules!Call, Rules!Range, Rules!Min
<1>2. /\ Whole!DeclaredOnce(tunit) <=> DeclaredOnce(tunit)
      /\ Whole!NamesDistinct(tunit) <=> NamesDistinct(tunit)
  BY DEF Whole!DeclaredOnce, DeclaredOnce, Whole!NamesDistinct, NamesDistinct, Whole!Distinct,
         Distinct
<1>3. /\ Whole!MergedWithoutParameters(tunit) <=> MergedWithoutParameters(tunit)
      /\ Whole!CalleesKnown(tunit) <=> CalleesKnown(tunit)
  BY DEF Whole!MergedWithoutParameters, MergedWithoutParameters, Whole!CalleesKnown, CalleesKnown,
         Whole!Known, Known,
         Whole!DeclarationsOf, DeclarationsOf, Whole!Call, Call
<1>4. \A body, k : Whole!IsStatement(body, k) <=> IsStatement(body, k)
  <2>1. \A nodes : Whole!Owed(nodes) = Owed(nodes)
    BY Zenon DEF Whole!Owed, Owed, Whole!FoldLeft, FoldLeft, Whole!MapThenFoldSet, MapThenFoldSet,
                 Whole!Max, Max, Whole!Arity, Arity
  <2> QED BY <2>1 DEF Whole!IsStatement, IsStatement, Whole!OwedBefore, OwedBefore
<1>5. /\ Whole!AssignmentsAreStatements(tunit) <=> AssignmentsAreStatements(tunit)
      /\ Whole!ReturnsOnceAtEnd(tunit) <=> ReturnsOnceAtEnd(tunit)
  BY <1>4 DEF Whole!AssignmentsAreStatements, AssignmentsAreStatements, Whole!ReturnsOnceAtEnd,
              ReturnsOnceAtEnd, Whole!Binary, Binary, Whole!Jump, Jump
<1>6. Whole!Supported(tunit) <=> Supported(tunit)
  BY <1>2, <1>3, <1>5 DEF Whole!Supported, Supported
<1>7. Whole!Doomed(tunit) <=> Doomed(tunit)
  BY <1>3 DEF Whole!Doomed, Doomed, Whole!Distinct, Distinct, Whole!DeclarationsOf, DeclarationsOf
<1> QED BY <1>1, <1>6, <1>7

(* What the analysis has returned is well named. *)
LEMMA AnalyzedIsWellNamed ==
  ASSUME AnalysisFacts, phase = "analyzed"
  PROVE  Rules!WellNamed(tunit)
<1>1. Built
  BY AnalysisDone
<1>2. resolver_pos.at = "end" /\ resolver_errors = <<>>
  BY DEF AnalysisFacts, ResolutionInv
<1> QED BY <1>1, <1>2, SecondPassJudges

(* Each step is one of the abstract compiler or leaves its outcome alone. *)
LEMMA WholeStep ==
  CompilerFacts /\ CompilerFacts' /\ SymbolsFound' /\ [CompilerNext]_compiler_vars
    => [Whole!Compile]_(Whole!compile_vars)
<1> SUFFICES ASSUME CompilerFacts, CompilerFacts', SymbolsFound', [CompilerNext]_compiler_vars
             PROVE  Whole!Compile \/ UNCHANGED Whole!compile_vars
  OBVIOUS
<1>1. AnalysisFacts /\ GeneratorInv /\ CodeInv /\ TypeInv
  BY DEF CompilerFacts, CompilerInv, AnalysisFacts, AnalyzerInv
<1>2. /\ phase # "analyzed" => status = "generating"
      /\ phase' # "analyzed" => status' = "generating"
  BY DEF CompilerFacts, CodeInv, GeneratorInit
<1>3. Rules!WellNamed(tunit) <=> Whole!WellNamed(tunit)
  BY WholeRules
<1>4. (Supported(tunit) <=> Whole!Supported(tunit)) /\ (Doomed(tunit) <=> Whole!Doomed(tunit))
  BY WholeRules
<1>5. OutcomeByPhase /\ OutcomeByPhase'
  BY OutcomeIs, PTL
<1>6. CASE Analyze
  <2>1. AnalyzerNext /\ UNCHANGED gen_vars /\ UNCHANGED status
    BY <1>6 DEF Analyze, gen_vars
  <2>2. UNCHANGED tunit
    BY <1>1, <2>1, TunitFixed
  <2>3. CASE UNCHANGED phase
    <3>1. UNCHANGED functions
      BY <2>1 DEF gen_vars
    <3>2. UNCHANGED Outcome
      BY <2>1, <2>2, <2>3, <3>1, Zenon DEF Outcome, ModuleComplete
    <3> QED BY <2>2, <3>2 DEF Whole!compile_vars
  <2>4. CASE ~UNCHANGED phase
    <3>1. [Rules!Judge]_(Rules!rule_vars)
      BY <1>1, <2>1, RulesStep
    <3>2. phase \in {"building", "resolving"} /\ phase' \in Phase
      BY <2>1, <2>4 DEF AnalyzerNext, Build, Resolve, FinishBuilding, FinishResolving,
                        AnalysisOver, analyzer_vars, Phase
    <3>3. status = "generating" /\ Outcome = "pending"
      BY <1>5, <1>2, <3>2 DEF OutcomeByPhase
    <3>4. status' = "generating"
      BY <2>1, <3>3
    <3>5. CASE phase' = "semantic_exception"
      <4>1. Verdict = "pending" /\ Verdict' = "rejected"
        BY <3>2, <3>5 DEF Verdict
      <4>2. ~Rules!WellNamed(tunit)
        BY <3>1, <4>1 DEF Rules!Judge, Rules!rule_vars
      <4>3. Outcome' = "rejected"
        BY <1>5, <3>4, <3>5 DEF OutcomeByPhase
      <4> QED BY <1>3, <2>2, <3>3, <4>2, <4>3 DEF Whole!Compile, Whole!Outcomes
    <3>6. CASE phase' # "semantic_exception"
      <4>1. Outcome' = "pending"
        BY <1>5, <3>4, <3>6 DEF OutcomeByPhase
      <4> QED BY <2>2, <3>3, <4>1 DEF Whole!compile_vars
    <3> QED BY <3>5, <3>6
  <2> QED BY <2>3, <2>4
<1>7. CASE Generate
  <2>1. /\ phase = "analyzed" /\ GeneratorNext /\ status = "generating"
        /\ phase' = "analyzed" /\ tunit' = tunit
    BY <1>7 DEF Generate, GeneratorNext, analyzer_vars, heap
  <2>2. Outcome = "pending" /\ Rules!WellNamed(tunit)
    BY <1>5, <1>1, <2>1, AnalyzedIsWellNamed DEF OutcomeByPhase
  <2>3. status' \in {"generating", "generated", "crashed"}
    BY DEF CompilerFacts, CompilerInv, GeneratorInv, GeneratorTypeOK, Status, NeverThrows
  <2>4. CASE status' = "generating"
    <3>1. Outcome' = "pending"
      BY <1>5, <2>1, <2>4 DEF OutcomeByPhase
    <3> QED BY <2>1, <2>2, <3>1 DEF Whole!compile_vars
  <2>5. CASE status' = "crashed"
    <3>1. Outcome' = "crashed"
      BY <1>5, <2>1, <2>5 DEF OutcomeByPhase
    <3>2. ~Supported(tunit)
      BY <2>1, <2>5 DEF CompilerFacts, CodeInv
    <3> QED BY <1>3, <1>4, <2>1, <2>2, <3>1, <3>2 DEF Whole!Compile, Whole!Outcomes
  <2>6. CASE status' = "generated"
    <3>1. gen_pos'.at = "end"
      BY <2>6 DEF CompilerFacts, CompilerInv, GeneratorInv, GeneratorInside
    <3>2. (CompilerFacts /\ Supported(tunit) /\ gen_pos.at = "end" => ModuleComplete)'
      BY GeneratedIsComplete, PTL
    <3>3. Outcome' = "module"
      BY <1>5, <2>1, <2>6, <3>1, <3>2 DEF OutcomeByPhase
    <3>4. (CompilerFacts /\ SymbolsFound /\ phase = "analyzed" /\ status = "generated"
             => ~Doomed(tunit))'
      BY GeneratedNotDoomed, PTL
    <3>5. ~Doomed(tunit)
      BY <2>1, <2>6, <3>4
    <3> QED BY <1>3, <1>4, <2>1, <2>2, <3>3, <3>5 DEF Whole!Compile, Whole!Outcomes
  <2> QED BY <2>3, <2>4, <2>5, <2>6
<1>8. CASE CompilerOver \/ UNCHANGED compiler_vars
  <2>1. UNCHANGED <<analyzer_vars, gen_vars>>
    BY <1>8 DEF CompilerOver, compiler_vars
  <2>2. UNCHANGED <<tunit, phase, status, functions>>
    BY <2>1 DEF analyzer_vars, heap, gen_vars
  <2>3. UNCHANGED Outcome
    BY <2>2, Zenon DEF Outcome, ModuleComplete
  <2> QED BY <2>2, <2>3 DEF Whole!compile_vars
<1> QED BY <1>6, <1>7, <1>8 DEF CompilerNext

(* Scope building, name resolution and code generation together do nothing  *)
(* but what the abstract compiler does: they reject the units that are not  *)
(* well named and no others, give a supported unit a complete module, never *)
(* make a module of a unit that lacks a symbol (a parameter of a definition *)
(* that was declared, a repeated local variable, a function called before   *)
(* it is there), and crash only on units that are not supported.  (That     *)
(* they come to an end rests on fairness and is left to the model checker.) *)
THEOREM CompilerKeepsTheRules ==
  CompilerSpec => Whole!CompileInit /\ [][Whole!Compile]_(Whole!compile_vars)
<1>1. CompilerInit => Whole!CompileInit
  <2> SUFFICES ASSUME CompilerInit PROVE Whole!CompileInit
    OBVIOUS
  <2>1. tunit \in Programs /\ phase = "building" /\ status = "generating"
    BY DEF CompilerInit, AnalyzerInit, HeapInit, GeneratorInit
  <2>2. Outcome = "pending"
    BY <2>1, OutcomeIs DEF OutcomeByPhase
  <2> QED BY <2>1, <2>2 DEF Whole!CompileInit
<1>2. CompilerFacts /\ CompilerFacts' /\ SymbolsFound' /\ [CompilerNext]_compiler_vars
        => [Whole!Compile]_(Whole!compile_vars)
  BY WholeStep
<1> QED BY <1>1, <1>2, CompilerFactsHold, SymbolsFoundHolds, PTL DEF CompilerSpec

============================================================================
