-------------------------- MODULE GeneratorProofs --------------------------
(***************************************************************************)
(* Proofs about the generator run behind the analysis, for every unit the  *)
(* analysis lets pass: what its tables hold, that each definition gets one *)
(* body and that its calls lead to it, that no exception is thrown, and    *)
(* that no operand or callee dangles.                                      *)
(***************************************************************************)
EXTENDS Compiler, RulesProofs

----------------------------------------------------------------------------
(* The places generate() goes through. *)

(* The place p is one of the unit. *)
IsPlace(p) ==
  /\ p \in GenPosition
  /\ Within(tunit, p)
  /\ p.at = "param" => /\ p.fn \in DOMAIN tunit.defs
                       /\ p.k \in DOMAIN tunit.defs[p.fn].params

(* The nodes of a body. *)
LEMMA EnterNodePlace ==
  ASSUME tunit \in TranslationUnit, NEW i \in DOMAIN tunit.defs, NEW k \in Nat, k > 0
  PROVE  /\ IsPlace(EnterNode(tunit, i, k))
         /\ EnterNode(tunit, i, k).at \in {"node", "post_def"}
         /\ EnterNode(tunit, i, k).fn = i
<1>1. tunit.defs[i].body \in Seq(Node) /\ i \in Nat
  BY UnitType
<1> QED BY <1>1 DEF EnterNode, At, GenPosition, Within, IsPlace

(* The local variables, and what follows them. *)
LEMMA EnterVarPlace ==
  ASSUME tunit \in TranslationUnit, NEW i \in DOMAIN tunit.defs, NEW k \in Nat, k > 0
  PROVE  /\ IsPlace(EnterVar(tunit, i, k))
         /\ EnterVar(tunit, i, k).at \in {"var", "node", "post_def"}
         /\ EnterVar(tunit, i, k).fn = i
<1>1. tunit.defs[i].vars \in Seq(VarNames) /\ i \in Nat
  BY UnitType
<1>2. CASE k <= Len(tunit.defs[i].vars)
  BY <1>1, <1>2 DEF EnterVar, At, GenPosition, Within, IsPlace
<1>3. CASE ~(k <= Len(tunit.defs[i].vars))
  BY <1>3, EnterNodePlace DEF EnterVar
<1> QED BY <1>2, <1>3

(* The parameters, and what follows them. *)
LEMMA EnterParamPlace ==
  ASSUME tunit \in TranslationUnit, NEW i \in DOMAIN tunit.defs, NEW k \in Nat, k > 0
  PROVE  /\ IsPlace(EnterParam(tunit, i, k))
         /\ EnterParam(tunit, i, k).at \in {"param", "var", "node", "post_def"}
         /\ EnterParam(tunit, i, k).fn = i
<1>1. tunit.defs[i].params \in Seq(VarNames) /\ i \in Nat
  BY UnitType
<1>2. CASE k <= Len(tunit.defs[i].params)
  BY <1>1, <1>2 DEF EnterParam, At, GenPosition, Within, IsPlace
<1>3. CASE ~(k <= Len(tunit.defs[i].params))
  BY <1>3, EnterVarPlace DEF EnterParam
<1> QED BY <1>2, <1>3

(* The definitions, and the end of the unit. *)
LEMMA EnterDefPlace ==
  ASSUME tunit \in TranslationUnit, NEW i \in Nat, i > 0
  PROVE  /\ IsPlace(EnterDef(tunit, i))
         /\ EnterDef(tunit, i).at \in {"def", "end"}
         /\ EnterDef(tunit, i).at = "def" => EnterDef(tunit, i).fn = i
         /\ EnterDef(tunit, i).at = "end" => i > Len(tunit.defs)
BY EnterDefType DEF IsPlace, Position, GenPosition

(* The declarations, and what follows them. *)
LEMMA EnterDeclPlace ==
  ASSUME tunit \in TranslationUnit, NEW i \in Nat, i > 0
  PROVE  /\ IsPlace(EnterDecl(tunit, i))
         /\ EnterDecl(tunit, i).at \in {"decl", "def", "end"}
         /\ EnterDecl(tunit, i).at = "decl" => EnterDecl(tunit, i).fn = i
         /\ EnterDecl(tunit, i).at # "decl" => i > Len(tunit.decls)
         /\ EnterDecl(tunit, i).at = "def" => EnterDecl(tunit, i).fn = 1
         /\ EnterDecl(tunit, i).at = "end" => DOMAIN tunit.defs = {}
<1>1. tunit.decls \in Seq(Prototype) /\ tunit.defs \in Seq(Definition)
  BY UnitType
<1>2. CASE i <= Len(tunit.decls)
  BY <1>1, <1>2 DEF EnterDecl, At, GenPosition, Within, IsPlace
<1>3. CASE ~(i <= Len(tunit.decls))
  <2>1. EnterDecl(tunit, i) = EnterDef(tunit, 1)
    BY <1>3 DEF EnterDecl
  <2>2. EnterDef(tunit, 1).at = "end" => DOMAIN tunit.defs = {}
    BY <1>1, EnterDefPlace
  <2> QED BY <1>1, <1>3, <2>1, <2>2, EnterDefPlace
<1> QED BY <1>2, <1>3

----------------------------------------------------------------------------
(* Values, instructions and the stack of expressions. *)

(* A value is not the absence of one. *)
LEMMA ValueIsSome == ASSUME NEW v \in Value PROVE v # NoValue
<1>1. v.kind # "none" /\ NoValue.kind = "none"
  BY DEF Value, NoValue
<1> QED BY <1>1

(* Numbers are values. *)
LEMMA ConstantIsValue == \A k \in Int : Constant(k) \in Value
BY DEF Constant, Value

(* The value of an instruction emitted now. *)
LEMMA NextValueIsValue ==
  ASSUME functions \in Seq(LlvmFunction), insert_point \in DOMAIN functions,
         NEW kind \in {"alloca", "result"}
  PROVE  NextValue(kind) \in Value
<1>1. functions[insert_point] \in LlvmFunction /\ insert_point \in Nat
  OBVIOUS
<1>2. Len(functions[insert_point].code) \in Nat
  BY <1>1 DEF LlvmFunction
<1> QED BY <1>1, <1>2 DEF NextValue, Value

(* Popping a frame. *)
LEMMA FrontOfStack ==
  ASSUME NEW stack \in Seq(Frame), stack # <<>>
  PROVE  /\ Front(stack) \in Seq(Frame)
         /\ Len(Front(stack)) = Len(stack) - 1
         /\ DOMAIN Front(stack) \subseteq DOMAIN stack
         /\ \A j \in DOMAIN Front(stack) : Front(stack)[j] = stack[j]
<1>1. Len(stack) \in Nat /\ Len(stack) > 0
  BY EmptySeq
<1>2. Front(stack) = SubSeq(stack, 1, Len(stack) - 1)
  BY DEF Front
<1>3. \A j \in 1 .. (Len(stack) - 1) : stack[j] \in Frame
  BY <1>1
<1> DEFINE front == SubSeq(stack, 1, Len(stack) - 1)
<1>4. /\ front \in Seq(Frame)
      /\ Len(front) = IF 1 <= Len(stack) - 1 THEN (Len(stack) - 1) - 1 + 1 ELSE 0
      /\ \A j \in 1 .. ((Len(stack) - 1) - 1 + 1) : front[j] = stack[1 + j - 1]
  BY <1>1, <1>3, SubSeqProperties
<1> HIDE DEF front
<1>5. front \in Seq(Frame) /\ Len(front) = Len(stack) - 1
  <2>1. ASSUME NEW l \in Nat, l > 0
        PROVE  (IF 1 <= l - 1 THEN (l - 1) - 1 + 1 ELSE 0) = l - 1
    BY <2>1
  <2> QED BY <1>1, <1>4, <2>1
<1>6. \A j \in 1 .. (Len(stack) - 1) : front[j] = stack[j]
  <2> TAKE j \in 1 .. (Len(stack) - 1)
  <2>1. (Len(stack) - 1) - 1 + 1 = Len(stack) - 1 /\ 1 + j - 1 = j
    BY <1>1
  <2> QED BY <1>4, <2>1
<1> QED BY <1>1, <1>2, <1>5, <1>6 DEF front

(* An operand goes to the expression on top and changes nothing else. *)
LEMMA DeliverType ==
  ASSUME NEW stack \in Seq(Frame), NEW v \in Value
  PROVE  /\ Deliver(stack, v) \in Seq(Frame)
         /\ DOMAIN Deliver(stack, v) = DOMAIN stack
         /\ Len(Deliver(stack, v)) = Len(stack)
         /\ \A j \in DOMAIN stack : Deliver(stack, v)[j].node = stack[j].node
<1>1. CASE stack = <<>>
  BY <1>1 DEF Deliver
<1>2. CASE stack # <<>>
  <2> DEFINE l == Len(stack)
             e == [stack[l] EXCEPT !.operands = Append(@, v)]
  <2>1. l \in 1 .. Len(stack) /\ stack[l] \in Frame
    BY <1>2, EmptySeq
  <2>2. e \in Frame /\ e.node = stack[l].node
    <3>1. stack[l].operands \in Seq(Value) /\ stack[l].node \in Nat
      BY <2>1 DEF Frame
    <3>2. Append(stack[l].operands, v) \in Seq(Value)
      BY <3>1
    <3> QED BY <2>1, <3>1, <3>2 DEF Frame
  <2>3. Deliver(stack, v) = [stack EXCEPT ![l] = e]
    BY <1>2 DEF Deliver
  <2> HIDE DEF e
  <2>4. /\ [stack EXCEPT ![l] = e] \in Seq(Frame)
        /\ Len([stack EXCEPT ![l] = e]) = Len(stack)
        /\ \A j \in 1 .. Len(stack) :
             [stack EXCEPT ![l] = e][j] = IF j = l THEN e ELSE stack[j]
    BY <2>1, <2>2, ExceptSeq
  <2> QED BY <2>2, <2>3, <2>4
<1> QED BY <1>1, <1>2

(* Popping an expression and handing its value on. *)
LEMMA FinishedStack ==
  ASSUME NEW stack \in Seq(Frame), stack # <<>>, NEW v \in Value
  PROVE  /\ Deliver(Front(stack), v) \in Seq(Frame)
         /\ DOMAIN Deliver(Front(stack), v) \subseteq DOMAIN stack
         /\ \A j \in DOMAIN Deliver(Front(stack), v) :
              Deliver(Front(stack), v)[j].node = stack[j].node
BY FrontOfStack, DeliverType

----------------------------------------------------------------------------
(* What the generator is given. *)

(* The generator runs on what analyze has returned. *)
Generating == AnalysisFacts /\ phase = "analyzed" /\ GeneratorInv /\ status = "generating"

(* An accepted unit is built, and all its references are bound. *)
LEMMA AnalysisDone ==
  ASSUME AnalysisFacts, phase = "analyzed"
  PROVE  /\ Built
         /\ DOMAIN id_symbol = References("identifier")
         /\ DOMAIN call_symbol = References("call_expression")
<1>1. Built
  BY DEF Built, AnalysisFacts, AnalyzerInv, OnePassAtATime
<1>2. resolver_pos.at = "end" /\ resolver_errors = <<>>
  BY DEF AnalysisFacts, ResolutionInv
<1>3. \A r : NodePassed(resolver_pos, r)
  BY <1>2 DEF NodePassed
<1>4. /\ References("identifier") \subseteq DOMAIN id_symbol
      /\ References("call_expression") \subseteq DOMAIN call_symbol
  BY <1>2, <1>3 DEF AnalysisFacts, ResolutionInv
<1>5. /\ DOMAIN id_symbol \subseteq References("identifier")
      /\ DOMAIN call_symbol \subseteq References("call_expression")
  BY DEF AnalysisFacts, AnalyzerInv, BoundByRule
<1> QED BY <1>1, <1>4, <1>5

(* The types, and the scopes and symbols the generator reads. *)
LEMMA GeneratingFacts ==
  ASSUME Generating
  PROVE  /\ Built /\ tunit \in TranslationUnit
         /\ IsPlace(gen_pos)
         /\ functions \in Seq(LlvmFunction) /\ Len(functions) \in Nat
         /\ func_map \in [FuncNames -> {NoFunction} \cup DOMAIN functions]
         /\ value_table \in [VarNames -> Value \cup {NoValue}]
         /\ insert_point \in {NoFunction} \cup DOMAIN functions
         /\ frames \in Seq(Frame)
         /\ frames # <<>> => gen_pos.at \in {"node", "post_def"}
         /\ \A j \in DOMAIN frames : frames[j].node \in DOMAIN tunit.defs[gen_pos.fn].body
         /\ InDefinition => gen_pos.fn \in DOMAIN tunit.defs
<1>1. GeneratorTypeOK /\ GeneratorInside
  BY DEF Generating, GeneratorInv
<1>2. Built
  BY AnalysisDone DEF Generating
<1>3. functions \in Seq(LlvmFunction) /\ Len(functions) \in Nat
  BY <1>1 DEF GeneratorTypeOK
<1>4. InDefinition => gen_pos.fn \in DOMAIN tunit.defs
  BY <1>1 DEF GeneratorInside, InDefinition, Within
<1> QED BY <1>1, <1>2, <1>3, <1>4, BuiltFacts DEF GeneratorTypeOK, GeneratorInside, IsPlace

(* The symbol of a call is a function, that of an identifier a variable. *)
LEMMA SymbolsOfNodes ==
  ASSUME Generating, NEW i \in DOMAIN tunit.defs, NEW k \in DOMAIN tunit.defs[i].body
  PROVE  /\ tunit.defs[i].body[k] \in Node
         /\ tunit.defs[i].body[k] \in Call =>
              /\ call_symbol[<<i, k>>] \in DOMAIN func_table
              /\ func_table[call_symbol[<<i, k>>]].name \in FuncNames
         /\ tunit.defs[i].body[k].kind = "identifier" => id_symbol[<<i, k>>] \in VariableSymbol
<1> DEFINE n == tunit.defs[i].body[k]
<1>1. n \in Node
  <2>1. tunit.defs[i].body \in Seq(Node)
    BY GeneratingFacts, UnitType
  <2> QED BY <2>1
<1>2. <<i, k>> \in References(n.kind)
  BY DEF References
<1>3. /\ Range(id_symbol) \subseteq VariableSymbol
      /\ Range(call_symbol) \subseteq DOMAIN func_table
      /\ func_table \in Seq(FuncSymbol)
  BY DEF Generating, AnalysisFacts, AnalyzerInv, TypeInv, AnalyzerTypeOK, HeapTypeOK
<1>4. /\ DOMAIN id_symbol = References("identifier")
      /\ DOMAIN call_symbol = References("call_expression")
  BY AnalysisDone DEF Generating
<1> HIDE DEF n
<1>5. n \in Call => call_symbol[<<i, k>>] \in DOMAIN func_table
  BY <1>1, <1>2, <1>3, <1>4, KindOfNode DEF Range
<1>6. \A f \in DOMAIN func_table : func_table[f].name \in FuncNames
  <2> SUFFICES ASSUME NEW f \in DOMAIN func_table PROVE func_table[f].name \in FuncNames
    OBVIOUS
  <2>1. func_table[f] \in FuncSymbol
    BY <1>3
  <2> QED BY <2>1 DEF FuncSymbol
<1>7. n.kind = "identifier" => id_symbol[<<i, k>>] \in VariableSymbol
  BY <1>2, <1>3, <1>4 DEF Range
<1> QED BY <1>1, <1>5, <1>6, <1>7 DEF n

(* Inside a definition the builder has a function to append to. *)
LEMMA InsertPointIsFunction ==
  ASSUME Generating, InDefinition
  PROVE  /\ insert_point \in DOMAIN functions
         /\ insert_point = FunctionOf(gen_pos.fn)
<1>1. gen_pos.fn \in DOMAIN tunit.defs /\ tunit \in TranslationUnit /\ IsPlace(gen_pos)
  BY GeneratingFacts
<1>2. insert_point = FunctionOf(gen_pos.fn)
  BY DEF Generating, GeneratorInv, BodiesByDefinition
<1>3. tunit.defs[gen_pos.fn].name \in FuncNames
  BY <1>1, UnitType
<1>4. Begun(gen_pos.fn)
  <2>1. gen_pos.fn \in Nat
    BY <1>1 DEF IsPlace, GenPosition
  <2> QED BY <2>1 DEF Begun
<1>5. FunctionOf(gen_pos.fn) # NoFunction
  BY <1>1, <1>3, <1>4 DEF Generating, GeneratorInv, FunctionsByName, FunctionOf
<1> QED BY <1>2, <1>3, <1>5, GeneratingFacts DEF FunctionOf

(* A parameter symbol of a definition is alive only if the name of the      *)
(* definition was never declared.                                           *)
LEMMA AliveUndeclared ==
  ASSUME Built, NEW i \in DOMAIN tunit.defs, NEW x, NEW k, Alive(NewVariable(x, "def", i, k))
  PROVE  DeclarationsOf(tunit, tunit.defs[i].name) = {}
<1> DEFINE v == NewVariable(x, "def", i, k)
<1>1. PICK f \in DOMAIN func_table : v \in Owned(func_table[f])
  BY DEF Alive
<1>2. v.site = "def" /\ v.fn = i
  BY DEF NewVariable
<1>3. v \notin Range(func_table[f].var_table)
  <2>1. func_table[f].var_table \in [VarNames -> VariableSymbol \cup {NoVariable}]
    <3>1. func_table[f] \in FuncSymbol
      BY BuiltFacts
    <3> QED BY <3>1 DEF FuncSymbol
  <2>2. LocalsAtHome /\ BoundOnce /\ DOMAIN def_scope = DOMAIN tunit.defs
    BY BuiltFacts DEF Built, AnalysisFacts, AnalyzerInv, TableFacts
  <2>3. CASE func_table[f].is_declaration
    <3>1. Range(func_table[f].var_table) \subseteq {NoVariable}
      BY <2>2, <2>3 DEF LocalsAtHome
    <3>2. NoVariable.site = "none"
      BY DEF NoVariable
    <3> HIDE DEF NoVariable, v
    <3> QED BY <1>2, <3>1, <3>2
  <2>4. CASE ~func_table[f].is_declaration
    <3>1. PICK j \in DOMAIN tunit.defs : def_scope[j] = f
      BY <2>2, <2>4 DEF BoundOnce
    <3>2. \A y \in VarNames : func_table[f].var_table[y] = LatestLocal(j, y)
      BY <2>2, <3>1, BuiltFacts DEF LocalsAtHome
    <3>3. \A y \in VarNames : LatestLocal(j, y).site \in {"none", "var"}
      BY DEF LatestLocal, NewVariable, NoVariable
    <3> HIDE DEF v
    <3> QED BY <1>2, <2>1, <3>2, <3>3 DEF Range
  <2> QED BY <2>3, <2>4
<1>4. v \in Range(func_table[f].params)
  BY <1>1, <1>3 DEF Owned
<1> HIDE DEF v
<1>5. /\ f \notin DOMAIN tunit.decls
      /\ def_scope[i] = f
  <2>1. CASE /\ f \in DOMAIN tunit.decls
             /\ func_table[f].params = [m \in DOMAIN tunit.decls[f].params |->
                                  NewVariable(tunit.decls[f].params[m], "decl", f, m)]
    BY <1>2, <1>4, <2>1 DEF Range, NewVariable
  <2>2. CASE /\ f \notin DOMAIN tunit.decls
             /\ \E j \in DOMAIN tunit.defs :
                  /\ def_scope[j] = f
                  /\ func_table[f].params = [m \in DOMAIN tunit.defs[j].params |->
                                       NewVariable(tunit.defs[j].params[m], "def", j, m)]
    <3>1. PICK j \in DOMAIN tunit.defs :
            /\ def_scope[j] = f
            /\ func_table[f].params = [m \in DOMAIN tunit.defs[j].params |->
                                 NewVariable(tunit.defs[j].params[m], "def", j, m)]
      BY <2>2
    <3>2. v.fn = j
      BY <1>4, <3>1 DEF Range, NewVariable
    <3> QED BY <1>2, <2>2, <3>1, <3>2
  <2> QED BY <2>1, <2>2, SourceOfFunction
<1>6. def_scope[i] = ResolveFunc(tunit.defs[i].name)
  BY BuiltFacts
<1>7. DeclarationsOf(tunit, tunit.defs[i].name) = Rules!DeclarationsOf(tunit, tunit.defs[i].name)
  BY DEF DeclarationsOf, Rules!DeclarationsOf
<1>8. Rules!DeclarationsOf(tunit, tunit.defs[i].name) \subseteq DOMAIN tunit.decls
  BY DEF Rules!DeclarationsOf
<1> QED BY <1>5, <1>6, <1>7, <1>8, DeclaredResolves

----------------------------------------------------------------------------
(* What generating a part of a definition does, whatever the part. *)

(* Each call among the instructions leads to what func_map has for a name. *)
CallsMapped(instrs) ==
  \A j \in DOMAIN instrs : instrs[j].op = "call" =>
    /\ instrs[j].callee # NoFunction
    /\ \E name \in FuncNames : func_map[name] = instrs[j].callee

Appended(instrs) == functions' = [functions EXCEPT ![insert_point].code = @ \o instrs]

(* The generator stays in the definition, expressions wait in its body, the *)
(* value table loses no name and the module gets some instructions.         *)
BodyEffect ==
  /\ UNCHANGED <<func_map, insert_point>>
  /\ InDefinition /\ IsPlace(gen_pos') /\ gen_pos'.fn = gen_pos.fn
  /\ gen_pos'.at \in {"param", "var", "node", "post_def"}
  /\ gen_pos'.at = "param" => gen_pos.at = "param"
  /\ value_table' \in [VarNames -> Value \cup {NoValue}]
  /\ \A x \in VarNames : value_table[x] # NoValue => value_table'[x] # NoValue
  /\ frames' \in Seq(Frame)
  /\ frames' # <<>> => gen_pos'.at \in {"node", "post_def"}
  /\ \A j \in DOMAIN frames' : frames'[j].node \in DOMAIN tunit.defs[gen_pos.fn].body
  /\ status' \in {"generating", "crashed"}
  /\ \/ UNCHANGED functions
     \/ \E instrs \in Seq(Instruction) : CallsMapped(instrs) /\ Appended(instrs)

(* What Emit does. *)
LEMMA EmitEffect ==
  ASSUME status = "generating", NEW instrs \in Seq(Instruction), CallsMapped(instrs), Emit(instrs)
  PROVE  /\ status' \in {"generating", "crashed"}
         /\ \/ UNCHANGED functions
            \/ \E is \in Seq(Instruction) : CallsMapped(is) /\ Appended(is)
BY DEF Emit, Appended

(* The end of the process leaves everything as it is. *)
LEMMA StopEffect ==
  ASSUME Generating, InDefinition, Stop("crashed")
  PROVE  BodyEffect
<1>1. /\ UNCHANGED <<gen_pos, functions, func_map, value_table, insert_point, frames>>
      /\ status' = "crashed"
  BY DEF Stop, tables
<1> QED BY <1>1, GeneratingFacts DEF BodyEffect, InDefinition

(* Instructions that are no calls. *)
LEMMA PlainInstr ==
  ASSUME NEW op \in {"alloca", "store", "load", "ret", "+", "-", "*", "/"},
         NEW operands \in Seq(Value)
  PROVE  Instr(op, operands) \in Instruction /\ Instr(op, operands).op = op
BY DEF Instr, Instruction, NoFunction

(* An alloca has no operand. *)
LEMMA AllocaInstr ==
  Instr("alloca", <<>>) \in Instruction /\ Instr("alloca", <<>>).op = "alloca"
<1>1. <<>> \in Seq(Value)
  OBVIOUS
<1> QED BY <1>1, PlainInstr

(* Instructions that are no calls lead nowhere. *)
LEMMA PlainInstrs ==
  ASSUME NEW a \in Instruction, a.op # "call", NEW b \in Instruction, b.op # "call"
  PROVE  /\ <<a>> \in Seq(Instruction) /\ CallsMapped(<<a>>)
         /\ <<a, b>> \in Seq(Instruction) /\ CallsMapped(<<a, b>>)
<1>1. CallsMapped(<<a>>)
  BY DEF CallsMapped
<1>2. CallsMapped(<<a, b>>)
  <2>1. \A j \in DOMAIN <<a, b>> : <<a, b>>[j] = a \/ <<a, b>>[j] = b
    OBVIOUS
  <2> QED BY <2>1 DEF CallsMapped
<1> QED BY <1>1, <1>2

(* generate(parameter) has the effect of an action in a body. *)
LEMMA ParameterEffect ==
  ASSUME Generating, GenParameter
  PROVE  BodyEffect
<1> DEFINE i == gen_pos.fn
           k == gen_pos.k
           x == tunit.defs[i].params[k]
           address == NextValue("alloca")
           instrs == <<Instr("alloca", <<>>), Instr("store", <<value_table[x], address>>)>>
<1>1. gen_pos.at = "param" /\ InDefinition
  BY DEF GenParameter, InDefinition
<1>2. i \in DOMAIN tunit.defs /\ k \in DOMAIN tunit.defs[i].params
      /\ tunit \in TranslationUnit
  BY <1>1, GeneratingFacts DEF IsPlace
<1>3. x \in VarNames /\ k + 1 \in Nat /\ k + 1 > 0
  <2>1. tunit.defs[i].params \in Seq(VarNames)
    BY <1>2, UnitType
  <2> QED BY <1>2, <2>1
<1>4. CASE ~Alive(NewVariable(x, "def", i, k))
  BY <1>1, <1>4, StopEffect DEF GenParameter
<1>5. CASE Alive(NewVariable(x, "def", i, k))
  <2>1. value_table[x] # NoValue
    <3>1. DeclarationsOf(tunit, tunit.defs[i].name) = {}
      BY <1>2, <1>5, GeneratingFacts, AliveUndeclared
    <3> QED BY <1>1, <1>2, <3>1 DEF Generating, GeneratorInv, ArgumentsEntered
  <2>2. address \in Value /\ value_table[x] \in Value
    <3>1. address \in Value
      BY <1>1, InsertPointIsFunction, GeneratingFacts, NextValueIsValue
    <3> QED BY <1>3, <2>1, <3>1, GeneratingFacts
  <2>3. /\ Emit(instrs)
        /\ value_table' = [value_table EXCEPT ![x] = address]
        /\ gen_pos' = EnterParam(tunit, i, k + 1)
        /\ UNCHANGED <<func_map, insert_point, frames>>
    BY <1>5, <2>1 DEF GenParameter
  <2>4. /\ IsPlace(gen_pos') /\ gen_pos'.fn = i
        /\ gen_pos'.at \in {"param", "var", "node", "post_def"}
    BY <1>2, <1>3, <2>3, EnterParamPlace
  <2>5. frames = <<>>
    BY <1>1, GeneratingFacts
  <2> HIDE DEF x, address
  <2>6. instrs \in Seq(Instruction) /\ CallsMapped(instrs)
    <3>1. Instr("alloca", <<>>) \in Instruction /\ Instr("alloca", <<>>).op # "call"
      BY AllocaInstr
    <3>2. /\ Instr("store", <<value_table[x], address>>) \in Instruction
          /\ Instr("store", <<value_table[x], address>>).op # "call"
      <4>1. <<value_table[x], address>> \in Seq(Value)
        BY <2>2
      <4> QED BY <4>1, PlainInstr
    <3> QED BY <3>1, <3>2, PlainInstrs
  <2> HIDE DEF instrs
  <2>7. /\ status' \in {"generating", "crashed"}
        /\ UNCHANGED functions
             \/ \E is \in Seq(Instruction) : CallsMapped(is) /\ Appended(is)
    BY <2>3, <2>6, EmitEffect DEF Generating
  <2>8. /\ value_table' \in [VarNames -> Value \cup {NoValue}]
        /\ \A y \in VarNames : value_table[y] # NoValue => value_table'[y] # NoValue
    <3>1. address # NoValue
      BY <2>2, ValueIsSome
    <3>2. value_table \in [VarNames -> Value \cup {NoValue}]
      BY GeneratingFacts
    <3> HIDE DEF NoValue
    <3> QED BY <1>3, <2>2, <2>3, <3>1, <3>2
  <2> QED BY <1>1, <2>3, <2>4, <2>5, <2>7, <2>8, GeneratingFacts DEF BodyEffect
<1> QED BY <1>4, <1>5

(* generate(variable_declaration) has that effect. *)
LEMMA VariableEffect ==
  ASSUME Generating, GenVariable
  PROVE  BodyEffect
<1> DEFINE i == gen_pos.fn
           k == gen_pos.k
           x == tunit.defs[i].vars[k]
           address == NextValue("alloca")
           instrs == <<Instr("alloca", <<>>)>>
<1>1. gen_pos.at = "var" /\ InDefinition
  BY DEF GenVariable, InDefinition
<1>2. i \in DOMAIN tunit.defs /\ k \in DOMAIN tunit.defs[i].vars
      /\ tunit \in TranslationUnit
  BY <1>1, GeneratingFacts DEF IsPlace, Within
<1>3. x \in VarNames /\ k + 1 \in Nat /\ k + 1 > 0
  <2>1. tunit.defs[i].vars \in Seq(VarNames)
    BY <1>2, UnitType
  <2> QED BY <1>2, <2>1
<1>4. CASE ~Alive(NewVariable(x, "var", i, k))
  BY <1>1, <1>4, StopEffect DEF GenVariable
<1>5. CASE Alive(NewVariable(x, "var", i, k))
  <2>1. address \in Value
    BY <1>1, InsertPointIsFunction, GeneratingFacts, NextValueIsValue
  <2>2. /\ Emit(instrs)
        /\ value_table' = [value_table EXCEPT ![x] = address]
        /\ gen_pos' = EnterVar(tunit, i, k + 1)
        /\ UNCHANGED <<func_map, insert_point, frames>>
    BY <1>5 DEF GenVariable
  <2>3. /\ IsPlace(gen_pos') /\ gen_pos'.fn = i
        /\ gen_pos'.at \in {"var", "node", "post_def"}
    BY <1>2, <1>3, <2>2, EnterVarPlace
  <2>4. frames = <<>>
    BY <1>1, GeneratingFacts
  <2> HIDE DEF x, address
  <2>5. instrs \in Seq(Instruction) /\ CallsMapped(instrs)
    <3>1. Instr("alloca", <<>>) \in Instruction /\ Instr("alloca", <<>>).op # "call"
      BY AllocaInstr
    <3> QED BY <3>1, PlainInstrs
  <2> HIDE DEF instrs
  <2>6. /\ status' \in {"generating", "crashed"}
        /\ UNCHANGED functions
             \/ \E is \in Seq(Instruction) : CallsMapped(is) /\ Appended(is)
    BY <2>2, <2>5, EmitEffect DEF Generating
  <2>7. /\ value_table' \in [VarNames -> Value \cup {NoValue}]
        /\ \A y \in VarNames : value_table[y] # NoValue => value_table'[y] # NoValue
    <3>1. address # NoValue
      BY <2>1, ValueIsSome
    <3>2. value_table \in [VarNames -> Value \cup {NoValue}]
      BY GeneratingFacts
    <3> HIDE DEF NoValue
    <3> QED BY <1>3, <2>1, <2>2, <3>1, <3>2
  <2> QED BY <1>1, <2>2, <2>3, <2>4, <2>6, <2>7, GeneratingFacts DEF BodyEffect
<1> QED BY <1>4, <1>5

----------------------------------------------------------------------------
(* Statements and expressions. *)

(* Going on to the next node, or to the one behind it. *)
LEMMA PassPlace ==
  ASSUME Generating, gen_pos.at = "node", NEW n \in {1, 2}, Pass(n)
  PROVE  /\ InDefinition /\ gen_pos.fn \in DOMAIN tunit.defs
         /\ gen_pos.k \in DOMAIN tunit.defs[gen_pos.fn].body
         /\ IsPlace(gen_pos') /\ gen_pos'.fn = gen_pos.fn
         /\ gen_pos'.at \in {"node", "post_def"}
<1>1. /\ gen_pos.fn \in DOMAIN tunit.defs /\ tunit \in TranslationUnit
      /\ gen_pos.k \in DOMAIN tunit.defs[gen_pos.fn].body
  BY GeneratingFacts DEF IsPlace, Within
<1>2. gen_pos.k + n \in Nat /\ gen_pos.k + n > 0
  <2>1. gen_pos.k \in Nat /\ gen_pos.k > 0
    <3>1. tunit.defs[gen_pos.fn].body \in Seq(Node)
      BY <1>1, UnitType
    <3> QED BY <1>1, <3>1
  <2> QED BY <2>1
<1> QED BY <1>1, <1>2, EnterNodePlace DEF Pass, InDefinition

(* A value is handed on and no instruction is made. *)
LEMMA NumberEffect ==
  ASSUME Generating, GenNumber
  PROVE  BodyEffect
<1> DEFINE n == tunit.defs[gen_pos.fn].body[gen_pos.k]
<1>1. /\ gen_pos.at = "node" /\ n.kind = "number_literal"
      /\ frames' = Deliver(frames, Constant(n.value))
      /\ Pass(1)
      /\ UNCHANGED <<status, functions, func_map, value_table, insert_point>>
  BY DEF GenNumber, AtNode, GenBody, tables
<1>2. /\ InDefinition /\ gen_pos.fn \in DOMAIN tunit.defs
      /\ gen_pos.k \in DOMAIN tunit.defs[gen_pos.fn].body
      /\ IsPlace(gen_pos') /\ gen_pos'.fn = gen_pos.fn
      /\ gen_pos'.at \in {"node", "post_def"}
  BY <1>1, PassPlace
<1>3. n \in Node
  BY <1>2, SymbolsOfNodes
<1> HIDE DEF n
<1>4. Constant(n.value) \in Value
  <2>1. n.value \in Int
    BY <1>1, <1>3, LimitAssumption DEF Node, Number, Ident, Call, Binary, Jump
  <2> QED BY <2>1, ConstantIsValue
<1>5. /\ frames' \in Seq(Frame) /\ DOMAIN frames' = DOMAIN frames
      /\ \A j \in DOMAIN frames : frames'[j].node = frames[j].node
  BY <1>1, <1>4, GeneratingFacts, DeliverType
<1> QED BY <1>1, <1>2, <1>5, GeneratingFacts DEF BodyEffect, Generating

(* generate(identifier) has that effect. *)
LEMMA IdentifierEffect ==
  ASSUME Generating, GenIdentifier
  PROVE  BodyEffect
<1> DEFINE symbol == id_symbol[<<gen_pos.fn, gen_pos.k>>]
           source == value_table[symbol.name]
           n == tunit.defs[gen_pos.fn].body[gen_pos.k]
<1>1. gen_pos.at = "node" /\ n.kind = "identifier"
  BY DEF GenIdentifier, AtNode, GenBody
<1>2. CASE ~Alive(symbol) \/ source = NoValue
  BY <1>1, <1>2, StopEffect DEF GenIdentifier, InDefinition
<1>3. CASE ~(~Alive(symbol) \/ source = NoValue)
  <2>1. /\ Emit(<<Instr("load", <<source>>)>>)
        /\ frames' = Deliver(frames, NextValue("result"))
        /\ Pass(1)
        /\ UNCHANGED <<func_map, value_table, insert_point>>
    BY <1>3 DEF GenIdentifier, tables
  <2>2. /\ InDefinition /\ gen_pos.fn \in DOMAIN tunit.defs
        /\ gen_pos.k \in DOMAIN tunit.defs[gen_pos.fn].body
        /\ IsPlace(gen_pos') /\ gen_pos'.fn = gen_pos.fn
        /\ gen_pos'.at \in {"node", "post_def"}
    BY <1>1, <2>1, PassPlace
  <2>3. source \in Value
    <3>1. symbol.name \in VarNames
      BY <1>1, <2>2, SymbolsOfNodes DEF VariableSymbol
    <3> QED BY <1>3, <3>1, GeneratingFacts
  <2>4. NextValue("result") \in Value
    BY <2>2, InsertPointIsFunction, GeneratingFacts, NextValueIsValue
  <2>5. /\ frames' \in Seq(Frame) /\ DOMAIN frames' = DOMAIN frames
        /\ \A j \in DOMAIN frames : frames'[j].node = frames[j].node
    BY <2>1, <2>4, GeneratingFacts, DeliverType
  <2> HIDE DEF source
  <2>6. /\ Instr("load", <<source>>) \in Instruction
        /\ Instr("load", <<source>>).op # "call"
    <3>1. <<source>> \in Seq(Value)
      BY <2>3
    <3> QED BY <3>1, PlainInstr
  <2>7. /\ <<Instr("load", <<source>>)>> \in Seq(Instruction)
        /\ CallsMapped(<<Instr("load", <<source>>)>>)
    BY <2>6, PlainInstrs
  <2>8. /\ status' \in {"generating", "crashed"}
        /\ UNCHANGED functions
             \/ \E is \in Seq(Instruction) : CallsMapped(is) /\ Appended(is)
    BY <2>1, <2>7, EmitEffect DEF Generating, source
  <2> QED BY <2>1, <2>2, <2>5, <2>8, GeneratingFacts DEF BodyEffect
<1> QED BY <1>2, <1>3

(* A new expression on the stack. *)
LEMMA PushEffect ==
  ASSUME Generating, gen_pos.at = "node", NEW n \in {1, 2}, Pass(n),
         NEW operands \in Seq(Value),
         frames' = Append(frames, [node |-> gen_pos.k, operands |-> operands]),
         UNCHANGED <<status, functions, func_map, value_table, insert_point>>
  PROVE  BodyEffect
<1> DEFINE e == [node |-> gen_pos.k, operands |-> operands]
<1>1. /\ InDefinition /\ gen_pos.fn \in DOMAIN tunit.defs
      /\ gen_pos.k \in DOMAIN tunit.defs[gen_pos.fn].body
      /\ IsPlace(gen_pos') /\ gen_pos'.fn = gen_pos.fn
      /\ gen_pos'.at \in {"node", "post_def"}
  BY PassPlace
<1>2. e \in Frame
  BY GeneratingFacts DEF Frame, IsPlace, GenPosition
<1>3. e.node = gen_pos.k
  OBVIOUS
<1> HIDE DEF e
<1>4. /\ frames' \in Seq(Frame)
      /\ \A j \in DOMAIN frames' : frames'[j] = e \/ (j \in DOMAIN frames /\ frames'[j] = frames[j])
  BY <1>2, GeneratingFacts DEF e
<1>5. \A j \in DOMAIN frames' : frames'[j].node \in DOMAIN tunit.defs[gen_pos.fn].body
  BY <1>1, <1>3, <1>4, GeneratingFacts
<1> QED BY <1>1, <1>4, <1>5, GeneratingFacts DEF BodyEffect, Generating

(* An expression that begins to wait for its operands has that effect. *)
LEMMA BeginExpressionEffect ==
  ASSUME Generating, BeginExpression
  PROVE  BodyEffect
<1>1. <<>> \in Seq(Value) /\ 1 \in {1, 2}
  OBVIOUS
<1>2. gen_pos.at = "node"
  BY DEF BeginExpression, AtNode
<1> QED BY <1>1, <1>2, PushEffect DEF BeginExpression, tables

(* An assignment that begins with its target has that effect. *)
LEMMA BeginAssignmentEffect ==
  ASSUME Generating, BeginAssignment
  PROVE  BodyEffect
<1> DEFINE i == gen_pos.fn
           k == gen_pos.k
           target == value_table[tunit.defs[i].body[k + 1].name]
<1>1. gen_pos.at = "node" /\ InDefinition
      /\ tunit.defs[i].body[k].kind = "binary_expression"
      /\ tunit.defs[i].body[k].op = "="
  BY DEF BeginAssignment, AtNode, InDefinition, GenBody
<1>2. tunit.defs[i].body[k + 1] \in Ident
  <2>1. /\ i \in DOMAIN tunit.defs /\ k \in DOMAIN tunit.defs[i].body
        /\ tunit \in TranslationUnit
    BY <1>1, GeneratingFacts DEF IsPlace, Within
  <2>2. tunit.defs[i].body[k] \in Node
    BY <2>1, SymbolsOfNodes
  <2>3. tunit.defs[i].body[k] \in Binary
    BY <1>1, <2>2 DEF Node, Number, Ident, Call, Binary, Jump
  <2>4. WellFormed(tunit.defs[i].body)
    BY <2>1 DEF TranslationUnit
  <2> QED BY <1>1, <2>1, <2>3, <2>4 DEF WellFormed
<1>3. tunit.defs[i].body[k + 1].kind = "identifier" /\ tunit.defs[i].body[k + 1].name \in VarNames
  BY <1>2 DEF Ident
<1>4. CASE target = NoValue
  BY <1>1, <1>3, <1>4, StopEffect DEF BeginAssignment, GenBody
<1>5. CASE target # NoValue
  <2>1. /\ frames' = Append(frames, [node |-> k, operands |-> <<target>>])
        /\ Pass(2)
        /\ UNCHANGED <<status, functions, func_map, value_table, insert_point>>
    BY <1>3, <1>5 DEF BeginAssignment, GenBody, tables
  <2>2. target \in Value
    BY <1>3, <1>5, GeneratingFacts
  <2> HIDE DEF target
  <2>3. <<target>> \in Seq(Value)
    BY <2>2
  <2> QED BY <1>1, <2>1, <2>3, PushEffect
<1> QED BY <1>4, <1>5

(* The expression on top, when it has all its operands. *)
LEMMA TopOfStack ==
  ASSUME Generating, Complete
  PROVE  /\ frames # <<>> /\ InDefinition
         /\ gen_pos.at \in {"node", "post_def"}
         /\ gen_pos.fn \in DOMAIN tunit.defs
         /\ Top.node \in DOMAIN tunit.defs[gen_pos.fn].body
         /\ TopNode = tunit.defs[gen_pos.fn].body[Top.node]
         /\ TopNode \in Node
         /\ Top.operands \in Seq(Value) /\ Len(Top.operands) = Arity(TopNode)
<1>1. frames # <<>> /\ Len(Top.operands) = Arity(TopNode)
  BY DEF Complete
<1>2. Len(frames) \in DOMAIN frames
  BY <1>1, GeneratingFacts, EmptySeq
<1>3. Top \in Frame
  BY <1>2, GeneratingFacts DEF Top
<1>4. /\ gen_pos.at \in {"node", "post_def"} /\ InDefinition
      /\ gen_pos.fn \in DOMAIN tunit.defs
  BY <1>1, GeneratingFacts DEF InDefinition
<1>5. Top.node \in DOMAIN tunit.defs[gen_pos.fn].body
  BY <1>2, GeneratingFacts DEF Top
<1>6. TopNode = tunit.defs[gen_pos.fn].body[Top.node]
  BY DEF TopNode, GenBody
<1> QED BY <1>1, <1>3, <1>4, <1>5, <1>6, SymbolsOfNodes DEF Frame

(* An operation on two operands. *)
LEMMA BinaryOperands ==
  ASSUME Generating, Complete, TopNode \in Binary
  PROVE  /\ Len(Top.operands) = 2
         /\ Top.operands[1] \in Value /\ Top.operands[2] \in Value
         /\ TopNode.op \in {"=", "+", "-", "*", "/"}
<1>1. TopNode.kind = "binary_expression" /\ TopNode.op \in {"=", "+", "-", "*", "/"}
  BY DEF Binary
<1>2. Arity(TopNode) = 2
  BY <1>1 DEF Arity
<1> QED BY <1>1, <1>2, TopOfStack

(* The stack changes at its top, inside the same body. *)
LEMMA StackEffect ==
  ASSUME Generating, Complete,
         \/ frames' = Front(frames)
         \/ \E v \in Value : frames' = Deliver(Front(frames), v),
         UNCHANGED <<gen_pos, func_map, value_table, insert_point>>,
         status' \in {"generating", "crashed"},
         \/ UNCHANGED functions
         \/ \E instrs \in Seq(Instruction) : CallsMapped(instrs) /\ Appended(instrs)
  PROVE  BodyEffect
<1>1. frames \in Seq(Frame) /\ frames # <<>>
  BY GeneratingFacts, TopOfStack
<1>2. /\ frames' \in Seq(Frame) /\ DOMAIN frames' \subseteq DOMAIN frames
      /\ \A j \in DOMAIN frames' : frames'[j].node = frames[j].node
  BY <1>1, FrontOfStack, FinishedStack
<1> QED BY <1>2, TopOfStack, GeneratingFacts DEF BodyEffect

(* One instruction takes the place of the finished expression. *)
LEMMA FinishEffect ==
  ASSUME Generating, Complete, NEW instr \in Instruction, CallsMapped(<<instr>>),
         NEW value \in Value, Finish(instr, value)
  PROVE  BodyEffect
<1>1. <<instr>> \in Seq(Instruction)
  OBVIOUS
<1>2. /\ Emit(<<instr>>)
      /\ frames' = Deliver(Front(frames), value)
      /\ UNCHANGED <<gen_pos, func_map, value_table, insert_point>>
  BY DEF Finish, tables
<1>3. /\ status' \in {"generating", "crashed"}
      /\ UNCHANGED functions
           \/ \E is \in Seq(Instruction) : CallsMapped(is) /\ Appended(is)
  BY <1>1, <1>2, EmitEffect DEF Generating
<1> QED BY <1>2, <1>3, StackEffect

(* The value of the next instruction. *)
LEMMA ResultIsValue ==
  ASSUME Generating, Complete
  PROVE  NextValue("result") \in Value
BY TopOfStack, InsertPointIsFunction, GeneratingFacts, NextValueIsValue

(* Numbers are folded into a number, or into no value. *)
LEMMA FoldedIsValue ==
  ASSUME NEW op \in {"+", "-", "*", "/"}, NEW v \in Value, NEW w \in Value
  PROVE  Folded(op, v, w) \subseteq Value
<1>1. Undef \in Value /\ Constant(0) \in Value
  BY DEF Undef, Constant, Value
<1>2. v.k \in Int /\ w.k \in Int
  BY DEF Value
<1>3. \A k \in Int : Wrapped(k) \in Int
  BY LimitAssumption DEF Wrapped
<1>4. ASSUME NEW a \in Int, NEW b \in Int, Divides(a, b)
      PROVE  Quotient(a, b) \in Int
  <2>1. /\ Magnitude(a) \in Int /\ Magnitude(b) \in Nat /\ Magnitude(b) > 0
    BY <1>4 DEF Divides, Magnitude
  <2>2. Magnitude(a) \div Magnitude(b) \in Int
    BY <2>1
  <2> QED BY <2>2 DEF Quotient
<1>5. v.k + w.k \in Int /\ v.k - w.k \in Int /\ v.k * w.k \in Int
  BY <1>2
<1>6. CASE Undef \in {v, w}
  BY <1>1, <1>6 DEF Folded
<1>7. CASE Undef \notin {v, w}
  <2>1. CASE op = "+"
    BY <1>3, <1>5, <1>7, <2>1, ConstantIsValue DEF Folded
  <2>2. CASE op = "-"
    BY <1>3, <1>5, <1>7, <2>2, ConstantIsValue DEF Folded
  <2>3. CASE op = "*"
    BY <1>3, <1>5, <1>7, <2>3, ConstantIsValue DEF Folded
  <2>4. CASE op = "/"
    <3>1. Folded(op, v, w) = {IF Divides(v.k, w.k) THEN Constant(Quotient(v.k, w.k)) ELSE Undef}
      BY <1>7, <2>4 DEF Folded
    <3> QED BY <1>1, <1>2, <1>4, <3>1, ConstantIsValue
  <2> QED BY <2>1, <2>2, <2>3, <2>4
<1> QED BY <1>6, <1>7

(* Two numbers folded have that effect. *)
LEMMA FoldEffect ==
  ASSUME Generating, FoldConstants
  PROVE  BodyEffect
<1>1. /\ Complete /\ TopNode \in Binary /\ TopNode.op # "="
      /\ \E v \in Folded(TopNode.op, Top.operands[1], Top.operands[2]) :
           frames' = Deliver(Front(frames), v)
      /\ UNCHANGED <<gen_pos, status, functions, func_map, value_table, insert_point>>
  BY DEF FoldConstants, tables
<1>2. Folded(TopNode.op, Top.operands[1], Top.operands[2]) \subseteq Value
  BY <1>1, BinaryOperands, FoldedIsValue
<1> QED BY <1>1, <1>2, StackEffect DEF Generating

(* An operation on two operands has that effect. *)
LEMMA BinaryEffect ==
  ASSUME Generating, FinishBinary
  PROVE  BodyEffect
<1>1. /\ Complete /\ TopNode \in Binary /\ TopNode.op # "="
      /\ Finish(Instr(TopNode.op, Top.operands), NextValue("result"))
  BY DEF FinishBinary
<1>2. /\ Instr(TopNode.op, Top.operands) \in Instruction
      /\ Instr(TopNode.op, Top.operands).op # "call"
  BY <1>1, BinaryOperands, TopOfStack, PlainInstr
<1>3. CallsMapped(<<Instr(TopNode.op, Top.operands)>>)
  BY <1>2, PlainInstrs
<1> QED BY <1>1, <1>2, <1>3, ResultIsValue, FinishEffect

(* An assignment that stores its value has that effect. *)
LEMMA AssignmentEffect ==
  ASSUME Generating, FinishAssignment
  PROVE  BodyEffect
<1> DEFINE operands == <<Top.operands[2], Top.operands[1]>>
           instr == Instr("store", operands)
<1>1. /\ Complete /\ TopNode \in Binary
      /\ Finish(instr, Top.operands[1])
  BY DEF FinishAssignment
<1>2. Top.operands[1] \in Value /\ Top.operands[2] \in Value
  BY <1>1, BinaryOperands
<1>3. instr \in Instruction /\ instr.op # "call"
  <2>1. operands \in Seq(Value)
    BY <1>2
  <2> HIDE DEF operands
  <2>2. instr \in Instruction /\ instr.op = "store"
    BY <2>1, PlainInstr
  <2> QED BY <2>2
<1>4. CallsMapped(<<instr>>)
  BY <1>3, PlainInstrs
<1> HIDE DEF instr
<1> QED BY <1>1, <1>2, <1>3, <1>4, FinishEffect

(* A call with its arguments has that effect. *)
LEMMA CallEffect ==
  ASSUME Generating, FinishCall
  PROVE  BodyEffect
<1> DEFINE name == func_table[call_symbol[<<gen_pos.fn, Top.node>>]].name
           instr == [op |-> "call", operands |-> Top.operands, callee |-> func_map[name]]
<1>1. Complete /\ TopNode \in Call
  BY DEF FinishCall
<1>2. name \in FuncNames
  BY <1>1, TopOfStack, SymbolsOfNodes
<1>3. CASE func_map[name] = NoFunction
  BY <1>1, <1>3, TopOfStack, StopEffect DEF FinishCall
<1>4. CASE func_map[name] # NoFunction
  <2>1. Finish(instr, NextValue("result"))
    BY <1>4 DEF FinishCall
  <2>2. instr \in Instruction
    <3>1. func_map[name] \in Nat
      BY <1>2, <1>4, GeneratingFacts
    <3> QED BY <1>1, <3>1, TopOfStack DEF Instruction
  <2>3. CallsMapped(<<instr>>)
    <3>1. instr.callee = func_map[name]
      OBVIOUS
    <3> HIDE DEF name, instr
    <3>2. \A j \in DOMAIN <<instr>> : <<instr>>[j] = instr
      OBVIOUS
    <3> QED BY <1>2, <1>4, <3>1, <3>2 DEF CallsMapped
  <2> HIDE DEF instr
  <2> QED BY <1>1, <2>1, <2>2, <2>3, ResultIsValue, FinishEffect
<1> QED BY <1>3, <1>4

(* A return has that effect. *)
LEMMA ReturnEffect ==
  ASSUME Generating, FinishReturn
  PROVE  BodyEffect
<1> DEFINE instrs == <<Instr("ret", Top.operands)>>
<1>1. /\ Complete /\ TopNode \in Jump
      /\ Emit(instrs)
      /\ frames' = Front(frames)
      /\ UNCHANGED <<gen_pos, func_map, value_table, insert_point>>
  BY DEF FinishReturn, tables
<1>2. /\ Instr("ret", Top.operands) \in Instruction
      /\ Instr("ret", Top.operands).op # "call"
  BY <1>1, TopOfStack, PlainInstr
<1>3. instrs \in Seq(Instruction) /\ CallsMapped(instrs)
  BY <1>2, PlainInstrs
<1> HIDE DEF instrs
<1>4. /\ status' \in {"generating", "crashed"}
      /\ UNCHANGED functions
           \/ \E is \in Seq(Instruction) : CallsMapped(is) /\ Appended(is)
  BY <1>1, <1>3, EmitEffect DEF Generating
<1> QED BY <1>1, <1>4, StackEffect

----------------------------------------------------------------------------
(* Every step keeps the invariant. *)

(* The parts of a function of the module. *)
LEMMA FunctionFields ==
  ASSUME functions \in Seq(LlvmFunction), NEW f \in DOMAIN functions
  PROVE  /\ functions[f].name \in FuncNames /\ functions[f].arity \in Nat
         /\ functions[f].blocks \in Nat /\ functions[f].code \in Seq(Instruction)
<1>1. functions[f] \in LlvmFunction
  OBVIOUS
<1> QED BY <1>1 DEF LlvmFunction

(* Instructions appended to one function change nothing but its code. *)
LEMMA AppendedFunctions ==
  ASSUME functions \in Seq(LlvmFunction), insert_point \in DOMAIN functions,
         NEW instrs \in Seq(Instruction), Appended(instrs)
  PROVE  /\ functions' \in Seq(LlvmFunction)
         /\ DOMAIN functions' = DOMAIN functions
         /\ \A f \in DOMAIN functions :
              /\ functions'[f].name = functions[f].name
              /\ functions'[f].arity = functions[f].arity
              /\ functions'[f].blocks = functions[f].blocks
              /\ functions'[f].code = IF f = insert_point THEN functions[f].code \o instrs
                                      ELSE functions[f].code
<1> DEFINE old == functions[insert_point]
           new == [old EXCEPT !.code = old.code \o instrs]
<1>1. old \in LlvmFunction /\ insert_point \in 1 .. Len(functions)
  OBVIOUS
<1>2. old.code \o instrs \in Seq(Instruction)
  BY <1>1, ConcatProperties DEF LlvmFunction
<1>3. /\ new \in LlvmFunction
      /\ new.name = old.name /\ new.arity = old.arity /\ new.blocks = old.blocks
      /\ new.code = old.code \o instrs
  BY <1>1, <1>2 DEF LlvmFunction
<1>4. functions' = [functions EXCEPT ![insert_point] = new]
  BY DEF Appended
<1> HIDE DEF new
<1>5. /\ [functions EXCEPT ![insert_point] = new] \in Seq(LlvmFunction)
      /\ Len([functions EXCEPT ![insert_point] = new]) = Len(functions)
      /\ \A f \in 1 .. Len(functions) :
           [functions EXCEPT ![insert_point] = new][f] =
             IF f = insert_point THEN new ELSE functions[f]
  BY <1>1, <1>3, ExceptSeq
<1>6. functions' \in Seq(LlvmFunction) /\ DOMAIN functions' = DOMAIN functions
  BY <1>4, <1>5
<1>7. \A f \in DOMAIN functions : functions'[f] = IF f = insert_point THEN new ELSE functions[f]
  BY <1>4, <1>5
<1> QED BY <1>3, <1>6, <1>7

(* An instruction of a function is one it had, or one of those appended. *)
LEMMA AppendedCode ==
  ASSUME NEW code \in Seq(Instruction), NEW instrs \in Seq(Instruction),
         NEW j \in DOMAIN (code \o instrs)
  PROVE  \/ j \in DOMAIN code /\ (code \o instrs)[j] = code[j]
         \/ \E m \in DOMAIN instrs : (code \o instrs)[j] = instrs[m]
<1>1. /\ Len(code \o instrs) = Len(code) + Len(instrs)
      /\ (code \o instrs) \in Seq(Instruction)
      /\ \A i \in 1 .. Len(code) + Len(instrs) : (code \o instrs)[i] =
                     IF i <= Len(code) THEN code[i] ELSE instrs[i - Len(code)]
  BY ConcatProperties
<1>2. j \in 1 .. Len(code) + Len(instrs) /\ Len(code) \in Nat /\ Len(instrs) \in Nat
  BY <1>1
<1>3. CASE j <= Len(code)
  BY <1>1, <1>2, <1>3
<1>4. CASE ~(j <= Len(code))
  <2>1. j - Len(code) \in DOMAIN instrs
    BY <1>2, <1>4
  <2> QED BY <1>1, <1>2, <1>4, <2>1
<1> QED BY <1>3, <1>4

(* Generating a part of a definition. *)
LEMMA BodyKeeps ==
  ASSUME Generating, BodyEffect, UNCHANGED tunit
  PROVE  GeneratorInv'
<1>1. insert_point \in DOMAIN functions
  BY InsertPointIsFunction DEF BodyEffect
<1>2. functions \in Seq(LlvmFunction) /\ tunit \in TranslationUnit
      /\ IsPlace(gen_pos) /\ gen_pos.fn \in DOMAIN tunit.defs
  BY GeneratingFacts DEF BodyEffect
<1>3. /\ functions' \in Seq(LlvmFunction)
      /\ DOMAIN functions' = DOMAIN functions
      /\ \A f \in DOMAIN functions :
           /\ functions'[f].name = functions[f].name
           /\ functions'[f].blocks = functions[f].blocks
           /\ f # insert_point => functions'[f].code = functions[f].code
  BY <1>1, <1>2, AppendedFunctions DEF BodyEffect
<1>4. UNCHANGED <<func_map, insert_point>>
  BY DEF BodyEffect
<1>5. InDefinition /\ InDefinition'
  BY DEF BodyEffect, InDefinition
<1>6. \A i : Begun(i)' <=> Begun(i)
  BY <1>5 DEF BodyEffect, Begun, InDefinition
<1>7. \A d : DeclPassed(gen_pos, d) /\ DeclPassed(gen_pos', d)
  BY DEF BodyEffect, InDefinition, DeclPassed
<1>8. \A i : FunctionOf(i)' = FunctionOf(i)
  BY <1>4 DEF FunctionOf
<1>9. GeneratorTypeOK'
  <2>1. /\ gen_pos' \in GenPosition /\ status' \in Status /\ frames' \in Seq(Frame)
        /\ value_table' \in [VarNames -> Value \cup {NoValue}]
    BY DEF BodyEffect, IsPlace, Status
  <2>2. /\ func_map' \in [FuncNames -> {NoFunction} \cup DOMAIN functions']
        /\ insert_point' \in {NoFunction} \cup DOMAIN functions'
    BY <1>3, <1>4, GeneratingFacts
  <2> QED BY <1>3, <2>1, <2>2 DEF GeneratorTypeOK
<1>10. GeneratorInside'
  <2>1. /\ Within(tunit, gen_pos')
        /\ gen_pos'.at = "param" => /\ gen_pos'.fn \in DOMAIN tunit.defs
                                    /\ gen_pos'.k \in DOMAIN tunit.defs[gen_pos'.fn].params
    BY DEF BodyEffect, IsPlace
  <2> QED BY <2>1 DEF BodyEffect, GeneratorInside
<1>11. FunctionsByName'
  <2>1. \A name \in FuncNames : func_map[name] # NoFunction => func_map[name] \in DOMAIN functions
    BY GeneratingFacts
  <2>2. FunctionsByName
    BY DEF Generating, GeneratorInv
  <2> QED BY <1>3, <1>4, <1>6, <1>7, <2>1, <2>2 DEF FunctionsByName
<1>12. BodiesByDefinition'
  <2>1. BodiesByDefinition
    BY DEF Generating, GeneratorInv
  <2>2. ASSUME NEW i \in DOMAIN tunit.defs, Begun(i)
        PROVE  functions'[FunctionOf(i)].blocks = 1
    <3>1. FunctionOf(i) \in DOMAIN functions
      <4>1. tunit.defs[i].name \in FuncNames
        BY <1>2, UnitType
      <4>2. FunctionOf(i) # NoFunction
        BY <2>2, <4>1 DEF Generating, GeneratorInv, FunctionsByName, FunctionOf
      <4> QED BY <4>1, <4>2, GeneratingFacts DEF FunctionOf
    <3> QED BY <1>3, <2>1, <2>2, <3>1 DEF BodiesByDefinition
  <2>3. insert_point = FunctionOf(gen_pos.fn) /\ functions[insert_point].blocks = 1
    <3>1. Begun(gen_pos.fn)
      BY <1>2, <1>5 DEF Begun, IsPlace, GenPosition
    <3> QED BY <1>2, <1>5, <2>1, <3>1 DEF BodiesByDefinition
  <2>4. gen_pos'.fn = gen_pos.fn
    BY DEF BodyEffect
  <2>5. InDefinition' => insert_point' = FunctionOf(gen_pos'.fn)
    BY <1>4, <2>3, <2>4
  <2>6. \A f \in DOMAIN functions' :
          /\ functions'[f].blocks # 0 =>
               \E i \in DOMAIN tunit.defs : Begun(i) /\ FunctionOf(i) = f
          /\ functions'[f].blocks = 0 => functions'[f].code = <<>>
    BY <1>3, <2>1, <2>3 DEF BodiesByDefinition
  <2>7. FunctionOf(gen_pos.fn)' = FunctionOf(gen_pos'.fn)
    BY <1>4 DEF FunctionOf
  <2> QED BY <1>3, <1>6, <1>8, <2>2, <2>5, <2>6, <2>7 DEF BodiesByDefinition
<1>13. CallsByName'
  <2> SUFFICES ASSUME NEW f \in DOMAIN functions, NEW j \in DOMAIN functions'[f].code,
                      functions'[f].code[j].op = "call"
               PROVE  /\ functions'[f].code[j].callee \in DOMAIN functions
                      /\ func_map[functions[functions'[f].code[j].callee].name]
                           = functions'[f].code[j].callee
    BY <1>3, <1>4 DEF CallsByName
  <2>1. CallsByName
    BY DEF Generating, GeneratorInv
  <2>2. CASE j \in DOMAIN functions[f].code /\ functions'[f].code[j] = functions[f].code[j]
    BY <2>1, <2>2 DEF CallsByName
  <2>3. ASSUME NEW instrs \in Seq(Instruction), CallsMapped(instrs),
               NEW m \in DOMAIN instrs, functions'[f].code[j] = instrs[m]
        PROVE  /\ functions'[f].code[j].callee \in DOMAIN functions
               /\ func_map[functions[functions'[f].code[j].callee].name]
                    = functions'[f].code[j].callee
    <3>1. PICK name \in FuncNames : func_map[name] = instrs[m].callee
      BY <2>3 DEF CallsMapped
    <3>2. instrs[m].callee # NoFunction
      BY <2>3 DEF CallsMapped
    <3>3. functions[func_map[name]].name = name /\ func_map[name] \in DOMAIN functions
      BY <3>1, <3>2, GeneratingFacts DEF Generating, GeneratorInv, FunctionsByName
    <3> QED BY <2>3, <3>1, <3>3
  <2>4. CASE UNCHANGED functions
    BY <2>2, <2>4
  <2>5. CASE \E instrs \in Seq(Instruction) : CallsMapped(instrs) /\ Appended(instrs)
    <3>1. PICK instrs \in Seq(Instruction) : CallsMapped(instrs) /\ Appended(instrs)
      BY <2>5
    <3>2. CASE f # insert_point
      BY <1>3, <2>2, <3>2
    <3>3. CASE f = insert_point
      <4>1. functions'[f].code = functions[f].code \o instrs
        BY <1>1, <1>2, <3>1, <3>3, AppendedFunctions
      <4>2. functions[f].code \in Seq(Instruction)
        BY <1>2, FunctionFields
      <4> DEFINE code == functions[f].code
      <4>3. j \in DOMAIN (code \o instrs) /\ functions'[f].code[j] = (code \o instrs)[j]
        BY <4>1
      <4> HIDE DEF code
      <4>4. \/ j \in DOMAIN code /\ (code \o instrs)[j] = code[j]
            \/ \E m \in DOMAIN instrs : (code \o instrs)[j] = instrs[m]
        BY <4>2, <4>3, AppendedCode DEF code
      <4>5. CASE j \in DOMAIN code /\ (code \o instrs)[j] = code[j]
        BY <2>2, <4>3, <4>5 DEF code
      <4>6. CASE \E m \in DOMAIN instrs : (code \o instrs)[j] = instrs[m]
        BY <2>3, <3>1, <4>3, <4>6
      <4> QED BY <4>4, <4>5, <4>6
    <3> QED BY <3>2, <3>3
  <2> QED BY <2>4, <2>5 DEF BodyEffect
<1>14. ArgumentsEntered'
  <2>1. \A k \in DOMAIN tunit.defs[gen_pos.fn].params :
          tunit.defs[gen_pos.fn].params[k] \in VarNames
    <3>1. tunit.defs[gen_pos.fn].params \in Seq(VarNames)
      BY <1>2, UnitType
    <3> QED BY <3>1
  <2>2. DeclarationsOf(tunit, tunit.defs[gen_pos.fn].name)' =
          DeclarationsOf(tunit, tunit.defs[gen_pos'.fn].name)
    BY DEF DeclarationsOf
  <2> QED BY <2>1, <2>2 DEF Generating, GeneratorInv, ArgumentsEntered, BodyEffect
<1>15. NeverThrows'
  BY DEF BodyEffect, NeverThrows
<1> QED BY <1>9, <1>10, <1>11, <1>12, <1>13, <1>14, <1>15 DEF GeneratorInv

(* The greatest of some numbers. *)
LEMMA MaxIsGreatest ==
  ASSUME NEW T \in SUBSET Nat, T # {}, NEW n \in Nat, \A y \in T : y <= n
  PROVE  Max(T) \in T /\ \A y \in T : y <= Max(T)
<1> DEFINE U == {m \in Nat : \A y \in T : y <= m}
<1>1. U \in SUBSET Nat /\ U # {}
  OBVIOUS
<1>2. Min(U) \in U /\ \A m \in U : Min(U) <= m
  BY <1>1, MinIsLeast
<1>3. PICK m \in U : m = Min(U)
  BY <1>2
<1>4. m \in T
  <2> SUFFICES ASSUME m \notin T PROVE FALSE
    OBVIOUS
  <2>1. \A y \in T : y < m
    BY <1>3
  <2>2. m - 1 \in Nat
    <3>1. PICK y \in T : y \in Nat
      OBVIOUS
    <3>2. y < m /\ m \in Nat
      BY <2>1, <3>1
    <3> QED BY <3>1, <3>2
  <2>3. m - 1 \in U
    BY <2>1, <2>2
  <2> QED BY <1>2, <1>3, <2>3
<1>5. \A y \in T : m >= y
  BY <1>3
<1>6. \E x \in T : \A y \in T : x >= y
  BY <1>4, <1>5
<1>7. Max(T) \in T /\ \A y \in T : Max(T) >= y
  BY <1>6 DEF Max
<1> QED BY <1>7

(* The value table with the arguments of a function. *)
LEMMA ArgumentsType ==
  ASSUME value_table \in [VarNames -> Value \cup {NoValue}],
         NEW s, NEW S, func_table[s].params \in Seq(S), NEW fn \in Nat
  PROVE  /\ WithArguments(s, fn) \in [VarNames -> Value \cup {NoValue}]
         /\ \A x \in VarNames :
              (\E k \in DOMAIN func_table[s].params : func_table[s].params[k].name = x)
              => WithArguments(s, fn)[x] # NoValue
<1> DEFINE params == func_table[s].params
           places(x) == {k \in DOMAIN params : params[k].name = x}
<1>1. WithArguments(s, fn) = [x \in VarNames |-> IF places(x) = {} THEN value_table[x]
                                                ELSE Argument(fn, Max(places(x)))]
  BY DEF WithArguments
<1>2. ASSUME NEW x \in VarNames, places(x) # {}
      PROVE  Argument(fn, Max(places(x))) \in Value
  <2>1. /\ places(x) \in SUBSET Nat /\ Len(params) \in Nat
        /\ \A k \in places(x) : k <= Len(params)
    OBVIOUS
  <2> HIDE DEF places
  <2>2. Max(places(x)) \in Nat
    BY <1>2, <2>1, MaxIsGreatest
  <2> QED BY <2>2 DEF Argument, Value
<1>3. \A x \in VarNames :
        (\E k \in DOMAIN params : params[k].name = x) <=> places(x) # {}
  OBVIOUS
<1> HIDE DEF places
<1>4. WithArguments(s, fn) \in [VarNames -> Value \cup {NoValue}]
  BY <1>1, <1>2
<1>5. \A x \in VarNames : places(x) # {} => WithArguments(s, fn)[x] # NoValue
  BY <1>1, <1>2, ValueIsSome
<1> QED BY <1>3, <1>4, <1>5

(* A new function with b basic blocks, known by its name. *)
LEMMA FunctionMade ==
  ASSUME Generating, NEW s \in DOMAIN func_table, NEW b \in Nat,
         functions' = Append(functions, [NewFunction(s) EXCEPT !.blocks = b]),
         func_map' = [func_map EXCEPT ![func_table[s].name] = Len(functions')],
         value_table' = WithArguments(s, Len(functions'))
  PROVE  LET l == Len(functions')
             name == func_table[s].name
         IN  /\ name \in FuncNames
             /\ functions' \in Seq(LlvmFunction)
             /\ DOMAIN functions' = DOMAIN functions \cup {l}
             /\ l \notin DOMAIN functions /\ l # NoFunction
             /\ functions'[l].name = name /\ functions'[l].blocks = b
             /\ functions'[l].code = <<>>
             /\ \A f \in DOMAIN functions : functions'[f] = functions[f]
             /\ func_map' \in [FuncNames -> {NoFunction} \cup DOMAIN functions']
             /\ \A x \in FuncNames : func_map'[x] = IF x = name THEN l ELSE func_map[x]
             /\ value_table' \in [VarNames -> Value \cup {NoValue}]
             /\ \A x \in VarNames :
                  (\E k \in DOMAIN func_table[s].params : func_table[s].params[k].name = x)
                  => value_table'[x] # NoValue
<1> DEFINE e == [NewFunction(s) EXCEPT !.blocks = b]
           name == func_table[s].name
<1>1. func_table[s] \in FuncSymbol
  BY GeneratingFacts, BuiltFacts
<1>2. name \in FuncNames /\ func_table[s].params \in Seq(VariableSymbol)
  BY <1>1 DEF FuncSymbol
<1>3. e \in LlvmFunction /\ e.name = name /\ e.blocks = b /\ e.code = <<>>
  <2>1. Len(func_table[s].params) \in Nat
    BY <1>2
  <2>2. e = [name |-> name, arity |-> Len(func_table[s].params), blocks |-> b, code |-> <<>>]
    BY DEF NewFunction
  <2>3. <<>> \in Seq(Instruction)
    OBVIOUS
  <2> HIDE DEF e, name
  <2> QED BY <1>2, <2>1, <2>2, <2>3 DEF LlvmFunction
<1>4. functions \in Seq(LlvmFunction) /\ functions' = Append(functions, e)
  BY GeneratingFacts
<1> HIDE DEF e
<1>5. /\ functions' \in Seq(LlvmFunction)
      /\ Len(functions') = Len(functions) + 1
      /\ functions'[Len(functions) + 1] = e
      /\ \A f \in 1 .. Len(functions) : functions'[f] = functions[f]
  BY <1>3, <1>4, AppendProperties
<1>6. /\ DOMAIN functions' = DOMAIN functions \cup {Len(functions')}
      /\ Len(functions') \notin DOMAIN functions /\ Len(functions') # NoFunction
      /\ Len(functions') \in Nat
      /\ functions'[Len(functions')] = e
      /\ \A f \in DOMAIN functions : functions'[f] = functions[f]
  BY <1>4, <1>5 DEF NoFunction
<1>7. func_map \in [FuncNames -> {NoFunction} \cup DOMAIN functions]
  BY GeneratingFacts
<1> HIDE DEF name
<1>8. /\ func_map' \in [FuncNames -> {NoFunction} \cup DOMAIN functions']
      /\ \A x \in FuncNames : func_map'[x] = IF x = name THEN Len(functions') ELSE func_map[x]
  BY <1>2, <1>6, <1>7 DEF name
<1>9. /\ value_table' \in [VarNames -> Value \cup {NoValue}]
      /\ \A x \in VarNames :
           (\E k \in DOMAIN func_table[s].params : func_table[s].params[k].name = x)
           => value_table'[x] # NoValue
  BY <1>2, <1>6, GeneratingFacts, ArgumentsType
<1> QED BY <1>2, <1>3, <1>5, <1>6, <1>8, <1>9 DEF name

(* The symbol of a definition has its name, that of a declaration too. *)
LEMMA SymbolNames ==
  ASSUME Built
  PROVE  /\ \A d \in DOMAIN tunit.decls :
              /\ decl_scope[d] \in DOMAIN func_table
              /\ func_table[decl_scope[d]].name = tunit.decls[d].name
         /\ \A i \in DOMAIN tunit.defs :
              /\ def_scope[i] \in DOMAIN func_table
              /\ func_table[def_scope[i]].name = tunit.defs[i].name
<1>1. ASSUME NEW d \in DOMAIN tunit.decls
      PROVE  /\ decl_scope[d] \in DOMAIN func_table
             /\ func_table[decl_scope[d]].name = tunit.decls[d].name
  <2>1. decl_scope[d] = d /\ d \in DOMAIN func_table
    BY BuiltFacts
  <2> QED BY <2>1, SourceOfFunction
<1>2. ASSUME NEW i \in DOMAIN tunit.defs
      PROVE  /\ def_scope[i] \in DOMAIN func_table
             /\ func_table[def_scope[i]].name = tunit.defs[i].name
  <2>1. /\ def_scope[i] \in DOMAIN func_table /\ def_scope[i] # None
        /\ def_scope[i] = ResolveFunc(tunit.defs[i].name)
        /\ func_table \in Seq(FuncSymbol)
    BY BuiltFacts
  <2> QED BY <2>1, ResolveFuncResult
<1> QED BY <1>1, <1>2

(* generate(function_declaration) keeps the invariant. *)
LEMMA DeclarationKeeps ==
  ASSUME Generating, GenDeclaration, UNCHANGED tunit
  PROVE  GeneratorInv'
<1> DEFINE i == gen_pos.fn
           s == decl_scope[i]
           l == Len(functions')
           q == EnterDecl(tunit, i + 1)
           name == tunit.decls[i].name
<1>1. gen_pos.at = "decl" /\ ~InDefinition
  BY DEF GenDeclaration, InDefinition
<1>2. i \in DOMAIN tunit.decls /\ tunit \in TranslationUnit /\ Built
  BY <1>1, GeneratingFacts DEF IsPlace, Within
<1>3. s \in DOMAIN func_table /\ func_table[s].name = name
  BY <1>2, SymbolNames
<1>4. /\ functions' = Append(functions, [NewFunction(s) EXCEPT !.blocks = 0])
      /\ func_map' = [func_map EXCEPT ![func_table[s].name] = Len(functions')]
      /\ value_table' = WithArguments(s, Len(functions'))
      /\ gen_pos' = q
      /\ UNCHANGED <<status, insert_point, frames>>
  <2>1. NewFunction(s) = [NewFunction(s) EXCEPT !.blocks = 0]
    BY DEF NewFunction
  <2> QED BY <2>1 DEF GenDeclaration
<1> HIDE DEF s
<1>5. /\ name \in FuncNames
      /\ functions' \in Seq(LlvmFunction)
      /\ DOMAIN functions' = DOMAIN functions \cup {l}
      /\ l \notin DOMAIN functions /\ l # NoFunction
      /\ functions'[l].name = name /\ functions'[l].blocks = 0
      /\ functions'[l].code = <<>>
      /\ \A f \in DOMAIN functions : functions'[f] = functions[f]
      /\ func_map' \in [FuncNames -> {NoFunction} \cup DOMAIN functions']
      /\ \A x \in FuncNames : func_map'[x] = IF x = name THEN l ELSE func_map[x]
      /\ value_table' \in [VarNames -> Value \cup {NoValue}]
  BY <1>3, <1>4, FunctionMade
<1> HIDE DEF l
<1>6. tunit.decls \in Seq(Prototype) /\ i \in Nat /\ i > 0
  <2>1. tunit.decls \in Seq(Prototype)
    BY <1>2, UnitType
  <2> QED BY <1>2, <2>1
<1>7. /\ IsPlace(q) /\ q.at \in {"decl", "def", "end"}
      /\ q.at = "decl" => q.fn = i + 1
      /\ q.at # "decl" => i + 1 > Len(tunit.decls)
      /\ q.at = "def" => q.fn = 1
      /\ q.at = "end" => DOMAIN tunit.defs = {}
  BY <1>2, <1>6, EnterDeclPlace
<1> HIDE DEF q
<1>8. \A d \in DOMAIN tunit.decls : DeclPassed(gen_pos', d) <=> DeclPassed(gen_pos, d) \/ d = i
  <2>1. \A d \in DOMAIN tunit.decls : d \in Nat /\ d > 0 /\ d <= Len(tunit.decls)
    BY <1>6
  <2>2. \A d \in DOMAIN tunit.decls : DeclPassed(gen_pos, d) <=> d < i
    BY <1>1 DEF DeclPassed
  <2>3. \A d \in DOMAIN tunit.decls : DeclPassed(gen_pos', d) <=> d <= i
    BY <1>4, <1>6, <1>7, <2>1 DEF DeclPassed
  <2> QED BY <1>6, <2>1, <2>2, <2>3
<1>9. \A j \in DOMAIN tunit.defs : ~Begun(j) /\ ~Begun(j)'
  <2>1. \A j \in DOMAIN tunit.defs : j \in Nat /\ j > 0
    <3>1. tunit.defs \in Seq(Definition)
      BY <1>2, UnitType
    <3> QED BY <3>1
  <2> QED BY <1>1, <1>4, <1>7, <2>1 DEF Begun, InDefinition
<1>10. frames = <<>> /\ frames' = <<>>
  BY <1>1, <1>4, GeneratingFacts
<1>11. insert_point \in {NoFunction} \cup DOMAIN functions
  BY GeneratingFacts
<1>12. GeneratorTypeOK'
  BY <1>4, <1>5, <1>7, <1>10, <1>11 DEF GeneratorTypeOK, IsPlace, Generating, Status
<1>13. GeneratorInside'
  <2>1. status' = "generating"
    BY <1>4 DEF Generating
  <2> QED BY <1>4, <1>7, <1>10, <2>1 DEF GeneratorInside, IsPlace
<1>14. FunctionsByName'
  <2>1. FunctionsByName
    BY DEF Generating, GeneratorInv
  <2>2. \A x \in FuncNames : func_map[x] # NoFunction => func_map[x] \in DOMAIN functions
    BY GeneratingFacts
  <2>3. \A x \in FuncNames : func_map'[x] # NoFunction => functions'[func_map'[x]].name = x
    BY <1>5, <2>1, <2>2 DEF FunctionsByName
  <2>4. ASSUME NEW x \in FuncNames
        PROVE  func_map'[x] # NoFunction <=>
                 \E d \in DOMAIN tunit.decls : DeclPassed(gen_pos', d) /\ tunit.decls[d].name = x
    BY <1>2, <1>5, <1>8, <1>9, <2>1 DEF FunctionsByName
  <2> QED BY <1>9, <2>3, <2>4 DEF FunctionsByName
<1>15. \A f \in DOMAIN functions' : functions'[f].blocks = 0 /\ functions'[f].code = <<>>
  <2>1. BodiesByDefinition
    BY DEF Generating, GeneratorInv
  <2> QED BY <1>5, <1>9, <2>1 DEF BodiesByDefinition
<1>16. ~InDefinition'
  BY <1>4, <1>7 DEF InDefinition
<1>17. BodiesByDefinition'
  BY <1>9, <1>15, <1>16 DEF BodiesByDefinition
<1>18. CallsByName'
  BY <1>15 DEF CallsByName
<1>19. ArgumentsEntered'
  BY <1>16 DEF ArgumentsEntered, InDefinition
<1>20. NeverThrows'
  BY <1>4 DEF NeverThrows, Generating
<1> QED BY <1>12, <1>13, <1>14, <1>17, <1>18, <1>19, <1>20 DEF GeneratorInv

(* The definitions begun, at a definition and behind its signature. *)
LEMMA BeginDefinition ==
  ASSUME Generating, gen_pos.at = "def", gen_pos' = EnterParam(tunit, gen_pos.fn, 1)
  PROVE  /\ gen_pos.fn \in DOMAIN tunit.defs /\ gen_pos.fn \in Nat
         /\ IsPlace(gen_pos') /\ gen_pos'.fn = gen_pos.fn
         /\ gen_pos'.at \in {"param", "var", "node", "post_def"} /\ InDefinition'
         /\ \A j \in DOMAIN tunit.defs : Begun(j)' <=> Begun(j) \/ j = gen_pos.fn
         /\ ~Begun(gen_pos.fn)
         /\ \A d : DeclPassed(gen_pos, d) /\ DeclPassed(gen_pos', d)
         /\ frames = <<>>
<1>1. gen_pos.fn \in DOMAIN tunit.defs /\ tunit \in TranslationUnit /\ frames = <<>>
  BY GeneratingFacts DEF IsPlace, Within
<1>2. tunit.defs \in Seq(Definition) /\ gen_pos.fn \in Nat
  BY <1>1, UnitType
<1>3. /\ IsPlace(gen_pos') /\ gen_pos'.fn = gen_pos.fn
      /\ gen_pos'.at \in {"param", "var", "node", "post_def"} /\ InDefinition'
  BY <1>1, EnterParamPlace DEF InDefinition
<1>4. \A j \in DOMAIN tunit.defs : j \in Nat
  BY <1>2
<1>5. \A j \in DOMAIN tunit.defs : Begun(j) <=> j < gen_pos.fn
  BY DEF Begun, InDefinition
<1>6. \A j \in DOMAIN tunit.defs : Begun(j)' <=> j <= gen_pos.fn
  BY <1>3 DEF Begun
<1> QED BY <1>1, <1>2, <1>3, <1>4, <1>5, <1>6 DEF DeclPassed

(* A definition not begun has a name that no definition begun has. *)
LEMMA BegunNames ==
  ASSUME Generating, NEW i \in DOMAIN tunit.defs, ~Begun(i),
         NEW j \in DOMAIN tunit.defs, Begun(j)
  PROVE  tunit.defs[j].name # tunit.defs[i].name
<1>1. Rules!DefinedOnce(tunit)
  BY GeneratingFacts, BuiltDefinedOnce
<1> QED BY <1>1 DEF Rules!DefinedOnce

(* A definition that makes its function keeps the invariant. *)
LEMMA NewDefinitionKeeps ==
  ASSUME Generating, GenNewDefinition, UNCHANGED tunit
  PROVE  GeneratorInv'
<1> DEFINE i == gen_pos.fn
           s == def_scope[i]
           l == Len(functions')
           name == tunit.defs[i].name
<1>1. gen_pos.at = "def" /\ func_map[name] = NoFunction
      /\ gen_pos' = EnterParam(tunit, i, 1)
  BY DEF GenNewDefinition
<1>2. /\ i \in DOMAIN tunit.defs /\ i \in Nat
      /\ IsPlace(gen_pos') /\ gen_pos'.fn = i
      /\ gen_pos'.at \in {"param", "var", "node", "post_def"} /\ InDefinition'
      /\ \A j \in DOMAIN tunit.defs : Begun(j)' <=> Begun(j) \/ j = i
      /\ ~Begun(i)
      /\ \A d : DeclPassed(gen_pos, d) /\ DeclPassed(gen_pos', d)
      /\ frames = <<>>
  BY <1>1, BeginDefinition
<1>3. s \in DOMAIN func_table /\ func_table[s].name = name /\ Built /\ tunit \in TranslationUnit
  BY <1>2, GeneratingFacts, SymbolNames
<1>4. /\ functions' = Append(functions, [NewFunction(s) EXCEPT !.blocks = 1])
      /\ func_map' = [func_map EXCEPT ![func_table[s].name] = Len(functions')]
      /\ value_table' = WithArguments(s, Len(functions'))
      /\ insert_point' = l
      /\ UNCHANGED <<status, frames>>
  BY <1>3 DEF GenNewDefinition
<1>5. /\ name \in FuncNames
      /\ functions' \in Seq(LlvmFunction)
      /\ DOMAIN functions' = DOMAIN functions \cup {l}
      /\ l \notin DOMAIN functions /\ l # NoFunction
      /\ functions'[l].name = name /\ functions'[l].blocks = 1
      /\ functions'[l].code = <<>>
      /\ \A f \in DOMAIN functions : functions'[f] = functions[f]
      /\ func_map' \in [FuncNames -> {NoFunction} \cup DOMAIN functions']
      /\ \A x \in FuncNames : func_map'[x] = IF x = name THEN l ELSE func_map[x]
      /\ value_table' \in [VarNames -> Value \cup {NoValue}]
      /\ \A x \in VarNames :
           (\E k \in DOMAIN func_table[s].params : func_table[s].params[k].name = x)
           => value_table'[x] # NoValue
  <2> HIDE DEF s, i
  <2> QED BY <1>3, <1>4, FunctionMade DEF name
<1> HIDE DEF s, l
<1>6. ASSUME NEW j \in DOMAIN tunit.defs, Begun(j)
      PROVE  /\ tunit.defs[j].name \in FuncNames /\ tunit.defs[j].name # name
             /\ FunctionOf(j) \in DOMAIN functions /\ FunctionOf(j)' = FunctionOf(j)
  <2>1. tunit.defs[j].name \in FuncNames
    BY <1>3, UnitType
  <2>2. FunctionOf(j) # NoFunction
    BY <1>6, <2>1 DEF Generating, GeneratorInv, FunctionsByName, FunctionOf
  <2>3. FunctionOf(j) \in DOMAIN functions
    BY <2>1, <2>2, GeneratingFacts DEF FunctionOf
  <2>4. tunit.defs[j].name # name
    BY <1>2, <1>6, BegunNames
  <2>5. FunctionOf(j)' = FunctionOf(j)
    BY <1>5, <2>1, <2>4 DEF FunctionOf
  <2> QED BY <2>1, <2>3, <2>4, <2>5
<1>7. FunctionOf(i)' = l /\ \A j : j = i => FunctionOf(j)' = l
  <2>1. func_map'[tunit'.defs[i].name] = l
    BY <1>5
  <2> QED BY <1>2, <2>1 DEF FunctionOf
<1>8. GeneratorTypeOK'
  <2>1. insert_point' \in {NoFunction} \cup DOMAIN functions'
    BY <1>4, <1>5
  <2> QED BY <1>2, <1>4, <1>5, <2>1 DEF GeneratorTypeOK, IsPlace, Generating, Status
<1>9. GeneratorInside'
  <2>1. status' = "generating"
    BY <1>4 DEF Generating
  <2> QED BY <1>2, <1>4, <2>1 DEF GeneratorInside, IsPlace
<1>10. FunctionsByName'
  <2>1. FunctionsByName
    BY DEF Generating, GeneratorInv
  <2>2. \A x \in FuncNames : func_map[x] # NoFunction => func_map[x] \in DOMAIN functions
    BY GeneratingFacts
  <2>3. \A x \in FuncNames : func_map'[x] # NoFunction => functions'[func_map'[x]].name = x
    BY <1>5, <2>1, <2>2 DEF FunctionsByName
  <2>4. ASSUME NEW x \in FuncNames
        PROVE  func_map'[x] # NoFunction <=>
                 \/ \E d \in DOMAIN tunit.decls : tunit.decls[d].name = x
                 \/ \E j \in DOMAIN tunit.defs : Begun(j)' /\ tunit.defs[j].name = x
    BY <1>2, <1>5, <2>1 DEF FunctionsByName
  <2> QED BY <1>2, <2>3, <2>4 DEF FunctionsByName
<1>11. BodiesByDefinition'
  <2>1. BodiesByDefinition
    BY DEF Generating, GeneratorInv
  <2>2. ASSUME NEW j \in DOMAIN tunit.defs, Begun(j)'
        PROVE  functions'[FunctionOf(j)'].blocks = 1
    <3>1. CASE j = i
      BY <1>5, <1>7, <3>1
    <3>2. CASE Begun(j)
      BY <1>5, <1>6, <2>1, <3>2 DEF BodiesByDefinition
    <3> QED BY <1>2, <2>2, <3>1, <3>2
  <2>3. ASSUME NEW f \in DOMAIN functions'
        PROVE  /\ functions'[f].blocks # 0 =>
                    \E j \in DOMAIN tunit.defs : Begun(j)' /\ FunctionOf(j)' = f
               /\ functions'[f].blocks = 0 => functions'[f].code = <<>>
    <3>1. CASE f = l
      BY <1>2, <1>5, <1>7, <3>1
    <3>2. CASE f \in DOMAIN functions
      <4>1. functions'[f] = functions[f]
        BY <1>5, <3>2
      <4>2. functions[f].blocks # 0 =>
              \E j \in DOMAIN tunit.defs : Begun(j) /\ FunctionOf(j) = f
        BY <2>1, <3>2 DEF BodiesByDefinition
      <4>3. functions[f].blocks = 0 => functions[f].code = <<>>
        BY <2>1, <3>2 DEF BodiesByDefinition
      <4> QED BY <1>2, <1>6, <4>1, <4>2, <4>3
    <3> QED BY <1>5, <3>1, <3>2
  <2>4. insert_point' = FunctionOf(gen_pos.fn)'
    BY <1>2, <1>4, <1>7
  <2> QED BY <2>2, <2>3, <1>2, <1>4, <1>7 DEF BodiesByDefinition
<1>12. CallsByName'
  <2>1. CallsByName
    BY DEF Generating, GeneratorInv
  <2> SUFFICES ASSUME NEW f \in DOMAIN functions', NEW j \in DOMAIN functions'[f].code,
                      functions'[f].code[j].op = "call"
               PROVE  LET c == functions'[f].code[j].callee
                      IN  /\ c \in DOMAIN functions'
                          /\ func_map'[functions'[c].name] = c
    BY DEF CallsByName
  <2> DEFINE c == functions'[f].code[j].callee
  <2>2. f \in DOMAIN functions /\ functions'[f] = functions[f]
    BY <1>5
  <2>3. c \in DOMAIN functions /\ func_map[functions[c].name] = c
    BY <2>1, <2>2 DEF CallsByName
  <2>4. functions'[c] = functions[c] /\ functions[c].name \in FuncNames
    BY <1>5, <2>3, GeneratingFacts, FunctionFields
  <2>5. functions[c].name # name
    <3>1. c # NoFunction
      BY <2>3, GeneratingFacts DEF NoFunction
    <3> QED BY <1>1, <2>3, <3>1
  <2> HIDE DEF c
  <2>6. c \in DOMAIN functions' /\ func_map'[functions'[c].name] = c
    BY <1>5, <2>3, <2>4, <2>5
  <2> QED BY <2>6 DEF c
<1>13. ArgumentsEntered'
  <2> SUFFICES ASSUME DeclarationsOf(tunit, name) = {}, NEW k \in DOMAIN tunit.defs[i].params
               PROVE  value_table'[tunit.defs[i].params[k]] # NoValue
    <3>1. DeclarationsOf(tunit, tunit.defs[gen_pos.fn].name)' = DeclarationsOf(tunit, name)
      BY <1>2 DEF DeclarationsOf
    <3> QED BY <1>2, <3>1 DEF ArgumentsEntered
  <2>1. s \notin DOMAIN tunit.decls
    <3>1. s \in DOMAIN tunit.decls => tunit.decls[s].name = name
      <4>1. s \in DOMAIN tunit.decls => decl_scope[s] = s
        BY <1>3, BuiltFacts
      <4> QED BY <1>3, <4>1, SymbolNames
    <3> QED BY <3>1 DEF DeclarationsOf
  <2>2. PICK j \in DOMAIN tunit.defs :
          /\ def_scope[j] = s
          /\ func_table[s].params = [m \in DOMAIN tunit.defs[j].params |->
                               NewVariable(tunit.defs[j].params[m], "def", j, m)]
    BY <1>3, <2>1, SourceOfFunction
  <2>3. j = i
    <3>1. BoundOnce /\ DOMAIN def_scope = DOMAIN tunit.defs /\ def_scope[i] # None
      BY <1>2, <1>3, BuiltFacts DEF Built, AnalysisFacts, AnalyzerInv
    <3> QED BY <1>2, <2>2, <3>1 DEF BoundOnce, s
  <2>4. k \in DOMAIN func_table[s].params
        /\ func_table[s].params[k].name = tunit.defs[i].params[k]
    BY <2>2, <2>3 DEF NewVariable
  <2>5. tunit.defs[i].params[k] \in VarNames
    <3>1. tunit.defs[i].params \in Seq(VarNames)
      BY <1>2, <1>3, UnitType
    <3> QED BY <3>1
  <2> QED BY <1>5, <2>4, <2>5
<1>14. NeverThrows'
  BY <1>4 DEF NeverThrows, Generating
<1> QED BY <1>8, <1>9, <1>10, <1>11, <1>12, <1>13, <1>14 DEF GeneratorInv

(* A definition that finds its function by name keeps the invariant. *)
LEMMA KnownDefinitionKeeps ==
  ASSUME Generating, GenKnownDefinition, UNCHANGED tunit
  PROVE  GeneratorInv'
<1> DEFINE i == gen_pos.fn
           name == tunit.defs[i].name
           fn == func_map[name]
           new == [functions[fn] EXCEPT !.blocks = functions[fn].blocks + 1]
<1>1. gen_pos.at = "def" /\ fn # NoFunction
      /\ gen_pos' = EnterParam(tunit, i, 1)
      /\ functions' = [functions EXCEPT ![fn] = new]
      /\ insert_point' = fn
      /\ UNCHANGED <<status, func_map, value_table, frames>>
  BY DEF GenKnownDefinition, tables
<1>2. /\ i \in DOMAIN tunit.defs /\ i \in Nat
      /\ IsPlace(gen_pos') /\ gen_pos'.fn = i
      /\ gen_pos'.at \in {"param", "var", "node", "post_def"} /\ InDefinition'
      /\ \A j \in DOMAIN tunit.defs : Begun(j)' <=> Begun(j) \/ j = i
      /\ ~Begun(i)
      /\ \A d : DeclPassed(gen_pos, d) /\ DeclPassed(gen_pos', d)
      /\ frames = <<>>
  BY <1>1, BeginDefinition
<1>3. /\ Built /\ tunit \in TranslationUnit /\ functions \in Seq(LlvmFunction)
      /\ func_map \in [FuncNames -> {NoFunction} \cup DOMAIN functions]
      /\ value_table \in [VarNames -> Value \cup {NoValue}]
  BY GeneratingFacts
<1>4. name \in FuncNames
  BY <1>2, <1>3, UnitType
<1>5. fn \in DOMAIN functions /\ functions[fn].name = name
  BY <1>1, <1>3, <1>4 DEF Generating, GeneratorInv, FunctionsByName
<1>6. /\ FunctionsByName /\ BodiesByDefinition /\ CallsByName
  BY DEF Generating, GeneratorInv
<1>7. functions[fn].blocks = 0
  <2> SUFFICES ASSUME functions[fn].blocks # 0 PROVE FALSE
    OBVIOUS
  <2>1. PICK j \in DOMAIN tunit.defs : Begun(j) /\ FunctionOf(j) = fn
    BY <1>5, <1>6 DEF BodiesByDefinition
  <2>2. tunit.defs[j].name \in FuncNames
    BY <1>3, UnitType
  <2>3. functions[fn].name = tunit.defs[j].name
    BY <1>1, <1>6, <2>1, <2>2 DEF FunctionsByName, FunctionOf
  <2> QED BY <1>2, <1>5, <2>1, <2>3, BegunNames
<1>8. new \in LlvmFunction /\ new.name = name /\ new.blocks = 1 /\ new.code = functions[fn].code
  <2>1. functions[fn] \in LlvmFunction
    BY <1>3, <1>5
  <2> HIDE DEF fn
  <2> QED BY <1>5, <1>7, <2>1 DEF LlvmFunction
<1> HIDE DEF new
<1>9. /\ functions' \in Seq(LlvmFunction) /\ DOMAIN functions' = DOMAIN functions
      /\ \A f \in DOMAIN functions : functions'[f] = IF f = fn THEN new ELSE functions[f]
  <2>1. fn \in 1 .. Len(functions)
    BY <1>3, <1>5
  <2> HIDE DEF fn
  <2>2. /\ [functions EXCEPT ![fn] = new] \in Seq(LlvmFunction)
        /\ Len([functions EXCEPT ![fn] = new]) = Len(functions)
        /\ \A f \in 1 .. Len(functions) :
             [functions EXCEPT ![fn] = new][f] = IF f = fn THEN new ELSE functions[f]
    BY <1>3, <1>8, <2>1, ExceptSeq
  <2> QED BY <1>1, <1>3, <2>2
<1>10. \A f \in DOMAIN functions :
         /\ functions'[f].name = functions[f].name /\ functions'[f].code = functions[f].code
         /\ f # fn => functions'[f].blocks = functions[f].blocks
         /\ f = fn => functions'[f].blocks = 1
  BY <1>5, <1>8, <1>9
<1>11. \A j : FunctionOf(j)' = FunctionOf(j)
  BY <1>1 DEF FunctionOf
<1>12. FunctionOf(i) = fn
  BY DEF FunctionOf
<1> HIDE DEF fn
<1>13. ASSUME NEW j \in DOMAIN tunit.defs, Begun(j)
       PROVE  FunctionOf(j) \in DOMAIN functions
  <2>1. tunit.defs[j].name \in FuncNames
    BY <1>3, UnitType
  <2>2. FunctionOf(j) # NoFunction
    BY <1>6, <1>13, <2>1 DEF FunctionsByName, FunctionOf
  <2> QED BY <1>3, <2>1, <2>2 DEF FunctionOf
<1>14. GeneratorTypeOK'
  <2>1. insert_point' \in {NoFunction} \cup DOMAIN functions'
    BY <1>1, <1>5, <1>9
  <2> QED BY <1>1, <1>2, <1>3, <1>9, <2>1 DEF GeneratorTypeOK, IsPlace, Generating, Status
<1>15. GeneratorInside'
  <2>1. status' = "generating"
    BY <1>1 DEF Generating
  <2> QED BY <1>1, <1>2, <2>1 DEF GeneratorInside, IsPlace
<1>16. FunctionsByName'
  <2>1. ASSUME NEW x \in FuncNames, func_map[x] # NoFunction
        PROVE  functions'[func_map[x]].name = x
    <3>1. func_map[x] \in DOMAIN functions
      BY <1>3, <2>1
    <3> QED BY <1>6, <1>10, <2>1, <3>1 DEF FunctionsByName
  <2>2. ASSUME NEW x \in FuncNames
        PROVE  func_map[x] # NoFunction <=>
                 \/ \E d \in DOMAIN tunit.decls : tunit.decls[d].name = x
                 \/ \E j \in DOMAIN tunit.defs : Begun(j)' /\ tunit.defs[j].name = x
    <3>1. func_map[name] # NoFunction
      BY <1>1 DEF fn
    <3> QED BY <1>2, <1>6, <3>1 DEF FunctionsByName
  <2> QED BY <1>1, <1>2, <2>1, <2>2 DEF FunctionsByName
<1>17. BodiesByDefinition'
  <2>1. ASSUME NEW j \in DOMAIN tunit.defs, Begun(j)'
        PROVE  functions'[FunctionOf(j)].blocks = 1
    <3>1. CASE j = i
      BY <1>5, <1>10, <1>12, <3>1
    <3>2. CASE Begun(j)
      BY <1>6, <1>10, <1>13, <3>2 DEF BodiesByDefinition
    <3> QED BY <1>2, <2>1, <3>1, <3>2
  <2>2. ASSUME NEW f \in DOMAIN functions
        PROVE  /\ functions'[f].blocks # 0 =>
                    \E j \in DOMAIN tunit.defs : Begun(j)' /\ FunctionOf(j) = f
               /\ functions'[f].blocks = 0 => functions'[f].code = <<>>
    <3>1. CASE f = fn
      BY <1>2, <1>10, <1>12, <3>1
    <3>2. CASE f # fn
      BY <1>2, <1>6, <1>10, <3>2 DEF BodiesByDefinition
    <3> QED BY <3>1, <3>2
  <2>3. insert_point' = FunctionOf(gen_pos.fn)'
    BY <1>1, <1>2, <1>11, <1>12 DEF FunctionOf
  <2> QED BY <1>2, <1>9, <1>11, <2>1, <2>2, <2>3 DEF BodiesByDefinition
<1>18. CallsByName'
  BY <1>1, <1>6, <1>9, <1>10 DEF CallsByName
<1>19. ArgumentsEntered'
  <2>1. DeclarationsOf(tunit, name) # {}
    <3>1. PICK d \in DOMAIN tunit.decls : tunit.decls[d].name = name
      <4>1. func_map[name] # NoFunction
        BY <1>1 DEF fn
      <4>2. \A j \in DOMAIN tunit.defs : Begun(j) => tunit.defs[j].name # name
        BY <1>2, BegunNames
      <4> QED BY <1>4, <1>6, <4>1, <4>2 DEF FunctionsByName
    <3> QED BY <3>1 DEF DeclarationsOf
  <2>2. DeclarationsOf(tunit, tunit.defs[gen_pos.fn].name)' = DeclarationsOf(tunit, name)
    BY <1>2 DEF DeclarationsOf
  <2> QED BY <1>2, <2>1, <2>2 DEF ArgumentsEntered
<1>20. NeverThrows'
  BY <1>1 DEF NeverThrows, Generating
<1> QED BY <1>14, <1>15, <1>16, <1>17, <1>18, <1>19, <1>20 DEF GeneratorInv

(* Between two definitions, and at the end. *)
LEMMA LeaveKeeps ==
  ASSUME Generating, LeaveDefinition \/ LeaveUnit, UNCHANGED tunit
  PROVE  GeneratorInv'
<1>1. UNCHANGED <<functions, func_map, value_table, insert_point, frames>>
  BY DEF LeaveDefinition, LeaveUnit, tables
<1>2. /\ tunit \in TranslationUnit /\ IsPlace(gen_pos) /\ tunit.defs \in Seq(Definition)
      /\ DOMAIN tunit.defs = 1 .. Len(tunit.defs) /\ Len(tunit.defs) \in Nat
  BY GeneratingFacts, UnitType
<1>3. /\ frames = <<>> /\ IsPlace(gen_pos') /\ ~InDefinition'
      /\ status' \in {"generating", "generated"}
      /\ status' = "generated" => gen_pos'.at = "end"
      /\ \A j \in DOMAIN tunit.defs : Begun(j)' <=> Begun(j)
      /\ \A d : DeclPassed(gen_pos, d) /\ DeclPassed(gen_pos', d)
  <2>1. CASE LeaveUnit
    <3>1. gen_pos.at = "end" /\ gen_pos' = gen_pos /\ status' = "generated"
      BY <2>1 DEF LeaveUnit
    <3> QED BY <1>2, <3>1, GeneratingFacts DEF InDefinition, Begun, DeclPassed
  <2>2. CASE LeaveDefinition
    <3> DEFINE i == gen_pos.fn
    <3>1. /\ gen_pos.at = "post_def" /\ frames = <<>>
          /\ gen_pos' = EnterDef(tunit, i + 1) /\ UNCHANGED status
      BY <2>2 DEF LeaveDefinition
    <3>2. i \in DOMAIN tunit.defs /\ i \in Nat
      BY <1>2, <3>1 DEF IsPlace, Within
    <3>3. /\ IsPlace(gen_pos') /\ gen_pos'.at \in {"def", "end"}
          /\ gen_pos'.at = "def" => gen_pos'.fn = i + 1
          /\ gen_pos'.at = "end" => i + 1 > Len(tunit.defs)
      BY <1>2, <3>1, <3>2, EnterDefPlace
    <3>4. \A j \in DOMAIN tunit.defs : Begun(j) <=> j <= i
      BY <3>1 DEF Begun, InDefinition
    <3>5. \A j \in DOMAIN tunit.defs : Begun(j)' <=> j <= i
      <4>1. \A j \in DOMAIN tunit.defs : j \in Nat /\ j <= Len(tunit.defs)
        BY <1>2
      <4> QED BY <1>2, <3>2, <3>3, <4>1 DEF Begun, InDefinition
    <3> QED BY <3>1, <3>3, <3>4, <3>5 DEF InDefinition, DeclPassed, Generating
  <2> QED BY <2>1, <2>2
<1>4. \A j : FunctionOf(j)' = FunctionOf(j)
  BY <1>1 DEF FunctionOf
<1>5. GeneratorTypeOK /\ FunctionsByName /\ BodiesByDefinition /\ CallsByName
  BY DEF Generating, GeneratorInv
<1>6. GeneratorTypeOK'
  BY <1>1, <1>3, <1>5 DEF GeneratorTypeOK, IsPlace, Status
<1>7. GeneratorInside'
  BY <1>1, <1>3 DEF GeneratorInside, IsPlace
<1>8. FunctionsByName'
  BY <1>1, <1>3, <1>5 DEF FunctionsByName
<1>9. BodiesByDefinition'
  BY <1>1, <1>3, <1>4, <1>5 DEF BodiesByDefinition
<1>10. CallsByName'
  BY <1>1, <1>5 DEF CallsByName
<1>11. ArgumentsEntered'
  BY <1>3 DEF ArgumentsEntered, InDefinition
<1>12. NeverThrows'
  BY <1>3 DEF NeverThrows
<1> QED BY <1>6, <1>7, <1>8, <1>9, <1>10, <1>11, <1>12 DEF GeneratorInv

(* The generator, step by step. *)
LEMMA GeneratorStep ==
  ASSUME Generating, GeneratorNext, UNCHANGED tunit
  PROVE  GeneratorInv'
<1>1. CASE \/ GenParameter \/ GenVariable \/ GenNumber \/ GenIdentifier
           \/ BeginExpression \/ BeginAssignment
           \/ FoldConstants \/ FinishBinary \/ FinishAssignment \/ FinishCall \/ FinishReturn
  BY <1>1, BodyKeeps, ParameterEffect, VariableEffect, NumberEffect, IdentifierEffect,
     BeginExpressionEffect, BeginAssignmentEffect, FoldEffect, BinaryEffect,
     AssignmentEffect, CallEffect, ReturnEffect
<1>2. CASE LeaveDefinition \/ LeaveUnit
  BY <1>2, LeaveKeeps
<1> QED BY <1>1, <1>2, DeclarationKeeps, NewDefinitionKeeps, KnownDefinitionKeeps
        DEF GeneratorNext

----------------------------------------------------------------------------
(* Nothing dangles: what is a value of some functions, of a value table, of *)
(* a stack and of code over them.                                           *)

MadeIn(fns, v) ==
  /\ IsConstant(v) => v.k \in -Limit .. Limit - 1
  /\ v.kind \in {"argument", "alloca", "result"} => v.fn \in DOMAIN fns
  /\ v.kind = "argument" => v.k \in 1 .. fns[v.fn].arity
  /\ v.kind \in {"alloca", "result"} => v.k \in DOMAIN fns[v.fn].code
  /\ v.kind = "alloca" => fns[v.fn].code[v.k].op = "alloca"
  /\ v.kind = "result" => fns[v.fn].code[v.k].op \in {"load", "call", "+", "-", "*", "/"}

AllMadeIn(fns, values) == \A o \in DOMAIN values : MadeIn(fns, values[o])

TableMade(fns, table) == \A x \in VarNames : MadeIn(fns, table[x])

StackMade(fns, stack) == \A j \in DOMAIN stack : AllMadeIn(fns, stack[j].operands)

InstrMade(fns, instr) ==
  /\ AllMadeIn(fns, instr.operands)
  /\ instr.op = "call" => instr.callee \in DOMAIN fns

CodeMade(fns) == \A f \in DOMAIN fns : \A j \in DOMAIN fns[f].code : InstrMade(fns, fns[f].code[j])

EverythingMade ==
  TableMade(functions, value_table) /\ StackMade(functions, frames) /\ CodeMade(functions)

(* The same of the functions, the value table and the stack there are.      *)
LEMMA DanglingMade == NothingDangles <=> (status # "crashed" => EverythingMade)
BY DEF NothingDangles, Made, EverythingMade, MadeIn, AllMadeIn, TableMade, StackMade,
       InstrMade, CodeMade

(* Functions are added, and code to those that are there. *)
Grows(fns, new) ==
  \A f \in DOMAIN fns :
    /\ f \in DOMAIN new /\ new[f].arity = fns[f].arity
    /\ \A j \in DOMAIN fns[f].code :
         j \in DOMAIN new[f].code /\ new[f].code[j] = fns[f].code[j]

(* What was made stays made. *)
LEMMA MadeStays ==
  ASSUME NEW fns, NEW new, Grows(fns, new)
  PROVE  /\ \A v : MadeIn(fns, v) => MadeIn(new, v)
         /\ \A values : AllMadeIn(fns, values) => AllMadeIn(new, values)
         /\ \A table : TableMade(fns, table) => TableMade(new, table)
         /\ \A stack : StackMade(fns, stack) => StackMade(new, stack)
         /\ \A instr : InstrMade(fns, instr) => InstrMade(new, instr)
<1>1. ASSUME NEW v, MadeIn(fns, v) PROVE MadeIn(new, v)
  <2>1. v.kind \in {"argument", "alloca", "result"} =>
          /\ v.fn \in DOMAIN fns /\ v.fn \in DOMAIN new
          /\ new[v.fn].arity = fns[v.fn].arity
    BY <1>1 DEF MadeIn, Grows
  <2>2. v.kind \in {"alloca", "result"} =>
          v.k \in DOMAIN new[v.fn].code /\ new[v.fn].code[v.k] = fns[v.fn].code[v.k]
    BY <1>1, <2>1 DEF MadeIn, Grows
  <2> QED BY <1>1, <2>1, <2>2 DEF MadeIn
<1>2. \A values : AllMadeIn(fns, values) => AllMadeIn(new, values)
  BY <1>1 DEF AllMadeIn
<1>3. \A instr : InstrMade(fns, instr) => InstrMade(new, instr)
  BY <1>2 DEF InstrMade, Grows
<1> QED BY <1>1, <1>2, <1>3 DEF TableMade, StackMade

(* Code over functions that grow is made if what is new of it is. *)
LEMMA CodeStays ==
  ASSUME NEW fns, NEW new, Grows(fns, new), CodeMade(fns),
         \A f \in DOMAIN new : \A j \in DOMAIN new[f].code :
           \/ f \in DOMAIN fns /\ j \in DOMAIN fns[f].code
           \/ InstrMade(new, new[f].code[j])
  PROVE  CodeMade(new)
<1> SUFFICES ASSUME NEW f \in DOMAIN new, NEW j \in DOMAIN new[f].code
             PROVE  InstrMade(new, new[f].code[j])
  BY DEF CodeMade
<1>1. CASE f \in DOMAIN fns /\ j \in DOMAIN fns[f].code
  <2>1. new[f].code[j] = fns[f].code[j] /\ InstrMade(fns, fns[f].code[j])
    BY <1>1 DEF Grows, CodeMade
  <2> QED BY <2>1, MadeStays
<1> QED BY <1>1

(* Instructions appended are behind the code that was there. *)
LEMMA AppendedGrows ==
  ASSUME functions \in Seq(LlvmFunction), insert_point \in DOMAIN functions,
         NEW instrs \in Seq(Instruction), Appended(instrs)
  PROVE  LET code == functions[insert_point].code
         IN  /\ Grows(functions, functions')
             /\ DOMAIN functions' = DOMAIN functions
             /\ \A f \in DOMAIN functions' : \A j \in DOMAIN functions'[f].code :
                  \/ j \in DOMAIN functions[f].code
                  \/ \E m \in DOMAIN instrs : functions'[f].code[j] = instrs[m]
             /\ \A m \in DOMAIN instrs :
                  /\ Len(code) + m \in DOMAIN functions'[insert_point].code
                  /\ functions'[insert_point].code[Len(code) + m] = instrs[m]
<1>1. \A f \in DOMAIN functions : functions[f].code \in Seq(Instruction)
  BY FunctionFields
<1>2. /\ DOMAIN functions' = DOMAIN functions
      /\ \A f \in DOMAIN functions :
           /\ functions'[f].arity = functions[f].arity
           /\ functions'[f].code = IF f = insert_point THEN functions[f].code \o instrs
                                   ELSE functions[f].code
  BY AppendedFunctions
<1>3. PICK code \in Seq(Instruction) : code = functions[insert_point].code
  BY <1>1
<1>4. /\ Len(code \o instrs) = Len(code) + Len(instrs) /\ (code \o instrs) \in Seq(Instruction)
      /\ \A j \in 1 .. Len(code) + Len(instrs) :
           (code \o instrs)[j] = IF j <= Len(code) THEN code[j] ELSE instrs[j - Len(code)]
  BY ConcatProperties
<1>5. Len(code) \in Nat /\ Len(instrs) \in Nat
  OBVIOUS
<1>6. \A j \in DOMAIN code : j \in DOMAIN (code \o instrs) /\ (code \o instrs)[j] = code[j]
  BY <1>4, <1>5
<1>7. \A m \in DOMAIN instrs :
        Len(code) + m \in DOMAIN (code \o instrs) /\ (code \o instrs)[Len(code) + m] = instrs[m]
  <2> TAKE m \in DOMAIN instrs
  <2>1. /\ Len(code) + m \in 1 .. Len(code) + Len(instrs) /\ ~(Len(code) + m <= Len(code))
        /\ Len(code) + m - Len(code) = m
    BY <1>5
  <2> QED BY <1>4, <2>1
<1>8. Grows(functions, functions')
  BY <1>2, <1>3, <1>6 DEF Grows
<1>9. \A f \in DOMAIN functions' : \A j \in DOMAIN functions'[f].code :
        \/ j \in DOMAIN functions[f].code
        \/ \E m \in DOMAIN instrs : functions'[f].code[j] = instrs[m]
  <2> SUFFICES ASSUME NEW f \in DOMAIN functions, NEW j \in DOMAIN functions'[f].code
               PROVE  \/ j \in DOMAIN functions[f].code
                      \/ \E m \in DOMAIN instrs : functions'[f].code[j] = instrs[m]
    BY <1>2
  <2>1. CASE f # insert_point
    BY <1>2, <2>1
  <2>2. CASE f = insert_point
    <3>1. functions'[f].code = code \o instrs /\ functions[f].code = code
      BY <1>2, <1>3, <2>2
    <3> QED BY <3>1, AppendedCode
  <2> QED BY <2>1, <2>2
<1> QED BY <1>2, <1>3, <1>7, <1>8, <1>9

(* Code made is appended to code made. *)
LEMMA EmittedMade ==
  ASSUME functions \in Seq(LlvmFunction), insert_point \in DOMAIN functions, CodeMade(functions),
         NEW instrs \in Seq(Instruction), Appended(instrs),
         \A m \in DOMAIN instrs : InstrMade(functions', instrs[m])
  PROVE  CodeMade(functions')
<1>1. /\ Grows(functions, functions') /\ DOMAIN functions' = DOMAIN functions
      /\ \A f \in DOMAIN functions' : \A j \in DOMAIN functions'[f].code :
           \/ j \in DOMAIN functions[f].code
           \/ InstrMade(functions', functions'[f].code[j])
  BY AppendedGrows
<1> QED BY <1>1, CodeStays

(* The value of the first instruction appended was made. *)
LEMMA NextMade ==
  ASSUME functions \in Seq(LlvmFunction), insert_point \in DOMAIN functions,
         NEW instrs \in Seq(Instruction), instrs # <<>>, Appended(instrs),
         NEW kind \in {"alloca", "result"},
         kind = "alloca" => instrs[1].op = "alloca",
         kind = "result" => instrs[1].op \in {"load", "call", "+", "-", "*", "/"}
  PROVE  MadeIn(functions', NextValue(kind))
<1> DEFINE v == NextValue(kind)
<1>1. 1 \in DOMAIN instrs
  BY EmptySeq
<1>2. /\ insert_point \in DOMAIN functions'
      /\ Len(functions[insert_point].code) + 1 \in DOMAIN functions'[insert_point].code
      /\ functions'[insert_point].code[Len(functions[insert_point].code) + 1] = instrs[1]
  BY <1>1, AppendedGrows
<1>3. /\ v.kind = kind /\ v.fn = insert_point
      /\ v.k = Len(functions[insert_point].code) + 1
      /\ ~IsConstant(v)
  BY DEF NextValue, IsConstant
<1> HIDE DEF v
<1> QED BY <1>2, <1>3 DEF MadeIn, v

(* A value made is handed to the stack. *)
LEMMA DeliverMade ==
  ASSUME NEW fns, NEW stack \in Seq(Frame), StackMade(fns, stack),
         NEW v \in Value, MadeIn(fns, v)
  PROVE  StackMade(fns, Deliver(stack, v))
<1>1. CASE stack = <<>>
  <2>1. Deliver(stack, v) = <<>>
    BY <1>1 DEF Deliver
  <2> QED BY <2>1 DEF StackMade
<1>2. CASE stack # <<>>
  <2> DEFINE l == Len(stack)
             top == stack[l].operands
  <2>1. l \in DOMAIN stack /\ top \in Seq(Value)
    <3>1. l \in DOMAIN stack /\ stack[l] \in Frame
      BY <1>2, EmptySeq
    <3> QED BY <3>1 DEF Frame
  <2>2. Deliver(stack, v) = [stack EXCEPT ![l].operands = Append(top, v)]
    BY <1>2 DEF Deliver
  <2>3. /\ DOMAIN Deliver(stack, v) = DOMAIN stack
        /\ \A j \in DOMAIN stack : j # l => Deliver(stack, v)[j] = stack[j]
        /\ Deliver(stack, v)[l] = [stack[l] EXCEPT !.operands = Append(top, v)]
    BY <2>1, <2>2
  <2>4. Deliver(stack, v)[l].operands = Append(top, v)
    <3>1. stack[l] \in Frame
      BY <2>1
    <3>2. \A e, x : e \in Frame => [e EXCEPT !.operands = x].operands = x
      BY DEF Frame
    <3> QED BY <2>3, <3>1, <3>2
  <2>5. AllMadeIn(fns, top)
    BY <2>1 DEF StackMade
  <2> HIDE DEF top
  <2>6. AllMadeIn(fns, Append(top, v))
    <3>1. \A o \in DOMAIN Append(top, v) :
            Append(top, v)[o] = v \/ (o \in DOMAIN top /\ Append(top, v)[o] = top[o])
      BY <2>1
    <3> QED BY <2>5, <3>1 DEF AllMadeIn
  <2> QED BY <2>3, <2>4, <2>6 DEF StackMade
<1> QED BY <1>1, <1>2

(* An expression leaves the stack. *)
LEMMA FrontMade ==
  ASSUME NEW fns, NEW stack \in Seq(Frame), stack # <<>>, StackMade(fns, stack)
  PROVE  StackMade(fns, Front(stack))
BY FrontOfStack DEF StackMade

(* An expression comes to the stack. *)
LEMMA PushMade ==
  ASSUME NEW fns, NEW stack \in Seq(Frame), StackMade(fns, stack),
         NEW e \in Frame, AllMadeIn(fns, e.operands)
  PROVE  StackMade(fns, Append(stack, e))
<1>1. \A j \in DOMAIN Append(stack, e) :
        Append(stack, e)[j] = e \/ (j \in DOMAIN stack /\ Append(stack, e)[j] = stack[j])
  OBVIOUS
<1> QED BY <1>1 DEF StackMade

(* A name gets a value made. *)
LEMMA EnteredMade ==
  ASSUME NEW fns, NEW table \in [VarNames -> Value \cup {NoValue}], TableMade(fns, table),
         NEW x \in VarNames, NEW v, MadeIn(fns, v)
  PROVE  TableMade(fns, [table EXCEPT ![x] = v])
BY DEF TableMade

(* A step inside a body makes what it makes out of what was made. *)
BodyMade ==
  status' # "crashed" =>
    /\ Grows(functions, functions') /\ CodeMade(functions')
    /\ TableMade(functions', value_table') /\ StackMade(functions', frames')

(* Nothing is emitted: the functions are as they were. *)
LEMMA GrowsNot == Grows(functions, functions)
BY DEF Grows

(* What Emit leaves if it does not end the process. *)
LEMMA EmitMade ==
  ASSUME Generating, InDefinition, EverythingMade,
         NEW instrs \in Seq(Instruction), instrs # <<>>, Emit(instrs), status' # "crashed"
  PROVE  /\ Appended(instrs) /\ Grows(functions, functions')
         /\ TableMade(functions', value_table) /\ StackMade(functions', frames)
         /\ instrs[1].op = "alloca" => MadeIn(functions', NextValue("alloca"))
         /\ instrs[1].op \in {"load", "call", "+", "-", "*", "/"} =>
              MadeIn(functions', NextValue("result"))
         /\ (\A m \in DOMAIN instrs : InstrMade(functions', instrs[m])) => CodeMade(functions')
<1>1. functions \in Seq(LlvmFunction) /\ insert_point \in DOMAIN functions
  BY GeneratingFacts, InsertPointIsFunction
<1>2. Appended(instrs)
  BY DEF Emit, Appended
<1>3. Grows(functions, functions')
  BY <1>1, <1>2, AppendedGrows
<1>4. TableMade(functions', value_table) /\ StackMade(functions', frames)
  BY <1>3, MadeStays DEF EverythingMade
<1>5. instrs[1].op = "alloca" => MadeIn(functions', NextValue("alloca"))
  BY <1>1, <1>2, NextMade
<1>6. instrs[1].op \in {"load", "call", "+", "-", "*", "/"} => MadeIn(functions', NextValue("result"))
  BY <1>1, <1>2, NextMade
<1> QED BY <1>1, <1>2, <1>3, <1>4, <1>5, <1>6, EmittedMade DEF EverythingMade

(* An instruction with operands that were made is made. *)
LEMMA PlainMade ==
  ASSUME NEW fns, NEW op, op # "call", NEW operands, AllMadeIn(fns, operands)
  PROVE  InstrMade(fns, Instr(op, operands)) /\ Instr(op, operands).op = op
BY DEF InstrMade, Instr

(* Few operands. *)
LEMMA FewMade ==
  ASSUME NEW fns
  PROVE  /\ AllMadeIn(fns, <<>>)
         /\ \A v : MadeIn(fns, v) => AllMadeIn(fns, <<v>>)
         /\ \A v, w : MadeIn(fns, v) /\ MadeIn(fns, w) => AllMadeIn(fns, <<v, w>>)
BY DEF AllMadeIn

(* generate(parameter): the argument was made, and the storage is. *)
LEMMA ParameterMade ==
  ASSUME Generating, EverythingMade, GenParameter
  PROVE  BodyMade
<1> DEFINE i == gen_pos.fn
           k == gen_pos.k
           x == tunit.defs[i].params[k]
<1>1. gen_pos.at = "param" /\ InDefinition
  BY DEF GenParameter, InDefinition
<1>2. x \in VarNames
  <2>1. i \in DOMAIN tunit.defs /\ k \in DOMAIN tunit.defs[i].params /\ tunit \in TranslationUnit
    BY <1>1, GeneratingFacts DEF IsPlace
  <2>2. tunit.defs[i].params \in Seq(VarNames)
    BY <2>1, UnitType
  <2> QED BY <2>1, <2>2
<1> SUFFICES ASSUME status' # "crashed"
             PROVE  /\ Grows(functions, functions') /\ CodeMade(functions')
                    /\ TableMade(functions', value_table') /\ StackMade(functions', frames')
  BY DEF BodyMade
<1>3. Alive(NewVariable(x, "def", i, k))
  BY DEF GenParameter, Stop
<1>4. CASE value_table[x] = NoValue
  <2>1. UNCHANGED <<functions, value_table, frames>>
    BY <1>3, <1>4 DEF GenParameter, Stop, tables
  <2> QED BY <2>1, GrowsNot DEF EverythingMade
<1>5. CASE value_table[x] # NoValue
  <2>1. PICK v, address : v = value_table[x] /\ address = NextValue("alloca")
    OBVIOUS
  <2>2. v \in Value /\ address \in Value
    <3>1. address \in Value
      BY <1>1, <2>1, InsertPointIsFunction, GeneratingFacts, NextValueIsValue
    <3> QED BY <1>2, <1>5, <2>1, <3>1, GeneratingFacts
  <2>3. PICK a, b : a = Instr("alloca", <<>>) /\ b = Instr("store", <<v, address>>)
    OBVIOUS
  <2>4. /\ Emit(<<a, b>>)
        /\ value_table' = [value_table EXCEPT ![x] = address]
        /\ UNCHANGED frames
    BY <1>3, <1>5, <2>1, <2>3 DEF GenParameter
  <2>5. /\ a \in Instruction /\ b \in Instruction /\ a.op = "alloca"
    <3>1. <<v, address>> \in Seq(Value)
      BY <2>2
    <3> QED BY <2>3, <3>1, AllocaInstr, PlainInstr
  <2>6. <<a, b>> \in Seq(Instruction) /\ <<a, b>> # <<>> /\ <<a, b>>[1] = a
    BY <2>5
  <2>7. /\ Grows(functions, functions')
        /\ TableMade(functions', value_table) /\ StackMade(functions', frames)
        /\ MadeIn(functions', address)
        /\ (\A m \in DOMAIN <<a, b>> : InstrMade(functions', <<a, b>>[m])) => CodeMade(functions')
    BY <1>1, <2>1, <2>4, <2>5, <2>6, EmitMade
  <2>8. InstrMade(functions', a) /\ InstrMade(functions', b)
    <3>1. MadeIn(functions', v)
      BY <1>2, <2>1, <2>7 DEF TableMade
    <3> QED BY <2>3, <2>7, <3>1, FewMade, PlainMade
  <2>9. CodeMade(functions')
    BY <2>7, <2>8
  <2>10. TableMade(functions', value_table')
    BY <1>2, <2>4, <2>7, GeneratingFacts, EnteredMade
  <2> QED BY <2>4, <2>7, <2>9, <2>10
<1> QED BY <1>4, <1>5

(* generate(variable_declaration): so is that of a local variable. *)
LEMMA VariableMade ==
  ASSUME Generating, EverythingMade, GenVariable
  PROVE  BodyMade
<1> DEFINE i == gen_pos.fn
           k == gen_pos.k
           x == tunit.defs[i].vars[k]
<1>1. gen_pos.at = "var" /\ InDefinition
  BY DEF GenVariable, InDefinition
<1>2. x \in VarNames
  <2>1. i \in DOMAIN tunit.defs /\ k \in DOMAIN tunit.defs[i].vars /\ tunit \in TranslationUnit
    BY <1>1, GeneratingFacts DEF IsPlace, Within
  <2>2. tunit.defs[i].vars \in Seq(VarNames)
    BY <2>1, UnitType
  <2> QED BY <2>1, <2>2
<1> SUFFICES ASSUME status' # "crashed"
             PROVE  /\ Grows(functions, functions') /\ CodeMade(functions')
                    /\ TableMade(functions', value_table') /\ StackMade(functions', frames')
  BY DEF BodyMade
<1>3. PICK a : a = Instr("alloca", <<>>)
  OBVIOUS
<1>4. /\ Emit(<<a>>)
      /\ value_table' = [value_table EXCEPT ![x] = NextValue("alloca")]
      /\ UNCHANGED frames
  BY <1>3 DEF GenVariable, Stop
<1>5. a \in Instruction /\ a.op = "alloca" /\ <<a>> \in Seq(Instruction) /\ <<a>> # <<>> /\ <<a>>[1] = a
  BY <1>3, AllocaInstr
<1>6. /\ Grows(functions, functions')
      /\ TableMade(functions', value_table) /\ StackMade(functions', frames)
      /\ MadeIn(functions', NextValue("alloca"))
      /\ (\A m \in DOMAIN <<a>> : InstrMade(functions', <<a>>[m])) => CodeMade(functions')
  BY <1>1, <1>4, <1>5, EmitMade
<1>7. InstrMade(functions', a)
  BY <1>3, FewMade, PlainMade
<1>8. TableMade(functions', value_table')
  <2>1. PICK v : v = NextValue("alloca")
    OBVIOUS
  <2> QED BY <1>2, <1>4, <1>6, <2>1, GeneratingFacts, EnteredMade
<1> QED BY <1>4, <1>6, <1>7, <1>8

(* A step that emits nothing. *)
LEMMA QuietMade ==
  ASSUME EverythingMade, UNCHANGED <<functions, value_table>>, StackMade(functions, frames')
  PROVE  BodyMade
BY GrowsNot DEF BodyMade, EverythingMade

(* A number of the source is one of the target. *)
LEMMA NumberMade ==
  ASSUME Generating, EverythingMade, GenNumber
  PROVE  BodyMade
<1> DEFINE n == tunit.defs[gen_pos.fn].body[gen_pos.k]
<1>1. /\ gen_pos.at = "node" /\ n.kind = "number_literal"
      /\ frames' = Deliver(frames, Constant(n.value))
      /\ Pass(1)
      /\ UNCHANGED <<functions, value_table>>
  BY DEF GenNumber, AtNode, GenBody, tables
<1>2. n \in Node
  <2>1. 1 \in {1, 2}
    OBVIOUS
  <2>2. gen_pos.fn \in DOMAIN tunit.defs /\ gen_pos.k \in DOMAIN tunit.defs[gen_pos.fn].body
    BY <1>1, <2>1, PassPlace
  <2> QED BY <2>2, SymbolsOfNodes
<1> HIDE DEF n
<1>3. n.value \in -Limit .. Limit - 1
  BY <1>1, <1>2 DEF Node, Number, Ident, Call, Binary, Jump
<1>4. Constant(n.value) \in Value /\ MadeIn(functions, Constant(n.value))
  BY <1>3, LimitAssumption DEF Constant, Value, MadeIn, IsConstant
<1>5. StackMade(functions, frames')
  BY <1>1, <1>4, GeneratingFacts, DeliverMade DEF EverythingMade
<1> QED BY <1>1, <1>5, QuietMade

(* generate(identifier): what is loaded from was made. *)
LEMMA IdentifierMade ==
  ASSUME Generating, EverythingMade, GenIdentifier
  PROVE  BodyMade
<1> DEFINE symbol == id_symbol[<<gen_pos.fn, gen_pos.k>>]
           n == tunit.defs[gen_pos.fn].body[gen_pos.k]
<1> SUFFICES ASSUME status' # "crashed"
             PROVE  /\ Grows(functions, functions') /\ CodeMade(functions')
                    /\ TableMade(functions', value_table') /\ StackMade(functions', frames')
  BY DEF BodyMade
<1>1. gen_pos.at = "node" /\ n.kind = "identifier" /\ InDefinition
  BY DEF GenIdentifier, AtNode, GenBody, InDefinition
<1>2. PICK source, result : source = value_table[symbol.name] /\ result = NextValue("result")
  OBVIOUS
<1>3. PICK a : a = Instr("load", <<source>>)
  OBVIOUS
<1>4. /\ source # NoValue /\ Emit(<<a>>) /\ frames' = Deliver(frames, result)
      /\ Pass(1) /\ UNCHANGED value_table
  BY <1>2, <1>3 DEF GenIdentifier, Stop, tables
<1>5. symbol.name \in VarNames
  <2>1. 1 \in {1, 2}
    OBVIOUS
  <2>2. gen_pos.fn \in DOMAIN tunit.defs /\ gen_pos.k \in DOMAIN tunit.defs[gen_pos.fn].body
    BY <1>1, <1>4, <2>1, PassPlace
  <2> QED BY <1>1, <2>2, SymbolsOfNodes DEF VariableSymbol
<1>6. source \in Value /\ result \in Value
  <2>1. result \in Value
    BY <1>1, <1>2, InsertPointIsFunction, GeneratingFacts, NextValueIsValue
  <2> QED BY <1>2, <1>4, <1>5, <2>1, GeneratingFacts
<1>7. a.op = "load" /\ <<a>> \in Seq(Instruction) /\ <<a>> # <<>> /\ <<a>>[1] = a
  <2>1. a \in Instruction /\ a.op = "load"
    <3>1. <<source>> \in Seq(Value)
      BY <1>6
    <3> QED BY <1>3, <3>1, PlainInstr
  <2> QED BY <2>1
<1>8. /\ Grows(functions, functions')
      /\ TableMade(functions', value_table) /\ StackMade(functions', frames)
      /\ MadeIn(functions', result)
      /\ (\A m \in DOMAIN <<a>> : InstrMade(functions', <<a>>[m])) => CodeMade(functions')
  BY <1>1, <1>2, <1>4, <1>7, EmitMade
<1>9. InstrMade(functions', a)
  <2>1. MadeIn(functions', source)
    BY <1>2, <1>5, <1>8 DEF TableMade
  <2> QED BY <1>3, <2>1, FewMade, PlainMade
<1>10. StackMade(functions', frames')
  BY <1>4, <1>6, <1>8, GeneratingFacts, DeliverMade
<1> QED BY <1>4, <1>8, <1>9, <1>10

(* An expression begins without operands. *)
LEMMA BeginMade ==
  ASSUME Generating, EverythingMade, BeginExpression
  PROVE  BodyMade
<1> DEFINE e == [node |-> gen_pos.k, operands |-> <<>>]
<1>1. frames' = Append(frames, e) /\ UNCHANGED <<functions, value_table>>
  BY DEF BeginExpression, tables
<1>2. e \in Frame
  <2>1. <<>> \in Seq(Value) /\ gen_pos.k \in Nat
    BY GeneratingFacts DEF IsPlace, GenPosition
  <2> QED BY <2>1 DEF Frame
<1>3. AllMadeIn(functions, e.operands)
  BY DEF AllMadeIn
<1> HIDE DEF e
<1>4. StackMade(functions, frames')
  BY <1>1, <1>2, <1>3, GeneratingFacts, PushMade DEF EverythingMade
<1> QED BY <1>1, <1>4, QuietMade

(* An assignment begins with its target, which was made. *)
LEMMA TargetMade ==
  ASSUME Generating, EverythingMade, BeginAssignment
  PROVE  BodyMade
<1> DEFINE lhs == GenBody[gen_pos.k + 1]
<1> SUFFICES ASSUME status' # "crashed" PROVE BodyMade
  BY DEF BodyMade
<1>1. PICK target : target = value_table[lhs.name]
  OBVIOUS
<1>2. CASE lhs.kind # "identifier"
  <2>1. UNCHANGED <<functions, value_table, frames>>
    BY <1>2 DEF BeginAssignment, Stop, tables
  <2> QED BY <2>1, QuietMade DEF EverythingMade
<1>3. CASE lhs.kind = "identifier"
  <2>1. /\ gen_pos.at = "node" /\ Pass(2) /\ target # NoValue
        /\ frames' = Append(frames, [node |-> gen_pos.k, operands |-> <<target>>])
        /\ UNCHANGED <<functions, value_table>>
    BY <1>1, <1>3 DEF BeginAssignment, AtNode, Stop, tables
  <2>2. lhs.name \in VarNames
    <3>1. 2 \in {1, 2}
      OBVIOUS
    <3>2. gen_pos.fn \in DOMAIN tunit.defs /\ gen_pos.k \in DOMAIN tunit.defs[gen_pos.fn].body
      BY <2>1, <3>1, PassPlace
    <3>3. /\ GenBody[gen_pos.k].kind = "binary_expression" /\ GenBody[gen_pos.k].op = "="
          /\ GenBody[gen_pos.k] \in Node /\ tunit \in TranslationUnit
      BY <3>2, GeneratingFacts, SymbolsOfNodes DEF BeginAssignment, AtNode, GenBody
    <3>4. GenBody[gen_pos.k] \in Binary
      BY <3>3 DEF Node, Number, Ident, Call, Binary, Jump
    <3>5. lhs \in Ident
      BY <3>2, <3>3, <3>4 DEF TranslationUnit, WellFormed, GenBody
    <3> QED BY <3>5 DEF Ident
  <2>3. target \in Value /\ MadeIn(functions, target)
    BY <1>1, <2>1, <2>2, GeneratingFacts DEF EverythingMade, TableMade
  <2> DEFINE e == [node |-> gen_pos.k, operands |-> <<target>>]
  <2>4. e \in Frame
    <3>1. <<target>> \in Seq(Value) /\ gen_pos.k \in Nat
      BY <2>3, GeneratingFacts DEF IsPlace, GenPosition
    <3> QED BY <3>1 DEF Frame
  <2>5. AllMadeIn(functions, e.operands)
    BY <2>3, FewMade
  <2>6. frames' = Append(frames, e)
    BY <2>1
  <2> HIDE DEF e
  <2>7. StackMade(functions, frames')
    BY <2>4, <2>5, <2>6, GeneratingFacts, PushMade DEF EverythingMade
  <2> QED BY <2>1, <2>7, QuietMade
<1> QED BY <1>2, <1>3

(* The operands on top of the stack. *)
LEMMA TopMade ==
  ASSUME Generating, EverythingMade, Complete
  PROVE  /\ AllMadeIn(functions, Top.operands)
         /\ Front(frames) \in Seq(Frame) /\ StackMade(functions, Front(frames))
<1>1. frames # <<>> /\ frames \in Seq(Frame)
  BY GeneratingFacts DEF Complete
<1>2. Len(frames) \in DOMAIN frames
  BY <1>1, EmptySeq
<1> QED BY <1>1, <1>2, FrontOfStack, FrontMade DEF EverythingMade, StackMade, Top

(* Numbers are folded into numbers of the target. *)
LEMMA WrappedInRange == \A n \in Int : Wrapped(n) \in -Limit .. Limit - 1
BY LimitAssumption DEF Wrapped

(* ... and so are quotients that exist. *)
LEMMA QuotientInRange ==
  ASSUME NEW a \in -Limit .. Limit - 1, NEW b \in -Limit .. Limit - 1, Divides(a, b)
  PROVE  Quotient(a, b) \in -Limit .. Limit - 1
<1>1. PICK m \in Nat, d \in Nat : m = Magnitude(a) /\ d = Magnitude(b)
  BY LimitAssumption DEF Magnitude
<1>2. /\ Limit \in Nat /\ Limit > 0 /\ a \in Int /\ b \in Int /\ d > 0 /\ m <= Limit
      /\ m = (IF a < 0 THEN -a ELSE a) /\ d = (IF b < 0 THEN -b ELSE b)
  BY <1>1, LimitAssumption DEF Magnitude, Divides
<1>3. PICK e \in Nat : e = m \div d /\ d * e <= m
  BY <1>1, <1>2
<1>4. Quotient(a, b) = IF (a < 0) = (b < 0) THEN e ELSE -e
  BY <1>1, <1>3 DEF Quotient
<1>5. d * e >= e
  BY <1>1, <1>2, <1>3
<1>6. CASE e < Limit
  BY <1>2, <1>3, <1>4, <1>6
<1>7. CASE ~(e < Limit)
  <2>1. e = Limit /\ m = Limit /\ a = -Limit
    BY <1>1, <1>2, <1>3, <1>5, <1>7
  <2>2. d = 1
    <3> SUFFICES ASSUME d >= 2 PROVE FALSE
      BY <1>1, <1>2
    <3>1. d * Limit >= 2 * Limit
      BY <1>1, <1>2
    <3> QED BY <1>2, <1>3, <2>1, <3>1
  <2>3. b = 1
    BY <1>2, <2>1, <2>2 DEF Divides
  <2> QED BY <1>2, <1>4, <2>1, <2>3
<1> QED BY <1>6, <1>7

(* ... so that what is folded is a number there is. *)
LEMMA FoldedMade ==
  ASSUME NEW fns, NEW op \in {"+", "-", "*", "/"}, NEW v \in Value, NEW w \in Value,
         IsConstant(v), IsConstant(w), MadeIn(fns, v), MadeIn(fns, w), NEW u \in Folded(op, v, w)
  PROVE  MadeIn(fns, u)
<1> DEFINE InRange(k) == k \in -Limit .. Limit - 1
<1>1. \A k : InRange(k) => MadeIn(fns, Constant(k))
  BY DEF MadeIn, Constant
<1>2. MadeIn(fns, Undef) /\ InRange(0)
  BY LimitAssumption DEF MadeIn, Undef, IsConstant
<1>3. CASE Undef \in {v, w}
  BY <1>1, <1>2, <1>3 DEF Folded
<1>4. CASE Undef \notin {v, w}
  <2>1. InRange(v.k) /\ InRange(w.k)
    BY DEF MadeIn
  <2>2. v.k \in Int /\ w.k \in Int
    BY DEF Value
  <2>3. \A k \in Int : InRange(Wrapped(k))
    BY WrappedInRange
  <2>4. v.k + w.k \in Int /\ v.k - w.k \in Int /\ v.k * w.k \in Int
    BY <2>2
  <2>5. Divides(v.k, w.k) => InRange(Quotient(v.k, w.k))
    BY <2>1, QuotientInRange
  <2> HIDE DEF InRange
  <2>6. CASE op = "+"
    BY <1>1, <1>4, <2>3, <2>4, <2>6 DEF Folded
  <2>7. CASE op = "-"
    BY <1>1, <1>4, <2>3, <2>4, <2>7 DEF Folded
  <2>8. CASE op = "*"
    BY <1>1, <1>4, <2>3, <2>4, <2>8 DEF Folded
  <2>9. CASE op = "/"
    <3>1. Folded(op, v, w) = {IF Divides(v.k, w.k) THEN Constant(Quotient(v.k, w.k)) ELSE Undef}
      BY <1>4, <2>9 DEF Folded
    <3> QED BY <1>1, <1>2, <2>5, <3>1
  <2> QED BY <2>6, <2>7, <2>8, <2>9
<1> QED BY <1>3, <1>4

(* Numbers folded. *)
LEMMA FoldMade ==
  ASSUME Generating, EverythingMade, FoldConstants
  PROVE  BodyMade
<1>1. PICK v, w : v = Top.operands[1] /\ w = Top.operands[2]
  OBVIOUS
<1>2. /\ Complete /\ TopNode \in Binary /\ TopNode.op # "=" /\ AllConstant
      /\ UNCHANGED <<functions, value_table>>
  BY DEF FoldConstants, tables
<1>3. PICK u \in Folded(TopNode.op, v, w) : frames' = Deliver(Front(frames), u)
  BY <1>1 DEF FoldConstants
<1>4. /\ TopNode.op \in {"+", "-", "*", "/"} /\ v \in Value /\ w \in Value
      /\ 1 \in DOMAIN Top.operands /\ 2 \in DOMAIN Top.operands
  BY <1>1, <1>2, BinaryOperands, TopOfStack
<1>5. IsConstant(v) /\ IsConstant(w) /\ MadeIn(functions, v) /\ MadeIn(functions, w)
  BY <1>1, <1>2, <1>4, TopMade DEF AllConstant, AllMadeIn
<1>6. u \in Value /\ MadeIn(functions, u)
  BY <1>3, <1>4, <1>5, FoldedIsValue, FoldedMade
<1> QED BY <1>2, <1>3, <1>6, TopMade, DeliverMade, QuietMade

(* One instruction in place of the finished expression. *)
LEMMA FinishMade ==
  ASSUME Generating, EverythingMade, Complete,
         NEW instr \in Instruction, instr.op # "alloca", InstrMade(functions, instr),
         NEW value \in Value, Finish(instr, value),
         \/ MadeIn(functions, value)
         \/ value = NextValue("result") /\ instr.op \in {"load", "call", "+", "-", "*", "/"}
  PROVE  BodyMade
<1> SUFFICES ASSUME status' # "crashed"
             PROVE  /\ Grows(functions, functions') /\ CodeMade(functions')
                    /\ TableMade(functions', value_table') /\ StackMade(functions', frames')
  BY DEF BodyMade
<1>1. /\ Emit(<<instr>>) /\ frames' = Deliver(Front(frames), value) /\ UNCHANGED value_table
  BY DEF Finish, tables
<1>2. <<instr>> \in Seq(Instruction) /\ <<instr>> # <<>> /\ <<instr>>[1] = instr
  OBVIOUS
<1>3. /\ Grows(functions, functions') /\ TableMade(functions', value_table)
      /\ instr.op \in {"load", "call", "+", "-", "*", "/"} =>
              MadeIn(functions', NextValue("result"))
      /\ (\A m \in DOMAIN <<instr>> : InstrMade(functions', <<instr>>[m])) => CodeMade(functions')
  BY <1>1, <1>2, TopOfStack, EmitMade
<1>4. /\ InstrMade(functions', instr) /\ MadeIn(functions', value)
      /\ StackMade(functions', Front(frames))
  BY <1>3, TopMade, MadeStays
<1>5. StackMade(functions', frames')
  BY <1>1, <1>4, TopMade, DeliverMade
<1> QED BY <1>1, <1>3, <1>4, <1>5

(* An operation. *)
LEMMA OperationMade ==
  ASSUME Generating, EverythingMade, FinishBinary
  PROVE  BodyMade
<1>1. PICK a : a = Instr(TopNode.op, Top.operands)
  OBVIOUS
<1>2. /\ Complete /\ TopNode \in Binary /\ TopNode.op # "="
      /\ Finish(a, NextValue("result"))
  BY <1>1 DEF FinishBinary
<1>3. TopNode.op \in {"+", "-", "*", "/"}
  BY <1>2, BinaryOperands
<1>4. a \in Instruction /\ a.op = TopNode.op
  BY <1>1, <1>2, <1>3, TopOfStack, PlainInstr
<1>5. InstrMade(functions, a)
  BY <1>1, <1>2, <1>3, TopMade, PlainMade
<1> QED BY <1>2, <1>3, <1>4, <1>5, ResultIsValue, FinishMade

(* An assignment. *)
LEMMA AssignmentMade ==
  ASSUME Generating, EverythingMade, FinishAssignment
  PROVE  BodyMade
<1>1. PICK v, w : v = Top.operands[1] /\ w = Top.operands[2]
  OBVIOUS
<1>2. PICK a : a = Instr("store", <<w, v>>)
  OBVIOUS
<1>3. Complete /\ TopNode \in Binary /\ Finish(a, v)
  BY <1>1, <1>2 DEF FinishAssignment
<1>4. /\ v \in Value /\ w \in Value
      /\ 1 \in DOMAIN Top.operands /\ 2 \in DOMAIN Top.operands
  BY <1>1, <1>3, BinaryOperands, TopOfStack
<1>5. MadeIn(functions, v) /\ MadeIn(functions, w)
  BY <1>1, <1>3, <1>4, TopMade DEF AllMadeIn
<1>6. a \in Instruction /\ a.op = "store"
  <2>1. <<w, v>> \in Seq(Value)
    BY <1>4
  <2> QED BY <1>2, <2>1, PlainInstr
<1>7. InstrMade(functions, a)
  BY <1>2, <1>5, FewMade, PlainMade
<1> QED BY <1>3, <1>4, <1>5, <1>6, <1>7, FinishMade

(* A call of a function that is there. *)
LEMMA CallMade ==
  ASSUME Generating, EverythingMade, FinishCall
  PROVE  BodyMade
<1> SUFFICES ASSUME status' # "crashed" PROVE BodyMade
  BY DEF BodyMade
<1>1. PICK name : name = func_table[call_symbol[<<gen_pos.fn, Top.node>>]].name
  OBVIOUS
<1>2. PICK a : a = [op |-> "call", operands |-> Top.operands, callee |-> func_map[name]]
  OBVIOUS
<1>3. /\ Complete /\ TopNode \in Call /\ func_map[name] # NoFunction
      /\ Finish(a, NextValue("result"))
  BY <1>1, <1>2 DEF FinishCall, Stop
<1>4. name \in FuncNames
  BY <1>1, <1>3, TopOfStack, SymbolsOfNodes
<1>5. func_map[name] \in DOMAIN functions /\ func_map[name] \in Nat
  BY <1>3, <1>4, GeneratingFacts
<1>6. a \in Instruction /\ a.op = "call"
  BY <1>2, <1>3, <1>5, TopOfStack DEF Instruction
<1>7. InstrMade(functions, a)
  BY <1>2, <1>3, <1>5, TopMade DEF InstrMade
<1> QED BY <1>3, <1>6, <1>7, ResultIsValue, FinishMade

(* A return. *)
LEMMA ReturnMade ==
  ASSUME Generating, EverythingMade, FinishReturn
  PROVE  BodyMade
<1> SUFFICES ASSUME status' # "crashed"
             PROVE  /\ Grows(functions, functions') /\ CodeMade(functions')
                    /\ TableMade(functions', value_table') /\ StackMade(functions', frames')
  BY DEF BodyMade
<1>1. PICK a : a = Instr("ret", Top.operands)
  OBVIOUS
<1>2. /\ Complete /\ TopNode \in Jump /\ Emit(<<a>>) /\ frames' = Front(frames)
      /\ UNCHANGED value_table
  BY <1>1 DEF FinishReturn, tables
<1>3. a \in Instruction /\ a.op = "ret"
  BY <1>1, <1>2, TopOfStack, PlainInstr
<1>4. <<a>> \in Seq(Instruction) /\ <<a>> # <<>> /\ <<a>>[1] = a
  BY <1>3
<1>5. /\ Grows(functions, functions') /\ TableMade(functions', value_table)
      /\ (\A m \in DOMAIN <<a>> : InstrMade(functions', <<a>>[m])) => CodeMade(functions')
  BY <1>2, <1>4, TopOfStack, EmitMade
<1>6. InstrMade(functions', a) /\ StackMade(functions', Front(frames))
  BY <1>1, <1>2, <1>5, TopMade, PlainMade, MadeStays
<1> QED BY <1>2, <1>5, <1>6

(* A new function has the arguments that are entered into the value table. *)
LEMMA NewFunctionMade ==
  ASSUME Generating, EverythingMade, NEW s \in DOMAIN func_table, NEW b \in Nat,
         functions' = Append(functions, [NewFunction(s) EXCEPT !.blocks = b]),
         func_map' = [func_map EXCEPT ![func_table[s].name] = Len(functions')],
         value_table' = WithArguments(s, Len(functions')), UNCHANGED frames
  PROVE  BodyMade
<1> DEFINE l == Len(functions')
           params == func_table[s].params
           places(x) == {k \in DOMAIN params : params[k].name = x}
<1>1. /\ DOMAIN functions' = DOMAIN functions \cup {l} /\ l \notin DOMAIN functions
      /\ functions'[l].code = <<>>
      /\ \A f \in DOMAIN functions : functions'[f] = functions[f]
  BY FunctionMade
<1>2. params \in Seq(VariableSymbol)
  <2>1. func_table[s] \in FuncSymbol
    BY GeneratingFacts, BuiltFacts
  <2> QED BY <2>1 DEF FuncSymbol
<1>3. functions'[l].arity = Len(params)
  <2> DEFINE e == [NewFunction(s) EXCEPT !.blocks = b]
  <2>1. e.arity = Len(params)
    BY DEF NewFunction
  <2> HIDE DEF e
  <2>2. functions' = Append(functions, e) /\ functions \in Seq(LlvmFunction)
    BY GeneratingFacts DEF e
  <2>3. functions'[l] = e
    BY <2>2
  <2> QED BY <2>1, <2>3
<1>4. Grows(functions, functions')
  BY <1>1 DEF Grows
<1>5. CodeMade(functions')
  <2>1. DOMAIN functions'[l].code = {}
    BY <1>1
  <2> QED BY <1>1, <1>4, <2>1, CodeStays DEF EverythingMade
<1>6. StackMade(functions', frames') /\ TableMade(functions', value_table)
  BY <1>4, MadeStays DEF EverythingMade
<1>7. TableMade(functions', value_table')
  <2> SUFFICES ASSUME NEW x \in VarNames PROVE MadeIn(functions', value_table'[x])
    BY DEF TableMade
  <2>1. value_table'[x] = IF places(x) = {} THEN value_table[x] ELSE Argument(l, Max(places(x)))
    BY DEF WithArguments
  <2>2. CASE places(x) = {}
    BY <1>6, <2>1, <2>2 DEF TableMade
  <2>3. CASE places(x) # {}
    <3>1. /\ places(x) \in SUBSET Nat /\ Len(params) \in Nat
          /\ \A k \in places(x) : k \in 1 .. Len(params)
      BY <1>2
    <3> HIDE DEF places
    <3>2. Max(places(x)) \in 1 .. Len(params)
      <4>1. \A k \in places(x) : k <= Len(params)
        BY <3>1
      <4>2. Max(places(x)) \in places(x)
        BY <2>3, <3>1, <4>1, MaxIsGreatest
      <4> QED BY <3>1, <4>2
    <3>3. PICK v : v = Argument(l, Max(places(x)))
      OBVIOUS
    <3>4. v.kind = "argument" /\ v.fn = l /\ v.k = Max(places(x)) /\ ~IsConstant(v)
      BY <3>3 DEF Argument, IsConstant
    <3>5. MadeIn(functions', v)
      BY <1>1, <1>3, <3>2, <3>4 DEF MadeIn
    <3> QED BY <2>1, <2>3, <3>3, <3>5
  <2> QED BY <2>2, <2>3
<1> QED BY <1>4, <1>5, <1>6, <1>7 DEF BodyMade

(* The step of a signature. *)
LEMMA SignatureMade ==
  ASSUME Generating, EverythingMade, GenDeclaration \/ GenNewDefinition \/ GenKnownDefinition
  PROVE  BodyMade
<1> DEFINE i == gen_pos.fn
<1>1. Built /\ tunit \in TranslationUnit /\ IsPlace(gen_pos)
  BY GeneratingFacts
<1>2. CASE GenDeclaration
  <2> DEFINE s == decl_scope[i]
  <2>1. i \in DOMAIN tunit.decls
    BY <1>1, <1>2 DEF GenDeclaration, IsPlace, Within
  <2>2. s \in DOMAIN func_table
    BY <1>1, <2>1, SymbolNames
  <2>3. /\ functions' = Append(functions, [NewFunction(s) EXCEPT !.blocks = 0])
        /\ func_map' = [func_map EXCEPT ![func_table[s].name] = Len(functions')]
        /\ value_table' = WithArguments(s, Len(functions'))
        /\ UNCHANGED frames
    BY <1>2 DEF GenDeclaration, NewFunction
  <2> HIDE DEF s
  <2>4. 0 \in Nat
    OBVIOUS
  <2> QED BY <2>2, <2>3, <2>4, NewFunctionMade
<1>3. CASE GenNewDefinition
  <2> DEFINE s == def_scope[i]
  <2>1. i \in DOMAIN tunit.defs
    BY <1>1, <1>3 DEF GenNewDefinition, IsPlace, Within
  <2>2. s \in DOMAIN func_table /\ func_table[s].name = tunit.defs[i].name
    BY <1>1, <2>1, SymbolNames
  <2>3. /\ functions' = Append(functions, [NewFunction(s) EXCEPT !.blocks = 1])
        /\ func_map' = [func_map EXCEPT ![func_table[s].name] = Len(functions')]
        /\ value_table' = WithArguments(s, Len(functions'))
        /\ UNCHANGED frames
    BY <1>3, <2>2 DEF GenNewDefinition
  <2> HIDE DEF s
  <2>4. 1 \in Nat
    OBVIOUS
  <2> QED BY <2>2, <2>3, <2>4, NewFunctionMade
<1>4. CASE GenKnownDefinition
  <2>1. PICK fn : fn = func_map[tunit.defs[i].name]
    OBVIOUS
  <2>2. /\ fn # NoFunction /\ functions' = [functions EXCEPT ![fn].blocks = @ + 1]
        /\ UNCHANGED <<value_table, frames>>
    BY <1>4, <2>1 DEF GenKnownDefinition, tables
  <2>3. i \in DOMAIN tunit.defs
    BY <1>1, <1>4 DEF GenKnownDefinition, IsPlace, Within
  <2>4. fn \in DOMAIN functions
    BY <1>1, <2>1, <2>2, <2>3, UnitType, GeneratingFacts
  <2>5. DOMAIN functions' = DOMAIN functions
    BY <2>2
  <2>6. \A f \in DOMAIN functions :
          functions'[f].arity = functions[f].arity /\ functions'[f].code = functions[f].code
    <3> TAKE f \in DOMAIN functions
    <3>1. functions[f] \in LlvmFunction
      BY GeneratingFacts
    <3> QED BY <2>2, <2>4, <3>1 DEF LlvmFunction
  <2>7. Grows(functions, functions')
    BY <2>5, <2>6 DEF Grows
  <2>8. CodeMade(functions')
    BY <2>5, <2>6, <2>7, CodeStays DEF EverythingMade
  <2> QED BY <2>2, <2>7, <2>8, MadeStays DEF BodyMade, EverythingMade
<1> QED BY <1>2, <1>3, <1>4

(* Every step makes what it makes out of what was made. *)
LEMMA StepMade ==
  ASSUME Generating, EverythingMade, GeneratorNext
  PROVE  BodyMade
<1>1. CASE LeaveDefinition \/ LeaveUnit
  <2>1. UNCHANGED <<functions, value_table, frames>>
    BY <1>1 DEF LeaveDefinition, LeaveUnit, tables
  <2> QED BY <2>1, QuietMade DEF EverythingMade
<1> QED BY <1>1, SignatureMade, ParameterMade, VariableMade, NumberMade, IdentifierMade,
           BeginMade, TargetMade, FoldMade, OperationMade, AssignmentMade, CallMade, ReturnMade
        DEF GeneratorNext

----------------------------------------------------------------------------
(* The compiler. *)

(* What the analysis knows and what the generator knows. *)
CompilerInv == AnalysisFacts /\ GeneratorInv

(* The invariant holds at the beginning... *)
LEMMA CompilerInvInit == CompilerInit => CompilerInv
<1> SUFFICES ASSUME CompilerInit PROVE CompilerInv
  OBVIOUS
<1> USE DEF GeneratorInit
<1>1. AnalysisFacts
  BY AnalysisFactsInit DEF CompilerInit
<1>2. tunit \in TranslationUnit /\ tunit.decls \in Seq(Prototype) /\ tunit.defs \in Seq(Definition)
  <2>1. tunit \in TranslationUnit
    BY ProgramsAssumption DEF CompilerInit, AnalyzerInit, HeapInit
  <2> QED BY <2>1, UnitType
<1>3. GeneratorInit
  BY DEF CompilerInit
<1>4. /\ IsPlace(gen_pos) /\ gen_pos.at \in {"decl", "def", "end"}
      /\ gen_pos.at = "decl" => gen_pos.fn = 1
      /\ gen_pos.at # "decl" => DOMAIN tunit.decls = {}
      /\ gen_pos.at = "def" => gen_pos.fn = 1
      /\ gen_pos.at = "end" => DOMAIN tunit.defs = {}
  <2>1. 1 \in Nat /\ 1 > 0 /\ (1 > Len(tunit.decls) => DOMAIN tunit.decls = {})
    BY <1>2
  <2> QED BY <1>2, <1>3, <2>1, EnterDeclPlace
<1>5. DOMAIN functions = {} /\ functions = <<>> /\ frames = <<>> /\ DOMAIN frames = {}
  BY <1>3
<1>6. GeneratorTypeOK
  BY <1>3, <1>4, <1>5 DEF GeneratorTypeOK, IsPlace, Status
<1>7. GeneratorInside
  BY <1>3, <1>4, <1>5 DEF GeneratorInside, IsPlace
<1>8. \A i \in DOMAIN tunit.defs : ~Begun(i)
  <2>1. \A i \in DOMAIN tunit.defs : i \in Nat /\ i > 0
    BY <1>2
  <2> QED BY <1>4, <2>1 DEF Begun, InDefinition
<1>9. \A d \in DOMAIN tunit.decls : ~DeclPassed(gen_pos, d)
  <2>1. \A d \in DOMAIN tunit.decls : d \in Nat /\ d > 0
    BY <1>2
  <2> QED BY <1>4, <2>1 DEF DeclPassed
<1>10. FunctionsByName
  BY <1>3, <1>8, <1>9 DEF FunctionsByName
<1>11. BodiesByDefinition /\ CallsByName /\ ArgumentsEntered
  BY <1>4, <1>5, <1>8 DEF BodiesByDefinition, CallsByName, ArgumentsEntered, InDefinition
<1>12. NeverThrows
  BY <1>3 DEF NeverThrows
<1> QED BY <1>1, <1>6, <1>7, <1>10, <1>11, <1>12 DEF CompilerInv, GeneratorInv

(* No step of the analysis is one of the generator. *)
LEMMA GeneratorStable ==
  ASSUME GeneratorInv, UNCHANGED <<tunit, gen_vars>>
  PROVE  GeneratorInv'
<1>1. UNCHANGED <<gen_pos, status, functions, func_map, value_table, insert_point, frames>>
  BY DEF gen_vars, tables
<1>2. /\ \A i : Begun(i)' <=> Begun(i)
      /\ \A i : FunctionOf(i)' = FunctionOf(i)
      /\ InDefinition' <=> InDefinition
  BY <1>1 DEF Begun, FunctionOf, InDefinition
<1>3. GeneratorTypeOK' /\ GeneratorInside' /\ NeverThrows' /\ CallsByName'
  BY <1>1 DEF GeneratorInv, GeneratorTypeOK, GeneratorInside, NeverThrows, CallsByName
<1>4. FunctionsByName' /\ BodiesByDefinition'
  BY <1>1, <1>2 DEF GeneratorInv, FunctionsByName, BodiesByDefinition
<1>5. ArgumentsEntered'
  BY <1>1 DEF GeneratorInv, ArgumentsEntered, DeclarationsOf
<1> QED BY <1>3, <1>4, <1>5 DEF GeneratorInv

(* The unit is never exchanged. *)
LEMMA TunitFixed == ASSUME TypeInv, [AnalyzerNext]_analyzer_vars PROVE UNCHANGED tunit
<1>1. CASE Build
  BY <1>1, BuilderMoves DEF Build
<1>2. CASE Resolve
  <2>1. HeapTypeOK /\ ResolverTypeOK /\ Within(tunit, resolver_pos) /\ ResolverNext
    BY <1>2 DEF TypeInv, AnalyzerTypeOK, Resolve
  <2> QED BY <2>1, ResolverTypeStep
<1>3. CASE \/ FinishBuilding \/ FinishResolving \/ AnalysisOver \/ UNCHANGED analyzer_vars
  BY <1>3 DEF FinishBuilding, FinishResolving, AnalysisOver, analyzer_vars, heap
<1> QED BY <1>1, <1>2, <1>3 DEF AnalyzerNext

(* ... is kept by every step ... *)
LEMMA CompilerInvStep == CompilerInv /\ [CompilerNext]_compiler_vars => CompilerInv'
<1> SUFFICES ASSUME CompilerInv, [CompilerNext]_compiler_vars PROVE CompilerInv'
  OBVIOUS
<1>1. AnalysisFacts /\ GeneratorInv /\ TypeInv
  BY DEF CompilerInv, AnalysisFacts, AnalyzerInv
<1>2. CASE Analyze
  <2>1. AnalyzerNext /\ UNCHANGED gen_vars
    BY <1>2 DEF Analyze
  <2>2. AnalysisFacts'
    BY <1>1, <2>1, AnalysisFactsStep
  <2>3. UNCHANGED tunit
    BY <1>1, <2>1, TunitFixed
  <2> QED BY <1>1, <2>1, <2>2, <2>3, GeneratorStable DEF CompilerInv
<1>3. CASE Generate
  <2>1. phase = "analyzed" /\ GeneratorNext /\ UNCHANGED analyzer_vars
    BY <1>3 DEF Generate
  <2>2. AnalysisFacts'
    BY <1>1, <2>1, AnalysisFactsStep
  <2>3. Generating /\ UNCHANGED tunit
    BY <1>1, <2>1 DEF Generating, GeneratorNext, analyzer_vars, heap
  <2> QED BY <2>1, <2>2, <2>3, GeneratorStep DEF CompilerInv
<1>4. CASE CompilerOver \/ UNCHANGED compiler_vars
  <2>1. UNCHANGED <<analyzer_vars, gen_vars>>
    BY <1>4 DEF CompilerOver, compiler_vars
  <2>2. AnalysisFacts'
    BY <1>1, <2>1, AnalysisFactsStep
  <2>3. UNCHANGED tunit
    BY <2>1 DEF analyzer_vars, heap
  <2> QED BY <1>1, <2>1, <2>2, <2>3, GeneratorStable DEF CompilerInv
<1> QED BY <1>2, <1>3, <1>4 DEF CompilerNext

(* ... and so holds in every reachable state. *)
LEMMA CompilerInvHolds == CompilerSpec => []CompilerInv
BY CompilerInvInit, CompilerInvStep, PTL DEF CompilerSpec

(* Nothing dangles at the beginning... *)
LEMMA NothingDanglesInit == CompilerInit => NothingDangles
<1> SUFFICES ASSUME CompilerInit PROVE NothingDangles
  OBVIOUS
<1>1. /\ functions = <<>> /\ frames = <<>>
      /\ value_table = [x \in VarNames |-> NoValue]
  BY DEF CompilerInit, GeneratorInit
<1>2. MadeIn(functions, NoValue)
  BY DEF MadeIn, NoValue, IsConstant
<1>3. TableMade(functions, value_table)
  BY <1>1, <1>2 DEF TableMade
<1>4. StackMade(functions, frames) /\ CodeMade(functions)
  BY <1>1 DEF StackMade, CodeMade
<1> QED BY <1>3, <1>4, DanglingMade DEF EverythingMade

(* ... and no step leaves anything dangling ... *)
LEMMA NothingDanglesStep ==
  CompilerInv /\ NothingDangles /\ [CompilerNext]_compiler_vars => NothingDangles'
<1> SUFFICES ASSUME CompilerInv, NothingDangles, [CompilerNext]_compiler_vars
             PROVE  status' # "crashed" => EverythingMade'
  BY DEF NothingDangles, Made, EverythingMade, MadeIn, AllMadeIn, TableMade, StackMade,
         InstrMade, CodeMade
<1>1. CASE Generate
  <2>1. Generating /\ GeneratorNext
    BY <1>1 DEF Generate, Generating, GeneratorNext, CompilerInv
  <2>2. EverythingMade
    BY <2>1, DanglingMade DEF Generating
  <2>3. BodyMade
    BY <2>1, <2>2, StepMade
  <2> QED BY <2>3 DEF BodyMade, EverythingMade, TableMade, StackMade, CodeMade, InstrMade,
                      AllMadeIn, MadeIn
<1>2. CASE Analyze \/ CompilerOver \/ UNCHANGED compiler_vars
  <2>1. UNCHANGED gen_vars
    BY <1>2 DEF Analyze, CompilerOver, compiler_vars
  <2>2. UNCHANGED <<status, functions, value_table, frames>>
    BY <2>1 DEF gen_vars, tables
  <2> QED BY <2>2, DanglingMade DEF EverythingMade
<1> QED BY <1>1, <1>2 DEF CompilerNext

(* ... whatever the unit. *)
LEMMA NothingDanglesHolds == CompilerSpec => []NothingDangles
BY CompilerInvHolds, NothingDanglesInit, NothingDanglesStep, PTL DEF CompilerSpec

(* The tables of the generator agree with the module and the unit. *)
THEOREM GeneratorInvariant == CompilerSpec => []GeneratorInv
<1>1. CompilerInv => GeneratorInv
  BY DEF CompilerInv
<1> QED BY CompilerInvHolds, <1>1, PTL

(* Whatever the unit, until the generator crashes: every number it holds is *)
(* one of the target, every argument is one its function has, every address *)
(* that of an alloca and every result that of an instruction with a value   *)
(* which was emitted before, in the value table, among the operands that    *)
(* wait and in the code; and every callee is a function of the module.      *)
THEOREM GeneratorTypeCorrect == CompilerSpec => [](GeneratorTypeOK /\ NothingDangles)
<1>1. CompilerInv => GeneratorTypeOK
  BY DEF CompilerInv, GeneratorInv
<1> QED BY CompilerInvHolds, NothingDanglesHolds, <1>1, PTL

(* codegen_exception is dead code: no unit that passes the analysis makes   *)
(* generate(parameter) miss an argument, or an assignment have anything but *)
(* an identifier to its left.                                               *)
THEOREM ExceptionNeverThrown == CompilerSpec => []NeverThrows
<1>1. GeneratorInv => NeverThrows
  BY DEF GeneratorInv
<1> QED BY GeneratorInvariant, <1>1, PTL

(* No function gets a second entry block, and of a finished module the      *)
(* functions with a body are one for each definition.                       *)
THEOREM BodiesAreUnique == CompilerSpec => []OneBodyEach
<1>1. CompilerInv => OneBodyEach
  <2> SUFFICES ASSUME CompilerInv PROVE OneBodyEach
    OBVIOUS
  <2>1. BodiesByDefinition /\ FunctionsByName /\ GeneratorInside
        /\ functions \in Seq(LlvmFunction)
        /\ func_map \in [FuncNames -> {NoFunction} \cup DOMAIN functions]
    BY DEF CompilerInv, GeneratorInv, GeneratorTypeOK
  <2>2. \A f \in DOMAIN functions : functions[f].blocks = 0 \/ functions[f].blocks = 1
    BY <2>1 DEF BodiesByDefinition
  <2>3. tunit \in TranslationUnit
    BY TunitType DEF CompilerInv, AnalysisFacts, AnalyzerInv, TypeInv, AnalyzerTypeOK
  <2>4. ASSUME status = "generated", NEW name \in FuncNames
        PROVE  IF \E i \in DOMAIN tunit.defs : tunit.defs[i].name = name
               THEN \E f \in DOMAIN functions : Bodies(name) = {f}
               ELSE Bodies(name) = {}
    <3>1. \A i \in DOMAIN tunit.defs : Begun(i)
      BY <2>1, <2>4 DEF GeneratorInside, Begun
    <3>2. \A i \in DOMAIN tunit.defs : tunit.defs[i].name = name =>
            /\ FunctionOf(i) = func_map[name] /\ FunctionOf(i) \in DOMAIN functions
            /\ functions[FunctionOf(i)].name = name
            /\ functions[FunctionOf(i)].blocks = 1
      BY <2>1, <3>1 DEF FunctionsByName, BodiesByDefinition, FunctionOf
    <3>3. \A f \in Bodies(name) : \E i \in DOMAIN tunit.defs :
            tunit.defs[i].name = name /\ FunctionOf(i) = f
      <4> SUFFICES ASSUME NEW f \in Bodies(name)
                   PROVE  \E i \in DOMAIN tunit.defs :
                            tunit.defs[i].name = name /\ FunctionOf(i) = f
        OBVIOUS
      <4>1. PICK i \in DOMAIN tunit.defs : FunctionOf(i) = f
        BY <2>1 DEF Bodies, BodiesByDefinition
      <4>2. tunit.defs[i].name \in FuncNames
        BY <2>3, <4>1, UnitType
      <4>3. functions[FunctionOf(i)].name = tunit.defs[i].name
        BY <2>1, <3>1, <4>1, <4>2 DEF FunctionsByName, FunctionOf
      <4> QED BY <4>1, <4>3 DEF Bodies
    <3>4. CASE \E i \in DOMAIN tunit.defs : tunit.defs[i].name = name
      <4>1. PICK i \in DOMAIN tunit.defs : tunit.defs[i].name = name
        BY <3>4
      <4>2. FunctionOf(i) \in Bodies(name)
        BY <3>2, <4>1 DEF Bodies
      <4>3. \A f \in Bodies(name) : f = FunctionOf(i)
        BY <3>2, <3>3, <4>1
      <4>4. Bodies(name) = {FunctionOf(i)}
        BY <4>2, <4>3
      <4> QED BY <3>2, <3>4, <4>1, <4>4
    <3>5. CASE ~ \E i \in DOMAIN tunit.defs : tunit.defs[i].name = name
      <4>1. Bodies(name) = {}
        BY <3>3, <3>5
      <4> QED BY <3>5, <4>1
    <3> QED BY <3>4, <3>5
  <2>5. \A f \in DOMAIN functions : functions[f].blocks <= 1
    BY <2>2
  <2> QED BY <2>4, <2>5 DEF OneBodyEach
<1> QED BY CompilerInvHolds, <1>1, PTL

(* Every call of a function that the unit defines leads to its body.        *)
THEOREM CallsDoReachBody == CompilerSpec => []CallsReachBody
<1>1. GeneratorInv => CallsReachBody
  <2> SUFFICES ASSUME GeneratorInv, status = "generated",
                      NEW f \in DOMAIN functions, NEW j \in DOMAIN functions[f].code,
                      functions[f].code[j].op = "call",
                      NEW i \in DOMAIN tunit.defs,
                      tunit.defs[i].name = functions[functions[f].code[j].callee].name
               PROVE  functions[functions[f].code[j].callee].blocks = 1
    BY DEF CallsReachBody
  <2> DEFINE c == functions[f].code[j].callee
  <2>1. c \in DOMAIN functions /\ func_map[functions[c].name] = c
    BY DEF GeneratorInv, CallsByName
  <2>2. Begun(i)
    BY DEF GeneratorInv, GeneratorInside, Begun
  <2>3. FunctionOf(i) = c
    BY <2>1 DEF FunctionOf
  <2> QED BY <2>2, <2>3 DEF GeneratorInv, BodiesByDefinition
<1> QED BY GeneratorInvariant, <1>1, PTL

============================================================================
