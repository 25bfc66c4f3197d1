---------------------------- MODULE IrGenerator ----------------------------
(***************************************************************************)
(* ir_generator: from the analysed tree to an LLVM module.  One action per *)
(* generate() overload; the recursion through expressions is the stack     *)
(* "frames" of expressions that wait for their operands.                   *)
(*                                                                         *)
(* Types are "int" and "pointer to int" only, so an LLVM value is known by *)
(* its kind and its place.  Locking a weak_ptr whose symbol is gone and    *)
(* using the result, loading from a null pointer and calling a null        *)
(* function end the process: status "crashed".  An instruction whose       *)
(* operands have the wrong types stops an LLVM built with assertions and   *)
(* is emitted as it is by one built without: both are allowed.             *)
(***************************************************************************)
EXTENDS Scope

VARIABLES
  gen_pos,        \* the next generate() call that can have an effect
  status,         \* how the generation goes
  functions,      \* the functions of the llvm::Module, in order of creation
  func_map,       \* ir_generator::func_map
  value_table,    \* ir_generator::value_table
  insert_point,   \* the function the builder appends to
  frames          \* the expressions being generated, outermost first

tables == <<func_map, value_table>>
gen_vars == <<gen_pos, status, functions, tables, insert_point, frames>>

(* Not in func_map, and not in value_table. *)
NoFunction == 0
NoValue    == [kind |-> "none", fn |-> 0, k |-> 0]

(* The k-th argument of a function, the result of its k-th instruction (an  *)
(* address if that is an alloca), the number k, or the undefined constant.  *)
Value == [kind : {"argument", "alloca", "result", "constant", "undef"}, fn : Nat, k : Int]

Argument(fn, k) == [kind |-> "argument", fn |-> fn, k |-> k]
Constant(k)     == [kind |-> "constant", fn |-> 0, k |-> k]
Undef           == [kind |-> "undef", fn |-> 0, k |-> 0]

IsConstant(v) == v.kind \in {"constant", "undef"}

IsAddress(v) == v.kind = "alloca"

Instruction == [op : {"alloca", "store", "load", "call", "ret", "+", "-", "*", "/"},
                operands : Seq(Value), callee : Nat]

Instr(op, operands) == [op |-> op, operands |-> operands, callee |-> NoFunction]

(* The name is the one asked for: a module that has a function of that name *)
(* already gives the new one another.  "code" runs through all the basic    *)
(* blocks made for a function.                                              *)
LlvmFunction == [name : FuncNames, arity : Nat, blocks : Nat, code : Seq(Instruction)]

(* An expression and the operands generated for it so far. *)
Frame == [node : Nat, operands : Seq(Value)]

Status == {"generating", "generated", "codegen_exception", "crashed"}

GenPosition == [at : {"decl", "def", "param", "var", "node", "post_def", "end"},
                fn : Nat, k : Nat]

GeneratorTypeOK ==
  /\ gen_pos \in GenPosition
  /\ status \in Status
  /\ functions \in Seq(LlvmFunction)
  /\ func_map \in [FuncNames -> {NoFunction} \cup DOMAIN functions]
  /\ value_table \in [VarNames -> Value \cup {NoValue}]
  /\ insert_point \in {NoFunction} \cup DOMAIN functions
  /\ frames \in Seq(Frame)

GeneratorInit ==
  /\ gen_pos = EnterDecl(tunit, 1)
  /\ status = "generating"
  /\ functions = <<>>
  /\ func_map = [f \in FuncNames |-> NoFunction]
  /\ value_table = [x \in VarNames |-> NoValue]
  /\ insert_point = NoFunction
  /\ frames = <<>>

----------------------------------------------------------------------------
(* Emitting instructions. *)

(* The types of the operands are those the instruction asks for. *)
WellTyped(instr) ==
  LET operands == instr.operands
  IN  /\ instr.op = "store" => ~IsAddress(operands[1]) /\ IsAddress(operands[2])
      /\ instr.op = "load"  => IsAddress(operands[1])
      /\ instr.op = "call"  => Len(operands) = functions[instr.callee].arity
      /\ instr.op \notin {"store", "load"} =>
           \A j \in DOMAIN operands : ~IsAddress(operands[j])

(* The value of an instruction emitted now. *)
NextValue(kind) ==
  [kind |-> kind, fn |-> insert_point, k |-> Len(functions[insert_point].code) + 1]

(* The builder appends the instructions.  (CreateRet checks no type.) *)
Emit(instrs) ==
  \/ /\ functions' = [functions EXCEPT ![insert_point].code = @ \o instrs]
     /\ UNCHANGED status
  \/ /\ \E j \in DOMAIN instrs : instrs[j].op # "ret" /\ ~WellTyped(instrs[j])
     /\ status' = "crashed"
     /\ UNCHANGED functions

Stop(how) ==
  /\ status' = how
  /\ UNCHANGED <<gen_pos, functions, tables, insert_point, frames>>

(* The stack once v has been generated: v is the next operand of the        *)
(* expression on top, or the unused value of a statement.                   *)
Deliver(stack, v) ==
  IF stack = <<>> THEN <<>>
  ELSE [stack EXCEPT ![Len(stack)].operands = Append(@, v)]

----------------------------------------------------------------------------
(* Functions. *)

EnterParam(t, i, k) ==
  IF k <= Len(t.defs[i].params) THEN At("param", i, k) ELSE EnterVar(t, i, 1)

(* create_function makes an llvm::Function for a function symbol ... *)
NewFunction(s) ==
  [name |-> func_table[s].name, arity |-> Len(func_table[s].params),
   blocks |-> 0, code |-> <<>>]

(* Mutant: the arguments are not entered into the value table. *)
WithoutArguments(s, fn) == value_table

(* Mutant: the arguments are counted from the second. *)
WithArgumentsShifted(s, fn) ==
  LET params   == func_table[s].params
      places(x) == {k \in DOMAIN params : params[k].name = x}
  IN  [x \in VarNames |-> IF places(x) = {} THEN value_table[x]
                          ELSE Argument(fn, Max(places(x)) + 1)]

(* ... and enters its arguments into the value table, under the names of    *)
(* the parameters of the symbol.                                            *)
WithArguments(s, fn) ==
  LET params   == func_table[s].params
      places(x) == {k \in DOMAIN params : params[k].name = x}
  IN  [x \in VarNames |-> IF places(x) = {} THEN value_table[x]
                          ELSE Argument(fn, Max(places(x)))]

(* Mutant: the function is not entered into func_map. *)
GenDeclarationUnmapped ==
  /\ gen_pos.at = "decl"
  /\ LET s == decl_scope[gen_pos.fn]
     IN  /\ functions' = Append(functions, NewFunction(s))
         /\ value_table' = WithArguments(s, Len(functions'))
  /\ gen_pos' = EnterDecl(tunit, gen_pos.fn + 1)
  /\ UNCHANGED <<func_map, status, insert_point, frames>>

(* A declaration makes a function, also when its name has one already. *)
GenDeclaration ==
  /\ gen_pos.at = "decl"
  /\ LET s == decl_scope[gen_pos.fn]
     IN  /\ functions' = Append(functions, NewFunction(s))
         /\ func_map' = [func_map EXCEPT ![func_table[s].name] = Len(functions')]
         /\ value_table' = WithArguments(s, Len(functions'))
  /\ gen_pos' = EnterDecl(tunit, gen_pos.fn + 1)
  /\ UNCHANGED <<status, insert_point, frames>>

(* Mutant: func_map gets the index behind the function. *)
GenNewDefinitionOffByOne ==
  /\ gen_pos.at = "def" /\ func_map[tunit.defs[gen_pos.fn].name] = NoFunction
  /\ LET s == def_scope[gen_pos.fn]
     IN  /\ functions' = Append(functions, [NewFunction(s) EXCEPT !.blocks = 1])
         /\ func_map' = [func_map EXCEPT ![tunit.defs[gen_pos.fn].name] = Len(functions') + 1]
         /\ value_table' = WithArguments(s, Len(functions'))
  /\ insert_point' = Len(functions')
  /\ gen_pos' = EnterParam(tunit, gen_pos.fn, 1)
  /\ UNCHANGED <<status, frames>>

(* Mutant: the function is not entered into func_map. *)
GenNewDefinitionUnmapped ==
  /\ gen_pos.at = "def" /\ func_map[tunit.defs[gen_pos.fn].name] = NoFunction
  /\ LET s == def_scope[gen_pos.fn]
     IN  /\ functions' = Append(functions, [NewFunction(s) EXCEPT !.blocks = 1])
         /\ value_table' = WithArguments(s, Len(functions'))
  /\ insert_point' = Len(functions')
  /\ gen_pos' = EnterParam(tunit, gen_pos.fn, 1)
  /\ UNCHANGED <<func_map, status, frames>>

(* A definition whose name is not in func_map makes a function ... *)
GenNewDefinition ==
  /\ gen_pos.at = "def" /\ func_map[tunit.defs[gen_pos.fn].name] = NoFunction
  /\ LET s == def_scope[gen_pos.fn]
     IN  /\ functions' = Append(functions, [NewFunction(s) EXCEPT !.blocks = 1])
         /\ func_map' = [func_map EXCEPT ![tunit.defs[gen_pos.fn].name] = Len(functions')]
         /\ value_table' = WithArguments(s, Len(functions'))
  /\ insert_point' = Len(functions')
  /\ gen_pos' = EnterParam(tunit, gen_pos.fn, 1)
  /\ UNCHANGED <<status, frames>>

(* Mutant: func_map is not asked, every definition makes a function. *)
GenKnownDefinitionAnew ==
  /\ gen_pos.at = "def" /\ func_map[tunit.defs[gen_pos.fn].name] # NoFunction
  /\ LET s == def_scope[gen_pos.fn]
     IN  /\ functions' = Append(functions, [NewFunction(s) EXCEPT !.blocks = 1])
         /\ func_map' = [func_map EXCEPT ![tunit.defs[gen_pos.fn].name] = Len(functions')]
         /\ value_table' = WithArguments(s, Len(functions'))
  /\ insert_point' = Len(functions')
  /\ gen_pos' = EnterParam(tunit, gen_pos.fn, 1)
  /\ UNCHANGED <<status, frames>>

(* ... and one whose name is there a body for the function it finds, whose  *)
(* arguments are not entered into the value table again.                    *)
GenKnownDefinition ==
  /\ gen_pos.at = "def" /\ func_map[tunit.defs[gen_pos.fn].name] # NoFunction
  /\ LET fn == func_map[tunit.defs[gen_pos.fn].name]
     IN  /\ functions' = [functions EXCEPT ![fn].blocks = @ + 1]
         /\ insert_point' = fn
  /\ gen_pos' = EnterParam(tunit, gen_pos.fn, 1)
  /\ UNCHANGED <<status, tables, frames>>

(* Mutant: the argument keeps its place in the value table. *)
GenParameterUnnamed ==
  /\ gen_pos.at = "param"
  /\ LET i == gen_pos.fn
         x == tunit.defs[i].params[gen_pos.k]
         address == NextValue("alloca")
     IN  IF ~Alive(NewVariable(x, "def", i, gen_pos.k)) THEN Stop("crashed")
         ELSE IF value_table[x] = NoValue THEN Stop("codegen_exception")
         ELSE /\ Emit(<<Instr("alloca", <<>>), Instr("store", <<value_table[x], address>>)>>)
              /\ gen_pos' = EnterParam(tunit, i, gen_pos.k + 1)
              /\ UNCHANGED <<tables, insert_point, frames>>

(* Storage for a parameter: an alloca, a store of the argument into it, and *)
(* the alloca takes the argument's place in the value table.                *)
GenParameter ==
  /\ gen_pos.at = "param"
  /\ LET i == gen_pos.fn
         x == tunit.defs[i].params[gen_pos.k]
         address == NextValue("alloca")
     IN  IF ~Alive(NewVariable(x, "def", i, gen_pos.k)) THEN Stop("crashed")
         ELSE IF value_table[x] = NoValue THEN Stop("codegen_exception")
         ELSE /\ Emit(<<Instr("alloca", <<>>), Instr("store", <<value_table[x], address>>)>>)
              /\ value_table' = [value_table EXCEPT ![x] = address]
              /\ gen_pos' = EnterParam(tunit, i, gen_pos.k + 1)
              /\ UNCHANGED <<func_map, insert_point, frames>>

(* Mutant: the alloca is not entered into the value table. *)
GenVariableUnnamed ==
  /\ gen_pos.at = "var"
  /\ LET i == gen_pos.fn
         x == tunit.defs[i].vars[gen_pos.k]
     IN  IF ~Alive(NewVariable(x, "var", i, gen_pos.k)) THEN Stop("crashed")
         ELSE /\ Emit(<<Instr("alloca", <<>>)>>)
              /\ gen_pos' = EnterVar(tunit, i, gen_pos.k + 1)
              /\ UNCHANGED <<tables, insert_point, frames>>

(* Storage for a local variable. *)
GenVariable ==
  /\ gen_pos.at = "var"
  /\ LET i == gen_pos.fn
         x == tunit.defs[i].vars[gen_pos.k]
     IN  IF ~Alive(NewVariable(x, "var", i, gen_pos.k)) THEN Stop("crashed")
         ELSE /\ Emit(<<Instr("alloca", <<>>)>>)
              /\ value_table' = [value_table EXCEPT ![x] = NextValue("alloca")]
              /\ gen_pos' = EnterVar(tunit, i, gen_pos.k + 1)
              /\ UNCHANGED <<func_map, insert_point, frames>>

(* A definition is done; the tables keep what they hold. *)
LeaveDefinition ==
  /\ gen_pos.at = "post_def" /\ frames = <<>>
  /\ gen_pos' = EnterDef(tunit, gen_pos.fn + 1)
  /\ UNCHANGED <<status, functions, tables, insert_point, frames>>

(* The module is done. *)
LeaveUnit ==
  /\ gen_pos.at = "end"
  /\ status' = "generated"
  /\ UNCHANGED <<gen_pos, functions, tables, insert_point, frames>>

----------------------------------------------------------------------------
(* Statements and expressions. *)

GenBody == tunit.defs[gen_pos.fn].body

Top     == frames[Len(frames)]
TopNode == GenBody[Top.node]

(* The expression on top has all its operands. *)
Complete == frames # <<>> /\ Len(Top.operands) = Arity(TopNode)

(* The next node of the body is to be generated, and is one of the kind. *)
AtNode(kind) ==
  gen_pos.at = "node" /\ ~Complete /\ GenBody[gen_pos.k].kind = kind

(* The n nodes from here on have been taken. *)
Pass(n) == gen_pos' = EnterNode(tunit, gen_pos.fn, gen_pos.k + n)

(* The builder puts one instruction in place of the finished expression. *)
Finish(instr, value) ==
  /\ Emit(<<instr>>)
  /\ frames' = Deliver(Front(frames), value)
  /\ UNCHANGED <<gen_pos, tables, insert_point>>

GenNumber ==
  /\ AtNode("number_literal")
  /\ frames' = Deliver(frames, Constant(GenBody[gen_pos.k].value))
  /\ Pass(1)
  /\ UNCHANGED <<status, functions, tables, insert_point>>

(* An identifier is a load from what the value table has under the name of  *)
(* its symbol.                                                              *)
GenIdentifier ==
  /\ AtNode("identifier")
  /\ LET symbol == id_symbol[<<gen_pos.fn, gen_pos.k>>]
         source == value_table[symbol.name]
     IN  IF ~Alive(symbol) \/ source = NoValue THEN Stop("crashed")
         ELSE /\ Emit(<<Instr("load", <<source>>)>>)
              /\ frames' = Deliver(frames, NextValue("result"))
              /\ Pass(1)
              /\ UNCHANGED <<tables, insert_point>>

(* Operands come first, from left to right. *)
BeginExpression ==
  /\ \/ AtNode("call_expression") \/ AtNode("jump_statement")
     \/ AtNode("binary_expression") /\ GenBody[gen_pos.k].op # "="
  /\ frames' = Append(frames, [node |-> gen_pos.k, operands |-> <<>>])
  /\ Pass(1)
  /\ UNCHANGED <<status, functions, tables, insert_point>>

(* The left-hand side of "=" is looked up by its name and generates nothing; *)
(* one that is no identifier is refused.                                     *)
BeginAssignment ==
  /\ AtNode("binary_expression") /\ GenBody[gen_pos.k].op = "="
  /\ LET lhs    == GenBody[gen_pos.k + 1]
         target == value_table[lhs.name]
     IN  IF lhs.kind # "identifier" THEN Stop("codegen_exception")
         ELSE IF target = NoValue THEN Stop("crashed")
         ELSE /\ frames' = Append(frames, [node |-> gen_pos.k, operands |-> <<target>>])
              /\ Pass(2)
              /\ UNCHANGED <<status, functions, tables, insert_point>>

(* Integer arithmetic of the target: numbers wrap around, quotients are     *)
(* truncated, and some have no value.                                       *)
Wrapped(k) == ((k + Limit) % (2 * Limit)) - Limit

Magnitude(k) == IF k < 0 THEN -k ELSE k

(* Mutant: a quotient below zero is rounded down. *)
QuotientFloored(a, b) ==
  IF (a < 0) = (b < 0) THEN Magnitude(a) \div Magnitude(b)
  ELSE -((Magnitude(a) + Magnitude(b) - 1) \div Magnitude(b))

Quotient(a, b) ==
  LET q == Magnitude(a) \div Magnitude(b) IN IF (a < 0) = (b < 0) THEN q ELSE -q

Divides(a, b) == b # 0 /\ (a = -Limit => b # -1)

(* What an operation on constants is folded into.  (With an undefined       *)
(* operand LLVM chooses between the two.)                                   *)
Folded(op, v, w) ==
  IF Undef \in {v, w} THEN {Undef, Constant(0)}
  ELSE {CASE op = "+" -> Constant(Wrapped(v.k + w.k))
          [] op = "-" -> Constant(Wrapped(v.k - w.k))
          [] op = "*" -> Constant(Wrapped(v.k * w.k))
          [] op = "/" -> IF Divides(v.k, w.k) THEN Constant(Quotient(v.k, w.k)) ELSE Undef}

AllConstant == \A j \in DOMAIN Top.operands : IsConstant(Top.operands[j])

(* The builder folds an operation on two constants into a constant. *)
FoldConstants ==
  /\ Complete /\ TopNode \in Binary /\ TopNode.op # "="
  /\ AllConstant
  /\ \E v \in Folded(TopNode.op, Top.operands[1], Top.operands[2]) :
       frames' = Deliver(Front(frames), v)
  /\ UNCHANGED <<gen_pos, status, functions, tables, insert_point>>

(* Mutant: the operands change sides. *)
FinishBinarySwapped ==
  /\ Complete /\ TopNode \in Binary /\ TopNode.op # "="
  /\ ~AllConstant
  /\ Finish(Instr(TopNode.op, Reverse(Top.operands)), NextValue("result"))

FinishBinary ==
  /\ Complete /\ TopNode \in Binary /\ TopNode.op # "="
  /\ ~AllConstant
  /\ Finish(Instr(TopNode.op, Top.operands), NextValue("result"))

(* The value of an assignment is the address assigned to. *)
FinishAssignment ==
  /\ Complete /\ TopNode \in Binary /\ TopNode.op = "="
  /\ Finish(Instr("store", <<Top.operands[2], Top.operands[1]>>), Top.operands[1])

(* The callee is looked up by the name of the function symbol. *)
FinishCall ==
  /\ Complete /\ TopNode \in Call
  /\ LET fn == func_map[func_table[call_symbol[<<gen_pos.fn, Top.node>>]].name]
     IN  IF fn = NoFunction THEN Stop("crashed")
         ELSE Finish([op |-> "call", operands |-> Top.operands, callee |-> fn],
                     NextValue("result"))

(* Mutant: no return is emitted behind another. *)
FinishReturnOnce ==
  /\ Complete /\ TopNode \in Jump
  /\ LET code == functions[insert_point].code
     IN  IF code # <<>> /\ Last(code).op = "ret" THEN UNCHANGED <<functions, status>>
         ELSE Emit(<<Instr("ret", Top.operands)>>)
  /\ frames' = Front(frames)
  /\ UNCHANGED <<gen_pos, tables, insert_point>>

FinishReturn ==
  /\ Complete /\ TopNode \in Jump
  /\ Emit(<<Instr("ret", Top.operands)>>)
  /\ frames' = Front(frames)
  /\ UNCHANGED <<gen_pos, tables, insert_point>>

GeneratorNext ==
  /\ status = "generating"
  /\ \/ GenDeclaration
     \/ GenNewDefinition
     \/ GenKnownDefinition
     \/ GenParameter
     \/ GenVariable
     \/ LeaveDefinition
     \/ LeaveUnit
     \/ GenNumber
     \/ GenIdentifier
     \/ BeginExpression
     \/ BeginAssignment
     \/ FoldConstants
     \/ FinishBinary
     \/ FinishAssignment
     \/ FinishCall
     \/ FinishReturn

============================================================================
