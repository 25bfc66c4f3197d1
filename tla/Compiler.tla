------------------------------ MODULE Compiler ------------------------------
(***************************************************************************)
(* What main() of dcc does with a parsed translation unit: analyze it and, *)
(* unless that throws, generate the module.                                *)
(***************************************************************************)
EXTENDS SemanticAnalyzer, IrGenerator, Language

compiler_vars == <<analyzer_vars, gen_vars>>

CompilerInit == AnalyzerInit /\ GeneratorInit

Analyze == AnalyzerNext /\ UNCHANGED gen_vars

Generate == phase = "analyzed" /\ GeneratorNext /\ UNCHANGED analyzer_vars

(* main() has its module, or an exception or a signal ended the process. *)
CompilerOver ==
  /\ phase = "semantic_exception" \/ status # "generating"
  /\ UNCHANGED compiler_vars

CompilerNext == Analyze \/ Generate \/ CompilerOver

(* One thread runs the phases one after the other, and none of them waits. *)
CompilerSpec ==
  CompilerInit /\ [][CompilerNext]_compiler_vars /\ WF_compiler_vars(CompilerNext)

----------------------------------------------------------------------------
(* The generator never meets what it throws codegen_exception for: whatever *)
(* unit the analysis lets pass, a parameter whose symbol is there has its   *)
(* argument in the value table, and an identifier is left of every "=".     *)
(* (The third throw, in create_type, is for a type of another name than int,*)
(* the only one there is.)                                                  *)
NeverThrows == status # "codegen_exception"

Bodies(name) == {f \in DOMAIN functions : functions[f].name = name /\ functions[f].blocks # 0}

(* A function gets at most one body, whatever was declared how often, since *)
(* the analysis lets each name be defined once and func_map is by name; and *)
(* in a finished module each name the unit defines has one body, and the    *)
(* others have none.                                                        *)
OneBodyEach ==
  /\ \A f \in DOMAIN functions : functions[f].blocks <= 1
  /\ status = "generated" =>
       \A name \in FuncNames :
         IF \E i \in DOMAIN tunit.defs : tunit.defs[i].name = name
         THEN \E f \in DOMAIN functions : Bodies(name) = {f}
         ELSE Bodies(name) = {}

(* Every call of a function the unit defines leads to the function with the *)
(* body, though func_map is by name and changes while the calls are         *)
(* generated, and declarations leave functions of the same name without.    *)
CallsReachBody ==
  status = "generated" =>
    \A f \in DOMAIN functions : \A j \in DOMAIN functions[f].code :
      LET instr == functions[f].code[j]
      IN  instr.op = "call"
          /\ (\E i \in DOMAIN tunit.defs : tunit.defs[i].name = functions[instr.callee].name)
          => functions[instr.callee].blocks = 1

(* What an operand of instruction j of function f may be: a number, an      *)
(* argument of f or the value of an earlier instruction of f.               *)
Local(v, f, j) ==
  ~IsConstant(v) => /\ v.fn = f
                    /\ v.k <= IF v.kind = "argument" THEN functions[f].arity ELSE j - 1

(* The code is valid: operands come from the function itself although the  *)
(* value table still holds the values of all functions before, they have    *)
(* the types their instructions ask for, and nothing follows the terminator *)
(* of a block.                                                              *)
InstructionsFit ==
  \A f \in DOMAIN functions : \A j \in DOMAIN functions[f].code :
    LET instr == functions[f].code[j]
    IN  /\ WellTyped(instr)
        /\ \A o \in DOMAIN instr.operands : Local(instr.operands[o], f, j)
        /\ instr.op = "ret" => j = Len(functions[f].code)

(* What was generated so far for a supported unit is valid. *)
CodeValid == Supported(tunit) => InstructionsFit

(* A value that is there: a number of the target, an argument its function  *)
(* has, the address or the result of an instruction that was emitted.       *)
Made(v) ==
  /\ IsConstant(v) => v.k \in -Limit .. Limit - 1
  /\ v.kind \in {"argument", "alloca", "result"} => v.fn \in DOMAIN functions
  /\ v.kind = "argument" => v.k \in 1 .. functions[v.fn].arity
  /\ v.kind \in {"alloca", "result"} => v.k \in DOMAIN functions[v.fn].code
  /\ v.kind = "alloca" => functions[v.fn].code[v.k].op = "alloca"
  /\ v.kind = "result" =>
       functions[v.fn].code[v.k].op \in {"load", "call", "+", "-", "*", "/"}

(* Whatever the unit, supported or not: what the value table holds, what    *)
(* waits as an operand, what the code uses and what it calls was made.      *)
NothingDangles ==
  status # "crashed" =>
    /\ \A x \in VarNames : Made(value_table[x])
    /\ \A j \in DOMAIN frames : \A o \in DOMAIN frames[j].operands :
         Made(frames[j].operands[o])
    /\ \A f \in DOMAIN functions : \A j \in DOMAIN functions[f].code :
         LET instr == functions[f].code[j]
         IN  /\ \A o \in DOMAIN instr.operands : Made(instr.operands[o])
             /\ instr.op = "call" => instr.callee \in DOMAIN functions

(* What can crash the generator can be told from the unit: a symbol it is   *)
(* sure to miss, or types that do not fit.                                  *)
CrashesForeseen == status = "crashed" => Doomed(tunit) \/ IllTyped(tunit)

(* The generator adds no terminator and stops at none: the code of a body   *)
(* has one, at its end, exactly if the source returns once and has nothing  *)
(* behind the return that needs an instruction.                             *)
ReturnsInCode ==
  status = "generated" =>
    \A i \in DOMAIN tunit.defs :
      LET code == functions[func_map[tunit.defs[i].name]].code
      IN  {j \in DOMAIN code : code[j].op = "ret"} = {Len(code)}
            <=> ClosedByReturn(tunit.defs[i].body)

(* The place of the storage of a variable in its function: allocas come     *)
(* first, that of a parameter with the store of the argument.               *)
StorageOf(symbol) ==
  [kind |-> "alloca", fn |-> insert_point,
   k |-> IF symbol.site = "var"
         THEN 2 * Len(tunit.defs[symbol.fn].params) + symbol.k
         ELSE 2 * symbol.k - 1]

(* The analysis binds an identifier to a symbol, the generator looks it up  *)
(* by name in a table that no scope ever clears: in a supported unit both   *)
(* mean the same variable, as an operand and to the left of "=".            *)
NameMeansSymbol ==
  Supported(tunit) /\ status = "generating" /\ gen_pos.at = "node" =>
    LET place  == <<gen_pos.fn, gen_pos.k>>
        target == <<gen_pos.fn, gen_pos.k + 1>>
    IN  /\ AtNode("identifier") =>
             value_table[NodeAt(place).name] = StorageOf(id_symbol[place])
        /\ AtNode("binary_expression") /\ NodeAt(place).op = "=" =>
             value_table[NodeAt(target).name] = StorageOf(id_symbol[target])

(* Every definition has its function, with a body closed by "return". *)
ModuleComplete ==
  \A i \in DOMAIN tunit.defs : \E f \in DOMAIN functions :
    /\ functions[f].name = tunit.defs[i].name /\ functions[f].blocks = 1
    /\ Last(functions[f].code).op = "ret"

(* The compiler as seen from outside. *)
Outcome ==
  CASE phase = "semantic_exception"  -> "rejected"
    [] status = "crashed"            -> "crashed"
    [] status = "codegen_exception"  -> "codegen_exception"
    [] status = "generated"          ->
         IF Supported(tunit) /\ ~ModuleComplete THEN "incomplete" ELSE "module"
    [] OTHER                         -> "pending"

Whole == INSTANCE CompileRules WITH unit <- tunit, verdict <- Outcome

(* All phases together come to an end the unit alone allows: an exception   *)
(* of the analysis exactly if it is not well named, a complete module if it *)
(* is supported, a module or a crash otherwise, and never another exception.*)
ImplementsCompileRules == Whole!CompileSpec

----------------------------------------------------------------------------
(* The inductive invariant of the generator, for every unit, supported or   *)
(* not.                                                                     *)

InDefinition == gen_pos.at \in {"param", "var", "node", "post_def"}

(* The generator has reached definition i. *)
Begun(i) ==
  \/ gen_pos.at = "end"
  \/ gen_pos.at = "def" /\ i < gen_pos.fn
  \/ InDefinition /\ i <= gen_pos.fn

FunctionOf(i) == func_map[tunit.defs[i].name]

(* The place to generate is there, and expressions wait for their operands  *)
(* only inside the body they belong to.                                     *)
GeneratorInside ==
  /\ Within(tunit, gen_pos)
  /\ gen_pos.at = "param" => /\ gen_pos.fn \in DOMAIN tunit.defs
                            /\ gen_pos.k \in DOMAIN tunit.defs[gen_pos.fn].params
  /\ frames # <<>> => gen_pos.at \in {"node", "post_def"}
  /\ \A j \in DOMAIN frames : frames[j].node \in DOMAIN tunit.defs[gen_pos.fn].body
  /\ status = "generated" => gen_pos.at = "end"

(* func_map holds a function of the name exactly when the generator has     *)
(* come to a declaration or a definition of it.                             *)
FunctionsByName ==
  \A name \in FuncNames :
    /\ func_map[name] # NoFunction => functions[func_map[name]].name = name
    /\ func_map[name] # NoFunction <=>
         \/ \E d \in DOMAIN tunit.decls :
              DeclPassed(gen_pos, d) /\ tunit.decls[d].name = name
         \/ \E i \in DOMAIN tunit.defs : Begun(i) /\ tunit.defs[i].name = name

(* The functions with a body are those of the definitions begun, one each,  *)
(* and the builder appends to that of the definition it is in.              *)
BodiesByDefinition ==
  /\ \A i \in DOMAIN tunit.defs : Begun(i) => functions[FunctionOf(i)].blocks = 1
  /\ \A f \in DOMAIN functions :
       /\ functions[f].blocks # 0 =>
            \E i \in DOMAIN tunit.defs : Begun(i) /\ FunctionOf(i) = f
       /\ functions[f].blocks = 0 => functions[f].code = <<>>
  /\ InDefinition => insert_point = FunctionOf(gen_pos.fn)

(* What a call leads to is still what func_map has for its name. *)
CallsByName ==
  \A f \in DOMAIN functions : \A j \in DOMAIN functions[f].code :
    LET instr == functions[f].code[j]
    IN  instr.op = "call" => /\ instr.callee \in DOMAIN functions
                             /\ func_map[functions[instr.callee].name] = instr.callee

(* The parameters of a definition whose name was never declared have their  *)
(* arguments, or already their storage, in the value table.                 *)
ArgumentsEntered ==
  gen_pos.at = "param" /\ DeclarationsOf(tunit, tunit.defs[gen_pos.fn].name) = {} =>
    \A k \in DOMAIN tunit.defs[gen_pos.fn].params :
      value_table[tunit.defs[gen_pos.fn].params[k]] # NoValue

GeneratorInv ==
  /\ GeneratorTypeOK
  /\ GeneratorInside
  /\ FunctionsByName
  /\ BodiesByDefinition
  /\ CallsByName
  /\ ArgumentsEntered
  /\ NeverThrows

(* What the generator has left behind of definition i: a parameter, a local *)
(* variable, an expression.                                                 *)
ParamLeft(i, k) == Begun(i) /\ ~(gen_pos.fn = i /\ gen_pos.at = "param" /\ gen_pos.k <= k)

VarLeft(i, k) ==
  /\ Begun(i)
  /\ ~(gen_pos.fn = i /\ (gen_pos.at = "param" \/ (gen_pos.at = "var" /\ gen_pos.k <= k)))

ExpressionLeft(i, k) ==
  /\ Begun(i)
  /\ ~(gen_pos.fn = i /\ \/ gen_pos.at \in {"param", "var"}
                         \/ gen_pos.at = "node" /\ gen_pos.k <= k
                         \/ \E j \in DOMAIN frames : frames[j].node = k)

(* Whatever the unit, it had the symbols of what the generator left behind  *)
(* without a crash.                                                         *)
SymbolsFound ==
  status # "crashed" =>
    \A i \in DOMAIN tunit.defs :
      LET def == tunit.defs[i]
      IN  /\ \A k \in DOMAIN def.params :
               ParamLeft(i, k) => Alive(NewVariable(def.params[k], "def", i, k))
          /\ \A k \in DOMAIN def.vars :
               VarLeft(i, k) => Alive(NewVariable(def.vars[k], "var", i, k))
          /\ \A k \in DOMAIN def.body :
               def.body[k] \in Call /\ ExpressionLeft(i, k) => Known(tunit, i, def.body[k].name)

----------------------------------------------------------------------------
(* What the generator keeps to in a supported unit: the inductive invariant *)
(* of valid code and complete modules.                                      *)

Storage(k)   == [kind |-> "alloca", fn |-> insert_point, k |-> k]
CurrentCode  == functions[insert_point].code
CurrentDef   == tunit.defs[gen_pos.fn]

(* How many parameters and local variables have their storage. *)
ParamsStored == IF gen_pos.at = "param" THEN gen_pos.k - 1 ELSE Len(CurrentDef.params)

VarsStored ==
  IF gen_pos.at = "param" THEN 0
  ELSE IF gen_pos.at = "var" THEN gen_pos.k - 1 ELSE Len(CurrentDef.vars)

(* The storage comes first, and under each name the value table has that of *)
(* the local variable, else of the parameter, else the argument: nothing is *)
(* left of what other functions had under the name.                         *)
StorageByName ==
  InDefinition =>
    /\ Len(CurrentCode) >= 2 * ParamsStored + VarsStored
    /\ gen_pos.at \in {"param", "var"} => Len(CurrentCode) = 2 * ParamsStored + VarsStored
    /\ \A k \in 1 .. VarsStored :
         value_table[CurrentDef.vars[k]] = Storage(2 * Len(CurrentDef.params) + k)
    /\ \A k \in 1 .. ParamsStored :
         (\A l \in 1 .. VarsStored : CurrentDef.vars[l] # CurrentDef.params[k]) =>
           value_table[CurrentDef.params[k]] = Storage(2 * k - 1)
    /\ gen_pos.at = "param" =>
         \A k \in gen_pos.k .. Len(CurrentDef.params) :
           /\ value_table[CurrentDef.params[k]] = Argument(insert_point, k)
           /\ k <= functions[insert_point].arity

(* A function has the parameters of its declaration, or of its definition   *)
(* if there is none.                                                        *)
ArityBySource ==
  \A name \in FuncNames : func_map[name] # NoFunction =>
    /\ \A d \in DeclarationsOf(tunit, name) :
         functions[func_map[name]].arity = Len(tunit.decls[d].params)
    /\ DeclarationsOf(tunit, name) = {} =>
         \A i \in DOMAIN tunit.defs : tunit.defs[i].name = name =>
           functions[func_map[name]].arity = Len(tunit.defs[i].params)

FrameNode(j) == CurrentDef.body[frames[j].node]
Wanting(j)   == Arity(FrameNode(j)) - Len(frames[j].operands)

(* What is owed behind the first operand, or statement, of what was owed. *)
Rest(owed) == IF owed = 0 THEN 0 ELSE owed - 1

OwedNow == IF gen_pos.at = "node" THEN OwedBefore(CurrentDef.body, gen_pos.k) ELSE 0

(* What is owed below the n outermost expressions of the stack. *)
OwedBelow(n) ==
  IF n = 0 THEN 0
  ELSE Rest(OwedBefore(CurrentDef.body, frames[n].node)) + Wanting(n)

(* The stack of expressions is the part of the tree above the next node:    *)
(* each waits for an operand that the next one is to give, and all together *)
(* they want what the tree owes.                                            *)
StackByTree ==
  /\ InDefinition => OwedNow = OwedBelow(Len(frames))
  /\ \A j \in DOMAIN frames :
       /\ OwedBefore(CurrentDef.body, frames[j].node) = OwedBelow(j - 1)
       /\ Wanting(j) >= 0
       /\ j < Len(frames) => Wanting(j) > 0
       /\ gen_pos.at = "node" => frames[j].node < gen_pos.k

IsAssignment(n) == n \in Binary /\ n.op = "="

(* The operands that wait are values of the function, and only the target   *)
(* of an assignment, its first operand from the beginning, is an address.   *)
OperandsFit ==
  \A j \in DOMAIN frames :
    /\ IsAssignment(FrameNode(j)) => frames[j].operands # <<>>
    /\ \A o \in DOMAIN frames[j].operands :
         /\ Local(frames[j].operands[o], insert_point, Len(CurrentCode) + 1)
         /\ IsAddress(frames[j].operands[o]) <=> IsAssignment(FrameNode(j)) /\ o = 1

NodeLeft(k) == gen_pos.at = "post_def" \/ (gen_pos.at = "node" /\ k < gen_pos.k)

EndsInReturn(code) == code # <<>> /\ code[Len(code)].op = "ret"

(* A return closes the code at the end of its definition, and is there as   *)
(* soon as the generator has left a "return" behind.                        *)
ReturnEnds ==
  InDefinition =>
    /\ (\E j \in DOMAIN CurrentCode : CurrentCode[j].op = "ret") =>
         gen_pos.at = "post_def" /\ frames = <<>>
    /\ \A k \in DOMAIN CurrentDef.body :
         CurrentDef.body[k] \in Jump /\ NodeLeft(k) =>
           \/ frames # <<>> /\ frames[1].node = k
           \/ EndsInReturn(CurrentCode)

(* The bodies the generator has left behind are closed by a return. *)
BodiesClosed ==
  \A i \in DOMAIN tunit.defs :
    Begun(i) /\ (InDefinition => i # gen_pos.fn) => EndsInReturn(functions[FunctionOf(i)].code)

CodeFits ==
  /\ StorageByName
  /\ ArityBySource
  /\ StackByTree
  /\ OperandsFit
  /\ InstructionsFit
  /\ ReturnEnds
  /\ BodiesClosed

(* The generator has not begun, or works on what analyze has returned. *)
CodeInv ==
  /\ phase # "analyzed" => GeneratorInit
  /\ Supported(tunit) => status # "crashed" /\ CodeFits

----------------------------------------------------------------------------
(* What a comment says and the generator does not do. *)

(* generate(parameter) is to "create alloca for function parameter and      *)
(* store value to it": the generator does not fail where a parameter of a   *)
(* definition gets its storage.                                             *)
ParametersStored == gen_pos.at = "param" => status = "generating"

============================================================================
