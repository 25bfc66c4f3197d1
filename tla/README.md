# Verification of LittleBetterDCC

LittleBetterDCC (`dcc`) compiles DummyC, a C with one type (`int`), functions,
local variables, assignments, arithmetic and `return`, to LLVM IR. This
directory models the compiler in TLA+, from the text of a source file to the
LLVM module and the file it is printed to, and checks it with TLC. For the
semantic analysis, the code generator, the two together and the driver, TLAPS
proves the safety properties that TLC checks, for units of any size; the last of
them says that the code of a supported unit computes what its source does.

A run of the program is sequential: one thread, no timers. What is
hard about it is state that one phase leaves for another. Symbols are created by
a first pass, bound by a second and dereferenced by a third through `weak_ptr`s
nobody tests; scopes are entered and left by callbacks of a visitor that do not
pair up; lookups go by name in tables that are changed in place and never
cleared. The parser tries alternatives in order, leaves some of them again after
their actions have run, and must not leave others. Each of these holds, or
fails, over a long sequence of legal steps, and the six tests of the repository
reach few of them. Concurrency is outside: runs of `dcc` share a file system.

## The system

    text --parser--> tree --scope_builder--> scopes --symbol_resolver--> bindings --ir_generator--> llvm::Module
                       |___________ semantic_analayzer::analyze __________|
                     |_______________________ main() of lib/dcc.cpp _______________________________|

| part | source | state | operations |
|---|---|---|---|
| driver | `lib/dcc.cpp` | options, the text read, one module, the output file | options, read, parse, analyze, generate, open, print; any exception ends the process |
| parser | `lib/parser/parser.cpp`, `include/parser/parser.hpp` | position in the text, two lists of functions | the rules of a Spirit grammar, the comment skipper, the location callbacks |
| tree, traversal | `include/ast/*.hpp` | nodes with attributes (`scope`, `symbol`) | `ast_accepter::accept`, which calls `visit` and `handle_*` of a visitor |
| symbol table | `include/semantic/{scope,symbol,type}.hpp`, `lib/semantic/{scope,symbol}.cpp` | `func_table`, and per function `params`, `var_table`, `is_declaration`, `node`, `enclosing_scope` | `add_function`, `add_variable`, `resolve_func` (by name; by name and parameters), `resolve_variable` |
| `scope_builder` | `lib/semantic/analyze_visitor.cpp:8-176` | `current_scope`, `error_messages` | a callback for the unit, a declaration, a definition, a local variable, `return`, the end of a definition |
| `symbol_resolver` | `lib/semantic/analyze_visitor.cpp:179-233` | `current_scope`, `error_messages` | a callback for a definition, a call, an identifier |
| analyzer | `lib/semantic/semantic_analyzer.cpp` | none of its own | both passes in turn; throws `semantic_exception` after a pass with errors |
| `ir_generator` | `lib/codegen/ir_generator.cpp`, `include/codegen/ir_generator.hpp` | the module, `func_map`, `value_table`, the builder's insert point | a `generate()` for every kind of node, `create_function` |

How they interact, and where that is delicate:

* **Shared symbols.** A definition that follows a declaration takes over the
  declaration's symbol (`analyze_visitor.cpp:94`), which the table and the
  declaration hold, too. Only `is_declaration` changes: parameters and `node`
  remain the declaration's, and the definition's own parameters get no symbol.
* **Ownership.** Nodes hold `weak_ptr`s. A function symbol lives as long as
  `func_table`; a variable symbol as long as the `params` or `var_table` that
  holds it, and `var_table` replaces the symbol of a repeated name
  (`symbol.hpp:68`). The generator locks them all without a test.
* **Scopes by callbacks.** `current_scope` is set when a definition is visited,
  reset by *every* `return` and again after the definition; a rejected definition
  sets nothing. The second pass sets its scope and never resets it.
* **Tables by name.** `func_map` and `value_table` are filled while generation
  goes along, overwritten, and never cleared.
* **Lost order.** The tree has a list of declarations and a list of definitions;
  how the source interleaves them is lost (`parser.cpp:150-156`).
* **Ordered choice.** `identifier >> '('` and `identifier >> '='` are tried and
  left again before an identifier is read as a variable; behind an operator, `>`
  throws instead. Reserved words are known to one rule only.
* **Files.** The output is opened, and thereby emptied, after everything that can
  throw; errors of opening and printing are not looked at.

What makes each part correct is listed with the hazards in `PROJECT.json`; in
short: the parser accepts the language its comments describe and gives each
sentence its tree; the traversal visits each node once, in order; the builder's scope is
balanced and each local is in its own function; a symbol has one definition; each
reference of an accepted unit is bound to a living symbol of its name; the
verdict is that of rules that can be told without scopes; the generated code uses
values of its own function, of the right types, a name means in the generator
what it meant in the analysis, and the code computes what the source says; an
exit code tells what became of the files.

## The modules

| module | models | built on |
|---|---|---|
| `Spirit` | the parsing expressions of Boost.Spirit, as data | |
| `Ast` | the tree, in prefix form, and the order of the traversal | |
| `Grammar` | the rules of `dcc_grammar`, their semantic actions, the comment skipper | `Spirit`, `Ast` |
| `PhraseParse` | how Spirit matches an expression against a text | `Grammar` |
| `Parser` | `parser::parse` and the start rule, function by function; locations | `PhraseParse` |
| `Syntax` | abstract specification: the context-free grammar of the comments, over tokens | |
| `Conformance` | the parser run on spelled sentences, compared with `Syntax` | `Parser`, `Syntax` |
| `Scope` | the symbol table and the attributes of the nodes | `Ast` |
| `ScopeBuilder` | the first pass | `Scope` |
| `SymbolResolver` | the second pass | `Scope` |
| `SemanticAnalyzer` | `analyze()`: both passes; the properties and the inductive invariant of the analysis | `ScopeBuilder`, `SymbolResolver` |
| `Language` | which units are well named, which are supported, and what may come of a unit | `Ast` |
| `NameRules` | abstract specification: one verdict on a unit, from its names alone | `Language` |
| `SemanticProofs` | theorems: the state of the two passes | `SemanticAnalyzer`, TLAPS |
| `TableProofs` | theorems: what the first pass leaves in the symbol table | `SemanticProofs` |
| `RulesProofs` | theorems: what the second pass binds; the verdict is that of `NameRules` | `TableProofs` |
| `IrGenerator` | the code generator | `Scope` |
| `Compiler` | analysis and generation in sequence; the properties of the module | `SemanticAnalyzer`, `IrGenerator`, `Language` |
| `GeneratorProofs` | theorems: the tables and the functions of the generator, for every unit | `Compiler`, `RulesProofs` |
| `TreeProofs` | lemmas: the operands owed in a tree are counted node by node | `Ast`, TLAPS |
| `CodeProofs` | theorems: the code of supported units; the outcome is that of `CompileRules` | `GeneratorProofs`, `TreeProofs` |
| `CompileRules` | abstract specification: a unit comes to one of the ends it allows | `Language` |
| `Meaning` | what source and code compute, and the invariant that relates them | `Compiler` |
| `Evaluation` | reference: what the source computes, by recursion over the tree | `Meaning` |
| `MeaningProofs` | theorems: the code of a supported unit does what its source does | `CodeProofs`, `Meaning` |
| `Driver` | `main()`: runs of `dcc` over shared files | `Language` |
| `DriverProofs` | the theorems about the driver | `Driver`, TLAPS |
| `MCParser`, `MCScopeTree`, `MCNameResolution`, `MCCompiler`, `MCMeaning`, `MCDriver` | the instances for TLC | |

How they fit together: `ParserTypeOK` says that the result of parsing is a
`TranslationUnit`, which is the assumption `Programs \subseteq TranslationUnit`
the later phases start from. `Compiler` composes analysis and generation and
implements `CompileRules` (`ImplementsCompileRules`, up to termination a theorem);
`Driver` uses of all phases
only `Outcomes`, the contract of `CompileRules`.

**Spirit, Grammar, PhraseParse.** A rule of the source is a value here, built
from the same operators (`>>` is `Then`, `>` is `Expect`, `|` is `Alt`, `%` is
`ListOf`, ...), and one recursive operator, `Match`, interprets it: the first
alternative that matches is taken, what `>` demands throws when it is missing,
and every terminal skips blanks and comments first, unless it is in a `lexeme`.
A text is a sequence of glyphs: a character, or one of the words `int` and
`return` in one piece. These two are letters as well, so that a name can begin
with them. Semantic actions (`Act`) build the trees; `Locate` is
`on_success_handler`, which sets the location of the node a rule returns to where
the rule began to match, before blanks. End locations are left out.

**Parser.** The start rule takes one function per step: a declaration, else a
definition, into the list for its kind. It ends where neither matches, and what
was thrown becomes a failure (`Refuse`). `Accept` includes the test
`iter == end`, which refuses only the empty text.

**Syntax, Conformance.** `Syntax` reads the grammar in the comments of
`parser.cpp` as what it says it is: productions without order, over whole tokens.
It enumerates sentences by length, each with its tree. `Conformance` spells them
with a spacing and lets the parser loose on the text.

**Ast.** A body is the sequence of its nodes in the order the accepter visits
them: a node, then its operands. Arities make that a tree (`Owed` counts the
operands still to come), and `WellFormed` keeps to what the grammar produces. A
*position* is the next callback that can have an effect; `After` is the
traversal. Locations and type names are left out; the only type is "int". A
number has its value, of `-Limit .. Limit - 1`: `Limit` is 2^31 in the program,
and a parameter here.

**Scope.** A `func_symbol` is its index in `func_table`, which only grows. A
`variable_symbol` is named by the node it was created for (parameter *k* of a
declaration or a definition, or local *k*), so two symbols of one name are
different values, and a `weak_ptr` to one can be locked exactly while some
function owns it (`Alive`). `id_symbol` and `call_symbol` are the attributes of
identifiers and calls. `enclosing_scope` is not a variable: it is the global scope
for every function.

**ScopeBuilder, SymbolResolver.** One action per callback. A definition has
three actions, for a new name, a declared name and a defined name. Error messages are
reduced to what they name and quote. Operators whose comment begins with
*Mutant* are plausible mistakes: no specification uses them, they show that the properties
can fail (`PROJECT.json`, "mutants").

**IrGenerator.** One action per `generate()` overload, in the order of the C++
recursion; `frames` is the C++ stack below an expression. A value is an argument,
the address an `alloca` yields, another result, or a constant. Dereferencing a
null symbol, loading from a null value and calling a null function are the status
"crashed". For ill-typed instructions (the code passes the *address* that `=`
returns as an operand) LLVM asserts in one kind of build and goes on in the
other, so `Emit` may do either. `CreateRet` checks nothing. Arithmetic on two
constants is folded, as `IRBuilder` does it, with numbers that wrap around and
quotients that do not exist, which are the value "undef". The two throws that a tree
can lead to, of a parameter without a value (line 62) and of an assignment to no
identifier (line 122), are the status "codegen_exception".

**Compiler, Language, CompileRules.** The middle of `main()`. `WellNamed` and
`Supported` speak of the tree alone. `Supported` states
the part of the language for which generation works at all, one conjunct for each
limitation with the line that causes it. Each conjunct is needed: without any one
of them TLC finds a unit in `MCCompiler` for which the properties below fail.
`Doomed` units lack a symbol the generator needs: that of a parameter of a
definition that was declared, of a repeated local variable, of a function it has not
come to (`Known`). `IllTyped` ones give an instruction an operand of the wrong type
or a call the wrong number of arguments, which may or may not crash.
`CompileRules` says the whole from outside: a unit that is not well named is
rejected, a doomed one crashes the generator, a supported one becomes a complete
module, and others become a module or crash; nothing else happens, and something
does.

**Meaning, Evaluation.** Source and code are run on symbolic arguments: a term is a
number, an argument, the result of the n-th call or an operation on terms. A
function is observed by the calls it makes, in order and with their arguments, and by
what it returns (`SameObserved`). The code runs instruction by instruction, with one
memory cell for every `alloca` (`Step`, `Run`); this is LLVM, as the generator uses
it. The source is evaluated by a machine (`Advance`): it takes the next node, a value
or an expression to wait for its values, or concludes the innermost expression that
has them all. It stops where a quotient does not exist, for there the source means
nothing. The machine is neither the code generator nor LLVM: it has values where
the generator has operands, and variables where the code has memory. Nor does it share
the generator's arithmetic: `Meaning` says what a result is, the one number of the
range that is congruent (`Congruent`), and the one quotient with the right remainder
(`IsQuotient`), where `IrGenerator` computes it. Whether it reads
the language right is what `Evaluation` is for, which evaluates the same
tree once more, by the recursion one would write down first.

**Driver.** One action per step of `main()` that can be seen from outside or can
fail: the options are stored, the input is read (a file that is missing reads as
empty), the text is compiled, the output is opened, the module is printed.
Opening may fail, the disk may be full. Files hold the source of a unit, the
module of one, nothing or something else. Several runs interleave freely, so an
output may be another run's input or output, or a run's own input.

## The runs

`tlc -config X.cfg M`; every behaviour ends in a state whose only step stutters
(`ParsingOver`, `AnalysisOver`, `CompilerOver`, `AllEnded`), so deadlock checking is
on everywhere.

| run | instance | states | shows |
|---|---|---|---|
| `scope_tree` | two function names, one variable name; up to two declarations and two definitions with all mixes of parameters, locals (none, one, twice the same) and bodies without and with a `return`; and up to three definitions with up to two returns | 327 000 | the scope is balanced (`ScopeBalanced`), a symbol has one definition (`BoundOnce`), each local is in its function and nowhere else (`LocalsAtHome`), a failed first pass stops the second (`ScopesReady`), what a later pass may hold on to never changes (`SymbolsPersist`); the invariant of the proofs about the table (`TableInv`) |
| `name_resolution` | two names of each kind; one declaration and two definitions, or two and one; six bodies that use parameters, locals, both functions with zero or one argument, forward and unknown names | 239 000 | the verdict is that of `NameRules`, and it is reached (`ImplementsNameRules`); an accepted unit has no unbound reference (`AllBound`) and no dangling one (`BindingsHold`); the invariants of the proofs (`AnalyzerInv`, `ResolutionInv`) |
| `compiler` | merged and repeated declarations; pairs of definitions that call each other and share variable names; one definition with every body of up to five nodes over six kinds | 332 000 | for every accepted unit: neither `codegen_exception` is reachable (`NeverThrows`), no function gets two bodies and each defined name ends with one (`OneBodyEach`), calls reach the body (`CallsReachBody`), no value or function is used that was not made (`NothingDangles`), a crash can be told from the unit (`CrashesForeseen`), and so can where the code has its returns (`ReturnsInCode`), the invariants of the proofs (`GeneratorInv`, `CodeInv`); for supported units: valid code (`CodeValid`), names mean what the analysis bound (`NameMeansSymbol`); both phases together come to an end the unit allows, a complete module if it is supported, a crash if it is doomed (`ImplementsCompileRules`) |
| `parser` | all sentences of up to twelve tokens in four layouts (blanks, only where needed, line comments, block comments), and every sequence of tokens that differs in one token from a sentence of up to ten | 34 000 | sentences and nothing else are accepted, each as its tree (`FollowsGrammar`); the result is a unit the later phases are made for (`ParserTypeOK`); locations lead to their nodes (`LocationsTrue`) |
| `meaning` | expressions of two operations on a parameter, a call and the numbers at the ends of the range; sequences of two statements and a return, with a local that is distinct from the parameters or hides one | 240 000 | calls and returned value of the code are those of the source, as the machine evaluates it (`CodeMeans`) and as recursion over the tree does (`CodeEvaluates`), with arithmetic defined apart from the folding of the builder; the invariant of the proofs (`MeaningInv`) |
| `driver` | two runs with any two of ten command lines (with and without suffix, directory and `-o`, colliding names, output equal to input, malformed), on disks with sources of three kinds, other texts and missing files | 118 000 | only a well-named source costs a file its content (`ErrorsKeepOutputs`); success means the module is there (`SuccessMeansModule`); a default output spares the source (`SourcesKept`); every run ends (`RunsEnd`); the invariant of the proofs (`DriverInv`) |

The bounds suffice because the code never looks further.

* Analysis and generator compare names for equality, so two names of a kind give "same" and
  "other"; declarations and definitions interact only through `func_table` and the
  tables by name, which keep the first or the last of a name, so two of the same
  name (and a third definition after a rejected one) reach each case; bodies
  interact with scopes only through `return`, where none, one and two differ.
* Every rule of the grammar occurs in sentences of twelve tokens (the shortest
  definition has six), every pair of alternatives that begin alike in shorter ones. The
  parser has no memory but its position and the two lists. The numeral is the
  least `int`, which is out of range without its sign.
* `Limit = 8`: numbers of four bits. Wrapping, the sign of a quotient and the
  quotient that overflows occur at the ends of the range and at zero,
  wherever these are; folding does not look at the width otherwise.
* Two runs are enough for each way of sharing files, since a run's step
  concerns its own state, its input and its output. The theorems need no bound.

Nothing in the models is cut off by a counter: every unit and every text is finite
and every behaviour runs to its end.

Six runs are expected to fail; each states what the repository says of the
program, and TLC shows a unit or a text for which the code does otherwise.

| run | what is said | what happens |
|---|---|---|
| `previous_definition` | "previous definition is here" (`analyze_visitor.cpp:89`) | the declaration is quoted when there was one, with the place 0:0, as `function_declaration` has no location handler |
| `invalid_invocation` | "expect fail beacuse of invalid function invocation" (`semantics_test.cpp:59`) | `int f(); int f(int a) {...}` makes `f()` acceptable and `f(1)` an error |
| `parameter_storage` | "create alloca for function parameter and store value to it" (`ir_generator.cpp:47`) | the parameters of a definition that was declared have no symbol: null dereference |
| `return_as_call` | "RETURN , assignment_expression , ';'" (`parser.cpp:97`) | `return (x);` is a call of a function named "return", because expression statements are tried first |
| `reserved_prefix` | "VARIABLE_IDENTIFIER" is an expression (`parser.cpp:21`) | a variable whose name begins with `int` or `return` can be declared and assigned but not read |
| `star_in_comment` | "grammar to skip comment" (`parser.hpp:76`) | a `*` inside a comment that no `/` follows makes the text a parse error |

`FollowsGrammar` excludes three places where the parser differs from its comments
(`Plain`): reserved words where a name may stand, the statement `;`, and the empty text.

**Fairness.** The specifications of a single run assume weak fairness of the
next-state relation and nothing more. The code is one thread of loops over finite
vectors and recursion over a finite tree or text; nothing waits, so an enabled
step is taken. No choice between steps is assumed fair. `DriverSpec` assumes weak
fairness of each run by itself: runs are processes, no run waits for another, and
the system schedules each. Whether opening and printing succeed is left open.

## The proofs

`tlapm M.tla` checks each of the modules below. The theorems about the compiler
hold for every set of names, every positive `Limit` (`LimitAssumption`) and every
set of units, of which `ProgramsAssumption` says only that they are trees the
grammar produces, of any size (`ParserTypeOK` is what TLC checks of the parser for it).
Those about generated code speak of supported units; all others of every unit.

Every proof has the same outline: an inductive invariant, which a run checks
too; one lemma per action or group of actions for its preservation; and the
properties as consequences.

| module | invariant | theorems |
|---|---|---|
| `SemanticProofs` | `AnalyzerInv` | `Invariant`, `TypeCorrect`, `ScopesAreBalanced`, `DefinitionsBoundOnce`, `ScopesAreReady`, `BindingsAreSound` |
| `TableProofs` | + `TableInv`, `LocalsAtHome` | `TableIsTrue`, `SymbolsDoPersist`, `LocalsStayAtHome` |
| `RulesProofs` | + `ResolutionInv` | `NothingIsMissed`, `EveryReferenceBound`, `AnalysisKeepsTheRules` |
| `GeneratorProofs` | + `GeneratorInv` | `GeneratorInvariant`, `GeneratorTypeCorrect`, `ExceptionNeverThrown`, `BodiesAreUnique`, `CallsDoReachBody` |
| `CodeProofs` | + `CodeInv` | `CodeInvariant`, `CodeIsValid`, `NamesMeanSymbols`, `CompilerKeepsTheRules` |
| `MeaningProofs` | + `MeaningInv` | `MeaningInvariant`, `CodeDoesMean` |
| `DriverProofs` | `DriverInv` | `DriverInvariant`, `FailuresLeaveNoTrace`, `SuccessIsReliable`, `SourcesAreKept` |

### The state of the two passes (`SemanticProofs`)

`AnalyzerTypeOK`, `ScopeBalanced` (between functions the builder is in the global
scope), `BoundOnce` (a symbol has at most one definition and is a mere declaration
until then), `ScopesReady` (the resolver never meets a definition without a scope)
and `BindingsHold` (what references are bound to is alive and fits them) are not
inductive. `AnalyzerInv` adds what they need:

* `TypeInv` puts both positions inside the tree, so that each callback finds its node;
* `BuilderInside`: in a body the builder is in the scope of that definition or
  already out of it, so a local can only get there, and leaving the scope leads to
  the global one (for `ScopeBalanced`);
* `ScopesBound`: visited declarations and definitions have scopes unless a definition was
  rejected, and others have none, so a symbol just created is bound to nothing yet (for
  `BoundOnce`) and an errorless pass leaves all scopes set (for `ScopesReady`);
* `OnePassAtATime`: nothing is bound while the table still changes, and the second
  pass runs only after the first is over without errors;
* `ResolverInside` and `BoundByRule`: the resolver is in the scope of the definition it
  visits, so each binding *is* what its reference resolves to in the finished
  table; `TableByName` then gives the name (for `BindingsHold`).

The proof that a step keeps the invariant has one lemma per group of callbacks
(`FactsOfDeclaration`, `FactsOfDefinition`, `FactsOfMerge`, `FactsOfRejection`,
`FactsOfBody`, `ResolverFactsStep`), each with one step per conjunct it can
disturb. They rest on lemmas about the traversal (`After...`, `Pass...`: where it
goes and what it has passed) and the lookups (`Resolve...Result`: a result is a
first match).

### What the first pass leaves (`TableProofs`)

`SymbolsDoPersist` proves an action property, `SymbolsPersist`: no step of either
pass takes back what a later one may hold on to. It needs `AnalyzerInv` only.

`TableIsTrue` says what the table means in terms of the unit. Every declaration has a
symbol of its own, repeated ones too, in the order of the list
(`DeclarationsFirst`); a symbol has the name, the parameters and the node it was made
from (`SymbolsFromSource`); the scope of a definition is the first symbol of its
name (`FirstOfName`), so it is a declaration's whenever the name has one; a symbol is
complete exactly from its definition on (`BoundOnce`); and a rejection is a second
definition (`RejectionsMeant`).
With `AnalyzerInv` this is inductive; the lemmas show how the first match of a
lookup persists while the table grows (`FirstFunctionKept`, `ResolveFuncKept`).
`LocalsStayAtHome` needs, for the table of one function, which of several locals
of a name holds the entry: the latest one visited (`LatestLocalStep`).

### What the second pass binds (`RulesProofs`)

`ResolutionInv` says that each reference passed is bound or a rightful error was
reported, so an accepted unit has no unbound one (`EveryReferenceBound`). With the
table as `TableIsTrue` describes it, a lookup then succeeds exactly when the rules of
`NameRules` allow the reference (`CallableResolves`, `VisibleResolves`): the
verdict of the two passes, with their scopes, tables and traversal, is the verdict
read off the names of the unit. `AnalysisKeepsTheRules` states it as a
refinement: an initial state maps to an initial state and a step to a step or a stutter.

### The generator on every unit (`GeneratorProofs`)

`GeneratorInv` relates the generator's tables to the place it has come to: a name
is in `func_map` exactly when a declaration or a definition of it was passed
(`FunctionsByName`); the functions with a body are those of the definitions begun,
one each (`BodiesByDefinition`), for which it is needed that an accepted unit
defines no name twice; what a call leads to is still in `func_map` (`CallsByName`),
because only declarations overwrite an entry and they come first; and the
arguments of a definition's parameters are there when they are looked for
(`ArgumentsEntered`). The actions inside a body share one effect, `BodyEffect`
(code is appended to the current function, and tables change in a few ways only), shown
for each of them once; that `BodyEffect` keeps the invariant is shown once for all.

`BodiesAreUnique` reads off that a defined name ends with exactly one body.
`GeneratorTypeCorrect` adds `NothingDangles`, for units the generator cannot digest as
well: what the value table holds, what waits as an operand and what the code uses is a
number of the target, an argument its function has, or was made by an instruction of
the right kind, and what is called is a function. It is shown per action, over what
each may add to the tables and to the code (`DanglingMade`).

### The code of supported units (`TreeProofs`, `CodeProofs`)

That code is valid is not inductive at all: it takes knowing, in the middle of an
expression, which operands wait for which others. `CodeInv` says what a supported
unit keeps the generator to:

* `StorageByName`: allocas come first, and under each name of the function the value
  table has its own storage, whatever other functions left there;
* `ArityBySource`: a function has as many parameters as the source says;
* `StackByTree`: the stack of waiting expressions is the part of the tree above the
  next node, so together they want what the tree still owes;
* `OperandsFit`: what waits is a value of this function, and an address only as the
  target of an assignment;
* `InstructionsFit`, which is `CodeValid`; `ReturnEnds`: a return ends the code, and
  is there once it was passed; `BodiesClosed`: bodies left behind end with one;
* the generator has not crashed.

`Owed` is a fold, that is, a recursive function over sets. `TreeProofs` unrolls it
by least counterexamples (`OwedCounts`: after a node, one operand less is owed and its own
more), without which `StackByTree` could not be used. In `CodeProofs` each action
has one lemma (`...Fits`), and four shapes carry them: a leaf delivers its value
(`LeafFits`), an expression begins to wait (`PushFits`), one that has its operands
is taken off (`PopFits`), and a function is added to the module (`ModuleGrows`).

`SymbolsFound` is for the units that are not supported: whatever the generator has
left behind without a crash had its symbol. At the end it has left everything behind,
so a unit that gets a module is not doomed (`GeneratedNotDoomed`).

`CompilerKeepsTheRules` puts the analysis and the generator together: initial states
and steps of `CompilerSpec` are initial states and steps (or stutters) of
`CompileRules`. It is `ImplementsCompileRules` but for termination, that is,
the contract `Outcomes` from which the theorems about the driver start.

### The meaning of the code (`MeaningProofs`)

`CodeDoesMean` is the correctness of the compiler: in a supported unit every function with
a body makes the calls its source makes, with the same arguments and in the same
order, and returns the same value, for all arguments, all results of calls, bodies
of any size and numbers of any width. It is a simulation. `MeaningInv` says

* `Simulated`: in a body, the run of the code generated so far *shows* a state of the
  machine (`Shown`): what the generator's waiting operands stand for are the values
  the machine has, the storage the value table names holds the contents of the
  variables, the calls made are the same. (Or the machine has stopped, and the source
  means nothing.) The operands were made by instructions that are there
  (`OperandsMade`), and an assignment holds the storage of its target (`TargetsHeld`);
* `StorageFilled`: ahead of the body, the storage made so far holds the arguments, and
  that of the locals nothing, which is where the machine starts;
* `BodiesMean`: definitions left behind do what their source does, and still do while
  others are generated.

The machine and the run of the code are recursive functions, of which the
provers know only that they are a `CHOOSE`. `RunExists`, `RunUnique` and
`CourseExists` show by least counterexamples that the recursions have their
solutions; `RunAppend` and `CourseIs` are all that is used of them afterwards: a run of
more code is the run so far and a step. The lemmas about one instruction
(`AllocaSteps`, `StoreSteps`, ...) say what a step leaves alone: results and memory that
are there do not change, a store changes one place, and different names have
different places (`StorageOfName`), so a store is an assignment to one variable
(`EnvStored`).

Each of the nine actions of the generator inside a body is then one tick of the
machine (`NumberShown` to `ReturnShown`, `BodyTick`). For a folded operation
this is `FoldedMeans`: the number the builder computes is the one the language means,
for there is just one congruent number in the range (`WrappedCongruent`) and at most
one quotient (`OneQuotient`, `QuotientsAre`). It needs that constants are numbers of the
range, which `NothingDangles` says. That the ticks do not run out before the body ends
is a count (`Way`, `BodyMoves`): every action moves on by one in twice the nodes
taken less the expressions that wait. At the end nothing waits, so the machine
rests where the run of the code is (`BodyMeans`). `StorageLeads` connects
the storage with the start of the machine, and `BodiesBeside` keeps what is behind.

What the theorem takes from `CodeInv` is essential: that the value table has under
each name the storage of this function, that the stack is the part of the tree above
the next node, and that no instruction follows a return.

### The driver (`DriverProofs`)

For any number of runs, any command lines (`CommandsAssumption`: sequences of
names, outputs other than `-`), any files (`DisksAssumption`) and whatever fails: only a run that has read a
well-named source changes a file (`FailuresLeaveNoTrace`); after a success the
output is the module of the input, if nobody else writes to either
(`SuccessIsReliable`); a default output does not replace its source (`SourcesAreKept`).

`DriverInv` adds `Progress` (what a run has read decides how far it gets, so a run
at its output has a well-named source) and `Kept` (what a run has read and written
is still in the files that no other run writes to). `StepsAreLocal` carries the
argument: a step changes one run's state and at most that run's output.
`KeptByOthers` and `KeptByItself` follow from it for `Kept`.

### Only model-checked

* That something eventually happens: the fairness parts of `ImplementsNameRules` and
  `ImplementsCompileRules`, and `RunsEnd`. Liveness is out of the prover's reach.
* The parser (`ParserTypeOK`, `FollowsGrammar`, `LocationsTrue`) and that the machine of
  `Meaning` evaluates a tree as recursion over it does (`CodeEvaluates`): their operators
  are `RECURSIVE`, which the provers cannot use.
* That a crash can be told from the unit beyond what `CompilerKeepsTheRules` proves, and
  where the code of any unit has its returns (`CrashesForeseen`, `ReturnsInCode`).
* The six violations, each of which is a single behaviour.

## Not modelled

* `wrapped_function` and `get` of `helper.hpp`, which are stateless adapters; what
  they dispatch to is modelled where it is called. Unused code (`costum_acceptor`,
  `global_scope::ast`, `symbol_table::root`).
* End locations, the printing of trees, the wording of messages, names of LLVM values,
  the target triple.
* How options are spelled: a command line is the names it gives and whether it has
  an unknown option. `--help` is described as "print help" (`dcc.cpp:25`) but `main()`
  never asks for it, so it does nothing.
* How the module is printed: one step that writes all or a part.
* The output name `-`, which LLVM takes for standard output: `Command` has no such
  output, so the theorems about the driver are about files.
* The throw of `create_type` (`ir_generator.cpp:244`), for a type other than `int`: the
  parser makes no other.
* Memory that is never freed: the `enclosing_scope` of a function owns the global scope,
  which owns the function. The model only relies on its effect, that symbols in the
  table live on.

Seen while modelling, present in the modules, and not the subject of a run:

* The statement `;` is refused, though the comment of the rule makes the expression
  optional (`parser.cpp:83`).
* The empty text is refused and a blank one is accepted (`parser.cpp:222`): `iter` is
  const, so `phrase_parse` moves a copy, and `iter == end` compares the beginning.
* `type_specifier` has no word boundary: `intf()` declares or defines `f`.
* A call that is an operand has the location 0:0, for `postfix_expression` has no handler.

## Plan

Done: the parser with its language, the tree, the analysis, the generator, their
composition, the meaning of the code and the driver, with abstract specifications for
the parser, the analysis and the compiler; theorems for every safety property of the
analysis, the generator, the compiler, the meaning of its code and the driver, and for
the safety part of both refinements. Next, in this order:

1. **Termination as a safety argument**: a measure of the unit that every step of the
   analysis and the generator decreases, which is what is left of `ImplementsCompileRules`
   apart from fairness itself.
2. **Driver and compiler in one theorem**: the outcomes the driver assumes are those of
   `CompilerSpec` for the unit it has read.
3. **Lemmas about `Syntax` and `Locate`** that need no recursion.

The rest of the parser and `Evaluation` stay with TLC, since they are recursive.
