------------------------------- MODULE Scope -------------------------------
(***************************************************************************)
(* The symbol table of dcc and the attributes the semantic phases hang on  *)
(* the tree: the global scope with its table of function symbols, each of  *)
(* which is the scope of its parameters and local variables.               *)
(*                                                                         *)
(* A func_symbol is named by its index in func_table, which holds the      *)
(* shared_ptr that keeps it alive and never shrinks.  A variable_symbol is *)
(* named by the tree node it was created for.  The nodes hold weak_ptrs:   *)
(* one can be locked exactly while some func_symbol still owns the symbol. *)
(***************************************************************************)
EXTENDS Ast

VARIABLES
  tunit,        \* the translation unit being compiled
  func_table,   \* global_scope::func_table
  decl_scope,   \* function_declaration::scope, by declaration
  def_scope,    \* function_definition::scope, by definition
  id_symbol,    \* identifier::symbol, by <<definition, node>>, where it is set
  call_symbol   \* call_expression::symbol, by <<definition, node>>, where set

heap == <<tunit, func_table, decl_scope, def_scope, id_symbol, call_symbol>>

(* current_scope of a visitor is the global scope or a func_symbol. *)
Global == 0

(* No function: boost::none, or a weak_ptr that was never set. *)
None == 0

(* No variable: boost::none, or a name a var_table does not hold. *)
NoVariable == [name |-> "", site |-> "none", fn |-> 0, k |-> 0]

(* An identifier or a call, by definition and node. *)
Reference == Nat \X Nat

(* The symbol of the k-th parameter of a declaration or a definition, or of *)
(* the k-th local variable of a definition.  Its type is always "int".      *)
VariableSymbol ==
  [name : VarNames, site : {"decl", "def", "var"}, fn : Nat, k : Nat]

NewVariable(name, site, fn, k) ==
  [name |-> name, site |-> site, fn |-> fn, k |-> k]

FuncSymbol ==
  [name : FuncNames, params : Seq(VariableSymbol),
   var_table : [VarNames -> VariableSymbol \cup {NoVariable}],
   is_declaration : BOOLEAN, node : [site : {"decl", "def"}, fn : Nat]]

----------------------------------------------------------------------------
(* Insertion into a std::map, replacing the value of a key that is there. *)
Put(map, key, value) ==
  [x \in DOMAIN map \cup {key} |-> IF x = key THEN value ELSE map[x]]

EmptyMap == [x \in {} |-> None]

(* global_scope::resolve_func(name): the first function of that name. *)
ResolveFunc(name) == SelectInSeq(func_table, LAMBDA f : f.name = name)

(* global_scope::resolve_func(name, params): the first function of that     *)
(* name with that many parameters.  A func_symbol passes the question on to *)
(* its enclosing scope, which is the global one, so every scope answers so. *)
ResolveCall(name, args) ==
  SelectInSeq(func_table, LAMBDA f : f.name = name /\ Len(f.params) = args)

(* resolve_variable(name): the global scope knows no variable; a func_symbol *)
(* looks among its locals, then for the first such parameter, then outward.  *)
ResolveVariable(scope, name) ==
  IF scope = Global THEN NoVariable
  ELSE LET f == func_table[scope]
           p == SelectInSeq(f.params, LAMBDA s : s.name = name)
       IN  CASE f.var_table[name] # NoVariable -> f.var_table[name]
             [] f.var_table[name] = NoVariable /\ p # 0 -> f.params[p]
             [] OTHER -> NoVariable

(* The variable symbols a function keeps alive. *)
Owned(f) == (Range(f.params) \cup Range(f.var_table)) \ {NoVariable}

(* weak_ptr::lock() on a node's symbol yields it: some function owns it. *)
Alive(symbol) == \E i \in DOMAIN func_table : symbol \in Owned(func_table[i])

----------------------------------------------------------------------------
HeapTypeOK ==
  /\ tunit \in Programs
  /\ func_table \in Seq(FuncSymbol)
  /\ decl_scope \in [DOMAIN tunit.decls -> {None} \cup DOMAIN func_table]
  /\ def_scope \in [DOMAIN tunit.defs -> {None} \cup DOMAIN func_table]
  /\ DOMAIN id_symbol \subseteq Reference
  /\ Range(id_symbol) \subseteq VariableSymbol
  /\ DOMAIN call_symbol \subseteq Reference
  /\ Range(call_symbol) \subseteq DOMAIN func_table

(* Before the analysis: nothing declared, no attribute set. *)
HeapInit ==
  /\ tunit \in Programs
  /\ func_table = <<>>
  /\ decl_scope = [i \in DOMAIN tunit.decls |-> None]
  /\ def_scope = [i \in DOMAIN tunit.defs |-> None]
  /\ id_symbol = EmptyMap
  /\ call_symbol = EmptyMap

============================================================================
