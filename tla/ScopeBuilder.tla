---------------------------- MODULE ScopeBuilder ----------------------------
(***************************************************************************)
(* scope_builder, the first semantic pass: it walks the tree once and      *)
(* enters every function into the global scope and every local variable    *)
(* into the scope of its function.  One action per callback.               *)
(***************************************************************************)
EXTENDS Scope

VARIABLES
  builder_pos,     \* the accepter's position in the tree
  builder_scope,   \* scope_builder::current_scope
  builder_errors   \* scope_builder::error_messages

builder_vars == <<builder_pos, builder_scope, builder_errors>>

(* The function an "already defined" message names, and the node it quotes *)
(* as the place of the previous definition.                                *)
Redefinition == [name : FuncNames, previous : [site : {"decl", "def"}, fn : Nat]]

BuilderTypeOK ==
  /\ builder_pos \in Position
  /\ builder_scope \in {Global} \cup DOMAIN func_table
  /\ builder_errors \in Seq(Redefinition)

BuilderInit ==
  /\ builder_pos = Start
  /\ builder_scope = Global
  /\ builder_errors = <<>>

InBuilder(at) == builder_pos.at = at /\ builder_pos' = After(tunit, builder_pos)

----------------------------------------------------------------------------
(* The symbol create_function makes for the signature of a declaration or a *)
(* definition: it also creates the symbols of the parameters.               *)
CreateFunction(sig, site, i, is_declaration) ==
  [name           |-> sig.name,
   params         |-> [k \in DOMAIN sig.params |->
                         NewVariable(sig.params[k], site, i, k)],
   var_table      |-> [x \in VarNames |-> NoVariable],
   is_declaration |-> is_declaration,
   node           |-> [site |-> site, fn |-> i]]

VisitTranslationUnit ==
  /\ InBuilder("unit")
  /\ builder_scope' = Global
  /\ UNCHANGED <<heap, builder_errors>>

(* Mutant: the declaration is given the index behind its symbol. *)
VisitFunctionDeclarationOffByOne ==
  /\ InBuilder("decl")
  /\ LET i == builder_pos.fn
     IN  /\ func_table' = Append(func_table,
                            CreateFunction(tunit.decls[i], "decl", i, TRUE))
         /\ decl_scope' = [decl_scope EXCEPT ![i] = Len(func_table') + 1]
  /\ UNCHANGED <<tunit, def_scope, id_symbol, call_symbol,
                 builder_scope, builder_errors>>

(* Every declaration gets a function symbol of its own, also when another *)
(* declaration of the same name was visited before.                       *)
VisitFunctionDeclaration ==
  /\ InBuilder("decl")
  /\ LET i == builder_pos.fn
     IN  IF builder_scope = Global
         THEN /\ func_table' = Append(func_table,
                                 CreateFunction(tunit.decls[i], "decl", i, TRUE))
              /\ decl_scope' = [decl_scope EXCEPT ![i] = Len(func_table')]
         ELSE UNCHANGED <<func_table, decl_scope>>
  /\ UNCHANGED <<tunit, def_scope, id_symbol, call_symbol,
                 builder_scope, builder_errors>>

----------------------------------------------------------------------------
(* Visiting a definition: three cases, by what its name resolves to. *)

DefinitionName == tunit.defs[builder_pos.fn].name

(* The name is new: the definition makes the function symbol. *)
DefineFunction ==
  /\ InBuilder("def")
  /\ builder_scope = Global /\ ResolveFunc(DefinitionName) = None
  /\ LET i == builder_pos.fn
     IN  /\ func_table' = Append(func_table,
                            CreateFunction(tunit.defs[i], "def", i, FALSE))
         /\ def_scope' = [def_scope EXCEPT ![i] = Len(func_table')]
         /\ builder_scope' = Len(func_table')
  /\ UNCHANGED <<tunit, decl_scope, id_symbol, call_symbol, builder_errors>>

(* Mutant: the function stays marked as a mere declaration. *)
MergeDeclarationUnmarked ==
  /\ InBuilder("def")
  /\ LET f == ResolveFunc(DefinitionName)
     IN  /\ builder_scope = Global /\ f # None /\ func_table[f].is_declaration
         /\ def_scope' = [def_scope EXCEPT ![builder_pos.fn] = f]
         /\ builder_scope' = f
  /\ UNCHANGED <<tunit, func_table, decl_scope, id_symbol, call_symbol, builder_errors>>

(* Mutant: the function's scope is not entered. *)
MergeDeclarationOutside ==
  /\ InBuilder("def")
  /\ LET f == ResolveFunc(DefinitionName)
     IN  /\ builder_scope = Global /\ f # None /\ func_table[f].is_declaration
         /\ func_table' = [func_table EXCEPT ![f].is_declaration = FALSE]
         /\ def_scope' = [def_scope EXCEPT ![builder_pos.fn] = f]
  /\ UNCHANGED <<tunit, decl_scope, id_symbol, call_symbol, builder_scope, builder_errors>>

(* Mutant: a new symbol for the definition takes the place of the old one. *)
MergeDeclarationReplacing ==
  /\ InBuilder("def")
  /\ LET f == ResolveFunc(DefinitionName)
         i == builder_pos.fn
     IN  /\ builder_scope = Global /\ f # None /\ func_table[f].is_declaration
         /\ func_table' = [func_table EXCEPT
                             ![f] = CreateFunction(tunit.defs[i], "def", i, FALSE)]
         /\ def_scope' = [def_scope EXCEPT ![i] = f]
         /\ builder_scope' = f
  /\ UNCHANGED <<tunit, decl_scope, id_symbol, call_symbol, builder_errors>>

(* The name is only declared: the definition takes over the symbol of the   *)
(* declaration.  The parameters of the definition get no symbols, and the   *)
(* symbol keeps the declaration's parameters and the declaration as its     *)
(* node.                                                                    *)
MergeDeclaration ==
  /\ InBuilder("def")
  /\ LET f == ResolveFunc(DefinitionName)
     IN  /\ builder_scope = Global /\ f # None /\ func_table[f].is_declaration
         /\ func_table' = [func_table EXCEPT ![f].is_declaration = FALSE]
         /\ def_scope' = [def_scope EXCEPT ![builder_pos.fn] = f]
         /\ builder_scope' = f
  /\ UNCHANGED <<tunit, decl_scope, id_symbol, call_symbol, builder_errors>>

(* The name is defined already: an error, and the definition has no scope. *)
(* (Inside a function's scope the callback does nothing at all.)           *)
RejectRedefinition ==
  /\ InBuilder("def")
  /\ LET f == ResolveFunc(DefinitionName)
     IN  /\ builder_scope = Global => f # None /\ ~func_table[f].is_declaration
         /\ builder_errors' =
              IF builder_scope = Global
              THEN Append(builder_errors, [name     |-> func_table[f].name,
                                           previous |-> func_table[f].node])
              ELSE builder_errors
  /\ UNCHANGED <<heap, builder_scope>>

----------------------------------------------------------------------------
(* A local variable goes into the table of the function being visited, and *)
(* nowhere when the definition was rejected.  A second variable of the same *)
(* name takes the place of the first, whose symbol is then gone.            *)
VisitVariableDeclaration ==
  /\ InBuilder("var")
  /\ LET i == builder_pos.fn
         k == builder_pos.k
         x == tunit.defs[i].vars[k]
     IN  func_table' = IF builder_scope = Global THEN func_table
                       ELSE [func_table EXCEPT ![builder_scope].var_table[x] =
                               NewVariable(x, "var", i, k)]
  /\ UNCHANGED <<tunit, decl_scope, def_scope, id_symbol, call_symbol,
                 builder_scope, builder_errors>>

(* "return" leaves the function's scope; other nodes have no callback. *)
VisitBodyNode ==
  /\ InBuilder("node")
  /\ builder_scope' = IF tunit.defs[builder_pos.fn].body[builder_pos.k] \in Jump
                      THEN Global ELSE builder_scope
  /\ UNCHANGED <<heap, builder_errors>>

(* Mutant: the scope is left by "return" alone. *)
HandlePostFuncDefIdle ==
  /\ InBuilder("post_def")
  /\ UNCHANGED <<heap, builder_scope, builder_errors>>

(* After a definition: back to the enclosing, that is the global, scope. *)
HandlePostFuncDef ==
  /\ InBuilder("post_def")
  /\ builder_scope' = Global
  /\ UNCHANGED <<heap, builder_errors>>

BuilderNext ==
  \/ VisitTranslationUnit
  \/ VisitFunctionDeclaration
  \/ DefineFunction
  \/ MergeDeclaration
  \/ RejectRedefinition
  \/ VisitVariableDeclaration
  \/ VisitBodyNode
  \/ HandlePostFuncDef

============================================================================
