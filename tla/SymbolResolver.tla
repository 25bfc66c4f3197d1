--------------------------- MODULE SymbolResolver ---------------------------
(***************************************************************************)
(* symbol_resolver, the second semantic pass: it walks the tree again and  *)
(* binds every identifier and every call to its symbol.                    *)
(***************************************************************************)
EXTENDS Scope

VARIABLES
  resolver_pos,     \* the accepter's position in the tree
  resolver_scope,   \* symbol_resolver::current_scope
  resolver_errors   \* symbol_resolver::error_messages, by the reference meant

resolver_vars == <<resolver_pos, resolver_scope, resolver_errors>>

ResolverTypeOK ==
  /\ resolver_pos \in Position
  /\ resolver_scope \in {Global} \cup DOMAIN func_table
  /\ resolver_errors \in Seq(Reference)

ResolverInit ==
  /\ resolver_pos = Start
  /\ resolver_scope = Global
  /\ resolver_errors = <<>>

InResolver(at) == resolver_pos.at = at /\ resolver_pos' = After(tunit, resolver_pos)

(* The body node being visited, and the name under which it is recorded. *)
Visited == tunit.defs[resolver_pos.fn].body[resolver_pos.k]
Here == <<resolver_pos.fn, resolver_pos.k>>

----------------------------------------------------------------------------
(* Mutant: the scope of the first definition is never left. *)
EnterDefinitionOnce ==
  /\ InResolver("def")
  /\ resolver_scope' = IF resolver_scope = Global THEN def_scope[resolver_pos.fn]
                       ELSE resolver_scope
  /\ UNCHANGED <<heap, resolver_errors>>

(* The scope bound by the first pass becomes the current one.  Nothing leaves *)
(* it again but the next definition.                                          *)
EnterDefinition ==
  /\ InResolver("def")
  /\ resolver_scope' = def_scope[resolver_pos.fn]
  /\ UNCHANGED <<heap, resolver_errors>>

(* Mutant: an unknown function is no error. *)
VisitCallExpressionQuiet ==
  /\ InResolver("node")
  /\ Visited \in Call
  /\ LET f == ResolveCall(Visited.name, Visited.args)
     IN  call_symbol' = IF f # None THEN Put(call_symbol, Here, f) ELSE call_symbol
  /\ UNCHANGED <<tunit, func_table, decl_scope, def_scope, id_symbol,
                 resolver_scope, resolver_errors>>

(* A call is bound by the name and the number of arguments. *)
VisitCallExpression ==
  /\ InResolver("node")
  /\ Visited \in Call
  /\ LET f == ResolveCall(Visited.name, Visited.args)
     IN  IF f # None
         THEN call_symbol' = Put(call_symbol, Here, f) /\ UNCHANGED resolver_errors
         ELSE resolver_errors' = Append(resolver_errors, Here) /\ UNCHANGED call_symbol
  /\ UNCHANGED <<tunit, func_table, decl_scope, def_scope, id_symbol, resolver_scope>>

VisitIdentifier ==
  /\ InResolver("node")
  /\ Visited \in Ident
  /\ LET s == ResolveVariable(resolver_scope, Visited.name)
     IN  IF s # NoVariable
         THEN id_symbol' = Put(id_symbol, Here, s) /\ UNCHANGED resolver_errors
         ELSE resolver_errors' = Append(resolver_errors, Here) /\ UNCHANGED id_symbol
  /\ UNCHANGED <<tunit, func_table, decl_scope, def_scope, call_symbol, resolver_scope>>

(* Callbacks the resolver leaves empty. *)
VisitOther ==
  /\ \/ resolver_pos.at \in {"unit", "decl", "var", "post_def"}
     \/ resolver_pos.at = "node" /\ Visited \notin Call \cup Ident
  /\ resolver_pos' = After(tunit, resolver_pos)
  /\ UNCHANGED <<heap, resolver_scope, resolver_errors>>

ResolverNext ==
  \/ EnterDefinition
  \/ VisitCallExpression
  \/ VisitIdentifier
  \/ VisitOther

============================================================================
