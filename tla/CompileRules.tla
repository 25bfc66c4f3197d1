---------------------------- MODULE CompileRules ----------------------------
(***************************************************************************)
(* What the phases after parsing promise together: a unit comes, for good, *)
(* to one of the ends it allows.                                           *)
(***************************************************************************)
EXTENDS Language

VARIABLES
  unit,      \* the translation unit
  verdict    \* "pending", then what became of it

compile_vars == <<unit, verdict>>

CompileInit == unit \in Programs /\ verdict = "pending"

Compile ==
  /\ verdict = "pending"
  /\ verdict' \in Outcomes(unit)
  /\ UNCHANGED unit

CompileSpec == CompileInit /\ [][Compile]_compile_vars /\ WF_compile_vars(Compile)

============================================================================
