----------------------------- MODULE NameRules -----------------------------
(***************************************************************************)
(* What semantic analysis promises: a translation unit is accepted exactly *)
(* when it is well named.                                                  *)
(***************************************************************************)
EXTENDS Language

VARIABLES
  unit,      \* the translation unit
  verdict    \* "pending", then "accepted" or "rejected" for good

rule_vars == <<unit, verdict>>

----------------------------------------------------------------------------
RuleInit == unit \in Programs /\ verdict = "pending"

Judge ==
  /\ verdict = "pending"
  /\ verdict' = IF WellNamed(unit) THEN "accepted" ELSE "rejected"
  /\ UNCHANGED unit

RuleSpec == RuleInit /\ [][Judge]_rule_vars /\ WF_rule_vars(Judge)

============================================================================
