-------------------------- MODULE MCIncidentManager --------------------------
(* Instances of IncidentManager for TLC: plans of two steps; a is repeated   *)
(* once, b is optional, c has a message and its push clone.                  *)
EXTENDS IncidentManager, TLC

CONSTANTS inc1, inc2, a, b, c

PlanAB_C == <<{a, b}, {c}>>
PlanA_C  == <<{a}, {c}>>
MCRepeat == a :> 1 @@ b :> 0 @@ c :> 0
MCParts  == a :> {1} @@ b :> {1} @@ c :> {1, 2}
=============================================================================
