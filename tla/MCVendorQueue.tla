---------------------------- MODULE MCVendorQueue ----------------------------
(* Instances of VendorQueue for TLC: one plan with two messages, so that it *)
(* competes with the others and is sent to the channel again, and one       *)
(* message for each other plan.                                             *)
EXTENDS VendorQueue, TLC

CONSTANTS m1, m2, m3, m4, p1, p2, p3

PlanOf2 == m1 :> p1 @@ m2 :> p1 @@ m3 :> p2
PlanOf3 == m1 :> p1 @@ m2 :> p1 @@ m3 :> p2 @@ m4 :> p3
=============================================================================
