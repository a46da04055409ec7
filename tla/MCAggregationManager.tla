------------------------- MODULE MCAggregationManager -------------------------
(* Instances of AggregationManager for TLC: settings that differ in the      *)
(* threshold, and one that differs only in a window that nothing reads.     *)
EXTENDS AggregationManager

CONSTANTS p1, e1, e2, e3, e4

Setting(count, reset) == [maxIncidentCount |-> count, collectionWindow |-> 1,
                          aggregationWindow |-> 1, resetWindow |-> reset]
MCSettings == {Setting(0, 1), Setting(1, 1), Setting(1, 2), Setting(2, 1)}
OnePlan == [e \in Escalations |-> p1]

(* Incidents of one plan differ in nothing but their names: it is enough to  *)
(* look at the behaviours in which they begin in this order.               *)
InOrder == \A <<d, e>> \in {<<e1, e2>>, <<e2, e3>>, <<e3, e4>>} : age[e] # None => age[d] # None
=============================================================================
