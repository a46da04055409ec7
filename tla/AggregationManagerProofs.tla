----------------------- MODULE AggregationManagerProofs -----------------------
(***************************************************************************)
(* Proofs about AggregationManager, for all plans, settings, escalations   *)
(* and time bounds.                                                        *)
(*                                                                         *)
(* BatchInv is what makes BatchesAnnounced inductive: the batch of a plan  *)
(* under aggregation has been announced, and whatever has been announced   *)
(* or stored carries the name of an escalation that was counted.  Since an *)
(* aggregation is named by an escalation that is counted only then, its    *)
(* batch is new.                                                           *)
(*                                                                         *)
(* CountInv, inductive on top of IInv, is what StartsForAReason needs: the *)
(* count of a plan that collects incidents never exceeds the number of     *)
(* different escalations that began in its window, and the window is never *)
(* open for longer than its length and the lag of the loop.                *)
(***************************************************************************)
EXTENDS AggregationManager, TLAPS, FiniteSetTheorems

BatchInv ==
  /\ stored \subseteq triggered
  /\ \A e \in triggered : age[e] # None
  /\ \A p \in Plans : Aggregated(p) => Agg(p).batchID \in triggered

IInv == TypeOK /\ NeverOverThreshold /\ BatchInv

USE EscalationsAssumption, SettingsAssumption, TimeAssumption
    DEF EscalationsAssumption, SettingsAssumption, TimeAssumption

(* No record is None: a plan is known exactly when it has a record.         *)
LEMMA KnownRecords ==
  ASSUME TypeOK, NEW p \in Plans
  PROVE  /\ p \in Known => Agg(p) \in PlanAggregations
         /\ Aggregated(p) => p \in Known
  BY DEF TypeOK, Known, Agg, Aggregated

(* A new record is well typed.                                              *)
LEMMA NewRecord ==
  ASSUME NEW s \in Settings
  PROVE  /\ PlanAggregation(s) \in PlanAggregations
         /\ PlanAggregation(s).settings = s
         /\ ~PlanAggregation(s).aggregationStatus
         /\ PlanAggregation(s).incidentCount = 0
  BY DEF PlanAggregation, PlanAggregations

(* What countIncident does to a record: it stays well typed, keeps its      *)
(* settings and never goes over the threshold; when it starts to aggregate  *)
(* the batch is the escalation that was counted, else the batch is kept.    *)
LEMMA CountedRecord ==
  ASSUME NEW a \in PlanAggregations, NEW e \in Escalations
  PROVE  /\ Counted(a, e) \in PlanAggregations
         /\ Counted(a, e).settings = a.settings
         /\ a.aggregationStatus =>
              /\ Counted(a, e).aggregationStatus
              /\ Counted(a, e).batchID = a.batchID
         /\ ~a.aggregationStatus /\ Counted(a, e).aggregationStatus => Counted(a, e).batchID = e
         /\ ~Counted(a, e).aggregationStatus =>
              \/ Counted(a, e).incidentCount <= 1
              \/ Counted(a, e).incidentCount <= a.settings.maxIncidentCount
<1> DEFINE b == [a EXCEPT !.incidentCount = @ + 1]
<1>1. /\ b \in PlanAggregations
      /\ b.settings = a.settings
      /\ b.aggregationStatus = a.aggregationStatus
      /\ b.batchID = a.batchID
      /\ b.incidentCount \in Nat
      /\ b.settings.maxIncidentCount \in Nat
  BY DEF PlanAggregations
<1>2. Counted(a, e) = IF b.aggregationStatus THEN b
                      ELSE IF b.incidentCount = 1 THEN [b EXCEPT !.collectionTime = 0]
                      ELSE IF OverThreshold(b)
                           THEN [b EXCEPT !.aggregationStatus = TRUE, !.aggregationTime = 0, !.batchID = e]
                           ELSE b
  BY DEF Counted, NewBatch
<1> HIDE DEF b
<1>3. CASE b.aggregationStatus
  BY <1>1, <1>2, <1>3
<1>4. CASE ~b.aggregationStatus /\ b.incidentCount = 1
  BY <1>1, <1>2, <1>4 DEF PlanAggregations
<1>5. CASE ~b.aggregationStatus /\ b.incidentCount # 1 /\ OverThreshold(b)
  <2> DEFINE d == [b EXCEPT !.aggregationStatus = TRUE, !.aggregationTime = 0, !.batchID = e]
  <2>1. d \in PlanAggregations
    <3>1. [b EXCEPT !.aggregationStatus = TRUE] \in PlanAggregations
      BY <1>1 DEF PlanAggregations
    <3>2. 0 \in 0 .. MaxAge /\ e \in Escalations \union {None}
      OBVIOUS
    <3> QED
      BY <1>1, <3>1, <3>2, Zenon DEF PlanAggregations
  <2>2. d.settings = b.settings /\ d.aggregationStatus /\ d.batchID = e
    BY <1>1 DEF PlanAggregations
  <2>3. Counted(a, e) = d
    BY <1>2, <1>5
  <2> QED
    BY <1>1, <1>5, <2>1, <2>2, <2>3
<1>6. CASE ~b.aggregationStatus /\ b.incidentCount # 1 /\ ~OverThreshold(b)
  BY <1>1, <1>2, <1>6 DEF OverThreshold
<1> QED
  BY <1>3, <1>4, <1>5, <1>6

LEMMA InitInv == Init => IInv
<1> SUFFICES ASSUME Init PROVE IInv
  OBVIOUS
<1>1. planAggregationMap = [p \in Plans |-> None]
  BY DEF Init
<1>2. Known = {}
  BY <1>1 DEF Known
<1>3. TypeOK
  BY <1>2 DEF Init, TypeOK
<1> QED
  BY <1>2, <1>3 DEF Init, IInv, NeverOverThreshold, BatchInv, Aggregated

LEMMA CountIncidentStep ==
  ASSUME IInv, NEW e \in Escalations, CountIncident(e)
  PROVE  IInv'
<1> DEFINE p == PlanOf[e]
<1> USE DEF IInv
<1>1. p \in Plans
  OBVIOUS
<1>2. /\ age' = [age EXCEPT ![e] = 0]
      /\ age[e] = None
      /\ UNCHANGED <<irisSettings, loop, resp, stored, sinceReset>>
  BY DEF CountIncident, managerVars
<1>3. 0 \in 0 .. MaxAge /\ 0 # None
  OBVIOUS
<1>4. CASE p \in Known
  <2>1. /\ planAggregationMap' = [planAggregationMap EXCEPT ![p] = Counted(@, e)]
        /\ triggered' = IF planAggregationMap'[p].aggregationStatus /\ ~Agg(p).aggregationStatus
                        THEN triggered \union {e} ELSE triggered
        /\ fresh' = [fresh EXCEPT ![p] = @ \union {e}]
    BY <1>4 DEF CountIncident
  <2>2. Agg(p) \in PlanAggregations
    BY <1>1, <1>4, KnownRecords
  <2> DEFINE c == Counted(Agg(p), e)
  <2>3. planAggregationMap' = [planAggregationMap EXCEPT ![p] = c]
    BY <2>1 DEF Agg
  <2>4. /\ c \in PlanAggregations
        /\ c.settings = Agg(p).settings
        /\ Agg(p).aggregationStatus => c.aggregationStatus /\ c.batchID = Agg(p).batchID
        /\ ~Agg(p).aggregationStatus /\ c.aggregationStatus => c.batchID = e
        /\ ~c.aggregationStatus => c.incidentCount <= 1 \/ c.incidentCount <= c.settings.maxIncidentCount
    BY <2>2, CountedRecord
  <2> HIDE DEF c
  <2>5. Agg(p)' = c /\ \A q \in Plans : q # p => Agg(q)' = Agg(q)
    BY <1>1, <2>3 DEF Agg, TypeOK
  <2>6. \A q \in Known' : q \in Plans /\ (q # p => q \in Known)
    BY <2>5 DEF Known, Agg
  <2>7. TypeOK'
    <3>1. planAggregationMap' \in [Plans -> PlanAggregations \union {None}]
      BY <1>1, <2>3, <2>4 DEF TypeOK
    <3>2. triggered' \subseteq Escalations
      BY <2>1 DEF TypeOK
    <3>3. age' \in [Escalations -> (0 .. MaxAge) \union {None}]
      BY <1>2, <1>3 DEF TypeOK
    <3>4. fresh' \in [Plans -> SUBSET Escalations]
      BY <1>1, <2>1 DEF TypeOK
    <3> QED
      BY <1>2, <3>1, <3>2, <3>3, <3>4 DEF TypeOK
  <2>8. NeverOverThreshold'
    BY <2>4, <2>5, <2>6 DEF NeverOverThreshold, Aggregated
  <2>9. BatchInv'
    <3>1. c.aggregationStatus /\ ~Agg(p).aggregationStatus => e \in triggered'
      BY <1>1, <2>1, <2>5 DEF Agg
    <3>2. triggered \subseteq triggered' /\ triggered' \subseteq triggered \union {e}
      BY <2>1
    <3>3. \A x \in triggered' : age'[x] # None
      BY <1>2, <1>3, <3>2 DEF TypeOK, BatchInv
    <3>4. \A q \in Plans : Aggregated(q)' => Agg(q)'.batchID \in triggered'
      <4> SUFFICES ASSUME NEW q \in Plans, Aggregated(q)' PROVE Agg(q)'.batchID \in triggered'
        OBVIOUS
      <4>1. CASE q = p /\ Agg(p).aggregationStatus
        BY <1>4, <2>4, <2>5, <3>2, <4>1 DEF BatchInv, Aggregated
      <4>2. CASE q = p /\ ~Agg(p).aggregationStatus
        BY <2>4, <2>5, <3>1, <4>2 DEF Aggregated
      <4>3. CASE q # p
        BY <2>5, <2>6, <3>2, <4>3 DEF BatchInv, Aggregated
      <4> QED
        BY <4>1, <4>2, <4>3
    <3> QED
      BY <1>2, <3>2, <3>3, <3>4 DEF BatchInv
  <2> QED
    BY <2>7, <2>8, <2>9
<1>5. CASE p \notin Known
  <2>1. UNCHANGED <<planAggregationMap, triggered, fresh>>
    BY <1>5 DEF CountIncident
  <2>2. Known' = Known /\ \A q : Agg(q)' = Agg(q) /\ Aggregated(q)' = Aggregated(q)
    BY <2>1 DEF Known, Agg, Aggregated
  <2>3. age' \in [Escalations -> (0 .. MaxAge) \union {None}]
    BY <1>2, <1>3 DEF TypeOK
  <2>4. TypeOK'
    BY <1>2, <2>1, <2>2, <2>3 DEF TypeOK
  <2>5. BatchInv'
    BY <1>2, <1>3, <2>1, <2>2 DEF BatchInv, TypeOK
  <2> QED
    BY <2>2, <2>4, <2>5 DEF NeverOverThreshold
<1> QED
  BY <1>4, <1>5

LEMMA UpdateSettingsStep ==
  ASSUME IInv, UpdateSettings
  PROVE  IInv'
<1> USE DEF IInv
<1>1. /\ planAggregationMap' = [p \in Plans |-> IF resp[p] = None THEN None
                                              ELSE IF Changed(p) THEN PlanAggregation(resp[p])
                                              ELSE Agg(p)]
      /\ fresh' = [p \in Plans |-> IF Changed(p) THEN {} ELSE fresh[p]]
      /\ loop' = "reset"
      /\ UNCHANGED <<irisSettings, resp, triggered, stored, sinceReset, age>>
  BY DEF UpdateSettings, Removed
<1>2. \A p \in Plans : \/ Agg(p)' = None
                       \/ \E s \in Settings : Agg(p)' = PlanAggregation(s)
                       \/ p \in Known /\ Agg(p)' = Agg(p)
  BY <1>1 DEF TypeOK, Agg, Changed
<1>3. planAggregationMap' \in [Plans -> PlanAggregations \union {None}]
  <2>1. \A p \in Plans : planAggregationMap'[p] \in PlanAggregations \union {None}
    BY <1>2, NewRecord DEF TypeOK, Agg
  <2> QED
    BY <1>1, <2>1
<1>4. \A p \in Plans : Aggregated(p)' => Aggregated(p) /\ Agg(p)' = Agg(p)
  BY <1>2, NewRecord DEF Aggregated, Known, Agg
<1>5. TypeOK'
  BY <1>1, <1>3 DEF TypeOK
<1>6. NeverOverThreshold'
  <2> SUFFICES ASSUME NEW p \in Plans, p \in Known', ~Aggregated(p)'
               PROVE  Agg(p)'.incidentCount <= 1 \/ Agg(p)'.incidentCount <= Agg(p)'.settings.maxIncidentCount
    BY DEF NeverOverThreshold, Known
  <2>1. Agg(p)' # None
    BY DEF Known, Agg
  <2>2. CASE \E s \in Settings : Agg(p)' = PlanAggregation(s)
    BY <2>2, NewRecord
  <2>3. CASE p \in Known /\ Agg(p)' = Agg(p)
    BY <2>3 DEF NeverOverThreshold, Aggregated, Known, Agg
  <2> QED
    BY <1>2, <2>1, <2>2, <2>3
<1>7. BatchInv'
  BY <1>1, <1>4 DEF BatchInv
<1> QED
  BY <1>5, <1>6, <1>7

LEMMA ResetAggregationStep ==
  ASSUME IInv, ResetAggregation
  PROVE  IInv'
<1> USE DEF IInv
<1>1. /\ planAggregationMap' = [p \in Plans |-> IF StopsAggregating(p) \/ StopsCollecting(p)
                                              THEN Stopped(Agg(p)) ELSE Agg(p)]
      /\ fresh' = [p \in Plans |-> IF StopsAggregating(p) THEN {} ELSE fresh[p]]
      /\ loop' = "fetch" /\ sinceReset' = 0
      /\ UNCHANGED <<irisSettings, resp, triggered, stored, age>>
  BY DEF ResetAggregation
<1>2. \A p \in Known : /\ p \in Plans
                       /\ Stopped(Agg(p)) \in PlanAggregations
                       /\ ~Stopped(Agg(p)).aggregationStatus
                       /\ Stopped(Agg(p)).incidentCount = 0
  BY KnownRecords DEF Stopped, PlanAggregations, Known
<1>3. \A p \in Plans : \/ Agg(p)' = Agg(p)
                       \/ p \in Known /\ Agg(p)' = Stopped(Agg(p))
  BY <1>1 DEF Agg, StopsAggregating, StopsCollecting, Aggregated
<1>4. planAggregationMap' \in [Plans -> PlanAggregations \union {None}]
  <2>1. \A p \in Plans : planAggregationMap'[p] \in PlanAggregations \union {None}
    BY <1>2, <1>3 DEF TypeOK, Agg
  <2> QED
    BY <1>1, <2>1
<1>5. \A p \in Plans : Aggregated(p)' => Aggregated(p) /\ Agg(p)' = Agg(p)
  BY <1>2, <1>3 DEF Aggregated, Known, Agg
<1>6. TypeOK'
  BY <1>1, <1>4 DEF TypeOK
<1>7. NeverOverThreshold'
  BY <1>2, <1>3 DEF NeverOverThreshold, Aggregated, Known, Agg
<1>8. BatchInv'
  BY <1>1, <1>5 DEF BatchInv
<1> QED
  BY <1>6, <1>7, <1>8

LEMMA TickStep ==
  ASSUME IInv, Tick
  PROVE  IInv'
<1> USE DEF IInv
<1> DEFINE Aged(p) == [Agg(p) EXCEPT !.collectionTime = Older(@), !.aggregationTime = Older(@)]
<1>1. /\ planAggregationMap' = [p \in Plans |-> IF p \in Known THEN Aged(p) ELSE None]
      /\ age' = [e \in Escalations |-> Older(age[e])]
      /\ sinceReset' = sinceReset + 1 /\ sinceReset < MaxLag
      /\ UNCHANGED <<irisSettings, loop, resp, triggered, stored, fresh>>
  BY DEF Tick, managerVars
<1>2. \A t \in 0 .. MaxAge : Older(t) \in 0 .. MaxAge /\ t # None
  BY DEF Older
<1>3. Older(None) = None
  BY DEF Older
<1>4. \A p \in Known : /\ Aged(p) \in PlanAggregations
                       /\ Aged(p).aggregationStatus = Agg(p).aggregationStatus
                       /\ Aged(p).incidentCount = Agg(p).incidentCount
                       /\ Aged(p).settings = Agg(p).settings
                       /\ Aged(p).batchID = Agg(p).batchID
  BY <1>2, KnownRecords DEF PlanAggregations, Known
<1> HIDE DEF Aged
<1>5. \A p \in Plans : /\ p \in Known => Agg(p)' = Aged(p)
                       /\ p \notin Known => Agg(p)' = None
  BY <1>1 DEF Agg
<1>6. \A p \in Plans : p \in Known' => p \in Known
  BY <1>5 DEF Known, Agg
<1>7. TypeOK'
  <2>1. planAggregationMap' \in [Plans -> PlanAggregations \union {None}]
    BY <1>1, <1>4
  <2>2. age' \in [Escalations -> (0 .. MaxAge) \union {None}]
    BY <1>1, <1>2, <1>3 DEF TypeOK
  <2> QED
    BY <1>1, <2>1, <2>2 DEF TypeOK
<1>8. NeverOverThreshold'
  BY <1>4, <1>5, <1>6 DEF NeverOverThreshold, Aggregated, Known
<1>9. BatchInv'
  <2>1. \A e \in triggered' : age'[e] # None
    BY <1>1, <1>2 DEF BatchInv, TypeOK
  <2>2. \A p \in Plans : Aggregated(p)' => Aggregated(p) /\ Agg(p)'.batchID = Agg(p).batchID
    BY <1>4, <1>5, <1>6 DEF Aggregated
  <2> QED
    BY <1>1, <2>1, <2>2 DEF BatchInv
<1> QED
  BY <1>7, <1>8, <1>9

LEMMA NextStep == IInv /\ [Next]_vars => IInv'
<1> SUFFICES ASSUME IInv, [Next]_vars PROVE IInv'
  OBVIOUS
<1> USE DEF IInv, managerVars, historyVars
<1>1. ASSUME UNCHANGED planAggregationMap
      PROVE  /\ Known' = Known
             /\ \A p \in Plans : Agg(p)' = Agg(p) /\ (Aggregated(p)' <=> Aggregated(p))
             /\ NeverOverThreshold'
  BY <1>1 DEF Known, Agg, Aggregated, NeverOverThreshold
<1>2. ASSUME NEW e \in Escalations, CountIncident(e) PROVE IInv'
  BY <1>2, CountIncidentStep
<1>3. ASSUME NEW p \in Plans, CheckAggregation(p) PROVE IInv'
  <2>1. Agg(p).batchID \in triggered
    BY <1>3 DEF CheckAggregation, BatchInv
  <2> QED
    BY <1>1, <1>3, <2>1 DEF CheckAggregation, TypeOK, BatchInv
<1>4. ASSUME NEW p \in Plans, ChangeSettings(p) PROVE IInv'
  BY <1>1, <1>4 DEF ChangeSettings, TypeOK, BatchInv
<1>5. CASE GetPlanAggregationSettings
  BY <1>1, <1>5 DEF GetPlanAggregationSettings, TypeOK, BatchInv
<1>6. CASE UpdateSettings
  BY <1>6, UpdateSettingsStep
<1>7. CASE ResetAggregation
  BY <1>7, ResetAggregationStep
<1>8. CASE Tick
  BY <1>8, TickStep
<1>9. CASE UNCHANGED vars
  BY <1>1, <1>9 DEF vars, TypeOK, BatchInv
<1> QED
  BY <1>2, <1>3, <1>4, <1>5, <1>6, <1>7, <1>8, <1>9 DEF Next, Run

-----------------------------------------------------------------------------
LEMMA Inductive == Spec => []IInv
  BY InitInv, NextStep, PTL DEF Spec

(* Every reachable state of the aggregation manager is well typed.          *)
THEOREM TypeCorrect == Spec => []TypeOK
  BY Inductive, PTL DEF IInv

(* countIncident never leaves a plan over its threshold unaggregated.       *)
THEOREM ThresholdCorrect == Spec => []NeverOverThreshold
  BY Inductive, PTL DEF IInv

(* No message is stored under a batch id that countIncident did not return   *)
(* to be announced.                                                         *)
THEOREM BatchesCorrect == Spec => []BatchesAnnounced
<1>1. IInv => BatchesAnnounced
  BY DEF IInv, BatchInv, BatchesAnnounced
<1> QED
  BY <1>1, Inductive, PTL

-----------------------------------------------------------------------------
(* A plan starts to be aggregated only when an escalation is counted.        *)
CountsFor(e, p) ==
  /\ CountIncident(e) /\ PlanOf[e] = p /\ p \in Known
  /\ Agg(p) \in PlanAggregations /\ ~Agg(p).aggregationStatus
  /\ Agg(p)' = Counted(Agg(p), e) /\ Agg(p)'.aggregationStatus

LEMMA StartsByCounting ==
  ASSUME IInv, [Next]_vars, NEW p \in Plans, Starts(p)
  PROVE  \E e \in Escalations : CountsFor(e, p)
<1> USE DEF IInv, Starts
<1>1. ASSUME UNCHANGED planAggregationMap PROVE FALSE
  BY <1>1 DEF Known, Agg, Aggregated
<1>2. ASSUME NEW e \in Escalations, CountIncident(e)
      PROVE  CountsFor(e, p)
  <2>1. PlanOf[e] \in Plans /\ age[e] = None
    BY <1>2 DEF CountIncident
  <2>2. CASE PlanOf[e] = p /\ p \in Known
    <3>1. Agg(p) \in PlanAggregations
      BY <2>2, KnownRecords
    <3>2. Agg(p)' = Counted(Agg(p), e)
      BY <1>2, <2>2 DEF CountIncident, Agg, TypeOK
    <3>3. ~Agg(p).aggregationStatus /\ Agg(p)'.aggregationStatus
      BY <2>2 DEF Aggregated
    <3> QED
      BY <1>2, <2>2, <3>1, <3>2, <3>3 DEF CountsFor
  <2>3. CASE PlanOf[e] # p \/ p \notin Known
    <3>1. Agg(p)' = Agg(p)
      BY <1>2, <2>1, <2>3 DEF CountIncident, Agg, TypeOK
    <3> QED
      BY <3>1 DEF Aggregated, Known, Agg
  <2> QED
    BY <2>2, <2>3
<1>3. ASSUME NEW q \in Plans, CheckAggregation(q) \/ ChangeSettings(q) PROVE FALSE
  BY <1>1, <1>3 DEF CheckAggregation, ChangeSettings
<1>4. CASE GetPlanAggregationSettings
  BY <1>1, <1>4 DEF GetPlanAggregationSettings
<1>5. CASE UpdateSettings
  <2>1. \/ Agg(p)' = None
        \/ \E s \in Settings : Agg(p)' = PlanAggregation(s)
        \/ p \in Known /\ Agg(p)' = Agg(p)
    BY <1>5 DEF UpdateSettings, Removed, TypeOK, Agg, Changed
  <2> QED
    BY <2>1, NewRecord DEF Aggregated, Known, Agg
<1>6. CASE ResetAggregation
  <2>1. \/ Agg(p)' = Agg(p)
        \/ /\ p \in Known
           /\ Agg(p)' = Stopped(Agg(p))
    BY <1>6 DEF ResetAggregation, Agg, StopsAggregating, StopsCollecting, Aggregated
  <2>2. p \in Known => ~Stopped(Agg(p)).aggregationStatus
    BY KnownRecords DEF Stopped, PlanAggregations
  <2> QED
    BY <2>1, <2>2 DEF Aggregated, Known, Agg
<1>7. CASE Tick
  <2>1. /\ p \in Known => Agg(p)' = [Agg(p) EXCEPT !.collectionTime = Older(@),
                                                   !.aggregationTime = Older(@)]
        /\ p \notin Known => Agg(p)' = None
    BY <1>7 DEF Tick, Agg
  <2>2. p \in Known => [Agg(p) EXCEPT !.collectionTime = Older(@),
                                    !.aggregationTime = Older(@)].aggregationStatus = Agg(p).aggregationStatus
    BY KnownRecords DEF PlanAggregations
  <2> QED
    BY <2>1, <2>2 DEF Aggregated, Known, Agg
<1>8. CASE UNCHANGED vars
  BY <1>1, <1>8 DEF vars
<1> QED
  BY <1>2, <1>3, <1>4, <1>5, <1>6, <1>7, <1>8 DEF Next, Run

(* Each aggregation has a batch under which nothing has been stored yet.     *)
THEOREM FreshBatchCorrect == Spec => FreshBatch
<1>1. IInv /\ [Next]_vars => [\A p \in Plans : Starts(p) => Agg(p)'.batchID \notin stored]_vars
  <2> SUFFICES ASSUME IInv, [Next]_vars, NEW p \in Plans, Starts(p)
               PROVE  Agg(p)'.batchID \notin stored
    OBVIOUS
  <2>1. PICK e \in Escalations : CountsFor(e, p)
    BY StartsByCounting
  <2>2. age[e] = None /\ Agg(p)'.batchID = e
    BY <2>1, CountedRecord DEF CountsFor, CountIncident
  <2> QED
    BY <2>2 DEF IInv, BatchInv
<1> QED
  BY <1>1, Inductive, PTL DEF Spec, FreshBatch

(* An aggregation ends only when its window is over or its settings change.  *)
THEOREM EndsForAReasonCorrect == Spec => EndsForAReason
<1> DEFINE Ends(p) == Aggregated(p) /\ ~Aggregated(p)'
           Reason(p) == \/ Agg(p).aggregationTime > Agg(p).settings.aggregationWindow
                        \/ resp[p] # Agg(p).settings
<1>1. IInv /\ [Next]_vars => [\A p \in Plans : Ends(p) => Reason(p)]_vars
  <2> SUFFICES ASSUME IInv, [Next]_vars, NEW p \in Plans, Aggregated(p), ~Aggregated(p)'
               PROVE  Reason(p)
    OBVIOUS
  <2> USE DEF IInv
  <2>1. p \in Known /\ Agg(p) \in PlanAggregations
    BY KnownRecords
  <2>2. ASSUME UNCHANGED planAggregationMap PROVE FALSE
    BY <2>2 DEF Known, Agg, Aggregated
  <2>3. ASSUME NEW e \in Escalations, CountIncident(e) PROVE FALSE
    <3>1. PlanOf[e] \in Plans
      OBVIOUS
    <3>2. Agg(p)' = Agg(p) \/ Agg(p)' = Counted(Agg(p), e)
      BY <2>1, <2>3, <3>1 DEF CountIncident, Agg, TypeOK
    <3>3. Agg(p)'.aggregationStatus /\ Agg(p)' \in PlanAggregations
      BY <2>1, <3>2, CountedRecord DEF Aggregated
    <3> QED
      BY <3>3, NoneAssumption DEF NoneAssumption, Aggregated, Known, Agg
  <2>4. ASSUME NEW q \in Plans, CheckAggregation(q) \/ ChangeSettings(q) PROVE FALSE
    BY <2>2, <2>4 DEF CheckAggregation, ChangeSettings
  <2>5. CASE GetPlanAggregationSettings
    BY <2>2, <2>5 DEF GetPlanAggregationSettings
  <2>6. CASE UpdateSettings
    <3>1. Agg(p).settings \in Settings
      BY <2>1 DEF PlanAggregations
    <3> QED
      BY <2>1, <2>6, <3>1 DEF UpdateSettings, Removed, Changed, Agg, Known, Aggregated
  <2>7. CASE ResetAggregation
    BY <2>1, <2>7 DEF ResetAggregation, Agg, Known, Aggregated, StopsAggregating, StopsCollecting
  <2>8. CASE Tick
    <3>1. Agg(p)' = [Agg(p) EXCEPT !.collectionTime = Older(@), !.aggregationTime = Older(@)]
      BY <2>1, <2>8 DEF Tick, Agg
    <3>2. Agg(p)'.aggregationStatus = Agg(p).aggregationStatus
      BY <2>1, <3>1 DEF PlanAggregations
    <3>3. \A t \in 0 .. MaxAge : Older(t) \in 0 .. MaxAge
      BY DEF Older
    <3>4. Agg(p)' \in PlanAggregations
      BY <2>1, <3>1, <3>3 DEF PlanAggregations
    <3> QED
      BY <3>2, <3>4, NoneAssumption DEF NoneAssumption, Aggregated, Known, Agg
  <2>9. CASE UNCHANGED vars
    BY <2>2, <2>9 DEF vars
  <2> QED
    BY <2>3, <2>4, <2>5, <2>6, <2>7, <2>8, <2>9 DEF Next, Run
<1> QED
  BY <1>1, Inductive, PTL DEF Spec, EndsForAReason
-----------------------------------------------------------------------------
(* What a plan that collects incidents has counted since its window opened:  *)
(* the window is at most as old as the loop allows, and each incident that  *)
(* is counted is a different escalation, begun in this window.              *)
Recent(p) == {e \in fresh[p] : age[e] <= Agg(p).collectionTime}

Collecting(p) == p \in Known /\ ~Aggregated(p) /\ Agg(p).incidentCount > 0

Collects(p) ==
  /\ Agg(p).collectionTime <= Agg(p).settings.collectionWindow + sinceReset
  /\ Agg(p).incidentCount <= Cardinality(Recent(p))

CountInv ==
  /\ \A p \in Plans : IsFiniteSet(fresh[p]) /\ \A e \in fresh[p] : age[e] # None
  /\ \A p \in Plans : Collecting(p) => Collects(p)

(* What countIncident does to the count and to the window of a record.      *)
LEMMA CountedWindow ==
  ASSUME NEW a \in PlanAggregations, NEW e \in Escalations, ~a.aggregationStatus
  PROVE  LET c == Counted(a, e)
         IN  /\ c.incidentCount = a.incidentCount + 1
             /\ c.collectionTime = IF a.incidentCount = 0 THEN 0 ELSE a.collectionTime
             /\ c.aggregationStatus =>
                  a.incidentCount > 0 /\ a.incidentCount + 1 > a.settings.maxIncidentCount
<1> DEFINE b == [a EXCEPT !.incidentCount = @ + 1]
           c == Counted(a, e)
<1>1. /\ b \in PlanAggregations
      /\ b.settings = a.settings
      /\ ~b.aggregationStatus
      /\ b.collectionTime = a.collectionTime
      /\ b.incidentCount = a.incidentCount + 1
      /\ a.incidentCount \in Nat
  BY DEF PlanAggregations
<1>2. c = IF b.aggregationStatus THEN b
          ELSE IF b.incidentCount = 1 THEN [b EXCEPT !.collectionTime = 0]
          ELSE IF OverThreshold(b)
               THEN [b EXCEPT !.aggregationStatus = TRUE, !.aggregationTime = 0, !.batchID = e]
               ELSE b
  BY DEF Counted, NewBatch
<1> HIDE DEF b, c
<1>3. CASE b.incidentCount = 1
  <2>1. c = [b EXCEPT !.collectionTime = 0]
    BY <1>1, <1>2, <1>3
  <2>2. c.incidentCount = b.incidentCount /\ c.collectionTime = 0 /\ c.aggregationStatus = b.aggregationStatus
    BY <1>1, <2>1 DEF PlanAggregations
  <2> QED
    BY <1>1, <1>3, <2>2 DEF c
<1>4. CASE b.incidentCount # 1 /\ OverThreshold(b)
  <2>1. c = [b EXCEPT !.aggregationStatus = TRUE, !.aggregationTime = 0, !.batchID = e]
    BY <1>1, <1>2, <1>4
  <2>2. c.incidentCount = b.incidentCount /\ c.collectionTime = b.collectionTime
    BY <1>1, <2>1 DEF PlanAggregations
  <2>3. b.incidentCount > b.settings.maxIncidentCount
    BY <1>4 DEF OverThreshold
  <2> QED
    BY <1>1, <1>4, <2>2, <2>3 DEF c
<1>5. CASE b.incidentCount # 1 /\ ~OverThreshold(b)
  <2>1. c = b
    BY <1>1, <1>2, <1>5
  <2> QED
    BY <1>1, <1>5, <2>1 DEF c
<1> QED
  BY <1>3, <1>4, <1>5 DEF c

(* An escalation that is counted for the first time adds to what is recent. *)
LEMMA RecentGrows ==
  ASSUME IInv, CountInv, NEW e \in Escalations, CountIncident(e), NEW p \in Plans,
         p \in Known, PlanOf[e] = p, NEW R, R \subseteq fresh[p], NEW t \in Nat,
         \A x \in R : age[x] <= t
  PROVE  /\ IsFiniteSet(R) /\ IsFiniteSet(fresh'[p])
         /\ Cardinality({x \in fresh'[p] : age'[x] <= t}) >= Cardinality(R) + 1
<1> DEFINE S == {x \in fresh'[p] : age'[x] <= t}
<1>1. /\ age[e] = None /\ age' = [age EXCEPT ![e] = 0] /\ fresh' = [fresh EXCEPT ![p] = @ \union {e}]
      /\ age \in [Escalations -> (0 .. MaxAge) \union {None}] /\ fresh \in [Plans -> SUBSET Escalations]
  BY DEF CountIncident, IInv, TypeOK
<1>2. IsFiniteSet(fresh[p]) /\ e \notin fresh[p] /\ fresh'[p] = fresh[p] \union {e}
  BY <1>1 DEF CountInv
<1>3. IsFiniteSet(R) /\ e \notin R /\ IsFiniteSet(fresh'[p])
  BY <1>2, FS_Subset, FS_AddElement
<1>4. IsFiniteSet(R \union {e}) /\ Cardinality(R \union {e}) = Cardinality(R) + 1
  BY <1>3, FS_AddElement
<1>5. R \union {e} \subseteq S
  BY <1>1, <1>2, <1>3
<1>6. IsFiniteSet(S)
  BY <1>3, FS_Subset
<1>7. Cardinality(R \union {e}) <= Cardinality(S)
  BY <1>5, <1>6, FS_Subset
<1>8. Cardinality(R) \in Nat /\ Cardinality(S) \in Nat
  BY <1>3, <1>6, FS_CardinalityType
<1> QED
  BY <1>3, <1>4, <1>7, <1>8

LEMMA CountIncidentCounts ==
  ASSUME IInv, CountInv, NEW e \in Escalations, CountIncident(e)
  PROVE  CountInv'
<1> DEFINE p == PlanOf[e]
<1>1. /\ p \in Plans /\ age[e] = None /\ age' = [age EXCEPT ![e] = 0] /\ sinceReset' = sinceReset
      /\ age \in [Escalations -> (0 .. MaxAge) \union {None}] /\ fresh \in [Plans -> SUBSET Escalations]
      /\ 0 # None
  BY DEF CountIncident, IInv, TypeOK
<1>2. CASE p \notin Known
  <2>1. UNCHANGED <<planAggregationMap, fresh>>
    BY <1>2 DEF CountIncident
  <2>2. \A q \in Plans : \A x \in fresh[q] : age'[x] = age[x]
    BY <1>1 DEF CountInv
  <2>3. \A q \in Plans : Recent(q)' = Recent(q) /\ (Collecting(q)' <=> Collecting(q)) /\ Agg(q)' = Agg(q)
    BY <2>1, <2>2 DEF Recent, Collecting, Agg, Aggregated, Known
  <2> QED
    BY <1>1, <2>1, <2>2, <2>3 DEF CountInv, Collects
<1>3. CASE p \in Known
  <2> DEFINE c == Counted(Agg(p), e)
  <2>1. /\ fresh' = [fresh EXCEPT ![p] = @ \union {e}]
        /\ planAggregationMap' = [planAggregationMap EXCEPT ![p] = c]
        /\ planAggregationMap \in [Plans -> PlanAggregations \union {None}]
    BY <1>3 DEF CountIncident, IInv, TypeOK, Agg
  <2>2. Agg(p) \in PlanAggregations
    BY <1>1, <1>3, KnownRecords DEF IInv
  <2>3. Agg(p)' = c /\ \A q \in Plans : q # p => Agg(q)' = Agg(q)
    BY <1>1, <2>1 DEF Agg
  <2>4. \A q \in Plans : IsFiniteSet(fresh'[q]) /\ \A x \in fresh'[q] : age'[x] # None
    <3>1. \A q \in Plans : IsFiniteSet(fresh[q]) /\ IsFiniteSet(fresh[q] \union {e})
      BY FS_AddElement DEF CountInv
    <3> QED
      BY <1>1, <2>1, <3>1 DEF CountInv
  <2>5. ASSUME NEW q \in Plans, q # p, Collecting(q)'
        PROVE  Collects(q)'
    <3>1. Collecting(q)
      BY <2>3, <2>5 DEF Collecting, Aggregated, Known, Agg
    <3>2. fresh'[q] = fresh[q] /\ \A x \in fresh[q] : age'[x] = age[x]
      BY <1>1, <2>1, <2>5 DEF CountInv
    <3>3. Recent(q)' = Recent(q)
      BY <2>3, <2>5, <3>2 DEF Recent
    <3> QED
      BY <1>1, <2>3, <2>5, <3>1, <3>3 DEF CountInv, Collects
  <2>6. ASSUME Collecting(p)'
        PROVE  Collects(p)'
    <3>1. ~Agg(p).aggregationStatus
      BY <2>2, <2>3, <2>6, CountedRecord DEF Collecting, Aggregated
    <3>2. /\ c.incidentCount = Agg(p).incidentCount + 1
          /\ c.collectionTime = IF Agg(p).incidentCount = 0 THEN 0 ELSE Agg(p).collectionTime
          /\ c.settings = Agg(p).settings
      BY <2>2, <3>1, CountedWindow, CountedRecord
    <3>3. /\ Agg(p).incidentCount \in Nat /\ Agg(p).collectionTime \in Nat
          /\ Agg(p).settings.collectionWindow \in Nat /\ sinceReset \in Nat
      BY <2>2 DEF PlanAggregations, IInv, TypeOK
    <3> HIDE DEF c
    <3>4. Recent(p)' = {x \in fresh'[p] : age'[x] <= c.collectionTime}
      BY <2>3 DEF Recent
    <3>5. Collects(p)' <=> /\ c.collectionTime <= c.settings.collectionWindow + sinceReset
                           /\ c.incidentCount <= Cardinality(Recent(p)')
      BY <1>1, <2>3 DEF Collects
    <3>6. CASE Agg(p).incidentCount = 0
      <4>1. IsFiniteSet({}) /\ Cardinality({}) = 0
        BY FS_EmptySet
      <4>2. Cardinality({x \in fresh'[p] : age'[x] <= 0}) >= Cardinality({}) + 1
        BY <1>1, <1>3, RecentGrows
      <4> QED
        BY <3>2, <3>3, <3>4, <3>5, <3>6, <4>1, <4>2
    <3>7. CASE Agg(p).incidentCount # 0
      <4>1. Collects(p)
        BY <1>1, <1>3, <3>1, <3>3, <3>7 DEF CountInv, Collecting, Aggregated
      <4>2. IsFiniteSet(Recent(p)) /\ Cardinality(Recent(p)') >= Cardinality(Recent(p)) + 1
        BY <1>1, <1>3, <3>2, <3>3, <3>4, <3>7, RecentGrows DEF Recent
      <4>3. IsFiniteSet(Recent(p)')
        BY <1>1, <1>3, <2>4, <3>4, FS_Subset
      <4>4. Cardinality(Recent(p)) \in Nat /\ Cardinality(Recent(p)') \in Nat
        BY <4>2, <4>3, FS_CardinalityType
      <4> QED
        BY <3>2, <3>3, <3>5, <3>7, <4>1, <4>2, <4>4 DEF Collects
    <3> QED
      BY <3>6, <3>7
  <2> QED
    BY <2>4, <2>5, <2>6 DEF CountInv
<1> QED
  BY <1>2, <1>3

LEMMA UpdateSettingsCounts ==
  ASSUME IInv, CountInv, UpdateSettings
  PROVE  CountInv'
<1>1. /\ planAggregationMap' = [p \in Plans |-> IF resp[p] = None THEN None
                                              ELSE IF Changed(p) THEN PlanAggregation(resp[p])
                                              ELSE Agg(p)]
      /\ fresh' = [p \in Plans |-> IF Changed(p) THEN {} ELSE fresh[p]]
      /\ sinceReset' = sinceReset /\ age' = age
      /\ resp \in [Plans -> Settings \union {None}]
  BY DEF UpdateSettings, Removed, IInv, TypeOK
<1>2. \A p \in Plans : IsFiniteSet(fresh'[p]) /\ \A e \in fresh'[p] : age'[e] # None
  BY <1>1, FS_EmptySet DEF CountInv
<1>3. ASSUME NEW p \in Plans, Collecting(p)'
      PROVE  Collects(p)'
  <2>1. Agg(p)' = IF resp[p] = None THEN None
                  ELSE IF Changed(p) THEN PlanAggregation(resp[p]) ELSE Agg(p)
    BY <1>1 DEF Agg
  <2>2. Agg(p)' # None /\ Agg(p)'.incidentCount > 0
    BY <1>3 DEF Collecting, Known, Agg
  <2>3. ~Changed(p)
    <3> SUFFICES ASSUME Changed(p) PROVE FALSE
      OBVIOUS
    <3>1. resp[p] \in Settings /\ Agg(p)' = PlanAggregation(resp[p])
      BY <1>1, <2>1, <2>2
    <3> QED
      BY <2>2, <3>1, NewRecord
  <2>4. p \in Known /\ Agg(p)' = Agg(p) /\ fresh'[p] = fresh[p]
    BY <1>1, <2>1, <2>2, <2>3 DEF Changed
  <2>5. Collecting(p) /\ Recent(p)' = Recent(p)
    BY <1>1, <1>3, <2>4 DEF Collecting, Aggregated, Recent, Known, Agg
  <2> QED
    BY <1>1, <2>4, <2>5 DEF CountInv, Collects
<1> QED
  BY <1>2, <1>3 DEF CountInv

LEMMA ResetAggregationCounts ==
  ASSUME IInv, CountInv, ResetAggregation
  PROVE  CountInv'
<1>1. /\ planAggregationMap' = [p \in Plans |-> IF StopsAggregating(p) \/ StopsCollecting(p)
                                              THEN Stopped(Agg(p)) ELSE Agg(p)]
      /\ fresh' = [p \in Plans |-> IF StopsAggregating(p) THEN {} ELSE fresh[p]]
      /\ sinceReset' = 0 /\ age' = age
  BY DEF ResetAggregation
<1>2. \A p \in Plans : IsFiniteSet(fresh'[p]) /\ \A e \in fresh'[p] : age'[e] # None
  BY <1>1, FS_EmptySet DEF CountInv
<1>3. ASSUME NEW p \in Plans, Collecting(p)'
      PROVE  Collects(p)'
  <2>1. Agg(p)' = IF StopsAggregating(p) \/ StopsCollecting(p) THEN Stopped(Agg(p)) ELSE Agg(p)
    BY <1>1 DEF Agg
  <2>2. Agg(p)' # None /\ Agg(p)'.incidentCount > 0 /\ ~Agg(p)'.aggregationStatus
    BY <1>3 DEF Collecting, Aggregated, Known, Agg
  <2>3. ~StopsAggregating(p) /\ ~StopsCollecting(p)
    <3>1. p \in Known => Stopped(Agg(p)).incidentCount = 0
      BY KnownRecords DEF IInv, Stopped, PlanAggregations
    <3> QED
      BY <2>1, <2>2, <3>1 DEF StopsAggregating, StopsCollecting, Aggregated
  <2>4. p \in Known /\ Agg(p)' = Agg(p) /\ fresh'[p] = fresh[p] /\ ~Aggregated(p)
    BY <1>1, <2>1, <2>2, <2>3 DEF Known, Aggregated, Agg
  <2>5. Collecting(p) /\ Recent(p)' = Recent(p)
    BY <1>1, <2>2, <2>4 DEF Collecting, Recent
  <2>6. Agg(p) \in PlanAggregations
    BY <2>4, KnownRecords DEF IInv
  <2>7. Agg(p).collectionTime <= Agg(p).settings.collectionWindow + 0
    BY <2>2, <2>3, <2>4, <2>6 DEF StopsCollecting, PlanAggregations
  <2> QED
    BY <1>1, <2>4, <2>5, <2>7 DEF CountInv, Collects
<1> QED
  BY <1>2, <1>3 DEF CountInv

LEMMA TickCounts ==
  ASSUME IInv, CountInv, Tick
  PROVE  CountInv'
<1>1. /\ planAggregationMap' = [p \in Plans |-> IF p \in Known
                                  THEN [Agg(p) EXCEPT !.collectionTime = Older(@), !.aggregationTime = Older(@)]
                                  ELSE None]
      /\ age' = [e \in Escalations |-> Older(age[e])]
      /\ sinceReset' = sinceReset + 1 /\ fresh' = fresh
  BY DEF Tick
<1>2. \A t, u \in 0 .. MaxAge : /\ Older(t) \in Nat /\ Older(t) # None /\ Older(t) <= t + 1
                                /\ t <= u => Older(t) <= Older(u)
  BY DEF Older
<1>3. /\ \A p \in Plans : \A e \in fresh[p] : age[e] \in 0 .. MaxAge /\ age'[e] = Older(age[e])
      /\ sinceReset \in Nat
  <2>1. /\ age \in [Escalations -> (0 .. MaxAge) \union {None}] /\ fresh \in [Plans -> SUBSET Escalations]
        /\ sinceReset \in Nat
    BY DEF IInv, TypeOK
  <2>2. \A p \in Plans : \A e \in fresh[p] : age[e] # None
    BY DEF CountInv
  <2>3. \A e \in Escalations : age'[e] = Older(age[e])
    BY <1>1
  <2> QED
    BY <2>1, <2>2, <2>3
<1>4. \A p \in Plans : IsFiniteSet(fresh'[p]) /\ \A e \in fresh'[p] : age'[e] # None
  BY <1>1, <1>2, <1>3 DEF CountInv
<1>5. ASSUME NEW p \in Plans, Collecting(p)'
      PROVE  Collects(p)'
  <2>1. p \in Known /\ Agg(p) \in PlanAggregations
    BY <1>1, <1>5, KnownRecords DEF Collecting, Known, Agg, IInv
  <2>2. Agg(p)' = [Agg(p) EXCEPT !.collectionTime = Older(@), !.aggregationTime = Older(@)]
    BY <1>1, <2>1 DEF Agg
  <2>3. /\ Agg(p)'.collectionTime = Older(Agg(p).collectionTime)
        /\ Agg(p)'.settings = Agg(p).settings
        /\ Agg(p)'.incidentCount = Agg(p).incidentCount
        /\ Agg(p)'.aggregationStatus = Agg(p).aggregationStatus
        /\ Agg(p).collectionTime \in 0 .. MaxAge
        /\ Agg(p).settings.collectionWindow \in Nat /\ Agg(p).incidentCount \in Nat
    BY <2>1, <2>2 DEF PlanAggregations
  <2>4. Collecting(p)
    BY <1>5, <2>1, <2>3 DEF Collecting, Aggregated
  <2>5. Collects(p)
    BY <2>4 DEF CountInv
  <2>6. Recent(p) \subseteq Recent(p)'
    <3>1. Recent(p)' = {e \in fresh[p] : age'[e] <= Older(Agg(p).collectionTime)}
      BY <1>1, <2>3 DEF Recent
    <3>2. \A e \in fresh[p] : age[e] <= Agg(p).collectionTime => Older(age[e]) <= Older(Agg(p).collectionTime)
      BY <1>2, <1>3, <2>3
    <3> QED
      BY <1>3, <3>1, <3>2 DEF Recent
  <2>7. IsFiniteSet(Recent(p)) /\ IsFiniteSet(Recent(p)')
    BY <1>4, FS_Subset DEF CountInv, Recent
  <2>8. Cardinality(Recent(p)) <= Cardinality(Recent(p)')
    BY <2>6, <2>7, FS_Subset
  <2>9. Cardinality(Recent(p)) \in Nat /\ Cardinality(Recent(p)') \in Nat
    BY <2>7, FS_CardinalityType
  <2>10. Agg(p)'.collectionTime <= Agg(p)'.settings.collectionWindow + sinceReset'
    <3>1. Older(Agg(p).collectionTime) \in Nat /\ Older(Agg(p).collectionTime) <= Agg(p).collectionTime + 1
      BY <1>2, <2>3
    <3>2. Agg(p).collectionTime <= Agg(p).settings.collectionWindow + sinceReset
      BY <2>5 DEF Collects
    <3>3. sinceReset' = sinceReset + 1 /\ sinceReset \in Nat
      BY <1>1, <1>3
    <3>4. Older(Agg(p).collectionTime) <= Agg(p).settings.collectionWindow + sinceReset'
      BY <2>3, <3>1, <3>2, <3>3
    <3> QED
      BY <2>3, <3>4
  <2>11. Agg(p)'.incidentCount <= Cardinality(Recent(p)')
    BY <2>3, <2>5, <2>8, <2>9 DEF Collects
  <2> QED
    BY <2>10, <2>11 DEF Collects
<1> QED
  BY <1>4, <1>5 DEF CountInv

LEMMA CountInit == Init => CountInv
  BY FS_EmptySet DEF Init, CountInv, Collecting, Known

LEMMA CountStep == IInv /\ CountInv /\ [Next]_vars => CountInv'
<1> SUFFICES ASSUME IInv, CountInv, [Next]_vars PROVE CountInv'
  OBVIOUS
<1>1. ASSUME UNCHANGED <<planAggregationMap, fresh, age, sinceReset>>
      PROVE  CountInv'
  BY <1>1 DEF CountInv, Collecting, Collects, Recent, Aggregated, Known, Agg
<1>2. ASSUME NEW p \in Plans, CheckAggregation(p) \/ ChangeSettings(p) PROVE CountInv'
  BY <1>1, <1>2 DEF CheckAggregation, ChangeSettings, historyVars
<1>3. CASE GetPlanAggregationSettings \/ UNCHANGED vars
  BY <1>1, <1>3 DEF GetPlanAggregationSettings, vars, historyVars
<1> QED
  BY <1>2, <1>3, CountIncidentCounts, UpdateSettingsCounts, ResetAggregationCounts, TickCounts DEF Next, Run

(* A plan starts to be aggregated only when more escalations than its        *)
(* threshold have begun within its collection window and the lag of the     *)
(* loop, none of them before its last aggregation or its last change of     *)
(* settings (countIncident, resetAggregation, updateSettings).              *)
THEOREM StartsForAReasonCorrect == Spec => StartsForAReason
<1> DEFINE Window(p) == Agg(p).settings.collectionWindow + MaxLag
           Counts(p) == {e \in fresh'[p] : age'[e] <= Window(p)}
           Reason(p) == Cardinality(Counts(p)) > Agg(p).settings.maxIncidentCount
<1>1. IInv /\ CountInv /\ [Next]_vars => [\A p \in Plans : Starts(p) => Reason(p)]_vars
  <2> SUFFICES ASSUME IInv, CountInv, [Next]_vars, NEW p \in Plans, Starts(p)
               PROVE  Reason(p)
    OBVIOUS
  <2>1. PICK e \in Escalations : CountsFor(e, p)
    BY StartsByCounting
  <2>2. /\ Agg(p) \in PlanAggregations /\ Agg(p).incidentCount > 0
        /\ Agg(p).incidentCount + 1 > Agg(p).settings.maxIncidentCount
    BY <2>1, CountedWindow DEF CountsFor
  <2>3. Collects(p)
    BY <2>1, <2>2 DEF CountInv, Collecting, Aggregated, CountsFor
  <2>4. /\ Agg(p).incidentCount \in Nat /\ Agg(p).collectionTime \in Nat /\ Window(p) \in Nat
        /\ Agg(p).settings.maxIncidentCount \in Nat
        /\ Agg(p).collectionTime <= Window(p)
    BY <2>2, <2>3 DEF PlanAggregations, IInv, TypeOK, Collects
  <2>5. \A x \in Recent(p) : age[x] <= Window(p)
    <3>1. \A x \in fresh[p] : age[x] \in Nat
      BY DEF IInv, TypeOK, CountInv
    <3> QED
      BY <2>4, <3>1 DEF Recent
  <2>6. /\ IsFiniteSet(Recent(p)) /\ IsFiniteSet(fresh'[p])
        /\ Cardinality(Counts(p)) >= Cardinality(Recent(p)) + 1
    <3>1. Recent(p) \subseteq fresh[p]
      BY DEF Recent
    <3>2. CountIncident(e) /\ p \in Known /\ PlanOf[e] = p
      BY <2>1 DEF CountsFor
    <3> HIDE DEF Window
    <3> QED
      BY <2>4, <2>5, <3>1, <3>2, RecentGrows
  <2>7. Cardinality(Recent(p)) \in Nat /\ Cardinality(Counts(p)) \in Nat
    BY <2>6, FS_Subset, FS_CardinalityType
  <2> QED
    BY <2>2, <2>3, <2>4, <2>6, <2>7 DEF Collects
<1> QED
  BY <1>1, Inductive, CountInit, CountStep, PTL DEF Spec, StartsForAReason
=============================================================================
