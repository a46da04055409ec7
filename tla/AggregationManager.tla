-------------------------- MODULE AggregationManager --------------------------
(***************************************************************************)
(* The aggregation manager (aggregationManager.go): when more than a        *)
(* threshold of incidents of one plan arrive within a window, the messages *)
(* of the plan are only stored, under a batch id its recipients are told,  *)
(* until the aggregation window is over.                                   *)
(*                                                                         *)
(* Every operation takes the mutex and is one action.  They are called by  *)
(* the escalations that begin (countIncident), by the message queue        *)
(* manager for each message (checkAggregation), and by the manager's own   *)
(* loop (updateSettings, resetAggregation).                                *)
(*                                                                         *)
(* A time stamp is kept as the time that has passed since it was taken, in *)
(* units of which the loop takes at most MaxLag from one reset to the      *)
(* next; beyond MaxAge no comparison in the code tells two times apart.    *)
(* The code draws a new batch id when an escalation triggers aggregation,  *)
(* so that escalation names the batch.                                     *)
(***************************************************************************)
EXTENDS Naturals, FiniteSets

CONSTANTS Plans,
          Escalations,   \* the escalations that begin, in any order
          PlanOf,        \* the plan of each escalation
          Settings,      \* the settings Iris may have for a plan
          MaxLag,        \* bound: time from one resetAggregation to the next
          MaxAge,        \* bound: the age at which time stamps stop ageing
          None           \* no settings; the zero UUID

ASSUME EscalationsAssumption == PlanOf \in [Escalations -> Plans] /\ None \notin Escalations
ASSUME SettingsAssumption ==
  /\ Settings \subseteq [maxIncidentCount : Nat, collectionWindow : Nat,
                         aggregationWindow : Nat, resetWindow : Nat]
  /\ None \notin Settings
ASSUME TimeAssumption ==
  /\ MaxLag \in Nat \ {0}
  /\ MaxAge \in Nat
  /\ None \notin Nat
  /\ \A s \in Settings : /\ MaxAge > s.collectionWindow + MaxLag
                         /\ MaxAge > s.aggregationWindow

(* The struct of the same name; resetWindow is part of the settings.         *)
PlanAggregations ==
  [settings : Settings, aggregationStatus : BOOLEAN, incidentCount : Nat,
   collectionTime : 0 .. MaxAge, aggregationTime : 0 .. MaxAge,
   batchID : Escalations \union {None}]

ASSUME NoneAssumption == None \notin PlanAggregations

VARIABLES
  irisSettings,        \* plan |-> its settings in Iris, or None
  loop,                \* where Run stands
  resp,                \* the answer of GetPlanAggregationSettings
  planAggregationMap,  \* plan |-> its PlanAggregation, or None
  triggered,           \* batch ids that countIncident has returned with true
  stored,              \* batch ids under which messages have been stored
  sinceReset,          \* time since the last resetAggregation
  age,                 \* history: escalation |-> time since it was counted, or None
  fresh                \* history: plan |-> escalations counted since its record was
                       \* made or last stopped aggregating
managerVars == <<irisSettings, loop, resp>>
historyVars == <<age, fresh>>
vars == <<managerVars, planAggregationMap, triggered, stored, sinceReset, historyVars>>

PlanAggregation(s) ==
  [settings |-> s, aggregationStatus |-> FALSE, incidentCount |-> 0,
   collectionTime |-> 0, aggregationTime |-> MaxAge, batchID |-> None]

Init ==
  /\ irisSettings \in [Plans -> Settings \union {None}]
  /\ loop = "fetch"
  /\ resp = [p \in Plans |-> None]
  /\ planAggregationMap = [p \in Plans |-> None]
  /\ triggered = {}
  /\ stored = {}
  /\ sinceReset = 0
  /\ age = [e \in Escalations |-> None]
  /\ fresh = [p \in Plans |-> {}]

Known   == {p \in Plans : planAggregationMap[p] # None}
Agg(p)  == planAggregationMap[p]
Aggregated(p) == p \in Known /\ Agg(p).aggregationStatus

-----------------------------------------------------------------------------
(* An escalation begins: countIncident *)

(* mutant: one incident more than the threshold is let through *)
OverThresholdByOne(a) == a.incidentCount > 1 /\ a.incidentCount > a.settings.maxIncidentCount + 1

(* The first incident opens the collection window and never triggers.       *)
OverThreshold(a) == a.incidentCount > 1 /\ a.incidentCount > a.settings.maxIncidentCount

(* mutants: the batch id is only returned, not kept; or drawn once and for all *)
OldBatch(a, e)   == a.batchID
FirstBatch(a, e) == IF a.batchID = None THEN e ELSE a.batchID

NewBatch(a, e) == e

Counted(a, e) ==
  LET b == [a EXCEPT !.incidentCount = @ + 1]
  IN  IF b.aggregationStatus THEN b
      ELSE IF b.incidentCount = 1 THEN [b EXCEPT !.collectionTime = 0]
      ELSE IF OverThreshold(b)
           THEN [b EXCEPT !.aggregationStatus = TRUE, !.aggregationTime = 0,
                         !.batchID = NewBatch(b, e)]
           ELSE b

CountIncident(e) ==
  LET p == PlanOf[e]
  IN  /\ age[e] = None
      /\ age' = [age EXCEPT ![e] = 0]
      /\ IF p \in Known
         THEN /\ planAggregationMap' = [planAggregationMap EXCEPT ![p] = Counted(@, e)]
              /\ triggered' = IF planAggregationMap'[p].aggregationStatus /\ ~Agg(p).aggregationStatus
                              THEN triggered \union {e} ELSE triggered
              /\ fresh' = [fresh EXCEPT ![p] = @ \union {e}]
         ELSE UNCHANGED <<planAggregationMap, triggered, fresh>>
      /\ UNCHANGED <<managerVars, stored, sinceReset>>

(* RunOnce of the message queue manager routes a message of the plan: it is  *)
(* only stored, under the batch id, if the plan is aggregated.              *)
CheckAggregation(p) ==
  /\ Aggregated(p)
  /\ stored' = stored \union {Agg(p).batchID}
  /\ UNCHANGED <<managerVars, planAggregationMap, triggered, sinceReset, historyVars>>

-----------------------------------------------------------------------------
(* The manager's loop: Run *)

(* Iris answers with the settings it has now, or the call fails and the     *)
(* update is skipped.                                                       *)
GetPlanAggregationSettings ==
  /\ loop = "fetch"
  /\ \/ loop' = "update" /\ resp' = irisSettings
     \/ loop' = "reset" /\ UNCHANGED resp
  /\ UNCHANGED <<irisSettings, planAggregationMap, triggered, stored, sinceReset, historyVars>>

(* mutant: every fetch counts as a change *)
ChangedAlways(p) == TRUE

Changed(p) == p \notin Known \/ Agg(p).settings # resp[p]

(* mutant: plans that Iris no longer has are kept, without settings *)
NeverRemoved(p) == FALSE

Removed(p) == resp[p] = None

(* Only plans that are new or whose settings have changed start afresh;     *)
(* those Iris no longer has are dropped.                                    *)
UpdateSettings ==
  /\ loop = "update"
  /\ loop' = "reset"
  /\ planAggregationMap' = [p \in Plans |-> IF Removed(p) THEN None
                                            ELSE IF Changed(p) THEN PlanAggregation(resp[p])
                                            ELSE Agg(p)]
  /\ fresh' = [p \in Plans |-> IF Changed(p) THEN {} ELSE fresh[p]]
  /\ UNCHANGED <<irisSettings, resp, triggered, stored, sinceReset, age>>

(* mutant: a plan is aggregated as long as incidents come in *)
StopsWhenQuiet(p) ==
  /\ Aggregated(p) /\ Agg(p).aggregationTime > Agg(p).settings.aggregationWindow
  /\ Agg(p).incidentCount = 0

(* The aggregation window, or the collection window, is over.               *)
StopsAggregating(p) ==
  Aggregated(p) /\ Agg(p).aggregationTime > Agg(p).settings.aggregationWindow

StopsCollecting(p) ==
  /\ p \in Known /\ ~Aggregated(p)
  /\ Agg(p).incidentCount > 0
  /\ Agg(p).collectionTime > Agg(p).settings.collectionWindow

(* mutant: the count is kept *)
StoppedWithCount(a) == [a EXCEPT !.aggregationStatus = FALSE]

Stopped(a) == [a EXCEPT !.incidentCount = 0, !.aggregationStatus = FALSE]

(* The batch id is kept.                                                    *)
ResetAggregation ==
  /\ loop = "reset"
  /\ loop' = "fetch"
  /\ sinceReset' = 0
  /\ planAggregationMap' =
       [p \in Plans |-> IF StopsAggregating(p) \/ StopsCollecting(p)
                        THEN Stopped(Agg(p))
                        ELSE Agg(p)]
  /\ fresh' = [p \in Plans |-> IF StopsAggregating(p) THEN {} ELSE fresh[p]]
  /\ UNCHANGED <<irisSettings, resp, triggered, stored, age>>

-----------------------------------------------------------------------------
(* A user changes or removes the settings of a plan in Iris.                *)
ChangeSettings(p) ==
  /\ \E s \in (Settings \union {None}) \ {irisSettings[p]} :
       irisSettings' = [irisSettings EXCEPT ![p] = s]
  /\ UNCHANGED <<loop, resp, planAggregationMap, triggered, stored, sinceReset, historyVars>>

Older(t) == IF t = None THEN None ELSE IF t < MaxAge THEN t + 1 ELSE t

Tick ==
  /\ sinceReset < MaxLag
  /\ sinceReset' = sinceReset + 1
  /\ age' = [e \in Escalations |-> Older(age[e])]
  /\ planAggregationMap' =
       [p \in Plans |-> IF p \in Known
                        THEN [Agg(p) EXCEPT !.collectionTime = Older(@), !.aggregationTime = Older(@)]
                        ELSE None]
  /\ UNCHANGED <<managerVars, triggered, stored, fresh>>

Run == GetPlanAggregationSettings \/ UpdateSettings \/ ResetAggregation

Next ==
  \/ \E e \in Escalations : CountIncident(e)
  \/ \E p \in Plans : CheckAggregation(p) \/ ChangeSettings(p)
  \/ Run
  \/ Tick

Spec == Init /\ [][Next]_vars

(* The loop is driven by a ticker; time passes.                             *)
Fairness == WF_vars(Run) /\ WF_vars(Tick)

FairSpec == Spec /\ Fairness
-----------------------------------------------------------------------------
(* Properties *)

TypeOK ==
  /\ irisSettings \in [Plans -> Settings \union {None}]
  /\ resp \in [Plans -> Settings \union {None}]
  /\ loop \in {"fetch", "update", "reset"}
  /\ planAggregationMap \in [Plans -> PlanAggregations \union {None}]
  /\ triggered \subseteq Escalations
  /\ stored \subseteq Escalations \union {None}
  /\ sinceReset \in 0 .. MaxLag
  /\ age \in [Escalations -> (0 .. MaxAge) \union {None}]
  /\ fresh \in [Plans -> SUBSET Escalations]

Starts(p) == ~Aggregated(p) /\ Aggregated(p)'

(* countIncident never lets a plan go over its threshold without aggregating *)
(* it; a threshold of 0 acts as 1.                                          *)
NeverOverThreshold ==
  \A p \in Known :
    ~Aggregated(p) => Agg(p).incidentCount <= 1 \/ Agg(p).incidentCount <= Agg(p).settings.maxIncidentCount

(* A plan is aggregated only because more incidents than its threshold began *)
(* within its collection window, and the time the loop may be late.          *)
(* Incidents from before its last aggregation, or from before its settings  *)
(* changed, do not count again (countIncident, resetAggregation).           *)
StartsForAReason ==
  [][\A p \in Plans : Starts(p) =>
       LET s == Agg(p).settings
       IN  Cardinality({e \in fresh'[p] : age'[e] <= s.collectionWindow + MaxLag}) > s.maxIncidentCount
    ]_vars

(* It stays so until its aggregation window is over or its settings change,  *)
(* whatever calls fail and however often the settings are fetched again     *)
(* (updateSettings, resetAggregation).                                      *)
EndsForAReason ==
  [][\A p \in Plans : Aggregated(p) /\ ~Aggregated(p)' =>
       \/ Agg(p).aggregationTime > Agg(p).settings.aggregationWindow
       \/ resp[p] # Agg(p).settings
    ]_vars

(* The recipients of an aggregated plan are told the batch id under which    *)
(* its messages are stored (initEscalation, RunOnce of the message queue).  *)
BatchesAnnounced == stored \subseteq triggered

(* Each aggregation has a batch of its own: messages that were stored before *)
(* it began are not found under its id, though the old id is kept.          *)
FreshBatch == [][\A p \in Plans : Starts(p) => Agg(p)'.batchID \notin stored]_vars

(* aggregationManager.go:120: "we don't want to aggregate forever".         *)
AggregationEnds == \A p \in Plans : Aggregated(p) ~> ~Aggregated(p)
=============================================================================
