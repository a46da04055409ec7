------------------------ MODULE IncidentManagerProofs ------------------------
(***************************************************************************)
(* Proofs about IncidentManager, for every set of incidents, every plan,    *)
(* every number of repeats and parts, and every bound on the faults.        *)
(*                                                                          *)
(* NoStepSkipped says what Iris may show, and is not inductive: that a step *)
(* is over is decided by a goroutine that has visited its notifications one *)
(* by one, and reported by a call that may be lost.  StepInv and TurnInv are*)
(* what the escalation and the goroutine know in between; LoopInv says when *)
(* they may be at work, and LivesInv why there is always a life left.       *)
(*                                                                          *)
(* OnlyRepeatsLeftBehind rests on them: a step is only left when none of its*)
(* messages is in the tracker (StepClean), and deleteIncident reaches those *)
(* of the first round because all their ids are listed (FirstListed).       *)
(***************************************************************************)
EXTENDS IncidentManager, TLAPS

(* The notification is done with: it failed to build, or went out in all its rounds. *)
Closed(e, n) == e.messageMap[n] = "failed" \/ e.sentCount[n] > Repeat[n]

(* Iris and the goroutines only move while the loop is where it should be.  *)
LoopInv ==
  /\ loop # "escalate" => \A i \in Incidents : turn[i] = "off"
  /\ loop # "fetched" => \A i \in Incidents : fetched[i] = None
  /\ \A i \in Incidents : fetched[i] # None => fetched[i] = irisStep[i]

(* Every escalation after the first is the price of a fault.               *)
LivesInv ==
  \A i \in Incidents :
    /\ lives[i] <= faults + 1
    /\ i \in Known => Esc(i).life = lives[i]
    /\ i \notin Known /\ irisActive[i] => lives[i] <= faults
    /\ i \notin Known /\ fetched[i] # None => lives[i] <= faults
    /\ loop = "fetched" /\ i \in Stale => ~irisActive[i] \/ lives[i] <= faults

(* What an escalation has behind it: Iris is at most one ahead, the steps it*)
(* has left are handled, and so is every notification that is done with.    *)
Reached(i) ==
  /\ irisStep[i] <= Esc(i).step + 1
  /\ \A s \in 0 .. LastStep : s < Esc(i).step => StepOf(s) \subseteq handled[i]
  /\ \A n \in Notifs : Closed(Esc(i), n) => n \in handled[i]

StepInv == \A i \in Known : Reached(i)

(* A goroutine that has visited part of the step, and still means to leave  *)
(* it, has found every notification of that part done with.                 *)
TurnInv ==
  \A i \in Incidents : turn[i] = "notify" =>
    /\ todo[i] \subseteq StepOf(Esc(i).step)
    /\ doneWithStep[i] => \A n \in StepOf(Esc(i).step) \ todo[i] : Closed(Esc(i), n)

(* The ids of the first round are listed; only built notifications count.   *)
FirstListed(i) ==
  \A n \in Notifs :
    IF Esc(i).messageMap[n] = "built"
    THEN MessagesOf(i, Esc(i).life, n, 0) \subseteq Esc(i).messageIDList
    ELSE Esc(i).sentCount[n] = 0

(* Where a message of an incident can be that the tracker holds.            *)
Placed(m) ==
  /\ m[2] <= lives[m[1]]
  /\ IF m[1] \in Known /\ Esc(m[1]).life = m[2]
     THEN /\ m[3] \in StepOf(Esc(m[1]).step)
          /\ m[4] = Esc(m[1]).sentCount[m[3]]
          /\ Esc(m[1]).messageMap[m[3]] = "built"
     ELSE m[4] > 0

(* The messages of incidents that are in the tracker.                       *)
OurTracked == Tracker!Tracked \intersect IncidentMsgs

(* The inductive invariant; LeftInv is inductive on top of it.              *)
IInv == TypeOK /\ LoopInv /\ LivesInv /\ NoStepSkipped /\ StepInv /\ TurnInv

LeftInv == /\ \A i \in Known : FirstListed(i)
           /\ \A m \in OurTracked : Placed(m)

(* The steps of the plan are sets of its notifications, and all of them.    *)
LEMMA PlanFacts ==
  /\ LastStep \in Nat
  /\ \A s \in 0 .. LastStep : StepOf(s) \subseteq Notifs
  /\ \A n \in Notifs : \E s \in 0 .. LastStep : n \in StepOf(s)
<1>1. Plan \in Seq(SUBSET Notifs) /\ Len(Plan) > 0
  BY PlanAssumption DEF PlanAssumption
<1>2. Len(Plan) \in Nat /\ DOMAIN Plan = 1 .. Len(Plan)
  BY <1>1
<1>3. LastStep \in Nat
  BY <1>1, <1>2 DEF LastStep
<1>4. ASSUME NEW s \in 0 .. LastStep
      PROVE  StepOf(s) \subseteq Notifs
  <2>1. s + 1 \in DOMAIN Plan
    BY <1>1, <1>2 DEF LastStep
  <2> QED
    BY <2>1 DEF StepOf, Notifs
<1>5. ASSUME NEW n \in Notifs
      PROVE  \E s \in 0 .. LastStep : n \in StepOf(s)
  <2>1. PICK t \in DOMAIN Plan : n \in Plan[t]
    BY DEF Notifs
  <2>2. t - 1 \in 0 .. LastStep /\ (t - 1) + 1 = t
    BY <1>2 DEF LastStep
  <2> QED
    BY <2>1, <2>2 DEF StepOf
<1> QED
  BY <1>3, <1>4, <1>5

(* None is neither a step nor an escalation.                                *)
LEMMA Nothing ==
  /\ None \notin Nat
  /\ None \notin Escalations
BY NoneAssumption DEF NoneAssumption

LEMMA Bounds == MaxFaults \in Nat /\ MaxQueueLength \in Nat /\ Lives = 1 .. MaxFaults + 1
BY BoundsAssumption DEF BoundsAssumption, Lives

(* The fields of an escalation, and what each update makes of them.         *)
LEMMA EscFields ==
  ASSUME NEW e \in Escalations
  PROVE  /\ e.life \in Lives
         /\ e.step \in 0 .. LastStep
         /\ e.started \in BOOLEAN
         /\ e.sentCount \in [Notifs -> Nat]
         /\ e.waited \subseteq Notifs
         /\ e.messageMap \in [Notifs -> {"none", "built", "failed"}]
         /\ e.messageIDList \subseteq IncidentMsgs
BY DEF Escalations

LEMMA StartedIs ==
  ASSUME NEW e \in Escalations
  PROVE  /\ [e EXCEPT !.started = TRUE] \in Escalations
         /\ [e EXCEPT !.started = TRUE].life = e.life
         /\ [e EXCEPT !.started = TRUE].step = e.step
         /\ [e EXCEPT !.started = TRUE].sentCount = e.sentCount
         /\ [e EXCEPT !.started = TRUE].waited = e.waited
         /\ [e EXCEPT !.started = TRUE].messageMap = e.messageMap
         /\ [e EXCEPT !.started = TRUE].messageIDList = e.messageIDList
BY DEF Escalations

LEMMA WaitedIs ==
  ASSUME NEW e \in Escalations, NEW W \in SUBSET Notifs
  PROVE  /\ [e EXCEPT !.waited = W] \in Escalations
         /\ [e EXCEPT !.waited = W].life = e.life
         /\ [e EXCEPT !.waited = W].step = e.step
         /\ [e EXCEPT !.waited = W].sentCount = e.sentCount
         /\ [e EXCEPT !.waited = W].messageMap = e.messageMap
         /\ [e EXCEPT !.waited = W].messageIDList = e.messageIDList
BY DEF Escalations

(* NextStep                                                                 *)
Advanced(e) == [e EXCEPT !.step = @ + 1, !.started = FALSE]

LEMMA AdvancedIs ==
  ASSUME NEW e \in Escalations, e.step < LastStep
  PROVE  /\ Advanced(e) \in Escalations
         /\ Advanced(e).life = e.life
         /\ Advanced(e).step = e.step + 1
         /\ Advanced(e).sentCount = e.sentCount
         /\ Advanced(e).messageMap = e.messageMap
         /\ Advanced(e).messageIDList = e.messageIDList
<1> DEFINE d == [e EXCEPT !.step = @ + 1]
<1>1. e.step + 1 \in 0 .. LastStep
  BY PlanFacts DEF Escalations
<1>2. /\ d \in Escalations
      /\ d.step = e.step + 1
      /\ d.life = e.life
      /\ d.sentCount = e.sentCount
      /\ d.messageMap = e.messageMap
      /\ d.messageIDList = e.messageIDList
  BY <1>1 DEF Escalations
<1>3. Advanced(e) = [d EXCEPT !.started = FALSE]
  BY DEF Advanced
<1> HIDE DEF d
<1>4. /\ Advanced(e) \in Escalations
      /\ Advanced(e).life = d.life
      /\ Advanced(e).step = d.step
      /\ Advanced(e).sentCount = d.sentCount
      /\ Advanced(e).messageMap = d.messageMap
      /\ Advanced(e).messageIDList = d.messageIDList
  BY <1>2, <1>3 DEF Escalations
<1> QED
  BY <1>2, <1>4

(* FailToBuild                                                              *)
NotBuilt(e, n) == [e EXCEPT !.messageMap[n] = "failed"]

LEMMA NotBuiltIs ==
  ASSUME NEW e \in Escalations, NEW n \in Notifs
  PROVE  /\ NotBuilt(e, n) \in Escalations
         /\ NotBuilt(e, n).life = e.life
         /\ NotBuilt(e, n).step = e.step
         /\ NotBuilt(e, n).sentCount = e.sentCount
         /\ NotBuilt(e, n).messageMap = [e.messageMap EXCEPT ![n] = "failed"]
         /\ NotBuilt(e, n).messageIDList = e.messageIDList
BY DEF Escalations, NotBuilt

(* AddNewIncidents: a new escalation has a life and a step of the plan.     *)
LEMMA NewIs ==
  ASSUME NEW i \in Incidents, TypeOK, fetched[i] # None, lives[i] <= MaxFaults
  PROVE  /\ NewEscalation(i) \in Escalations
         /\ NewEscalation(i).life = lives[i] + 1
         /\ NewEscalation(i).step = FirstStep(i)
         /\ \A n \in Notifs : /\ NewEscalation(i).sentCount[n] = 0
                              /\ NewEscalation(i).messageMap[n] = "none"
<1>1. FirstStep(i) \in 0 .. LastStep
  BY PlanFacts, Nothing DEF TypeOK, FirstStep
<1>2. lives[i] + 1 \in Lives
  BY Bounds DEF TypeOK
<1>3. NewEscalation(i) \in Escalations
  BY <1>1, <1>2 DEF NewEscalation, Escalations
<1> QED
  BY <1>3 DEF NewEscalation

(* SendMessages, after the notification has been built ...                  *)
Current(i, n) == MessagesOf(i, Esc(i).life, n, Esc(i).sentCount[n])

Listed(i, n) == IF Esc(i).messageMap[n] = "none" THEN Esc(i).messageIDList \union Current(i, n)
                ELSE Esc(i).messageIDList

Built(i, n) == [Esc(i) EXCEPT !.messageMap[n] = "built", !.messageIDList = Listed(i, n)]

(* ... and when all the messages of the round have been sent.               *)
Counted(i, n) == [Built(i, n) EXCEPT !.sentCount[n] = @ + 1,
                                     !.waited = IF n \in Waiting THEN @ \ {n} ELSE @]

LEMMA BuiltIs ==
  ASSUME NEW i \in Known, NEW n \in Notifs, Esc(i) \in Escalations, Current(i, n) \subseteq IncidentMsgs
  PROVE  /\ Built(i, n) \in Escalations
         /\ Built(i, n).life = Esc(i).life
         /\ Built(i, n).step = Esc(i).step
         /\ Built(i, n).sentCount = Esc(i).sentCount
         /\ Built(i, n).messageMap = [Esc(i).messageMap EXCEPT ![n] = "built"]
         /\ Built(i, n).messageIDList = Listed(i, n)
<1>1. Listed(i, n) \subseteq IncidentMsgs
  BY EscFields DEF Listed
<1> QED
  BY <1>1 DEF Escalations, Built

LEMMA CountedIs ==
  ASSUME NEW i \in Known, NEW n \in Notifs, Built(i, n) \in Escalations
  PROVE  /\ Counted(i, n) \in Escalations
         /\ Counted(i, n).life = Built(i, n).life
         /\ Counted(i, n).step = Built(i, n).step
         /\ Counted(i, n).sentCount = [Built(i, n).sentCount EXCEPT ![n] = @ + 1]
         /\ Counted(i, n).messageMap = Built(i, n).messageMap
         /\ Counted(i, n).messageIDList = Built(i, n).messageIDList
<1> DEFINE b == Built(i, n)
           d == [b EXCEPT !.sentCount[n] = @ + 1]
           W == IF n \in Waiting THEN b.waited \ {n} ELSE b.waited
<1>1. /\ d \in Escalations
      /\ d.sentCount = [b.sentCount EXCEPT ![n] = @ + 1]
      /\ d.waited = b.waited
      /\ d.life = b.life
      /\ d.step = b.step
      /\ d.messageMap = b.messageMap
      /\ d.messageIDList = b.messageIDList
  BY DEF Escalations
<1>2. Counted(i, n) = [d EXCEPT !.waited = W]
  BY DEF Counted
<1>3. W \in SUBSET Notifs
  BY EscFields
<1> HIDE DEF d, W
<1> QED
  BY <1>1, <1>2, <1>3, WaitedIs

(* Changing the record of one escalation, or forgetting it, leaves the others alone. *)
LEMMA EscUpdate ==
  ASSUME TypeOK, NEW i \in Known, NEW e \in Escalations, escalationMap' = [escalationMap EXCEPT ![i] = e]
  PROVE  /\ escalationMap' \in [Incidents -> Escalations \union {None}]
         /\ Known' = Known
         /\ Esc(i)' = e
         /\ \A j \in Incidents \ {i} : Esc(j)' = Esc(j)
BY Nothing DEF TypeOK, Known, Esc

LEMMA EscForget ==
  ASSUME TypeOK, NEW i \in Known, escalationMap' = [escalationMap EXCEPT ![i] = None]
  PROVE  /\ escalationMap' \in [Incidents -> Escalations \union {None}]
         /\ Known' = Known \ {i}
         /\ \A j \in Incidents \ {i} : Esc(j)' = Esc(j)
BY DEF TypeOK, Known, Esc

(* An escalation in memory is an escalation.                                *)
LEMMA KnownEsc ==
  ASSUME TypeOK
  PROVE  Known \subseteq Incidents /\ \A i \in Known : Esc(i) \in Escalations
BY DEF TypeOK, Known, Esc

(* The tracker keeps its type.                                             *)
LEMMA StatusType ==
  ASSUME TypeOK, NEW S
  PROVE  /\ Added(S) \in [Msgs -> {"none", "active", "inactive", "gone"}]
         /\ Deleted(S) \in [Msgs -> {"none", "active", "inactive", "gone"}]
<1>1. \A m \in Msgs : status[m] \in {"none", "active", "inactive", "gone"}
  BY DEF TypeOK
<1> QED
  BY <1>1 DEF Added, Deleted

(* A call to Iris takes effect or does not; one that succeeds does, if Iris *)
(* has the incident as active; one that fails is a fault.                   *)
LEMMA PostIs ==
  ASSUME TypeOK, NEW i \in Incidents, NEW step \in 0 .. LastStep + 1, NEW active \in BOOLEAN,
         NEW ok \in BOOLEAN, PostEscalateIncident(i, step, active, ok)
  PROVE  /\ irisStep' \in [Incidents -> 0 .. LastStep + 1]
         /\ irisActive' \in [Incidents -> BOOLEAN]
         /\ \A j \in Incidents \ {i} : irisStep'[j] = irisStep[j] /\ irisActive'[j] = irisActive[j]
         /\ \/ irisStep'[i] = step /\ irisActive'[i] = active
            \/ irisStep'[i] = irisStep[i] /\ irisActive'[i] = irisActive[i] /\ (ok => ~irisActive[i])
         /\ IF ok THEN faults' = faults ELSE faults < MaxFaults /\ faults' = faults + 1
<1>1. PICK applied \in BOOLEAN :
        /\ ok /\ irisActive[i] => applied
        /\ IF applied
           THEN /\ irisStep' = [irisStep EXCEPT ![i] = step]
                /\ irisActive' = [irisActive EXCEPT ![i] = active]
           ELSE UNCHANGED irisVars
        /\ IF ok THEN UNCHANGED faults ELSE Fault
  BY DEF PostEscalateIncident
<1>2. CASE applied
  BY <1>1, <1>2 DEF TypeOK, Fault
<1>3. CASE ~applied
  BY <1>1, <1>3 DEF TypeOK, Fault, irisVars
<1> QED
  BY <1>2, <1>3

(* A fault is counted.                                                      *)
LEMMA FaultIs ==
  ASSUME TypeOK, Fault
  PROVE  faults' = faults + 1 /\ faults' \in 0 .. MaxFaults
BY Bounds DEF TypeOK, Fault

(* What an escalation has reached, it keeps while nothing of it changes.    *)
LEMMA ReachedStays ==
  ASSUME NEW i \in Known, Reached(i), irisStep'[i] = irisStep[i], handled[i] \subseteq handled'[i],
         Esc(i)'.step = Esc(i).step, Esc(i)'.sentCount = Esc(i).sentCount,
         Esc(i)'.messageMap = Esc(i).messageMap
  PROVE  Reached(i)'
BY DEF Reached, Closed

(* A step that touches one escalation leaves what the others have reached.  *)
LEMMA OthersStay ==
  ASSUME IInv, NEW i \in Incidents,
         \A j \in Known' \ {i} : /\ j \in Known
                                 /\ Esc(j)' = Esc(j)
                                 /\ irisStep'[j] = irisStep[j]
                                 /\ handled[j] \subseteq handled'[j],
         i \in Known' => Reached(i)'
  PROVE  StepInv'
<1>1. ASSUME NEW j \in Known', j # i
      PROVE  Reached(j)'
  <2>1. j \in Known /\ Reached(j)
    BY <1>1 DEF IInv, StepInv
  <2> QED
    BY <1>1, <2>1, ReachedStays
<1> QED
  BY <1>1 DEF StepInv

(* The initial states satisfy the invariant, and each action keeps it: one  *)
(* lemma per action, after one that says what it does to the escalation.    *)
LEMMA InitInv == Init => IInv
<1> SUFFICES ASSUME Init PROVE IInv
  OBVIOUS
<1>1. Known = {}
  BY DEF Init, Known
<1>2. /\ \A i \in Incidents : /\ irisStep[i] = 0 /\ irisActive[i] /\ fetched[i] = None
                              /\ lives[i] = 0 /\ turn[i] = "off"
      /\ faults = 0
  BY DEF Init
<1>3. TypeOK
  <2>1. irisStep \in [Incidents -> 0 .. LastStep + 1] /\ irisActive \in [Incidents -> BOOLEAN]
    BY PlanFacts DEF Init
  <2>2. status \in [Msgs -> {"none", "active", "inactive", "gone"}] /\ queueFull \in BOOLEAN
    BY DEF Init, Tracker!Init
  <2>3. /\ fetched \in [Incidents -> (0 .. LastStep + 1) \union {None}]
        /\ escalationMap \in [Incidents -> Escalations \union {None}]
    BY DEF Init
  <2>4. /\ turn \in [Incidents -> {"off", "begin", "notify"}]
        /\ todo \in [Incidents -> SUBSET Notifs]
        /\ doneWithStep \in [Incidents -> BOOLEAN]
        /\ handled \in [Incidents -> SUBSET Notifs]
    BY DEF Init
  <2>5. lives \in [Incidents -> 0 .. MaxFaults + 1] /\ faults \in 0 .. MaxFaults
    BY Bounds DEF Init
  <2>6. claimed \subseteq Incidents /\ loop \in {"idle", "fetched", "escalate"}
    BY DEF Init
  <2> QED
    BY <1>2, <2>1, <2>2, <2>3, <2>4, <2>5, <2>6 DEF TypeOK
<1>4. LoopInv /\ LivesInv /\ TurnInv
  BY <1>1, <1>2 DEF Init, LoopInv, LivesInv, TurnInv, Stale
<1>5. StepInv
  BY <1>1 DEF StepInv
<1>6. NoStepSkipped
  BY <1>2, PlanFacts DEF NoStepSkipped
<1> QED
  BY <1>3, <1>4, <1>5, <1>6 DEF IInv

LEMMA VendorSettlesStep ==
  ASSUME IInv, NEW m \in Msgs, VendorSettles(m)
  PROVE  IInv'
<1>1. TypeOK'
  BY DEF IInv, TypeOK, Known, Esc, VendorSettles, Tracker!Settle, irisVars, escalateVars
<1>2. LoopInv'
  BY DEF IInv, TypeOK, LoopInv, Known, Esc, VendorSettles, Tracker!Settle, irisVars, escalateVars
<1>3. LivesInv'
  BY
     DEF IInv, TypeOK, LoopInv, LivesInv, Stale, Known, Esc, VendorSettles, Tracker!Settle,
         irisVars, escalateVars
<1>4. NoStepSkipped'
  BY
     DEF IInv, TypeOK, NoStepSkipped, Known, Esc, VendorSettles, Tracker!Settle, irisVars,
         escalateVars
<1>5. StepInv'
  BY ReachedStays
     DEF IInv, TypeOK, StepInv, Known, Esc, VendorSettles, Tracker!Settle, irisVars, escalateVars
<1>6. TurnInv'
  BY
     DEF IInv, TypeOK, LoopInv, TurnInv, Closed, Known, Esc, VendorSettles, Tracker!Settle,
         irisVars, escalateVars
<1> QED
  BY <1>1, <1>2, <1>3, <1>4, <1>5, <1>6 DEF IInv

LEMMA VendorDeletesStep ==
  ASSUME IInv, NEW m \in Msgs, VendorDeletes(m)
  PROVE  IInv'
<1>1. TypeOK'
  BY DEF IInv, TypeOK, Known, Esc, VendorDeletes, Tracker!Delete, irisVars, escalateVars
<1>2. LoopInv'
  BY DEF IInv, TypeOK, LoopInv, Known, Esc, VendorDeletes, Tracker!Delete, irisVars, escalateVars
<1>3. LivesInv'
  BY
     DEF IInv, TypeOK, LoopInv, LivesInv, Stale, Known, Esc, VendorDeletes, Tracker!Delete,
         irisVars, escalateVars
<1>4. NoStepSkipped'
  BY
     DEF IInv, TypeOK, NoStepSkipped, Known, Esc, VendorDeletes, Tracker!Delete, irisVars,
         escalateVars
<1>5. StepInv'
  BY ReachedStays
     DEF IInv, TypeOK, StepInv, Known, Esc, VendorDeletes, Tracker!Delete, irisVars, escalateVars
<1>6. TurnInv'
  BY
     DEF IInv, TypeOK, LoopInv, TurnInv, Closed, Known, Esc, VendorDeletes, Tracker!Delete,
         irisVars, escalateVars
<1> QED
  BY <1>1, <1>2, <1>3, <1>4, <1>5, <1>6 DEF IInv

LEMMA RefreshQueueFullStep ==
  ASSUME IInv, RefreshQueueFull
  PROVE  IInv'
<1>1. TypeOK'
  BY DEF IInv, TypeOK, Known, Esc, RefreshQueueFull, Tracker!Refresh, irisVars, escalateVars
<1>2. LoopInv'
  BY
     DEF IInv, TypeOK, LoopInv, Known, Esc, RefreshQueueFull, Tracker!Refresh, irisVars,
         escalateVars
<1>3. LivesInv'
  BY
     DEF IInv, TypeOK, LoopInv, LivesInv, Stale, Known, Esc, RefreshQueueFull, Tracker!Refresh,
         irisVars, escalateVars
<1>4. NoStepSkipped'
  BY
     DEF IInv, TypeOK, NoStepSkipped, Known, Esc, RefreshQueueFull, Tracker!Refresh, irisVars,
         escalateVars
<1>5. StepInv'
  BY ReachedStays
     DEF IInv, TypeOK, StepInv, Known, Esc, RefreshQueueFull, Tracker!Refresh, irisVars,
         escalateVars
<1>6. TurnInv'
  BY
     DEF IInv, TypeOK, LoopInv, TurnInv, Closed, Known, Esc, RefreshQueueFull, Tracker!Refresh,
         irisVars, escalateVars
<1> QED
  BY <1>1, <1>2, <1>3, <1>4, <1>5, <1>6 DEF IInv

LEMMA ClaimStep ==
  ASSUME IInv, NEW i \in Incidents, Claim(i)
  PROVE  IInv'
<1>1. TypeOK'
  BY DEF IInv, TypeOK, Known, Esc, Claim, escalateVars
<1>2. LoopInv'
  BY DEF IInv, TypeOK, LoopInv, Known, Esc, Claim, escalateVars
<1>3. LivesInv'
  BY DEF IInv, TypeOK, LoopInv, LivesInv, Stale, Known, Esc, Claim, escalateVars
<1>4. NoStepSkipped'
  BY DEF IInv, TypeOK, NoStepSkipped, Known, Esc, Claim, escalateVars
<1>5. StepInv'
  BY ReachedStays DEF IInv, TypeOK, StepInv, Known, Esc, Claim, escalateVars
<1>6. TurnInv'
  BY DEF IInv, TypeOK, LoopInv, TurnInv, Closed, Known, Esc, Claim, escalateVars
<1> QED
  BY <1>1, <1>2, <1>3, <1>4, <1>5, <1>6 DEF IInv

LEMMA FetchIncidentsStep ==
  ASSUME IInv, FetchIncidents
  PROVE  IInv'
<1>1. TypeOK'
  <2>1. PICK lost \in SUBSET {i \in Incidents : irisActive[i]} :
          /\ fetched' = [i \in Incidents |->
                           IF irisActive[i] /\ i \notin lost THEN irisStep[i] ELSE None]
          /\ IF lost = {} THEN UNCHANGED faults ELSE Fault
    BY DEF FetchIncidents
  <2>2. fetched' \in [Incidents -> (0 .. LastStep + 1) \union {None}] /\ faults' \in 0 .. MaxFaults
    BY <2>1, FaultIs DEF IInv, TypeOK
  <2> QED
    BY <2>2 DEF IInv, TypeOK, Known, FetchIncidents, irisVars, escalateVars
<1>2. LoopInv'
  <2>1. \A i \in Incidents : fetched'[i] # None => fetched'[i] = irisStep[i]
    BY DEF FetchIncidents
  <2> QED
    BY <2>1 DEF IInv, LoopInv, FetchIncidents, irisVars, escalateVars
<1>3. LivesInv'
  <2>1. PICK lost \in SUBSET {i \in Incidents : irisActive[i]} :
          /\ fetched' = [i \in Incidents |->
                           IF irisActive[i] /\ i \notin lost THEN irisStep[i] ELSE None]
          /\ IF lost = {} THEN UNCHANGED faults ELSE Fault
    BY DEF FetchIncidents
  <2>2. /\ faults \in Nat /\ faults' \in Nat /\ faults <= faults'
        /\ lost # {} => faults' = faults + 1
        /\ \A i \in Incidents : lives[i] \in Nat
    BY <2>1, FaultIs, Bounds DEF IInv, TypeOK
  <2>3. ASSUME NEW i \in Incidents
        PROVE  /\ fetched'[i] # None => irisActive[i]
               /\ fetched'[i] = None => ~irisActive[i] \/ lost # {}
    <3>1. irisStep[i] # None
      BY PlanFacts, Nothing DEF IInv, TypeOK
    <3> QED
      BY <2>1, <3>1
  <2>4. /\ Known' = Known /\ \A i \in Incidents : Esc(i)' = Esc(i)
        /\ irisActive' = irisActive /\ lives' = lives
    BY DEF FetchIncidents, Known, Esc, irisVars
  <2> QED
    BY <2>2, <2>3, <2>4 DEF IInv, LivesInv, Stale
<1>4. NoStepSkipped'
  BY FaultIs DEF IInv, TypeOK, NoStepSkipped, Known, Esc, FetchIncidents, irisVars, escalateVars
<1>5. StepInv'
  BY FaultIs, ReachedStays
     DEF IInv, TypeOK, StepInv, Known, Esc, FetchIncidents, irisVars, escalateVars
<1>6. TurnInv'
  BY FaultIs
     DEF IInv, TypeOK, LoopInv, TurnInv, Closed, Known, Esc, FetchIncidents, irisVars,
         escalateVars
<1> QED
  BY <1>1, <1>2, <1>3, <1>4, <1>5, <1>6 DEF IInv

LEMMA DeactivateStep ==
  ASSUME IInv, NEW i \in Incidents, Deactivate(i)
  PROVE  IInv'
<1>1. i \in Known /\ escalationMap' = [escalationMap EXCEPT ![i] = None]
  BY DEF Deactivate, DeleteIncident, Stale
<1>2. /\ escalationMap' \in [Incidents -> Escalations \union {None}]
      /\ Known' = Known \ {i}
      /\ \A j \in Incidents \ {i} : Esc(j)' = Esc(j)
  BY <1>1, EscForget DEF IInv
<1>3. status' \in [Msgs -> {"none", "active", "inactive", "gone"}]
  BY StatusType DEF Deactivate, DeleteIncident, IInv
<1>4. TypeOK'
  BY <1>1, <1>2, <1>3 DEF IInv, TypeOK, LoopInv, Deactivate, irisVars, escalateVars
<1>5. LoopInv'
  BY <1>1, <1>2, <1>3 DEF IInv, TypeOK, LoopInv, Deactivate, irisVars, escalateVars
<1>6. LivesInv'
  BY <1>1, <1>2, <1>3 DEF IInv, TypeOK, LoopInv, LivesInv, Stale, Deactivate, irisVars, escalateVars
<1>7. NoStepSkipped'
  BY <1>1, <1>2, <1>3 DEF IInv, TypeOK, NoStepSkipped, Deactivate, irisVars, escalateVars
<1>8. StepInv'
  <2>1. \A j \in Known' \ {i} : /\ j \in Known
                                  /\ Esc(j)' = Esc(j)
                                  /\ irisStep'[j] = irisStep[j]
                                  /\ handled[j] \subseteq handled'[j]
    BY <1>2, KnownEsc DEF IInv, TypeOK, Deactivate, irisVars
  <2>2. i \in Known' => Reached(i)'
    BY <1>2 DEF IInv
  <2> QED
    BY <2>1, <2>2, OthersStay
<1>9. TurnInv'
  BY <1>1, <1>2, <1>3 DEF IInv, TypeOK, LoopInv, TurnInv, Closed, Deactivate, irisVars, escalateVars
<1> QED
  BY <1>4, <1>5, <1>6, <1>7, <1>8, <1>9 DEF IInv

LEMMA EndLoopStep ==
  ASSUME IInv, EndLoop
  PROVE  IInv'
<1>1. TypeOK'
  BY DEF IInv, TypeOK, Known, Esc, EndLoop, irisVars, escalateVars
<1>2. LoopInv'
  BY DEF IInv, TypeOK, LoopInv, Known, Esc, EndLoop, irisVars, escalateVars
<1>3. LivesInv'
  BY DEF IInv, TypeOK, LoopInv, LivesInv, Stale, Known, Esc, EndLoop, irisVars, escalateVars
<1>4. NoStepSkipped'
  BY DEF IInv, TypeOK, NoStepSkipped, Known, Esc, EndLoop, irisVars, escalateVars
<1>5. StepInv'
  BY ReachedStays DEF IInv, TypeOK, StepInv, Known, Esc, EndLoop, irisVars, escalateVars
<1>6. TurnInv'
  BY DEF IInv, TypeOK, LoopInv, TurnInv, Closed, Known, Esc, EndLoop, irisVars, escalateVars
<1> QED
  BY <1>1, <1>2, <1>3, <1>4, <1>5, <1>6 DEF IInv

LEMMA WaitOverIs ==
  ASSUME IInv, NEW i \in Incidents, NEW n \in Notifs, WaitOver(i, n)
  PROVE  /\ i \in Known
         /\ escalationMap' \in [Incidents -> Escalations \union {None}]
         /\ Known' = Known
         /\ Esc(i)'.life = Esc(i).life
         /\ Esc(i)'.step = Esc(i).step
         /\ Esc(i)'.sentCount = Esc(i).sentCount
         /\ Esc(i)'.messageMap = Esc(i).messageMap
         /\ Esc(i)'.messageIDList = Esc(i).messageIDList
         /\ \A j \in Incidents \ {i} : Esc(j)' = Esc(j)
<1> DEFINE e == [Esc(i) EXCEPT !.waited = Esc(i).waited \union {n}]
<1>1. i \in Known /\ escalationMap' = [escalationMap EXCEPT ![i] = e]
  BY DEF WaitOver, Esc
<1>2. Esc(i) \in Escalations /\ Esc(i).waited \union {n} \in SUBSET Notifs
  BY <1>1, KnownEsc, EscFields DEF IInv
<1>3. /\ e \in Escalations
      /\ e.life = Esc(i).life
      /\ e.step = Esc(i).step
      /\ e.sentCount = Esc(i).sentCount
      /\ e.messageMap = Esc(i).messageMap
      /\ e.messageIDList = Esc(i).messageIDList
  BY <1>2, WaitedIs
<1> HIDE DEF e
<1>4. /\ escalationMap' \in [Incidents -> Escalations \union {None}]
      /\ Known' = Known
      /\ Esc(i)' = e
      /\ \A j \in Incidents \ {i} : Esc(j)' = Esc(j)
  BY <1>1, <1>3, EscUpdate DEF IInv
<1> QED
  BY <1>1, <1>3, <1>4

LEMMA WaitOverStep ==
  ASSUME IInv, NEW i \in Incidents, NEW n \in Notifs, WaitOver(i, n)
  PROVE  IInv'
<1>1. /\ i \in Known
      /\ escalationMap' \in [Incidents -> Escalations \union {None}]
      /\ Known' = Known
      /\ Esc(i)'.life = Esc(i).life
      /\ Esc(i)'.step = Esc(i).step
      /\ Esc(i)'.sentCount = Esc(i).sentCount
      /\ Esc(i)'.messageMap = Esc(i).messageMap
      /\ \A j \in Incidents \ {i} : Esc(j)' = Esc(j)
  BY WaitOverIs
<1>2. TypeOK'
  BY <1>1 DEF IInv, TypeOK, WaitOver, irisVars, escalateVars
<1>3. LoopInv'
  BY <1>1 DEF IInv, TypeOK, LoopInv, WaitOver, irisVars, escalateVars
<1>4. LivesInv'
  BY <1>1 DEF IInv, TypeOK, LoopInv, LivesInv, Stale, WaitOver, irisVars, escalateVars
<1>5. NoStepSkipped'
  BY <1>1 DEF IInv, TypeOK, NoStepSkipped, WaitOver, irisVars, escalateVars
<1>6. StepInv'
  <2>1. \A j \in Known' \ {i} : /\ j \in Known
                                  /\ Esc(j)' = Esc(j)
                                  /\ irisStep'[j] = irisStep[j]
                                  /\ handled[j] \subseteq handled'[j]
    BY <1>1, KnownEsc DEF IInv, TypeOK, WaitOver, irisVars
  <2>2. i \in Known' => Reached(i)'
    BY <1>1 DEF IInv, StepInv, Reached, Closed, WaitOver, irisVars
  <2> QED
    BY <2>1, <2>2, OthersStay
<1>7. TurnInv'
  BY <1>1 DEF IInv, TypeOK, LoopInv, TurnInv, Closed, WaitOver, irisVars, escalateVars
<1> QED
  BY <1>2, <1>3, <1>4, <1>5, <1>6, <1>7 DEF IInv

LEMMA CrashStep ==
  ASSUME IInv, Crash
  PROVE  IInv'
<1>1. Known' = {}
  BY DEF Crash, Known
<1>2. TypeOK'
  BY <1>1, FaultIs, StatusType DEF IInv, TypeOK, Crash, irisVars
<1>3. LoopInv'
  BY <1>1, FaultIs, StatusType DEF IInv, TypeOK, LoopInv, Crash, irisVars
<1>4. LivesInv'
  BY <1>1, FaultIs, StatusType DEF IInv, TypeOK, LoopInv, LivesInv, Stale, Crash, irisVars
<1>5. NoStepSkipped'
  BY <1>1, FaultIs, StatusType DEF IInv, TypeOK, NoStepSkipped, Crash, irisVars
<1>6. StepInv'
  BY <1>1, FaultIs, StatusType DEF IInv, TypeOK, StepInv, Closed, Crash, irisVars
<1>7. TurnInv'
  BY <1>1, FaultIs, StatusType DEF IInv, TypeOK, LoopInv, TurnInv, Closed, Crash, irisVars
<1> QED
  BY <1>2, <1>3, <1>4, <1>5, <1>6, <1>7 DEF IInv

(* A goroutine that is not off works for an escalation in memory.           *)
LEMMA Running ==
  ASSUME IInv, NEW i \in Incidents, turn[i] # "off"
  PROVE  i \in Known /\ Esc(i) \in Escalations /\ loop = "escalate"
BY KnownEsc DEF IInv, TypeOK, LoopInv

(* What StartStep leaves of the escalation.                                 *)
LEMMA StartStepIs ==
  ASSUME IInv, NEW i \in Incidents, turn[i] = "begin", StartStep(i)
  PROVE  /\ escalationMap' \in [Incidents -> Escalations \union {None}]
         /\ Known' = Known
         /\ Esc(i)'.life = Esc(i).life
         /\ Esc(i)'.step = Esc(i).step
         /\ Esc(i)'.sentCount = Esc(i).sentCount
         /\ Esc(i)'.messageMap = Esc(i).messageMap
         /\ Esc(i)'.messageIDList = Esc(i).messageIDList
         /\ \A j \in Incidents \ {i} : Esc(j)' = Esc(j)
         /\ turn' = [turn EXCEPT ![i] = "notify"]
         /\ todo' = [todo EXCEPT ![i] = StepOf(Esc(i).step)]
         /\ StepOf(Esc(i).step) \subseteq Notifs
         /\ doneWithStep' = [doneWithStep EXCEPT ![i] = TRUE]
<1> DEFINE e == [Esc(i) EXCEPT !.started = TRUE]
<1>1. i \in Known /\ Esc(i) \in Escalations
  BY Running
<1>2. /\ e \in Escalations
      /\ e.life = Esc(i).life
      /\ e.step = Esc(i).step
      /\ e.sentCount = Esc(i).sentCount
      /\ e.messageMap = Esc(i).messageMap
      /\ e.messageIDList = Esc(i).messageIDList
  BY <1>1, StartedIs
<1>3. escalationMap' = [escalationMap EXCEPT ![i] = e]
  BY DEF StartStep, Esc
<1> HIDE DEF e
<1>4. /\ escalationMap' \in [Incidents -> Escalations \union {None}]
      /\ Known' = Known
      /\ Esc(i)' = e
      /\ \A j \in Incidents \ {i} : Esc(j)' = Esc(j)
  BY <1>1, <1>2, <1>3, EscUpdate DEF IInv
<1>5. StepOf(Esc(i).step) \subseteq Notifs
  BY <1>1, EscFields, PlanFacts
<1> QED
  BY <1>2, <1>4, <1>5 DEF StartStep

LEMMA BeginStepStep ==
  ASSUME IInv, NEW i \in Incidents, BeginStep(i)
  PROVE  IInv'
<1>1. turn[i] = "begin" /\ i \in Known /\ loop = "escalate"
  BY Running DEF BeginStep
<1>2. /\ escalationMap' \in [Incidents -> Escalations \union {None}]
      /\ Known' = Known
      /\ Esc(i)'.life = Esc(i).life
      /\ Esc(i)'.step = Esc(i).step
      /\ Esc(i)'.sentCount = Esc(i).sentCount
      /\ Esc(i)'.messageMap = Esc(i).messageMap
      /\ \A j \in Incidents \ {i} : Esc(j)' = Esc(j)
      /\ turn' = [turn EXCEPT ![i] = "notify"]
      /\ todo' = [todo EXCEPT ![i] = StepOf(Esc(i).step)]
      /\ StepOf(Esc(i).step) \subseteq Notifs
      /\ doneWithStep' = [doneWithStep EXCEPT ![i] = TRUE]
  BY <1>1, StartStepIs DEF BeginStep
<1>3. TypeOK'
  BY <1>1, <1>2 DEF IInv, TypeOK, BeginStep, irisVars
<1>4. LoopInv'
  BY <1>1, <1>2 DEF IInv, TypeOK, LoopInv, BeginStep, irisVars
<1>5. LivesInv'
  BY <1>1, <1>2 DEF IInv, TypeOK, LoopInv, LivesInv, Stale, BeginStep, irisVars
<1>6. NoStepSkipped'
  BY <1>1, <1>2 DEF IInv, TypeOK, NoStepSkipped, BeginStep, irisVars
<1>7. StepInv'
  <2>1. \A j \in Known' \ {i} : /\ j \in Known
                                  /\ Esc(j)' = Esc(j)
                                  /\ irisStep'[j] = irisStep[j]
                                  /\ handled[j] \subseteq handled'[j]
    BY <1>2, KnownEsc DEF IInv, TypeOK, BeginStep, irisVars
  <2>2. i \in Known' => Reached(i)'
    BY <1>1, <1>2 DEF IInv, StepInv, Reached, Closed, BeginStep, irisVars
  <2> QED
    BY <2>1, <2>2, OthersStay
<1>8. TurnInv'
  BY <1>1, <1>2 DEF IInv, TypeOK, LoopInv, TurnInv, Closed, BeginStep, irisVars
<1> QED
  BY <1>3, <1>4, <1>5, <1>6, <1>7, <1>8 DEF IInv

LEMMA BeginEscalationIs ==
  ASSUME IInv, NEW i \in Incidents, BeginEscalation(i)
  PROVE  /\ escalationMap' \in [Incidents -> Escalations \union {None}]
         /\ Known' = Known
         /\ Esc(i)'.life = Esc(i).life
         /\ Esc(i)'.step = Esc(i).step
         /\ Esc(i)'.sentCount = Esc(i).sentCount
         /\ Esc(i)'.messageMap = Esc(i).messageMap
         /\ Esc(i)'.messageIDList = Esc(i).messageIDList
         /\ \A j \in Incidents \ {i} : Esc(j)' = Esc(j)
<1>1. turn[i] = "begin" /\ (StartStep(i) \/ UNCHANGED escalationMap)
  BY DEF BeginEscalation
<1>2. CASE StartStep(i)
  BY <1>1, <1>2, StartStepIs
<1>3. CASE UNCHANGED escalationMap
  BY <1>3 DEF IInv, TypeOK, Known, Esc
<1> QED
  BY <1>1, <1>2, <1>3

LEMMA BeginEscalationStep ==
  ASSUME IInv, NEW i \in Incidents, BeginEscalation(i)
  PROVE  IInv'
<1>1. /\ turn[i] = "begin" /\ i \in Known /\ loop = "escalate"
      /\ Esc(i) \in Escalations /\ Esc(i).step = 0
  BY Running DEF BeginEscalation
<1>2. PICK ok \in BOOLEAN :
        /\ PostEscalateIncident(i, 1, TRUE, ok)
        /\ IF ok
           THEN /\ StartStep(i)
                /\ status' = Added(IF Tracking THEN {TrackingMsg(i, Esc(i).life)} ELSE {})
           ELSE /\ turn' = [turn EXCEPT ![i] = "off"]
                /\ UNCHANGED <<status, escalationMap, todo, doneWithStep>>
  BY DEF BeginEscalation
<1>3. /\ irisStep' \in [Incidents -> 0 .. LastStep + 1]
      /\ irisActive' \in [Incidents -> BOOLEAN]
      /\ \A j \in Incidents \ {i} : irisStep'[j] = irisStep[j] /\ irisActive'[j] = irisActive[j]
      /\ \/ irisStep'[i] = 1 /\ irisActive'[i] = TRUE
         \/ irisStep'[i] = irisStep[i] /\ irisActive'[i] = irisActive[i]
      /\ faults' \in 0 .. MaxFaults /\ faults <= faults'
  <2>1. 1 \in 0 .. LastStep + 1
    BY PlanFacts
  <2>2. faults \in 0 .. MaxFaults /\ MaxFaults \in Nat
    BY Bounds DEF IInv, TypeOK
  <2>3. PostEscalateIncident(i, 1, TRUE, ok) /\ TypeOK
    BY <1>2 DEF IInv
  <2>4. /\ irisStep' \in [Incidents -> 0 .. LastStep + 1]
        /\ irisActive' \in [Incidents -> BOOLEAN]
        /\ \A j \in Incidents \ {i} : irisStep'[j] = irisStep[j] /\ irisActive'[j] = irisActive[j]
        /\ \/ irisStep'[i] = 1 /\ irisActive'[i] = TRUE
           \/ irisStep'[i] = irisStep[i] /\ irisActive'[i] = irisActive[i]
        /\ IF ok THEN faults' = faults ELSE faults < MaxFaults /\ faults' = faults + 1
    BY <2>1, <2>3, PostIs, Zenon
  <2> QED
    BY <2>2, <2>4
<1>4. /\ escalationMap' \in [Incidents -> Escalations \union {None}]
      /\ Known' = Known
      /\ Esc(i)'.life = Esc(i).life
      /\ Esc(i)'.step = Esc(i).step
      /\ Esc(i)'.sentCount = Esc(i).sentCount
      /\ Esc(i)'.messageMap = Esc(i).messageMap
      /\ \A j \in Incidents \ {i} : Esc(j)' = Esc(j)
  BY BeginEscalationIs
<1>5. \/ /\ turn' = [turn EXCEPT ![i] = "notify"]
         /\ todo' = [todo EXCEPT ![i] = StepOf(Esc(i).step)]
         /\ StepOf(Esc(i).step) \subseteq Notifs
         /\ doneWithStep' = [doneWithStep EXCEPT ![i] = TRUE]
      \/ turn' = [turn EXCEPT ![i] = "off"] /\ UNCHANGED <<todo, doneWithStep>>
  BY <1>1, <1>2, StartStepIs
<1>6. status' \in [Msgs -> {"none", "active", "inactive", "gone"}]
  BY <1>2, StatusType DEF IInv, TypeOK
<1>7. TypeOK'
  <2>1. /\ turn' \in [Incidents -> {"off", "begin", "notify"}]
        /\ todo' \in [Incidents -> SUBSET Notifs]
        /\ doneWithStep' \in [Incidents -> BOOLEAN]
        /\ \A j \in Incidents : turn'[j] # "off" => j \in Known
    <3>1. CASE turn' = [turn EXCEPT ![i] = "off"] /\ UNCHANGED <<todo, doneWithStep>>
      BY <3>1 DEF IInv, TypeOK
    <3>2. CASE /\ turn' = [turn EXCEPT ![i] = "notify"]
               /\ todo' = [todo EXCEPT ![i] = StepOf(Esc(i).step)]
               /\ StepOf(Esc(i).step) \subseteq Notifs
               /\ doneWithStep' = [doneWithStep EXCEPT ![i] = TRUE]
      <4>1. \A j \in Incidents : turn'[j] # "off" => j \in Known
        BY <1>1, <3>2 DEF IInv, TypeOK
      <4> QED
        BY <3>2, <4>1 DEF IInv, TypeOK
    <3> QED
      BY <1>5, <3>1, <3>2, Zenon
  <2> QED
    BY <1>3, <1>4, <1>6, <2>1 DEF IInv, TypeOK, BeginEscalation
<1>8. LoopInv'
  BY <1>1, <1>3, <1>4, <1>5, <1>6 DEF IInv, TypeOK, LoopInv, BeginEscalation
<1>9. LivesInv'
  BY <1>1, <1>3, <1>4, <1>5, <1>6 DEF IInv, TypeOK, LoopInv, LivesInv, Stale, BeginEscalation
<1>10. NoStepSkipped'
  BY <1>1, <1>3, <1>4, <1>5, <1>6 DEF IInv, TypeOK, NoStepSkipped, BeginEscalation
<1>11. StepInv'
  <2>1. \A j \in Known' \ {i} : /\ j \in Known
                                  /\ Esc(j)' = Esc(j)
                                  /\ irisStep'[j] = irisStep[j]
                                  /\ handled[j] \subseteq handled'[j]
    BY <1>3, <1>4, KnownEsc DEF IInv, TypeOK, BeginEscalation
  <2>2. i \in Known' => Reached(i)'
    BY <1>1, <1>3, <1>4 DEF IInv, StepInv, Reached, Closed, BeginEscalation
  <2> QED
    BY <2>1, <2>2, OthersStay
<1>12. TurnInv'
  BY <1>1, <1>3, <1>4, <1>5, <1>6 DEF IInv, TypeOK, LoopInv, TurnInv, Closed, BeginEscalation
<1> QED
  BY <1>7, <1>8, <1>9, <1>10, <1>11, <1>12 DEF IInv

LEMMA SkipNotificationStep ==
  ASSUME IInv, NEW i \in Incidents, NEW n \in Notifs, SkipNotification(i, n)
  PROVE  IInv'
<1>1. turn[i] = "notify" /\ i \in Known
  BY Running DEF SkipNotification, Visit
<1>2. TypeOK'
  BY <1>1 DEF IInv, TypeOK, Known, Esc, SkipNotification, Visit, Finished, NotDone, irisVars
<1>3. LoopInv'
  BY <1>1
     DEF IInv, TypeOK, LoopInv, Known, Esc, SkipNotification, Visit, Finished, NotDone, irisVars
<1>4. LivesInv'
  BY <1>1
     DEF IInv, TypeOK, LoopInv, LivesInv, Stale, Known, Esc, SkipNotification, Visit, Finished,
         NotDone, irisVars
<1>5. NoStepSkipped'
  BY <1>1
     DEF IInv, TypeOK, NoStepSkipped, Known, Esc, SkipNotification, Visit, Finished, NotDone,
         irisVars
<1>6. StepInv'
  BY <1>1, ReachedStays
     DEF IInv, TypeOK, StepInv, Known, Esc, SkipNotification, Visit, Finished, NotDone, irisVars
<1>7. TurnInv'
  BY <1>1
     DEF IInv, TypeOK, LoopInv, TurnInv, Closed, Known, Esc, SkipNotification, Visit, Finished,
         NotDone, irisVars
<1> QED
  BY <1>2, <1>3, <1>4, <1>5, <1>6, <1>7 DEF IInv

LEMMA FailToBuildIs ==
  ASSUME IInv, NEW i \in Incidents, NEW n \in Notifs, FailToBuild(i, n)
  PROVE  /\ i \in Known /\ turn[i] = "notify" /\ loop = "escalate"
         /\ Esc(i) \in Escalations
         /\ escalationMap' \in [Incidents -> Escalations \union {None}]
         /\ Known' = Known
         /\ Esc(i)'.life = Esc(i).life
         /\ Esc(i)'.step = Esc(i).step
         /\ Esc(i)'.sentCount = Esc(i).sentCount
         /\ Esc(i)'.messageMap = [Esc(i).messageMap EXCEPT ![n] = "failed"]
         /\ Esc(i)'.messageIDList = Esc(i).messageIDList
         /\ \A j \in Incidents \ {i} : Esc(j)' = Esc(j)
<1>1. turn[i] = "notify" /\ i \in Known /\ loop = "escalate" /\ Esc(i) \in Escalations
  BY Running DEF FailToBuild, Visit
<1>2. escalationMap' = [escalationMap EXCEPT ![i] = NotBuilt(Esc(i), n)]
  BY DEF FailToBuild, NotBuilt, Esc
<1>3. NotBuilt(Esc(i), n) \in Escalations
  BY <1>1, NotBuiltIs
<1>4. /\ escalationMap' \in [Incidents -> Escalations \union {None}]
      /\ Known' = Known
      /\ Esc(i)' = NotBuilt(Esc(i), n)
      /\ \A j \in Incidents \ {i} : Esc(j)' = Esc(j)
  BY <1>1, <1>2, <1>3, EscUpdate DEF IInv
<1> QED
  BY <1>1, <1>4, NotBuiltIs

LEMMA FailToBuildStep ==
  ASSUME IInv, NEW i \in Incidents, NEW n \in Notifs, FailToBuild(i, n)
  PROVE  IInv'
<1>1. /\ i \in Known /\ turn[i] = "notify" /\ loop = "escalate"
      /\ Esc(i) \in Escalations
      /\ escalationMap' \in [Incidents -> Escalations \union {None}]
      /\ Known' = Known
      /\ Esc(i)'.life = Esc(i).life
      /\ Esc(i)'.step = Esc(i).step
      /\ Esc(i)'.sentCount = Esc(i).sentCount
      /\ Esc(i)'.messageMap = [Esc(i).messageMap EXCEPT ![n] = "failed"]
      /\ \A j \in Incidents \ {i} : Esc(j)' = Esc(j)
  BY FailToBuildIs
<1>2. status' \in [Msgs -> {"none", "active", "inactive", "gone"}]
  BY StatusType DEF FailToBuild, IInv
<1>3. faults' = faults + 1 /\ faults' \in 0 .. MaxFaults
  BY FaultIs DEF FailToBuild, IInv
<1>4. Esc(i).messageMap \in [Notifs -> {"none", "built", "failed"}]
  BY <1>1, EscFields
<1>5. TypeOK'
  BY <1>1, <1>2, <1>3, <1>4 DEF IInv, TypeOK, FailToBuild, Visit, NotDone, irisVars
<1>6. LoopInv'
  BY <1>1, <1>2, <1>3, <1>4 DEF IInv, TypeOK, LoopInv, FailToBuild, Visit, NotDone, irisVars
<1>7. LivesInv'
  BY <1>1, <1>2, <1>3, <1>4
     DEF IInv, TypeOK, LoopInv, LivesInv, Stale, FailToBuild, Visit, NotDone, irisVars
<1>8. NoStepSkipped'
  BY <1>1, <1>2, <1>3, <1>4 DEF IInv, TypeOK, NoStepSkipped, FailToBuild, Visit, NotDone, irisVars
<1>9. StepInv'
  <2>1. \A j \in Known' \ {i} : /\ j \in Known
                                  /\ Esc(j)' = Esc(j)
                                  /\ irisStep'[j] = irisStep[j]
                                  /\ handled[j] \subseteq handled'[j]
    BY <1>1, KnownEsc DEF IInv, TypeOK, FailToBuild, Visit, irisVars
  <2>2. i \in Known' => Reached(i)'
    BY <1>1, <1>4 DEF IInv, TypeOK, StepInv, Reached, Closed, FailToBuild, Visit, irisVars
  <2> QED
    BY <2>1, <2>2, OthersStay
<1>10. TurnInv'
  BY <1>1, <1>2, <1>3, <1>4
     DEF IInv, TypeOK, LoopInv, TurnInv, Closed, FailToBuild, Visit, NotDone, irisVars
<1> QED
  BY <1>5, <1>6, <1>7, <1>8, <1>9, <1>10 DEF IInv

(* The messages of a round that is due are messages of the incident.        *)
LEMMA CurrentMsgs ==
  ASSUME NEW i \in Incidents, NEW n \in Notifs, Esc(i) \in Escalations, Esc(i).sentCount[n] <= Repeat[n]
  PROVE  Current(i, n) \subseteq IncidentMsgs
<1>1. Esc(i).life \in Lives /\ Esc(i).sentCount[n] \in 0 .. Repeat[n]
  BY EscFields, NotifsAssumption DEF NotifsAssumption
<1> DEFINE rounds == UNION {MessagesOf(i, Esc(i).life, n, r) : r \in 0 .. Repeat[n]}
<1>2. Current(i, n) \subseteq rounds
  BY <1>1, Zenon DEF Current
<1>3. rounds \in {UNION {MessagesOf(j, l, k, r) : r \in 0 .. Repeat[k]} :
                    j \in Incidents, l \in Lives, k \in Notifs}
  BY <1>1
<1> HIDE DEF rounds
<1>4. rounds \subseteq IncidentMsgs
  BY <1>3 DEF IncidentMsgs
<1> QED
  BY <1>2, <1>4

(* What SendMessages makes of the escalation.                               *)
LEMMA SentRecord ==
  ASSUME NEW i \in Known, NEW n \in Notifs, Esc(i) \in Escalations, SendMessages(i, n)
  PROVE  \E e \in Escalations :
           /\ escalationMap' = [escalationMap EXCEPT ![i] = e]
           /\ e.life = Esc(i).life
           /\ e.step = Esc(i).step
           /\ e.messageMap = [Esc(i).messageMap EXCEPT ![n] = "built"]
           /\ e.messageIDList = Listed(i, n)
           /\ \/ /\ e.sentCount = Esc(i).sentCount
                 /\ handled' = handled
                 /\ status' = Added(Current(i, n))
              \/ /\ e.sentCount = [Esc(i).sentCount EXCEPT ![n] = @ + 1]
                 /\ handled' = IF Esc(i).sentCount[n] = Repeat[n]
                               THEN [handled EXCEPT ![i] = @ \union {n}] ELSE handled
                 /\ status' = Deleted(Current(i, n))
<1>1. Current(i, n) \subseteq IncidentMsgs
  BY CurrentMsgs DEF SendMessages, Sending, Known
<1>2. /\ Built(i, n) \in Escalations
      /\ Built(i, n).life = Esc(i).life
      /\ Built(i, n).step = Esc(i).step
      /\ Built(i, n).sentCount = Esc(i).sentCount
      /\ Built(i, n).messageMap = [Esc(i).messageMap EXCEPT ![n] = "built"]
      /\ Built(i, n).messageIDList = Listed(i, n)
  BY <1>1, BuiltIs
<1>3. CASE \A m \in Current(i, n) : status[m] = "inactive"
  <2>1. /\ escalationMap' = [escalationMap EXCEPT ![i] = Counted(i, n)]
        /\ status' = Deleted(Current(i, n))
        /\ handled' = IF Esc(i).sentCount[n] = Repeat[n]
                      THEN [handled EXCEPT ![i] = @ \union {n}] ELSE handled
    BY <1>3 DEF SendMessages, Counted, Built, Listed, Current
  <2>2. /\ Counted(i, n) \in Escalations
        /\ Counted(i, n).life = Built(i, n).life
        /\ Counted(i, n).step = Built(i, n).step
        /\ Counted(i, n).sentCount = [Built(i, n).sentCount EXCEPT ![n] = @ + 1]
        /\ Counted(i, n).messageMap = Built(i, n).messageMap
        /\ Counted(i, n).messageIDList = Built(i, n).messageIDList
    BY <1>2, CountedIs
  <2> QED
    BY <1>2, <2>1, <2>2
<1>4. CASE ~\A m \in Current(i, n) : status[m] = "inactive"
  <2>1. /\ escalationMap' = [escalationMap EXCEPT ![i] = Built(i, n)]
        /\ status' = Added(Current(i, n))
        /\ handled' = handled
    BY <1>4 DEF SendMessages, Built, Listed, Current
  <2> QED
    BY <1>2, <2>1
<1> QED
  BY <1>3, <1>4

LEMMA SendMessagesStep ==
  ASSUME IInv, NEW i \in Incidents, NEW n \in Notifs, SendMessages(i, n)
  PROVE  IInv'
<1>1. turn[i] = "notify" /\ i \in Known /\ loop = "escalate" /\ Esc(i) \in Escalations
  BY Running DEF SendMessages, Visit
<1>2. /\ Esc(i).messageMap \in [Notifs -> {"none", "built", "failed"}]
      /\ Esc(i).sentCount \in [Notifs -> Nat]
      /\ Repeat[n] \in Nat
  BY <1>1, EscFields, NotifsAssumption DEF NotifsAssumption
<1>3. PICK e \in Escalations :
        /\ escalationMap' = [escalationMap EXCEPT ![i] = e]
        /\ e.life = Esc(i).life
        /\ e.step = Esc(i).step
        /\ e.messageMap = [Esc(i).messageMap EXCEPT ![n] = "built"]
        /\ \/ /\ e.sentCount = Esc(i).sentCount
              /\ handled' = handled
           \/ /\ e.sentCount = [Esc(i).sentCount EXCEPT ![n] = @ + 1]
              /\ handled' = IF Esc(i).sentCount[n] = Repeat[n]
                            THEN [handled EXCEPT ![i] = @ \union {n}] ELSE handled
  BY <1>1, SentRecord
<1>4. /\ escalationMap' \in [Incidents -> Escalations \union {None}]
      /\ Known' = Known
      /\ Esc(i)' = e
      /\ \A j \in Incidents \ {i} : Esc(j)' = Esc(j)
  BY <1>1, <1>3, EscUpdate DEF IInv
<1>5. status' \in [Msgs -> {"none", "active", "inactive", "gone"}]
  BY StatusType DEF SendMessages, IInv
<1>6. Esc(i).sentCount[n] <= Repeat[n] /\ Esc(i).messageMap[n] # "failed"
  BY DEF SendMessages, Sending
<1>7. TypeOK'
  BY <1>1, <1>2, <1>3, <1>4, <1>5, <1>6 DEF IInv, TypeOK, SendMessages, Visit, NotDone, irisVars
<1>8. LoopInv'
  BY <1>1, <1>2, <1>3, <1>4, <1>5, <1>6
     DEF IInv, TypeOK, LoopInv, SendMessages, Visit, NotDone, irisVars
<1>9. LivesInv'
  BY <1>1, <1>2, <1>3, <1>4, <1>5, <1>6
     DEF IInv, TypeOK, LoopInv, LivesInv, Stale, SendMessages, Visit, NotDone, irisVars
<1>10. NoStepSkipped'
  <2>1. \A j \in Incidents : handled[j] \subseteq handled'[j] /\ handled'[j] \in SUBSET Notifs
    BY <1>3 DEF IInv, TypeOK
  <2>2. irisStep' = irisStep /\ irisActive' = irisActive /\ claimed' = claimed
    BY DEF SendMessages, Visit, irisVars
  <2> QED
    BY <2>1, <2>2 DEF IInv, NoStepSkipped
<1>11. StepInv'
  <2>1. \A j \in Known' \ {i} : /\ j \in Known
                                  /\ Esc(j)' = Esc(j)
                                  /\ irisStep'[j] = irisStep[j]
                                  /\ handled[j] \subseteq handled'[j]
    BY <1>3, <1>4, KnownEsc DEF IInv, TypeOK, SendMessages, Visit, irisVars
  <2>2. /\ irisStep' = irisStep /\ handled[i] \subseteq handled'[i] /\ Reached(i)
    BY <1>1, <1>3 DEF IInv, TypeOK, StepInv, SendMessages, Visit, irisVars
  <2>3. ASSUME NEW k \in Notifs, Closed(e, k)
        PROVE  k \in handled'[i]
    <3>1. CASE k = n
      <4>1. e.messageMap[n] = "built" /\ e.sentCount[n] > Repeat[n]
        BY <1>2, <1>3, <2>3, <3>1 DEF Closed
      <4>2. Esc(i).sentCount[n] = Repeat[n] /\ handled' = [handled EXCEPT ![i] = @ \union {n}]
        BY <1>2, <1>3, <1>6, <4>1
      <4> QED
        BY <3>1, <4>2 DEF IInv, TypeOK
    <3>2. CASE k # n
      <4>1. e.messageMap[k] = Esc(i).messageMap[k] /\ e.sentCount[k] = Esc(i).sentCount[k]
        BY <1>2, <1>3, <3>2
      <4> QED
        BY <2>2, <2>3, <4>1 DEF Reached, Closed
    <3> QED
      BY <3>1, <3>2
  <2>4. i \in Known' => Reached(i)'
    BY <1>3, <1>4, <2>2, <2>3 DEF Reached
  <2> QED
    BY <2>1, <2>4, OthersStay
<1>12. TurnInv'
  BY <1>1, <1>2, <1>3, <1>4, <1>5, <1>6
     DEF IInv, TypeOK, LoopInv, TurnInv, Closed, SendMessages, Visit, NotDone, irisVars
<1> QED
  BY <1>7, <1>8, <1>9, <1>10, <1>11, <1>12 DEF IInv

LEMMA StayInStepStep ==
  ASSUME IInv, NEW i \in Incidents, StayInStep(i)
  PROVE  IInv'
<1>1. TypeOK'
  BY DEF IInv, TypeOK, Known, Esc, StayInStep, irisVars
<1>2. LoopInv'
  BY DEF IInv, TypeOK, LoopInv, Known, Esc, StayInStep, irisVars
<1>3. LivesInv'
  BY DEF IInv, TypeOK, LoopInv, LivesInv, Stale, Known, Esc, StayInStep, irisVars
<1>4. NoStepSkipped'
  BY DEF IInv, TypeOK, NoStepSkipped, Known, Esc, StayInStep, irisVars
<1>5. StepInv'
  BY ReachedStays DEF IInv, TypeOK, StepInv, Known, Esc, StayInStep, irisVars
<1>6. TurnInv'
  BY DEF IInv, TypeOK, LoopInv, TurnInv, Closed, Known, Esc, StayInStep, irisVars
<1> QED
  BY <1>1, <1>2, <1>3, <1>4, <1>5, <1>6 DEF IInv

(* A step that is done with has had all its notifications handled.          *)
LEMMA StepHandled ==
  ASSUME IInv, NEW i \in Incidents, turn[i] = "notify", todo[i] = {}, doneWithStep[i]
  PROVE  \A s \in 0 .. Esc(i).step : StepOf(s) \subseteq handled[i]
<1>1. i \in Known /\ Esc(i) \in Escalations
  BY Running
<1>2. Esc(i).step \in 0 .. LastStep /\ LastStep \in Nat
  BY <1>1, EscFields, PlanFacts
<1>3. StepOf(Esc(i).step) \subseteq handled[i]
  <2>1. \A n \in StepOf(Esc(i).step) : n \in Notifs /\ Closed(Esc(i), n)
    BY <1>2, PlanFacts DEF IInv, TurnInv
  <2> QED
    BY <1>1, <2>1 DEF IInv, StepInv, Reached
<1>4. ASSUME NEW s \in 0 .. Esc(i).step
      PROVE  StepOf(s) \subseteq handled[i]
  BY <1>1, <1>2, <1>3 DEF IInv, StepInv, Reached
<1> QED
  BY <1>4

LEMMA NextStepIs ==
  ASSUME IInv, NEW i \in Incidents, NextStep(i)
  PROVE  /\ i \in Known
         /\ escalationMap' \in [Incidents -> Escalations \union {None}]
         /\ Known' = Known
         /\ Esc(i)'.life = Esc(i).life
         /\ Esc(i)'.step = Esc(i).step + 1
         /\ Esc(i)'.sentCount = Esc(i).sentCount
         /\ Esc(i)'.messageMap = Esc(i).messageMap
         /\ Esc(i)'.messageIDList = Esc(i).messageIDList
         /\ \A j \in Incidents \ {i} : Esc(j)' = Esc(j)
<1>1. i \in Known /\ Esc(i) \in Escalations /\ Esc(i).step < LastStep
  BY Running DEF NextStep
<1>2. Advanced(Esc(i)) \in Escalations
  BY <1>1, AdvancedIs
<1>3. escalationMap' = [escalationMap EXCEPT ![i] = Advanced(Esc(i))]
  BY DEF NextStep, Advanced, Esc
<1>4. /\ escalationMap' \in [Incidents -> Escalations \union {None}]
      /\ Known' = Known
      /\ Esc(i)' = Advanced(Esc(i))
      /\ \A j \in Incidents \ {i} : Esc(j)' = Esc(j)
  BY <1>1, <1>2, <1>3, EscUpdate DEF IInv
<1> QED
  BY <1>1, <1>4, AdvancedIs

LEMMA NextStepStep ==
  ASSUME IInv, NEW i \in Incidents, NextStep(i)
  PROVE  IInv'
<1>1. /\ turn[i] = "notify" /\ i \in Known /\ loop = "escalate"
      /\ Esc(i) \in Escalations /\ Esc(i).step \in 0 .. LastStep /\ Esc(i).step < LastStep
      /\ LastStep \in Nat
  BY Running, EscFields, PlanFacts DEF NextStep
<1>2. \A s \in 0 .. Esc(i).step : StepOf(s) \subseteq handled[i]
  BY StepHandled DEF NextStep
<1>3. /\ irisStep' \in [Incidents -> 0 .. LastStep + 1]
      /\ irisActive' \in [Incidents -> BOOLEAN]
      /\ \A j \in Incidents \ {i} : irisStep'[j] = irisStep[j] /\ irisActive'[j] = irisActive[j]
      /\ \/ irisStep'[i] = Esc(i).step + 2 /\ irisActive'[i] = TRUE
         \/ irisStep'[i] = irisStep[i] /\ irisActive'[i] = irisActive[i]
      /\ faults' \in 0 .. MaxFaults /\ faults <= faults'
  <2>1. PICK ok \in BOOLEAN : PostEscalateIncident(i, Esc(i).step + 2, TRUE, ok)
    BY DEF NextStep
  <2>2. Esc(i).step + 2 \in 0 .. LastStep + 1
    BY <1>1
  <2>3. faults \in 0 .. MaxFaults /\ MaxFaults \in Nat /\ TypeOK
    BY Bounds DEF IInv, TypeOK
  <2>4. /\ irisStep' \in [Incidents -> 0 .. LastStep + 1]
        /\ irisActive' \in [Incidents -> BOOLEAN]
        /\ \A j \in Incidents \ {i} : irisStep'[j] = irisStep[j] /\ irisActive'[j] = irisActive[j]
        /\ \/ irisStep'[i] = Esc(i).step + 2 /\ irisActive'[i] = TRUE
           \/ irisStep'[i] = irisStep[i] /\ irisActive'[i] = irisActive[i]
        /\ IF ok THEN faults' = faults ELSE faults < MaxFaults /\ faults' = faults + 1
    BY <2>1, <2>2, <2>3, PostIs, Zenon
  <2> QED
    BY <2>3, <2>4
<1>4. /\ escalationMap' \in [Incidents -> Escalations \union {None}]
      /\ Known' = Known
      /\ Esc(i)'.life = Esc(i).life
      /\ Esc(i)'.step = Esc(i).step + 1
      /\ Esc(i)'.sentCount = Esc(i).sentCount
      /\ Esc(i)'.messageMap = Esc(i).messageMap
      /\ \A j \in Incidents \ {i} : Esc(j)' = Esc(j)
  BY NextStepIs
<1>5. TypeOK'
  BY <1>1, <1>2, <1>3, <1>4 DEF IInv, TypeOK, NextStep
<1>6. LoopInv'
  BY <1>1, <1>2, <1>3, <1>4 DEF IInv, TypeOK, LoopInv, NextStep
<1>7. LivesInv'
  BY <1>1, <1>3, <1>4, <1>4 DEF IInv, TypeOK, LivesInv, Stale, NextStep
<1>8. NoStepSkipped'
  <2>1. /\ \A j \in Incidents \ {i} : irisStep'[j] = irisStep[j] /\ irisActive'[j] = irisActive[j]
        /\ claimed' = claimed /\ handled' = handled
    BY <1>3 DEF NextStep
  <2>2. \A s \in 0 .. LastStep : irisStep'[i] >= s + 2 => StepOf(s) \subseteq handled[i]
    BY <1>1, <1>2, <1>3 DEF IInv, NoStepSkipped
  <2>3. ~irisActive'[i] => ~irisActive[i]
    BY <1>3
  <2> QED
    BY <2>1, <2>2, <2>3 DEF IInv, NoStepSkipped
<1>9. StepInv'
  <2>1. \A j \in Known' \ {i} : /\ j \in Known
                                  /\ Esc(j)' = Esc(j)
                                  /\ irisStep'[j] = irisStep[j]
                                  /\ handled[j] \subseteq handled'[j]
    BY <1>3, <1>4, KnownEsc DEF IInv, TypeOK, NextStep
  <2>2. i \in Known' => Reached(i)'
    <3>1. Reached(i) /\ handled' = handled
      BY <1>1 DEF IInv, StepInv, NextStep
    <3>2. irisStep'[i] <= (Esc(i).step + 1) + 1
      BY <1>1, <1>3, <3>1 DEF IInv, TypeOK, Reached
    <3>3. \A s \in 0 .. LastStep : s < Esc(i).step + 1 => StepOf(s) \subseteq handled[i]
      BY <1>1, <1>2
    <3> QED
      BY <1>4, <3>1, <3>2, <3>3 DEF Reached, Closed
  <2> QED
    BY <2>1, <2>2, OthersStay
<1>10. TurnInv'
  BY <1>1, <1>2, <1>3, <1>4 DEF IInv, TypeOK, LoopInv, TurnInv, Closed, NextStep
<1> QED
  BY <1>5, <1>6, <1>7, <1>8, <1>9, <1>10 DEF IInv

LEMMA EndPlanStep ==
  ASSUME IInv, NEW i \in Incidents, EndPlan(i)
  PROVE  IInv'
<1>1. /\ turn[i] = "notify" /\ i \in Known /\ loop = "escalate"
      /\ Esc(i) \in Escalations /\ Esc(i).step = LastStep /\ LastStep \in Nat
  <2>1. turn[i] = "notify" /\ i \in Known /\ loop = "escalate" /\ Esc(i) \in Escalations
    BY Running DEF EndPlan
  <2> QED
    BY <2>1, EscFields, PlanFacts DEF EndPlan
<1>2. (\A s \in 0 .. LastStep : StepOf(s) \subseteq handled[i]) /\ handled[i] = Notifs
  BY <1>1, StepHandled, PlanFacts DEF EndPlan, IInv, TypeOK
<1>3. /\ irisStep' \in [Incidents -> 0 .. LastStep + 1]
      /\ irisActive' \in [Incidents -> BOOLEAN]
      /\ \A j \in Incidents \ {i} : irisStep'[j] = irisStep[j] /\ irisActive'[j] = irisActive[j]
      /\ \/ irisStep'[i] = LastStep + 1 /\ irisActive'[i] = FALSE
         \/ irisStep'[i] = irisStep[i] /\ irisActive'[i] = irisActive[i]
      /\ irisActive'[i] => faults' = faults + 1
      /\ faults' \in 0 .. MaxFaults /\ faults <= faults'
  <2>1. PICK ok \in BOOLEAN : PostEscalateIncident(i, Esc(i).step + 1, FALSE, ok)
    BY DEF EndPlan
  <2>2. Esc(i).step + 1 \in 0 .. LastStep + 1
    BY <1>1
  <2>3. faults \in 0 .. MaxFaults /\ MaxFaults \in Nat /\ TypeOK
    BY Bounds DEF IInv, TypeOK
  <2>4. /\ irisStep' \in [Incidents -> 0 .. LastStep + 1]
        /\ irisActive' \in [Incidents -> BOOLEAN]
        /\ \A j \in Incidents \ {i} : irisStep'[j] = irisStep[j] /\ irisActive'[j] = irisActive[j]
        /\ \/ irisStep'[i] = Esc(i).step + 1 /\ irisActive'[i] = FALSE
           \/ irisStep'[i] = irisStep[i] /\ irisActive'[i] = irisActive[i] /\ (ok => ~irisActive[i])
        /\ IF ok THEN faults' = faults ELSE faults < MaxFaults /\ faults' = faults + 1
    BY <2>1, <2>2, <2>3, PostIs, Zenon
  <2> QED
    BY <1>1, <2>3, <2>4
<1>4. /\ escalationMap' \in [Incidents -> Escalations \union {None}]
      /\ Known' = Known \ {i}
      /\ \A j \in Incidents \ {i} : Esc(j)' = Esc(j)
  BY <1>1, EscForget DEF EndPlan, DeleteIncident, IInv
<1>5. status' \in [Msgs -> {"none", "active", "inactive", "gone"}]
  BY StatusType DEF EndPlan, DeleteIncident, IInv
<1>6. TypeOK'
  BY <1>1, <1>2, <1>3, <1>4, <1>5 DEF IInv, TypeOK, EndPlan
<1>7. LoopInv'
  BY <1>1, <1>2, <1>3, <1>4, <1>5 DEF IInv, TypeOK, LoopInv, EndPlan
<1>8. LivesInv'
  BY <1>1, <1>2, <1>3, <1>4, <1>5 DEF IInv, TypeOK, LoopInv, LivesInv, Stale, EndPlan
<1>9. NoStepSkipped'
  <2>1. ASSUME NEW j \in Incidents, j # i
        PROVE  irisStep'[j] = irisStep[j] /\ irisActive'[j] = irisActive[j]
    BY <1>3, <2>1
  <2>2. claimed' = claimed /\ handled' = handled
    BY DEF EndPlan
  <2> QED
    BY <1>1, <1>2, <1>3, <2>1, <2>2 DEF IInv, NoStepSkipped
<1>10. StepInv'
  <2>1. \A j \in Known' \ {i} : /\ j \in Known
                                  /\ Esc(j)' = Esc(j)
                                  /\ irisStep'[j] = irisStep[j]
                                  /\ handled[j] \subseteq handled'[j]
    BY <1>3, <1>4, KnownEsc DEF IInv, TypeOK, EndPlan
  <2>2. i \in Known' => Reached(i)'
    BY <1>4 DEF IInv
  <2> QED
    BY <2>1, <2>2, OthersStay
<1>11. TurnInv'
  BY <1>1, <1>2, <1>3, <1>4, <1>5 DEF IInv, TypeOK, LoopInv, TurnInv, Closed, EndPlan
<1> QED
  BY <1>6, <1>7, <1>8, <1>9, <1>10, <1>11 DEF IInv

LEMMA AddNewIncidentsStep ==
  ASSUME IInv, AddNewIncidents
  PROVE  IInv'
<1>1. PICK failed \in SUBSET Incidents :
        LET new == {i \in Incidents \ failed : fetched[i] # None /\ i \notin Known /\ ~queueFull}
        IN  /\ escalationMap' = [i \in Incidents |->
                                   IF i \in new THEN NewEscalation(i) ELSE escalationMap[i]]
            /\ lives' = [i \in Incidents |-> IF i \in new THEN lives[i] + 1 ELSE lives[i]]
            /\ turn' = [i \in Incidents |-> IF i \in Known \union new THEN "begin" ELSE "off"]
            /\ IF failed = {} THEN UNCHANGED faults ELSE Fault
  BY DEF AddNewIncidents
<1> DEFINE new == {i \in Incidents \ failed : fetched[i] # None /\ i \notin Known /\ ~queueFull}
<1>2. /\ new \subseteq Incidents /\ new \intersect Known = {} /\ \A i \in new : fetched[i] # None
      /\ escalationMap' = [i \in Incidents |-> IF i \in new THEN NewEscalation(i) ELSE escalationMap[i]]
      /\ lives' = [i \in Incidents |-> IF i \in new THEN lives[i] + 1 ELSE lives[i]]
      /\ turn' = [i \in Incidents |-> IF i \in Known \union new THEN "begin" ELSE "off"]
      /\ faults' \in 0 .. MaxFaults /\ faults <= faults'
  BY <1>1, FaultIs DEF IInv, TypeOK
<1> HIDE DEF new
<1>3. ASSUME NEW i \in new
      PROVE  /\ NewEscalation(i) \in Escalations
             /\ NewEscalation(i).life = lives[i] + 1
             /\ NewEscalation(i).step = FirstStep(i)
             /\ \A n \in Notifs : /\ NewEscalation(i).sentCount[n] = 0
                                  /\ NewEscalation(i).messageMap[n] = "none"
             /\ lives[i] <= faults
             /\ irisStep[i] = fetched[i]
  <2>1. i \in Incidents /\ fetched[i] # None /\ i \notin Known
    BY <1>2
  <2>2. lives[i] <= faults /\ lives[i] <= MaxFaults /\ irisStep[i] = fetched[i]
    BY <2>1, Bounds DEF IInv, LivesInv, LoopInv, TypeOK
  <2> QED
    BY <2>1, <2>2, NewIs DEF IInv
<1>4. /\ escalationMap' \in [Incidents -> Escalations \union {None}]
      /\ Known' = Known \union new
      /\ \A i \in new : Esc(i)' = NewEscalation(i)
      /\ \A i \in Incidents \ new : Esc(i)' = Esc(i)
  BY <1>2, <1>3, Nothing DEF IInv, TypeOK, Known, Esc
<1>5. TypeOK'
  <2>1. \A j \in Incidents : turn'[j] # "off" => j \in Known \union new
    BY <1>2
  <2>2. lives' \in [Incidents -> 0 .. MaxFaults + 1]
    BY <1>2, <1>3, Bounds DEF IInv, TypeOK
  <2>3. turn' \in [Incidents -> {"off", "begin", "notify"}]
    BY <1>2
  <2>4. fetched' \in [Incidents -> (0 .. LastStep + 1) \union {None}]
    BY DEF AddNewIncidents
  <2> QED
    BY <1>2, <1>4, <2>1, <2>2, <2>3, <2>4 DEF IInv, TypeOK, AddNewIncidents, irisVars
<1>6. LoopInv'
  BY <1>2, <1>3, <1>4, NotifsAssumption
     DEF IInv, TypeOK, LoopInv, AddNewIncidents, FirstStep, NotifsAssumption, irisVars
<1>7. LivesInv'
  BY <1>2, <1>3, <1>4, NotifsAssumption
     DEF IInv, TypeOK, LoopInv, LivesInv, Stale, AddNewIncidents, FirstStep, NotifsAssumption,
         irisVars
<1>8. NoStepSkipped'
  BY <1>2, <1>3, <1>4, NotifsAssumption
     DEF IInv, TypeOK, NoStepSkipped, AddNewIncidents, FirstStep, NotifsAssumption, irisVars
<1>9. StepInv'
  <2>1. irisStep' = irisStep /\ handled' = handled
    BY DEF AddNewIncidents, irisVars
  <2>2. ASSUME NEW j \in Known
        PROVE  Reached(j)'
    <3>1. Reached(j) /\ Esc(j)' = Esc(j)
      BY <1>2, <1>4, KnownEsc DEF IInv, StepInv
    <3> QED
      BY <2>1, <3>1, ReachedStays
  <2>3. ASSUME NEW j \in new
        PROVE  Reached(j)'
    <3>1. irisStep[j] \in Nat /\ irisStep[j] = fetched[j] /\ j \in Incidents
      BY <1>2, <1>3, PlanFacts DEF IInv, TypeOK
    <3>2. \A n \in Notifs : ~Closed(NewEscalation(j), n)
      BY <1>3, NotifsAssumption DEF Closed, NotifsAssumption
    <3>3. /\ irisStep[j] <= FirstStep(j) + 1
          /\ \A s \in 0 .. LastStep : s < FirstStep(j) => StepOf(s) \subseteq handled[j]
      BY <3>1, PlanFacts DEF FirstStep, IInv, NoStepSkipped
    <3> QED
      BY <1>3, <1>4, <2>1, <3>2, <3>3 DEF Reached
  <2> QED
    BY <1>4, <2>2, <2>3 DEF StepInv
<1>10. TurnInv'
  BY <1>2, <1>3, <1>4, NotifsAssumption
     DEF IInv, TypeOK, LoopInv, TurnInv, Closed, AddNewIncidents, FirstStep, NotifsAssumption,
         irisVars
<1> QED
  BY <1>5, <1>6, <1>7, <1>8, <1>9, <1>10 DEF IInv

LEMMA StutterStep ==
  ASSUME IInv, UNCHANGED vars
  PROVE  IInv'
<1>1. UNCHANGED <<irisStep, irisActive, claimed, status, queueFull, loop, fetched, escalationMap>>
  BY DEF vars, irisVars
<1>2. UNCHANGED <<turn, todo, doneWithStep, lives, handled, faults>>
  BY DEF vars, escalateVars
<1>3. Known' = Known /\ \A i \in Incidents : Esc(i)' = Esc(i)
  BY <1>1 DEF Known, Esc
<1>4. TypeOK'
  BY <1>1, <1>2, <1>3 DEF IInv, TypeOK
<1>5. LoopInv' /\ NoStepSkipped'
  BY <1>1, <1>2 DEF IInv, LoopInv, NoStepSkipped
<1>6. LivesInv'
  BY <1>1, <1>2, <1>3 DEF IInv, LivesInv, Stale
<1>7. StepInv'
  <2>1. ASSUME NEW i \in Known
        PROVE  Reached(i)'
    BY <1>1, <1>2, <1>3, KnownEsc, ReachedStays DEF IInv, StepInv
  <2> QED
    BY <1>3, <2>1 DEF StepInv
<1>8. TurnInv'
  BY <1>1, <1>2, <1>3 DEF IInv, TurnInv
<1> QED
  BY <1>4, <1>5, <1>6, <1>7, <1>8 DEF IInv

(* Every action keeps the invariant.                                        *)
LEMMA NextInv == IInv /\ [Next]_vars => IInv'
<1> SUFFICES ASSUME IInv, [Next]_vars PROVE IInv'
  OBVIOUS
<1>1. CASE RunOnce
  BY <1>1, FetchIncidentsStep, AddNewIncidentsStep, EndLoopStep, DeactivateStep DEF RunOnce
<1>2. ASSUME NEW i \in Incidents, Escalate(i)
      PROVE  IInv'
  <2>1. CASE BeginStep(i) \/ BeginEscalation(i)
    BY <2>1, BeginStepStep, BeginEscalationStep
  <2>2. ASSUME NEW n \in Notifs, SkipNotification(i, n) \/ FailToBuild(i, n) \/ SendMessages(i, n)
        PROVE  IInv'
    BY <2>2, SkipNotificationStep, FailToBuildStep, SendMessagesStep
  <2>3. CASE StayInStep(i) \/ NextStep(i) \/ EndPlan(i)
    BY <2>3, StayInStepStep, NextStepStep, EndPlanStep
  <2> QED
    BY <1>2, <2>1, <2>2, <2>3 DEF Escalate
<1>3. ASSUME NEW i \in Incidents, Claim(i) \/ \E n \in Notifs : WaitOver(i, n)
      PROVE  IInv'
  BY <1>3, ClaimStep, WaitOverStep
<1>4. ASSUME NEW m \in Msgs, VendorSettles(m) \/ VendorDeletes(m)
      PROVE  IInv'
  BY <1>4, VendorSettlesStep, VendorDeletesStep
<1>5. CASE RefreshQueueFull \/ Crash
  BY <1>5, RefreshQueueFullStep, CrashStep
<1>6. CASE UNCHANGED vars
  BY <1>6, StutterStep
<1> QED
  BY <1>1, <1>2, <1>3, <1>4, <1>5, <1>6 DEF Next

(* The inductive invariant holds in every reachable state.                  *)
THEOREM Invariance == Spec => []IInv
BY InitInv, NextInv, PTL DEF Spec

(* The types hold: in particular no escalation leaves the plan, Iris never  *)
(* shows a step beyond it, and no incident needs more than one life and one *)
(* for every fault, so the bound on lives cuts nothing off.                 *)
THEOREM TypeCorrect == Spec => []TypeOK
<1>1. IInv => TypeOK
  BY DEF IInv
<1> QED
  BY <1>1, Invariance, PTL

(* However calls fail, batches are lost and the process is restarted: Iris  *)
(* moves past a step only when all its notifications were sent to the end or*)
(* could not be built, and an incident nobody claimed ends only after all.  *)
THEOREM NobodySkipped == Spec => []NoStepSkipped
<1>1. IInv => NoStepSkipped
  BY DEF IInv
<1> QED
  BY <1>1, Invariance, PTL

(* The step Iris shows never goes back: an escalation that counted on after *)
(* a failed call, or began again after a restart, is never behind it.       *)
THEOREM IrisNeverGoesBack == Spec => IrisStepMonotone
<1> DEFINE Forward == \A i \in Incidents : irisStep'[i] >= irisStep[i]
<1>1. ASSUME IInv, UNCHANGED irisStep
      PROVE  Forward
  BY <1>1, PlanFacts DEF IInv, TypeOK
<1>2. ASSUME IInv, NEW i \in Incidents, turn[i] # "off",
             NEW step \in 0 .. LastStep + 1, step >= Esc(i).step + 1,
             NEW active \in BOOLEAN, NEW ok \in BOOLEAN, PostEscalateIncident(i, step, active, ok)
      PROVE  Forward
  <2>1. i \in Known /\ Esc(i) \in Escalations
    BY <1>2, Running
  <2>2. irisStep[i] <= Esc(i).step + 1 /\ Esc(i).step \in Nat /\ irisStep[i] \in Nat /\ step \in Nat
    BY <1>2, <2>1, EscFields, PlanFacts DEF IInv, TypeOK, StepInv, Reached
  <2>3. /\ \A j \in Incidents \ {i} : irisStep'[j] = irisStep[j]
        /\ irisStep'[i] = step \/ irisStep'[i] = irisStep[i]
    BY <1>2, PostIs DEF IInv
  <2>4. \A j \in Incidents : irisStep[j] \in Nat
    BY PlanFacts, <1>2 DEF IInv, TypeOK
  <2> QED
    BY <1>2, <2>2, <2>3, <2>4
<1> HIDE DEF Forward
<1>3. ASSUME IInv, Next
      PROVE  Forward
  <2>1. CASE RunOnce
    BY <1>1, <1>3, <2>1 DEF RunOnce, FetchIncidents, AddNewIncidents, EndLoop, Deactivate, irisVars
  <2>2. ASSUME NEW i \in Incidents, Escalate(i)
        PROVE  Forward
    <3>1. CASE BeginStep(i) \/ StayInStep(i) \/ (\E n \in Notifs : SkipNotification(i, n)
                                                   \/ FailToBuild(i, n) \/ SendMessages(i, n))
      BY <1>1, <1>3, <3>1
         DEF BeginStep, StayInStep, SkipNotification, FailToBuild, SendMessages, Visit, irisVars
    <3>2. ASSUME turn[i] # "off"
          PROVE  Esc(i).step \in 0 .. LastStep /\ LastStep \in Nat
      BY <1>3, <3>2, Running, EscFields, PlanFacts
    <3>3. CASE BeginEscalation(i)
      <4>1. turn[i] # "off" /\ Esc(i).step = 0 /\ \E ok \in BOOLEAN : PostEscalateIncident(i, 1, TRUE, ok)
        BY <3>3 DEF BeginEscalation
      <4>2. 1 \in 0 .. LastStep + 1 /\ 1 >= Esc(i).step + 1
        BY <3>2, <4>1
      <4> QED
        BY <1>2, <1>3, <4>1, <4>2
    <3>4. CASE NextStep(i)
      <4>1. /\ turn[i] # "off" /\ Esc(i).step < LastStep
            /\ \E ok \in BOOLEAN : PostEscalateIncident(i, Esc(i).step + 2, TRUE, ok)
        BY <3>4 DEF NextStep
      <4>2. Esc(i).step + 2 \in 0 .. LastStep + 1 /\ Esc(i).step + 2 >= Esc(i).step + 1
        BY <3>2, <4>1
      <4> QED
        BY <1>2, <1>3, <4>1, <4>2
    <3>5. CASE EndPlan(i)
      <4>1. turn[i] # "off" /\ \E ok \in BOOLEAN : PostEscalateIncident(i, Esc(i).step + 1, FALSE, ok)
        BY <3>5 DEF EndPlan
      <4>2. Esc(i).step + 1 \in 0 .. LastStep + 1 /\ Esc(i).step + 1 >= Esc(i).step + 1
        BY <3>2, <4>1
      <4> QED
        BY <1>2, <1>3, <4>1, <4>2
    <3> QED
      BY <2>2, <3>1, <3>3, <3>4, <3>5 DEF Escalate
  <2>3. ASSUME NEW i \in Incidents, Claim(i) \/ \E n \in Notifs : WaitOver(i, n)
        PROVE  Forward
    BY <1>1, <1>3, <2>3 DEF Claim, WaitOver, irisVars
  <2>4. ASSUME NEW m \in Msgs, VendorSettles(m) \/ VendorDeletes(m)
        PROVE  Forward
    BY <1>1, <1>3, <2>4 DEF VendorSettles, VendorDeletes, irisVars
  <2>5. CASE RefreshQueueFull \/ Crash
    BY <1>1, <1>3, <2>5 DEF RefreshQueueFull, Crash, irisVars
  <2> QED
    BY <1>3, <2>1, <2>2, <2>3, <2>4, <2>5 DEF Next
<1>4. IInv /\ [Next]_vars => [\A i \in Incidents : irisStep'[i] >= irisStep[i]]_vars
  BY <1>3 DEF Forward
<1> QED
  BY <1>4, Invariance, PTL DEF Spec, IrisStepMonotone

(* What is behind RemovesOnlyInactive failing: an incident that Iris still  *)
(* has as active is removed only after a fault, and each of its lives was   *)
(* paid for with one.  Without faults only inactive ones are removed.       *)
THEOREM RemovalsFollowFaults ==
  Spec => [][\A i \in Incidents : Deactivate(i) /\ irisActive[i] => faults > 0 /\ lives[i] <= faults]_vars
<1>1. ASSUME IInv, NEW i \in Incidents, Deactivate(i), irisActive[i]
      PROVE  faults > 0 /\ lives[i] <= faults
  <2>1. loop = "fetched" /\ i \in Stale /\ i \in Known
    BY <1>1 DEF Deactivate, Stale
  <2>2. lives[i] <= faults /\ lives[i] = Esc(i).life
    BY <1>1, <2>1 DEF IInv, LivesInv
  <2>3. Esc(i).life \in 1 .. MaxFaults + 1 /\ faults \in Nat
    BY <1>1, <2>1, KnownEsc, EscFields, Bounds DEF IInv, TypeOK
  <2> QED
    BY <2>2, <2>3, Bounds
<1>2. IInv /\ [Next]_vars =>
        [\A i \in Incidents : Deactivate(i) /\ irisActive[i] => faults > 0 /\ lives[i] <= faults]_vars
  BY <1>1
<1> QED
  BY <1>2, Invariance, PTL DEF Spec

(* A message of an incident is named by the incident, the life, the         *)
(* notification, the round and the part; other messages have other names.   *)
LEMMA MsgShape ==
  ASSUME NEW m \in IncidentMsgs
  PROVE  /\ m[1] \in Incidents /\ m[2] \in Lives /\ m[3] \in Notifs
         /\ m[4] \in 0 .. Repeat[m[3]]
         /\ m \in MessagesOf(m[1], m[2], m[3], m[4])
<1> DEFINE rounds(i, l, n) == UNION {MessagesOf(i, l, n, r) : r \in 0 .. Repeat[n]}
<1>1. IncidentMsgs = UNION {rounds(i, l, n) : i \in Incidents, l \in Lives, n \in Notifs}
  BY DEF IncidentMsgs
<1> HIDE DEF rounds
<1>2. PICK i \in Incidents, l \in Lives, n \in Notifs : m \in rounds(i, l, n)
  BY <1>1
<1>3. PICK r \in 0 .. Repeat[n] : m \in MessagesOf(i, l, n, r)
  BY <1>2 DEF rounds
<1>4. m[1] = i /\ m[2] = l /\ m[3] = n /\ m[4] = r
  BY <1>3 DEF MessagesOf
<1> QED
  BY <1>3, <1>4

LEMMA RoundShape ==
  ASSUME NEW i, NEW l, NEW n, NEW r, NEW m \in MessagesOf(i, l, n, r)
  PROVE  m[1] = i /\ m[2] = l /\ m[3] = n /\ m[4] = r
BY DEF MessagesOf

LEMMA NotOurs ==
  ASSUME NEW i, NEW l, NEW n
  PROVE  ErrorMsg(i, l, n) \notin IncidentMsgs /\ TrackingMsg(i, l) \notin IncidentMsgs
<1>1. \A m \in IncidentMsgs : Len(m) = 5
  <2> SUFFICES ASSUME NEW m \in IncidentMsgs
               PROVE  Len(m) = 5
    OBVIOUS
  <2>1. m \in MessagesOf(m[1], m[2], m[3], m[4])
    BY MsgShape
  <2>2. PICK p \in Parts[m[3]] : m = <<m[1], m[2], m[3], m[4], p>>
    BY <2>1 DEF MessagesOf
  <2> QED
    BY <2>2
<1>2. Len(ErrorMsg(i, l, n)) = 4
  BY DEF ErrorMsg
<1>3. Len(TrackingMsg(i, l)) = 3
  BY DEF TrackingMsg
<1> QED
  BY <1>1, <1>2, <1>3

(* What a change of the tracker does to the messages of incidents.          *)
LEMMA AddedOurs ==
  ASSUME NEW S, status' = Added(S), IncidentMsgs \subseteq Msgs
  PROVE  OurTracked' \subseteq OurTracked \union (S \intersect IncidentMsgs)
BY DEF Added, OurTracked, Tracker!Tracked

LEMMA DeletedOurs ==
  ASSUME NEW S, status' = Deleted(S), IncidentMsgs \subseteq Msgs
  PROVE  OurTracked' \subseteq OurTracked \ S
BY DEF Deleted, OurTracked, Tracker!Tracked

(* The messages of incidents are messages.                                  *)
LEMMA Ours == IncidentMsgs \subseteq Msgs
BY DEF Msgs

(* Everything the invariant asks of an escalation and its messages stays.   *)
SameEsc(i) ==
  /\ i \in Known' <=> i \in Known
  /\ lives'[i] = lives[i]
  /\ i \in Known => /\ Esc(i)'.life = Esc(i).life
                    /\ Esc(i)'.step = Esc(i).step
                    /\ Esc(i)'.sentCount = Esc(i).sentCount
                    /\ Esc(i)'.messageMap = Esc(i).messageMap
                    /\ Esc(i)'.messageIDList = Esc(i).messageIDList

(* What is placed or listed stays so, as long as the escalation does.       *)
LEMMA PlacedStays ==
  ASSUME NEW m \in IncidentMsgs, SameEsc(m[1]), Placed(m)
  PROVE  Placed(m)'
BY DEF SameEsc, Placed

LEMMA ListedStays ==
  ASSUME NEW i \in Known, SameEsc(i), FirstListed(i)
  PROVE  FirstListed(i)'
BY DEF SameEsc, FirstListed

(* A step that touches no escalation, and adds no message of an incident.   *)
LEMMA LeftAlone ==
  ASSUME LeftInv, Known' \subseteq Incidents, \A i \in Incidents : SameEsc(i), OurTracked' \subseteq OurTracked
  PROVE  LeftInv'
<1>1. ASSUME NEW i \in Known'
      PROVE  FirstListed(i)'
  <2>1. i \in Known /\ SameEsc(i) /\ FirstListed(i)
    BY <1>1 DEF SameEsc, LeftInv
  <2> QED
    BY <2>1, ListedStays
<1>2. ASSUME NEW m \in OurTracked'
      PROVE  Placed(m)'
  <2>1. m \in IncidentMsgs /\ Placed(m) /\ SameEsc(m[1])
    BY <1>2, MsgShape DEF LeftInv, OurTracked
  <2> QED
    BY <2>1, PlacedStays
<1> QED
  BY <1>1, <1>2 DEF LeftInv

(* A step that touches one escalation, and adds messages of its own only.   *)
LEMMA LeftOthers ==
  ASSUME LeftInv, Known' \subseteq Incidents, NEW i \in Incidents,
         \A j \in Incidents \ {i} : SameEsc(j),
         \A m \in OurTracked' : m[1] # i => m \in OurTracked,
         i \in Known' => FirstListed(i)',
         \A m \in OurTracked' : m[1] = i => Placed(m)'
  PROVE  LeftInv'
<1>1. ASSUME NEW j \in Known', j # i
      PROVE  FirstListed(j)'
  <2>1. j \in Known /\ SameEsc(j) /\ FirstListed(j)
    BY <1>1 DEF SameEsc, LeftInv
  <2> QED
    BY <2>1, ListedStays
<1>2. ASSUME NEW m \in OurTracked', m[1] # i
      PROVE  Placed(m)'
  <2>1. m \in OurTracked
    BY <1>2
  <2>2. m \in IncidentMsgs /\ m[1] \in Incidents
    BY <2>1, MsgShape DEF OurTracked
  <2>3. Placed(m) /\ SameEsc(m[1])
    BY <1>2, <2>1, <2>2 DEF LeftInv
  <2> QED
    BY <2>2, <2>3, PlacedStays
<1> QED
  BY <1>1, <1>2 DEF LeftInv

(* LeftInv, action by action.                                               *)
LEMMA VendorSettlesLeft ==
  ASSUME IInv, LeftInv, NEW m \in Msgs, VendorSettles(m)
  PROVE  LeftInv'
<1>1. Known' \subseteq Incidents /\ \A j \in Incidents : SameEsc(j)
  BY DEF SameEsc, Known, Esc, VendorSettles
<1>2. OurTracked' \subseteq OurTracked
  BY DEF VendorSettles, Tracker!Settle, OurTracked, Tracker!Tracked, IInv, TypeOK
<1> QED
  BY <1>1, <1>2, LeftAlone

LEMMA VendorDeletesLeft ==
  ASSUME IInv, LeftInv, NEW m \in Msgs, VendorDeletes(m)
  PROVE  LeftInv'
<1>1. Known' \subseteq Incidents /\ \A j \in Incidents : SameEsc(j)
  BY DEF SameEsc, Known, Esc, VendorDeletes
<1>2. OurTracked' \subseteq OurTracked
  BY DEF VendorDeletes, Tracker!Delete, OurTracked, Tracker!Tracked, IInv, TypeOK
<1> QED
  BY <1>1, <1>2, LeftAlone

LEMMA RefreshQueueFullLeft ==
  ASSUME IInv, LeftInv, RefreshQueueFull
  PROVE  LeftInv'
<1>1. Known' \subseteq Incidents /\ \A j \in Incidents : SameEsc(j)
  BY DEF SameEsc, Known, Esc, RefreshQueueFull, Tracker!Refresh
<1>2. OurTracked' \subseteq OurTracked
  BY DEF RefreshQueueFull, Tracker!Refresh, OurTracked, Tracker!Tracked
<1> QED
  BY <1>1, <1>2, LeftAlone

LEMMA ClaimLeft ==
  ASSUME IInv, LeftInv, NEW i \in Incidents, Claim(i)
  PROVE  LeftInv'
<1>1. Known' \subseteq Incidents /\ \A j \in Incidents : SameEsc(j)
  BY DEF SameEsc, Known, Esc, Claim
<1>2. OurTracked' \subseteq OurTracked
  BY DEF Claim, OurTracked, Tracker!Tracked
<1> QED
  BY <1>1, <1>2, LeftAlone

LEMMA FetchIncidentsLeft ==
  ASSUME IInv, LeftInv, FetchIncidents
  PROVE  LeftInv'
<1>1. Known' \subseteq Incidents /\ \A j \in Incidents : SameEsc(j)
  BY DEF SameEsc, Known, Esc, FetchIncidents
<1>2. OurTracked' \subseteq OurTracked
  BY DEF FetchIncidents, OurTracked, Tracker!Tracked
<1> QED
  BY <1>1, <1>2, LeftAlone

LEMMA EndLoopLeft ==
  ASSUME IInv, LeftInv, EndLoop
  PROVE  LeftInv'
<1>1. Known' \subseteq Incidents /\ \A j \in Incidents : SameEsc(j)
  BY DEF SameEsc, Known, Esc, EndLoop
<1>2. OurTracked' \subseteq OurTracked
  BY DEF EndLoop, OurTracked, Tracker!Tracked
<1> QED
  BY <1>1, <1>2, LeftAlone

LEMMA StayInStepLeft ==
  ASSUME IInv, LeftInv, NEW i \in Incidents, StayInStep(i)
  PROVE  LeftInv'
<1>1. Known' \subseteq Incidents /\ \A j \in Incidents : SameEsc(j)
  BY DEF SameEsc, Known, Esc, StayInStep
<1>2. OurTracked' \subseteq OurTracked
  BY DEF StayInStep, OurTracked, Tracker!Tracked
<1> QED
  BY <1>1, <1>2, LeftAlone

LEMMA SkipNotificationLeft ==
  ASSUME IInv, LeftInv, NEW i \in Incidents, NEW n \in Notifs, SkipNotification(i, n)
  PROVE  LeftInv'
<1>1. Known' \subseteq Incidents /\ \A j \in Incidents : SameEsc(j)
  BY DEF SameEsc, Known, Esc, SkipNotification, Visit
<1>2. OurTracked' \subseteq OurTracked
  BY DEF SkipNotification, Visit, OurTracked, Tracker!Tracked
<1> QED
  BY <1>1, <1>2, LeftAlone

LEMMA WaitOverLeft ==
  ASSUME IInv, LeftInv, NEW i \in Incidents, NEW n \in Notifs, WaitOver(i, n)
  PROVE  LeftInv'
<1>1. Known' \subseteq Incidents /\ \A j \in Incidents : SameEsc(j)
  BY WaitOverIs, KnownEsc DEF SameEsc, IInv, WaitOver
<1>2. OurTracked' \subseteq OurTracked
  BY DEF WaitOver, OurTracked, Tracker!Tracked
<1> QED
  BY <1>1, <1>2, LeftAlone

LEMMA BeginStepLeft ==
  ASSUME IInv, LeftInv, NEW i \in Incidents, BeginStep(i)
  PROVE  LeftInv'
<1>1. Known' \subseteq Incidents /\ \A j \in Incidents : SameEsc(j)
  BY StartStepIs, KnownEsc DEF SameEsc, IInv, BeginStep
<1>2. OurTracked' \subseteq OurTracked
  BY DEF BeginStep, OurTracked, Tracker!Tracked
<1> QED
  BY <1>1, <1>2, LeftAlone

LEMMA BeginEscalationLeft ==
  ASSUME IInv, LeftInv, NEW i \in Incidents, BeginEscalation(i)
  PROVE  LeftInv'
<1>1. Known' \subseteq Incidents /\ \A j \in Incidents : SameEsc(j)
  BY BeginEscalationIs, KnownEsc DEF SameEsc, IInv, BeginEscalation
<1>2. OurTracked' \subseteq OurTracked
  <2>1. CASE UNCHANGED status
    BY <2>1 DEF OurTracked, Tracker!Tracked
  <2>2. CASE status' = Added(IF Tracking THEN {TrackingMsg(i, Esc(i).life)} ELSE {})
    BY <2>2, Ours, AddedOurs, NotOurs
  <2> QED
    BY <2>1, <2>2 DEF BeginEscalation
<1> QED
  BY <1>1, <1>2, LeftAlone

LEMMA DeactivateLeft ==
  ASSUME IInv, LeftInv, NEW i \in Incidents, Deactivate(i)
  PROVE  LeftInv'
<1>1. i \in Known /\ Esc(i) \in Escalations
  BY KnownEsc DEF IInv, Deactivate, Stale
<1>2. Known' = Known \ {i} /\ \A j \in Incidents \ {i} : Esc(j)' = Esc(j)
  BY <1>1, EscForget DEF Deactivate, DeleteIncident, IInv
<1>3. Known' \subseteq Incidents /\ \A j \in Incidents \ {i} : SameEsc(j)
  BY <1>2, KnownEsc DEF IInv, SameEsc, Deactivate
<1>4. OurTracked' \subseteq OurTracked \ Esc(i).messageIDList
  BY Ours, DeletedOurs DEF Deactivate, DeleteIncident, Esc
<1>5. ASSUME NEW m \in OurTracked', m[1] = i
      PROVE  Placed(m)'
  <2>1. /\ m \in OurTracked /\ m \notin Esc(i).messageIDList /\ m \in IncidentMsgs
        /\ Placed(m)
    BY <1>4, <1>5 DEF LeftInv, OurTracked
  <2>2. m[3] \in Notifs /\ m[4] \in Nat /\ m \in MessagesOf(i, m[2], m[3], m[4])
    BY <1>5, <2>1, MsgShape, NotifsAssumption DEF NotifsAssumption
  <2>3. m[4] # 0
    <3>1. CASE Esc(i).life = m[2]
      <4>1. Esc(i).messageMap[m[3]] = "built"
        BY <1>1, <1>5, <2>1, <3>1 DEF Placed
      <4>2. MessagesOf(i, m[2], m[3], 0) \subseteq Esc(i).messageIDList
        BY <1>1, <2>2, <3>1, <4>1 DEF LeftInv, FirstListed
      <4> QED
        BY <2>1, <2>2, <4>2
    <3>2. CASE Esc(i).life # m[2]
      BY <1>5, <2>1, <2>2, <3>2 DEF Placed
    <3> QED
      BY <3>1, <3>2
  <2> QED
    BY <1>2, <1>5, <2>1, <2>2, <2>3 DEF Placed, Deactivate
<1> QED
  BY <1>2, <1>3, <1>4, <1>5, LeftOthers

(* A step that is done with has none of its messages left in the tracker.   *)
LEMMA StepClean ==
  ASSUME IInv, LeftInv, NEW i \in Incidents, turn[i] = "notify", todo[i] = {}, doneWithStep[i],
         NEW m \in OurTracked, m[1] = i
  PROVE  m[2] # Esc(i).life
<1> SUFFICES ASSUME m[2] = Esc(i).life
             PROVE  FALSE
  OBVIOUS
<1>1. i \in Known /\ Esc(i) \in Escalations
  BY Running
<1>2. /\ m[3] \in StepOf(Esc(i).step) /\ m[4] = Esc(i).sentCount[m[3]]
      /\ Esc(i).messageMap[m[3]] = "built"
  BY <1>1 DEF LeftInv, Placed
<1>3. Closed(Esc(i), m[3])
  BY <1>2 DEF IInv, TurnInv
<1>4. m[3] \in Notifs /\ m[4] \in 0 .. Repeat[m[3]]
  BY MsgShape DEF OurTracked
<1>5. Repeat[m[3]] \in Nat
  BY <1>4, NotifsAssumption DEF NotifsAssumption
<1> QED
  BY <1>2, <1>3, <1>4, <1>5 DEF Closed

LEMMA EndPlanLeft ==
  ASSUME IInv, LeftInv, NEW i \in Incidents, EndPlan(i)
  PROVE  LeftInv'
<1>1. i \in Known
  BY Running DEF EndPlan
<1>2. Known' = Known \ {i} /\ \A j \in Incidents \ {i} : Esc(j)' = Esc(j)
  BY <1>1, EscForget DEF EndPlan, DeleteIncident, IInv
<1>3. Known' \subseteq Incidents /\ \A j \in Incidents \ {i} : SameEsc(j)
  BY <1>2, KnownEsc DEF IInv, SameEsc, EndPlan
<1>4. OurTracked' \subseteq OurTracked
  BY Ours, DeletedOurs DEF EndPlan, DeleteIncident
<1>5. ASSUME NEW m \in OurTracked', m[1] = i
      PROVE  Placed(m)'
  <2>1. m \in OurTracked /\ Placed(m)
    BY <1>4 DEF LeftInv
  <2>2. m[2] # Esc(i).life
    BY <1>5, <2>1, StepClean DEF EndPlan
  <2> QED
    BY <1>2, <1>5, <2>1, <2>2 DEF Placed, EndPlan
<1> QED
  BY <1>2, <1>3, <1>4, <1>5, LeftOthers

LEMMA NextStepLeft ==
  ASSUME IInv, LeftInv, NEW i \in Incidents, NextStep(i)
  PROVE  LeftInv'
<1>1. /\ i \in Known
      /\ Known' = Known
      /\ Esc(i)'.life = Esc(i).life
      /\ Esc(i)'.sentCount = Esc(i).sentCount
      /\ Esc(i)'.messageMap = Esc(i).messageMap
      /\ Esc(i)'.messageIDList = Esc(i).messageIDList
      /\ \A j \in Incidents \ {i} : Esc(j)' = Esc(j)
  BY NextStepIs
<1>2. Known' \subseteq Incidents /\ \A j \in Incidents \ {i} : SameEsc(j)
  BY <1>1, KnownEsc DEF IInv, SameEsc, NextStep
<1>3. OurTracked' = OurTracked
  BY DEF NextStep, OurTracked, Tracker!Tracked
<1>4. FirstListed(i)'
  BY <1>1 DEF LeftInv, FirstListed
<1>5. ASSUME NEW m \in OurTracked', m[1] = i
      PROVE  Placed(m)'
  <2>1. m \in OurTracked /\ Placed(m)
    BY <1>3 DEF LeftInv
  <2>2. m[2] # Esc(i).life
    BY <1>5, <2>1, StepClean DEF NextStep
  <2> QED
    BY <1>1, <1>5, <2>1, <2>2 DEF Placed, NextStep
<1> QED
  BY <1>2, <1>3, <1>4, <1>5, LeftOthers

LEMMA FailToBuildLeft ==
  ASSUME IInv, LeftInv, NEW i \in Incidents, NEW n \in Notifs, FailToBuild(i, n)
  PROVE  LeftInv'
<1>1. /\ i \in Known /\ Esc(i) \in Escalations
      /\ Known' = Known
      /\ Esc(i)'.life = Esc(i).life
      /\ Esc(i)'.step = Esc(i).step
      /\ Esc(i)'.sentCount = Esc(i).sentCount
      /\ Esc(i)'.messageMap = [Esc(i).messageMap EXCEPT ![n] = "failed"]
      /\ Esc(i)'.messageIDList = Esc(i).messageIDList
      /\ \A j \in Incidents \ {i} : Esc(j)' = Esc(j)
  BY FailToBuildIs
<1>2. Known' \subseteq Incidents /\ \A j \in Incidents \ {i} : SameEsc(j)
  BY <1>1, KnownEsc DEF IInv, SameEsc, FailToBuild, Visit
<1>3. OurTracked' \subseteq OurTracked
  BY Ours, AddedOurs, NotOurs DEF FailToBuild
<1>4. /\ Esc(i).messageMap \in [Notifs -> {"none", "built", "failed"}]
      /\ Esc(i).messageMap[n] = "none"
  BY <1>1, EscFields DEF FailToBuild
<1>5. FirstListed(i)'
  BY <1>1, <1>4 DEF LeftInv, FirstListed
<1>6. ASSUME NEW m \in OurTracked', m[1] = i
      PROVE  Placed(m)'
  <2>1. m \in OurTracked /\ Placed(m) /\ m[3] \in Notifs
    BY <1>3, MsgShape DEF LeftInv, OurTracked
  <2> QED
    BY <1>1, <1>4, <1>6, <2>1 DEF Placed, FailToBuild, Visit
<1> QED
  BY <1>2, <1>3, <1>5, <1>6, LeftOthers

LEMMA SendMessagesLeft ==
  ASSUME IInv, LeftInv, NEW i \in Incidents, NEW n \in Notifs, SendMessages(i, n)
  PROVE  LeftInv'
<1>1. turn[i] = "notify" /\ i \in Known /\ Esc(i) \in Escalations
  BY Running DEF SendMessages, Visit
<1>2. PICK e \in Escalations :
        /\ escalationMap' = [escalationMap EXCEPT ![i] = e]
        /\ e.life = Esc(i).life
        /\ e.step = Esc(i).step
        /\ e.messageMap = [Esc(i).messageMap EXCEPT ![n] = "built"]
        /\ e.messageIDList = Listed(i, n)
        /\ \/ e.sentCount = Esc(i).sentCount /\ status' = Added(Current(i, n))
           \/ /\ e.sentCount = [Esc(i).sentCount EXCEPT ![n] = @ + 1]
              /\ status' = Deleted(Current(i, n))
  BY <1>1, SentRecord
<1>3. /\ Known' = Known
      /\ Esc(i)' = e
      /\ \A j \in Incidents \ {i} : Esc(j)' = Esc(j)
  BY <1>1, <1>2, EscUpdate DEF IInv
<1>4. Known' \subseteq Incidents /\ \A j \in Incidents \ {i} : SameEsc(j)
  BY <1>3, KnownEsc DEF IInv, SameEsc, SendMessages, Visit
<1>5. /\ Esc(i).messageMap \in [Notifs -> {"none", "built", "failed"}]
      /\ Esc(i).sentCount \in [Notifs -> Nat]
      /\ Esc(i).messageMap[n] # "failed"
      /\ n \in StepOf(Esc(i).step)
  BY <1>1, EscFields DEF SendMessages, Sending, Visit, IInv, TurnInv
<1>6. Current(i, n) \subseteq IncidentMsgs
  BY <1>1, CurrentMsgs DEF SendMessages, Sending
<1>7. \A m \in Current(i, n) : m[1] = i /\ m[2] = Esc(i).life /\ m[3] = n /\ m[4] = Esc(i).sentCount[n]
  BY RoundShape DEF Current
<1>8. OurTracked' \subseteq OurTracked \union Current(i, n)
  BY <1>2, Ours, AddedOurs, DeletedOurs
<1>9. FirstListed(i)'
  <2>1. ASSUME NEW k \in Notifs, k # n
        PROVE  /\ e.messageMap[k] = Esc(i).messageMap[k]
               /\ e.sentCount[k] = Esc(i).sentCount[k]
    BY <1>2, <1>5, <2>1
  <2>2. Esc(i).messageIDList \subseteq e.messageIDList
    BY <1>2 DEF Listed
  <2>3. e.messageMap[n] = "built"
    BY <1>2, <1>5
  <2>4. MessagesOf(i, e.life, n, 0) \subseteq e.messageIDList
    <3>1. CASE Esc(i).messageMap[n] = "none"
      BY <1>1, <1>2, <3>1 DEF LeftInv, FirstListed, Listed, Current
    <3>2. CASE Esc(i).messageMap[n] = "built"
      BY <1>1, <1>2, <2>2, <3>2 DEF LeftInv, FirstListed
    <3> QED
      BY <1>5, <3>1, <3>2
  <2>5. ASSUME NEW k \in Notifs, k # n
        PROVE  IF e.messageMap[k] = "built" THEN MessagesOf(i, e.life, k, 0) \subseteq e.messageIDList
               ELSE e.sentCount[k] = 0
    <3>1. FirstListed(i) /\ e.life = Esc(i).life
      BY <1>1, <1>2 DEF LeftInv
    <3> QED
      BY <2>1, <2>2, <2>5, <3>1 DEF FirstListed
  <2> QED
    BY <1>3, <2>3, <2>4, <2>5 DEF FirstListed
<1>10. ASSUME NEW m \in OurTracked', m[1] = i
       PROVE  Placed(m)'
  <2>1. m \in IncidentMsgs /\ m[3] \in Notifs /\ lives' = lives
    BY MsgShape DEF OurTracked, SendMessages, Visit
  <2>2. CASE m \in Current(i, n)
    <3>1. status' = Added(Current(i, n)) /\ e.sentCount = Esc(i).sentCount
      BY <1>2, <1>10, <2>2, Ours, DeletedOurs
    <3>2. m[2] <= lives[i]
      BY <1>1, <1>7, <2>2, Bounds, EscFields DEF IInv, LivesInv, TypeOK
    <3> QED
      BY <1>1, <1>2, <1>3, <1>5, <1>7, <1>10, <2>1, <2>2, <3>1, <3>2 DEF Placed
  <2>3. CASE m \notin Current(i, n)
    <3>1. m \in OurTracked /\ Placed(m)
      BY <1>8, <2>3 DEF LeftInv
    <3>2. CASE m[2] # Esc(i).life
      BY <1>1, <1>2, <1>3, <1>10, <2>1, <3>1, <3>2 DEF Placed
    <3>3. CASE m[2] = Esc(i).life
      <4>1. m[4] = Esc(i).sentCount[m[3]] /\ Esc(i).messageMap[m[3]] = "built"
        BY <1>1, <1>10, <3>1, <3>3 DEF Placed
      <4>2. m[3] # n
        <5>1. m \in MessagesOf(m[1], m[2], m[3], m[4])
          BY <2>1, MsgShape
        <5> QED
          BY <1>10, <2>3, <3>3, <4>1, <5>1 DEF Current
      <4>3. e.sentCount[m[3]] = Esc(i).sentCount[m[3]] /\ e.messageMap[m[3]] = "built"
        BY <1>2, <1>5, <2>1, <4>1, <4>2
      <4> QED
        BY <1>1, <1>2, <1>3, <1>10, <2>1, <3>1, <3>3, <4>1, <4>3 DEF Placed
    <3> QED
      BY <3>2, <3>3
  <2> QED
    BY <2>2, <2>3
<1>11. \A m \in OurTracked' : m[1] # i => m \in OurTracked
  BY <1>7, <1>8
<1> QED
  BY <1>3, <1>4, <1>9, <1>10, <1>11, LeftOthers

(* A new escalation has no message yet, for its life is a new one.          *)
LEMMA AddNewIncidentsLeft ==
  ASSUME IInv, LeftInv, AddNewIncidents
  PROVE  LeftInv'
<1>1. PICK failed \in SUBSET Incidents :
        LET new == {i \in Incidents \ failed : fetched[i] # None /\ i \notin Known /\ ~queueFull}
        IN  /\ escalationMap' = [i \in Incidents |->
                                   IF i \in new THEN NewEscalation(i) ELSE escalationMap[i]]
            /\ lives' = [i \in Incidents |-> IF i \in new THEN lives[i] + 1 ELSE lives[i]]
  BY DEF AddNewIncidents
<1> DEFINE new == {i \in Incidents \ failed : fetched[i] # None /\ i \notin Known /\ ~queueFull}
<1>2. /\ new \subseteq Incidents /\ new \intersect Known = {} /\ \A i \in new : fetched[i] # None
      /\ escalationMap' = [i \in Incidents |-> IF i \in new THEN NewEscalation(i) ELSE escalationMap[i]]
      /\ lives' = [i \in Incidents |-> IF i \in new THEN lives[i] + 1 ELSE lives[i]]
  BY <1>1
<1> HIDE DEF new
<1>3. ASSUME NEW i \in new
      PROVE  /\ NewEscalation(i) \in Escalations
             /\ NewEscalation(i).life = lives[i] + 1
             /\ \A n \in Notifs : /\ NewEscalation(i).sentCount[n] = 0
                                  /\ NewEscalation(i).messageMap[n] = "none"
             /\ lives[i] \in Nat
  <2>1. i \in Incidents /\ fetched[i] # None /\ i \notin Known
    BY <1>2
  <2>2. lives[i] <= MaxFaults /\ lives[i] \in Nat
    BY <2>1, Bounds DEF IInv, LivesInv, TypeOK
  <2> QED
    BY <2>1, <2>2, NewIs DEF IInv
<1>4. /\ Known' = Known \union new
      /\ \A i \in new : Esc(i)' = NewEscalation(i)
      /\ \A i \in Incidents \ new : Esc(i)' = Esc(i)
  BY <1>2, <1>3, Nothing DEF IInv, TypeOK, Known, Esc
<1>5. \A i \in Incidents \ new : SameEsc(i)
  BY <1>2, <1>4 DEF SameEsc
<1>6. ASSUME NEW i \in Known'
      PROVE  FirstListed(i)'
  <2>1. CASE i \in new
    BY <1>3, <1>4, <2>1 DEF FirstListed
  <2>2. CASE i \notin new
    BY <1>4, <1>5, <2>2, KnownEsc, ListedStays DEF IInv, LeftInv
  <2> QED
    BY <2>1, <2>2
<1>7. ASSUME NEW m \in OurTracked'
      PROVE  Placed(m)'
  <2>1. m \in OurTracked /\ m \in IncidentMsgs /\ Placed(m)
    BY DEF AddNewIncidents, OurTracked, Tracker!Tracked, LeftInv
  <2>2. m[1] \in Incidents /\ m[2] \in Nat
    BY <2>1, MsgShape, Bounds
  <2>3. CASE m[1] \in new
    <3>1. m[2] <= lives[m[1]] /\ m[4] > 0
      BY <1>2, <2>1, <2>3 DEF Placed
    <3>2. lives'[m[1]] = lives[m[1]] + 1 /\ Esc(m[1])'.life = lives[m[1]] + 1
      BY <1>2, <1>3, <1>4, <2>2, <2>3
    <3> QED
      BY <1>3, <2>2, <2>3, <3>1, <3>2 DEF Placed
  <2>4. CASE m[1] \notin new
    BY <1>5, <2>1, <2>2, <2>4, PlacedStays
  <2> QED
    BY <2>3, <2>4
<1> QED
  BY <1>6, <1>7 DEF LeftInv

LEMMA CrashLeft ==
  ASSUME Crash
  PROVE  LeftInv'
<1>1. Known' = {}
  BY DEF Crash, Known
<1>2. OurTracked' = {}
  BY Ours, DeletedOurs DEF Crash, OurTracked
<1> QED
  BY <1>1, <1>2 DEF LeftInv

(* The tracker is empty at first.                                           *)
LEMMA LeftInit == Init => LeftInv
<1> SUFFICES ASSUME Init PROVE LeftInv
  OBVIOUS
<1>1. Known = {}
  BY DEF Init, Known
<1>2. OurTracked = {}
  BY DEF Init, Tracker!Init, OurTracked, Tracker!Tracked
<1> QED
  BY <1>1, <1>2 DEF LeftInv

(* Every action keeps LeftInv.                                              *)
LEMMA NextLeft == IInv /\ LeftInv /\ [Next]_vars => LeftInv'
<1> SUFFICES ASSUME IInv, LeftInv, [Next]_vars PROVE LeftInv'
  OBVIOUS
<1>1. CASE RunOnce
  BY <1>1, FetchIncidentsLeft, AddNewIncidentsLeft, EndLoopLeft, DeactivateLeft DEF RunOnce
<1>2. ASSUME NEW i \in Incidents, Escalate(i)
      PROVE  LeftInv'
  <2>1. CASE BeginStep(i) \/ BeginEscalation(i)
    BY <2>1, BeginStepLeft, BeginEscalationLeft
  <2>2. ASSUME NEW n \in Notifs, SkipNotification(i, n) \/ FailToBuild(i, n) \/ SendMessages(i, n)
        PROVE  LeftInv'
    BY <2>2, SkipNotificationLeft, FailToBuildLeft, SendMessagesLeft
  <2>3. CASE StayInStep(i) \/ NextStep(i) \/ EndPlan(i)
    BY <2>3, StayInStepLeft, NextStepLeft, EndPlanLeft
  <2> QED
    BY <1>2, <2>1, <2>2, <2>3 DEF Escalate
<1>3. ASSUME NEW i \in Incidents, Claim(i) \/ \E n \in Notifs : WaitOver(i, n)
      PROVE  LeftInv'
  BY <1>3, ClaimLeft, WaitOverLeft
<1>4. ASSUME NEW m \in Msgs, VendorSettles(m) \/ VendorDeletes(m)
      PROVE  LeftInv'
  BY <1>4, VendorSettlesLeft, VendorDeletesLeft
<1>5. CASE RefreshQueueFull \/ Crash
  BY <1>5, RefreshQueueFullLeft, CrashLeft
<1>6. CASE UNCHANGED vars
  <2>1. Known' = Known /\ \A i \in Incidents : SameEsc(i)
    BY <1>6 DEF vars, SameEsc, Known, Esc
  <2>2. OurTracked' = OurTracked
    BY <1>6 DEF vars, OurTracked, Tracker!Tracked
  <2> QED
    BY <2>1, <2>2, KnownEsc, LeftAlone DEF IInv
<1> QED
  BY <1>1, <1>2, <1>3, <1>4, <1>5, <1>6 DEF Next

(* What an escalation leaves in the tracker when it is forgotten are repeats*)
(* of its notifications, never the first round; what is there while it is   *)
(* under way belongs to its step and to the current rounds.                 *)
THEOREM NothingElseLeft == Spec => []OnlyRepeatsLeftBehind
<1>1. LeftInv => OnlyRepeatsLeftBehind
  BY DEF LeftInv, Placed, OurTracked, OnlyRepeatsLeftBehind
<1>2. Spec => []LeftInv
  BY LeftInit, NextLeft, Invariance, PTL DEF Spec
<1> QED
  BY <1>1, <1>2, PTL

(* Repeats are all there is to NoOrphans failing: with a plan that repeats  *)
(* nothing, every message of an incident in the tracker belongs to an       *)
(* escalation that is under way, through failed calls and restarts.         *)
THEOREM OrphansAreRepeats ==
  (\A n \in Notifs : Repeat[n] = 0) => (Spec => []NoOrphans)
<1> SUFFICES ASSUME \A n \in Notifs : Repeat[n] = 0
             PROVE  Spec => []NoOrphans
  OBVIOUS
<1>1. OnlyRepeatsLeftBehind => NoOrphans
  <2> SUFFICES ASSUME OnlyRepeatsLeftBehind, NEW m \in Tracker!Tracked \intersect IncidentMsgs
               PROVE  m[1] \in Known /\ Esc(m[1]).life = m[2]
    BY DEF NoOrphans
  <2>1. ~(m[4] > 0)
    BY MsgShape
  <2> QED
    BY <2>1 DEF OnlyRepeatsLeftBehind
<1> QED
  BY <1>1, NothingElseLeft, PTL
=============================================================================
