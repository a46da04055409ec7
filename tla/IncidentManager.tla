--------------------------- MODULE IncidentManager ---------------------------
(***************************************************************************)
(* The incident manager (incidentManager.go): every loop it fetches the    *)
(* incidents Iris has assigned to this process, forgets those that are no  *)
(* longer among them, takes in the new ones, and escalates each: builds    *)
(* the notifications of the current plan step, hands their messages to the *)
(* message queue manager, repeats them, and moves Iris to the next step.   *)
(*                                                                         *)
(* The only durable state is in Iris, which is reached by calls that fail, *)
(* or fail after they took effect.  The message queue manager is the       *)
(* MessageTracker that MessageQueueManager implements.                     *)
(*                                                                         *)
(* An escalation lives from addNewIncidents to deleteIncident or a crash;  *)
(* an incident has several lives when it is forgotten and fetched again.   *)
(* The UUID of a message is <<incident, life, notification, round, part>>: *)
(* the code draws new ones exactly when one of these changes.              *)
(***************************************************************************)
EXTENDS Naturals, Sequences, FiniteSets

CONSTANTS
  Incidents,
  Plan,            \* the steps of the plan, each a set of notifications
  Repeat,          \* notification |-> how often it is repeated
  Waiting,         \* the notifications with a wait time; the others repeat at once
  Parts,           \* notification |-> its messages, FCM clones included
  Optional,        \* the notifications whose failure is not reported
  Tracking,        \* TRUE iff the plan has a tracking template
  MaxQueueLength,
  MaxFaults,       \* bound: lost fetches, failed calls and crashes
  None

Notifs    == UNION {Plan[s] : s \in DOMAIN Plan}
LastStep  == Len(Plan) - 1                  \* steps are counted from 0,
StepOf(s) == Plan[s + 1]                    \* sequences from 1

ASSUME PlanAssumption ==
  /\ Plan \in Seq(SUBSET Notifs) /\ Len(Plan) > 0
  /\ \A s, t \in DOMAIN Plan : s # t => Plan[s] \intersect Plan[t] = {}
ASSUME NotifsAssumption ==
  /\ \A n \in Notifs : Repeat[n] \in Nat /\ Parts[n] # {} /\ IsFiniteSet(Parts[n])
  /\ Waiting \subseteq Notifs /\ Optional \subseteq Notifs
ASSUME BoundsAssumption == MaxQueueLength \in Nat /\ MaxFaults \in Nat

Lives == 1 .. MaxFaults + 1   \* every life after the first is the price of a fault

MessagesOf(i, life, n, round) == {<<i, life, n, round, p>> : p \in Parts[n]}
IncidentMsgs == UNION {UNION {MessagesOf(i, l, n, r) : r \in 0 .. Repeat[n]} :
                         i \in Incidents, l \in Lives, n \in Notifs}
ErrorMsg(i, life, n) == <<i, life, n, "error">>
TrackingMsg(i, life) == <<i, life, "tracking">>
VendorOwned == {ErrorMsg(i, l, n) : i \in Incidents, l \in Lives, n \in Notifs}
                 \union {TrackingMsg(i, l) : i \in Incidents, l \in Lives}

Msgs == IncidentMsgs \union VendorOwned

(* IncidentEscalation: what the manager keeps about one escalation.        *)
Escalations ==
  [life          : Lives,
   step          : 0 .. LastStep,
   started       : BOOLEAN,
   sentCount     : [Notifs -> Nat],
   waited        : SUBSET Notifs,
   messageMap    : [Notifs -> {"none", "built", "failed"}],
   messageIDList : SUBSET IncidentMsgs]

ASSUME NoneAssumption == None \notin Nat \union Escalations

VARIABLES
  (* Iris *)
  irisStep,        \* incident |-> current_step: 0 before escalation, then 1 + our step
  irisActive,      \* incident |-> active and assigned to this process
  claimed,         \* history: incidents a user claimed, or Iris moved elsewhere
  (* the message queue manager *)
  status, queueFull,
  (* the incident manager *)
  loop,            \* where RunOnce stands
  fetched,         \* activeIncidentList: incident |-> the step Iris told, or None
  escalationMap,   \* incident |-> its escalation, or None
  turn,            \* incident |-> where escalate stands in this loop
  todo,            \* incident |-> notifications this escalate has not visited
  doneWithStep,    \* incident |-> the flag of this escalate
  lives,           \* history: incident |-> escalations begun
  handled,         \* history: incident |-> notifications sent to the end, or failed
  faults           \* how many faults have happened

irisVars    == <<irisStep, irisActive>>
escalateVars == <<turn, todo, doneWithStep>>
vars == <<irisVars, claimed, status, queueFull, loop, fetched, escalationMap, escalateVars,
          lives, handled, faults>>

Tracker == INSTANCE MessageTracker

Init ==
  /\ irisStep = [i \in Incidents |-> 0]
  /\ irisActive = [i \in Incidents |-> TRUE]
  /\ claimed = {}
  /\ Tracker!Init
  /\ loop = "idle"
  /\ fetched = [i \in Incidents |-> None]
  /\ escalationMap = [i \in Incidents |-> None]
  /\ turn = [i \in Incidents |-> "off"]
  /\ todo = [i \in Incidents |-> {}]
  /\ doneWithStep = [i \in Incidents |-> TRUE]
  /\ lives = [i \in Incidents |-> 0]
  /\ handled = [i \in Incidents |-> {}]
  /\ faults = 0

Known == {i \in Incidents : escalationMap[i] # None}

Fault == faults < MaxFaults /\ faults' = faults + 1

-----------------------------------------------------------------------------
(* The tracker, for a set of messages at a time *)

Added(S)   == [m \in Msgs |-> IF m \in S /\ status[m] = "none" THEN "active" ELSE status[m]]
Deleted(S) == [m \in Msgs |-> IF m \in S /\ m \in Tracker!Tracked THEN "gone" ELSE status[m]]

(* The vendors settle messages and delete those that no incident owns.      *)
VendorSettles(m) ==
  /\ Tracker!Settle(m)
  /\ UNCHANGED <<irisVars, claimed, loop, fetched, escalationMap, escalateVars, lives, handled, faults>>

VendorDeletes(m) ==
  /\ m \in VendorOwned
  /\ status[m] = "inactive"
  /\ Tracker!Delete(m)
  /\ UNCHANGED <<irisVars, claimed, loop, fetched, escalationMap, escalateVars, lives, handled, faults>>

RefreshQueueFull ==
  /\ Tracker!Refresh
  /\ UNCHANGED <<irisVars, claimed, loop, fetched, escalationMap, escalateVars, lives, handled, faults>>

-----------------------------------------------------------------------------
(* Iris *)

(* A user claims the incident, or Iris assigns it to another process.       *)
Claim(i) ==
  /\ irisActive[i]
  /\ irisActive' = [irisActive EXCEPT ![i] = FALSE]
  /\ claimed' = claimed \union {i}
  /\ UNCHANGED <<irisStep, status, queueFull, loop, fetched, escalationMap, escalateVars,
                 lives, handled, faults>>

(* PostEscalateIncident: Iris stores the step and whether the incident is   *)
(* still active.  It may ignore the call if the incident is not (any more). *)
(* A call that fails may have taken effect all the same.                    *)
PostEscalateIncident(i, step, active, ok) ==
  \E applied \in BOOLEAN :
    /\ ok /\ irisActive[i] => applied
    /\ IF applied
       THEN /\ irisStep' = [irisStep EXCEPT ![i] = step]
            /\ irisActive' = [irisActive EXCEPT ![i] = active]
       ELSE UNCHANGED irisVars
    /\ IF ok THEN UNCHANGED faults ELSE Fault

-----------------------------------------------------------------------------
(* RunOnce *)

(* The details come in concurrent batches; a batch that fails is missing.   *)
(* (A failed GetIncidentIDs ends the loop and changes nothing.)             *)
FetchIncidents ==
  /\ loop = "idle"
  /\ \E lost \in SUBSET {i \in Incidents : irisActive[i]} :
       /\ fetched' = [i \in Incidents |->
                        IF irisActive[i] /\ i \notin lost THEN irisStep[i] ELSE None]
       /\ IF lost = {} THEN UNCHANGED faults ELSE Fault
  /\ loop' = "fetched"
  /\ UNCHANGED <<irisVars, claimed, status, queueFull, escalationMap, escalateVars, lives, handled>>

(* mutant: the messages stay in the tracker *)
DeleteIncidentOnly(i) ==
  /\ UNCHANGED status
  /\ escalationMap' = [escalationMap EXCEPT ![i] = None]

(* deleteIncident: the messages whose ids the escalation has listed leave   *)
(* the tracker (what is active among them is persisted as dropped).         *)
DeleteIncident(i) ==
  /\ status' = Deleted(escalationMap[i].messageIDList)
  /\ escalationMap' = [escalationMap EXCEPT ![i] = None]

Stale == {i \in Known : fetched[i] = None}

Deactivate(i) ==
  /\ loop = "fetched"
  /\ i \in Stale
  /\ DeleteIncident(i)
  /\ UNCHANGED <<irisVars, claimed, queueFull, loop, fetched, escalateVars, lives, handled, faults>>

(* mutants: the step that Iris shows is taken as it is, or not at all *)
UncorrectedStep(i) == fetched[i]
StartOver(i)       == 0

FirstStep(i) == IF fetched[i] > 0 THEN fetched[i] - 1 ELSE 0

NewEscalation(i) ==
  [life          |-> lives[i] + 1,
   step          |-> FirstStep(i),
   started       |-> FALSE,                      \* notificationMap has the current step
   sentCount     |-> [n \in Notifs |-> 0],
   waited        |-> Notifs,                     \* time since LastSent is at least Wait
   messageMap    |-> [n \in Notifs |-> "none"],  \* "built", or "failed" (an empty list)
   messageIDList |-> {}]

(* Take in what is new unless the queue is full; an incident whose plan     *)
(* cannot be fetched is forgotten until the next loop.  Then start to       *)
(* escalate every incident.                                                 *)
AddNewIncidents ==
  /\ loop = "fetched"
  /\ Stale = {}
  /\ \E failed \in SUBSET {i \in Incidents : fetched[i] # None /\ i \notin Known /\ ~queueFull} :
       LET new == {i \in Incidents \ failed : fetched[i] # None /\ i \notin Known /\ ~queueFull}
       IN  /\ escalationMap' = [i \in Incidents |->
                                  IF i \in new THEN NewEscalation(i) ELSE escalationMap[i]]
           /\ lives' = [i \in Incidents |-> IF i \in new THEN lives[i] + 1 ELSE lives[i]]
           /\ turn' = [i \in Incidents |-> IF i \in Known \union new THEN "begin" ELSE "off"]
           /\ IF failed = {} THEN UNCHANGED faults ELSE Fault
  /\ loop' = "escalate"
  /\ fetched' = [i \in Incidents |-> None]
  /\ UNCHANGED <<irisVars, claimed, status, queueFull, todo, doneWithStep, handled>>

(* escalateWg.Wait() returns: the loop is over.                             *)
EndLoop ==
  /\ loop = "escalate"
  /\ \A i \in Incidents : turn[i] = "off"
  /\ loop' = "idle"
  /\ UNCHANGED <<irisVars, claimed, status, queueFull, fetched, escalationMap, escalateVars,
                 lives, handled, faults>>

-----------------------------------------------------------------------------
(* escalate, one goroutine per incident *)

Esc(i) == escalationMap[i]

StartStep(i) ==
  /\ escalationMap' = [escalationMap EXCEPT ![i].started = TRUE]
  /\ turn' = [turn EXCEPT ![i] = "notify"]
  /\ todo' = [todo EXCEPT ![i] = StepOf(Esc(i).step)]
  /\ doneWithStep' = [doneWithStep EXCEPT ![i] = TRUE]

(* The step was started in an earlier loop, or is not the first: go on.     *)
BeginStep(i) ==
  /\ turn[i] = "begin"
  /\ Esc(i).started \/ Esc(i).step > 0
  /\ StartStep(i)
  /\ UNCHANGED <<irisVars, claimed, status, queueFull, loop, fetched, lives, handled, faults>>

(* The first step: tell Iris that the escalation has begun, and send the    *)
(* tracking message.  If the call fails, try again in the next loop.        *)
BeginEscalation(i) ==
  /\ turn[i] = "begin"
  /\ ~Esc(i).started /\ Esc(i).step = 0
  /\ \E ok \in BOOLEAN :
       /\ PostEscalateIncident(i, 1, TRUE, ok)
       /\ IF ok
          THEN /\ StartStep(i)
               /\ status' = Added(IF Tracking THEN {TrackingMsg(i, Esc(i).life)} ELSE {})
          ELSE /\ turn' = [turn EXCEPT ![i] = "off"]
               /\ UNCHANGED <<status, escalationMap, todo, doneWithStep>>
  /\ UNCHANGED <<claimed, queueFull, loop, fetched, lives, handled>>

(* Visit one notification of the step, in any order.  NotDone says that the *)
(* step cannot be left in this loop.                                        *)
Visit(i, n) == /\ turn[i] = "notify"
               /\ n \in todo[i]
               /\ todo' = [todo EXCEPT ![i] = @ \ {n}]
               /\ UNCHANGED <<irisVars, claimed, queueFull, loop, fetched, turn, lives>>

(* mutant: the flag is not cleared *)
NotDoneForgotten(i) == UNCHANGED doneWithStep

NotDone(i) == doneWithStep' = [doneWithStep EXCEPT ![i] = FALSE]

Sending(i, n) == /\ Esc(i).messageMap[n] # "failed"
                 /\ Esc(i).sentCount[n] <= Repeat[n]
                 /\ n \in Esc(i).waited

(* mutant: a notification that failed to build keeps the step open *)
AllSent(i, n) == Esc(i).sentCount[n] > Repeat[n] /\ n \in Esc(i).waited

Finished(i, n) == \/ Esc(i).messageMap[n] = "failed"
                  \/ Esc(i).sentCount[n] > Repeat[n] /\ n \in Esc(i).waited

(* It failed to build, or was sent often enough, or has to wait.            *)
SkipNotification(i, n) ==
  /\ Visit(i, n)
  /\ ~Sending(i, n)
  /\ IF Finished(i, n) THEN UNCHANGED doneWithStep ELSE NotDone(i)
  /\ UNCHANGED <<status, escalationMap, handled, faults>>

(* The first time, Iris renders the messages; if it fails the notification  *)
(* is given up, which is reported by a message unless it is optional.       *)
FailToBuild(i, n) ==
  /\ Visit(i, n)
  /\ Sending(i, n)
  /\ Esc(i).messageMap[n] = "none"
  /\ NotDone(i)
  /\ escalationMap' = [escalationMap EXCEPT ![i].messageMap[n] = "failed"]
  /\ status' = Added(IF n \in Optional THEN {} ELSE {ErrorMsg(i, Esc(i).life, n)})
  /\ handled' = [handled EXCEPT ![i] = @ \union {n}]
  /\ Fault

(* Add the messages of this round unless they are there; when all of them   *)
(* have become inactive, count the round, delete them and draw new ids.     *)
(* Only the ids of round 0 are ever put on messageIDList.                   *)
SendMessages(i, n) ==
  /\ Visit(i, n)
  /\ Sending(i, n)
  /\ NotDone(i)
  /\ LET e       == Esc(i)
         current == MessagesOf(i, e.life, n, e.sentCount[n])
         listed  == IF e.messageMap[n] = "none" THEN e.messageIDList \union current
                    ELSE e.messageIDList
         allMessagesSent == \A m \in current : status[m] = "inactive"
         updated == [e EXCEPT !.messageMap[n] = "built", !.messageIDList = listed]
     IN  IF allMessagesSent
         THEN /\ escalationMap' = [escalationMap EXCEPT ![i] =
                   [updated EXCEPT !.sentCount[n] = @ + 1,
                                   !.waited = IF n \in Waiting THEN @ \ {n} ELSE @]]
              /\ status' = Deleted(current)
              /\ handled' = IF e.sentCount[n] = Repeat[n]
                            THEN [handled EXCEPT ![i] = @ \union {n}] ELSE handled
         ELSE /\ escalationMap' = [escalationMap EXCEPT ![i] = updated]
              /\ status' = Added(current)
              /\ UNCHANGED handled
  /\ UNCHANGED faults

(* All notifications are visited and the step is not over: wait for the     *)
(* next loop.                                                               *)
StayInStep(i) ==
  /\ turn[i] = "notify" /\ todo[i] = {}
  /\ ~doneWithStep[i]
  /\ turn' = [turn EXCEPT ![i] = "off"]
  /\ UNCHANGED <<irisVars, claimed, status, queueFull, loop, fetched, escalationMap, todo,
                 doneWithStep, lives, handled, faults>>

(* The step is over: tell Iris, and go on even if that fails.               *)
NextStep(i) ==
  /\ turn[i] = "notify" /\ todo[i] = {}
  /\ doneWithStep[i]
  /\ Esc(i).step < LastStep
  /\ \E ok \in BOOLEAN : PostEscalateIncident(i, Esc(i).step + 2, TRUE, ok)
  /\ escalationMap' = [escalationMap EXCEPT ![i].step = @ + 1, ![i].started = FALSE]
  /\ turn' = [turn EXCEPT ![i] = "off"]
  /\ UNCHANGED <<claimed, status, queueFull, loop, fetched, todo, doneWithStep, lives, handled>>

(* The plan is over: deactivate the incident in Iris, and forget it even if *)
(* that fails.                                                              *)
EndPlan(i) ==
  /\ turn[i] = "notify" /\ todo[i] = {}
  /\ doneWithStep[i]
  /\ Esc(i).step >= LastStep
  /\ \E ok \in BOOLEAN : PostEscalateIncident(i, Esc(i).step + 1, FALSE, ok)
  /\ DeleteIncident(i)
  /\ turn' = [turn EXCEPT ![i] = "off"]
  /\ UNCHANGED <<claimed, queueFull, loop, fetched, todo, doneWithStep, lives, handled>>

-----------------------------------------------------------------------------
(* The wait time of a notification passes.                                  *)
WaitOver(i, n) ==
  /\ i \in Known
  /\ n \in Notifs \ Esc(i).waited
  /\ escalationMap' = [escalationMap EXCEPT ![i].waited = @ \union {n}]
  /\ UNCHANGED <<irisVars, claimed, status, queueFull, loop, fetched, escalateVars,
                 lives, handled, faults>>

(* The process dies and is started again: everything in memory is lost.     *)
Crash ==
  /\ Fault
  /\ status' = Deleted(Msgs)
  /\ queueFull' = FALSE
  /\ loop' = "idle"
  /\ fetched' = [i \in Incidents |-> None]
  /\ escalationMap' = [i \in Incidents |-> None]
  /\ turn' = [i \in Incidents |-> "off"]
  /\ todo' = [i \in Incidents |-> {}]
  /\ doneWithStep' = [i \in Incidents |-> TRUE]
  /\ UNCHANGED <<irisVars, claimed, lives, handled>>

Escalate(i) ==
  \/ BeginStep(i) \/ BeginEscalation(i)
  \/ \E n \in Notifs : SkipNotification(i, n) \/ FailToBuild(i, n) \/ SendMessages(i, n)
  \/ StayInStep(i) \/ NextStep(i) \/ EndPlan(i)

RunOnce == FetchIncidents \/ AddNewIncidents \/ EndLoop \/ \E i \in Incidents : Deactivate(i)

Next ==
  \/ RunOnce
  \/ \E i \in Incidents : Escalate(i) \/ Claim(i) \/ \E n \in Notifs : WaitOver(i, n)
  \/ \E m \in Msgs : VendorSettles(m) \/ VendorDeletes(m)
  \/ RefreshQueueFull
  \/ Crash

Spec == Init /\ [][Next]_vars

(* The ticker drives RunOnce, which waits for every escalate goroutine; the *)
(* message queue manager settles every message (Progress of MessageTracker, *)
(* which MessageQueueManager implements); time passes.  Faults need not     *)
(* happen, and there are at most MaxFaults of them.                         *)
Fairness ==
  /\ WF_vars(RunOnce)
  /\ WF_vars(RefreshQueueFull)
  /\ \A i \in Incidents : /\ WF_vars(Escalate(i))
                          /\ \A n \in Notifs : WF_vars(WaitOver(i, n))
  /\ \A m \in Msgs : WF_vars(VendorSettles(m))

FairSpec == Spec /\ Fairness
-----------------------------------------------------------------------------
(* Properties *)

TypeOK ==
  /\ irisStep \in [Incidents -> 0 .. LastStep + 1]
  /\ irisActive \in [Incidents -> BOOLEAN]
  /\ claimed \subseteq Incidents
  /\ status \in [Msgs -> {"none", "active", "inactive", "gone"}]
  /\ queueFull \in BOOLEAN
  /\ loop \in {"idle", "fetched", "escalate"}
  /\ fetched \in [Incidents -> (0 .. LastStep + 1) \union {None}]
  /\ escalationMap \in [Incidents -> Escalations \union {None}]
  /\ turn \in [Incidents -> {"off", "begin", "notify"}]
  /\ \A i \in Incidents : turn[i] # "off" => i \in Known
  /\ todo \in [Incidents -> SUBSET Notifs]
  /\ doneWithStep \in [Incidents -> BOOLEAN]
  /\ lives \in [Incidents -> 0 .. MaxFaults + 1]
  /\ handled \in [Incidents -> SUBSET Notifs]
  /\ faults \in 0 .. MaxFaults

(* Iris has moved past a step only if each of its notifications was sent as  *)
(* often as the plan says, or could not be built; and it has an incident     *)
(* nobody claimed as inactive only if that holds of the whole plan.  So no   *)
(* failed call, lost batch or restart makes the escalation skip anybody.     *)
NoStepSkipped ==
  \A i \in Incidents :
    /\ \A s \in 0 .. LastStep : irisStep[i] >= s + 2 => StepOf(s) \subseteq handled[i]
    /\ ~irisActive[i] /\ i \notin claimed => handled[i] = Notifs

(* The step that Iris shows never goes back, although the incident manager   *)
(* counts on when a call fails, and starts again from what Iris tells.       *)
IrisStepMonotone == [][\A i \in Incidents : irisStep'[i] >= irisStep[i]]_vars

(* What the tracker holds for an escalation under way belongs to its current *)
(* step and round: a step leaves nothing behind.  All that outlives its own  *)
(* escalation are repeats, whose ids are not on messageIDList.               *)
OnlyRepeatsLeftBehind ==
  \A m \in Tracker!Tracked \intersect IncidentMsgs :
    LET i == m[1]
    IN  IF i \in Known /\ Esc(i).life = m[2]
        THEN m[3] \in StepOf(Esc(i).step) /\ m[4] = Esc(i).sentCount[m[3]]
        ELSE m[4] > 0

(* Every incident is escalated to the end of its plan, unless it is claimed, *)
(* or the back-pressure keeps coming back: new incidents then wait.          *)
EveryIncidentEnds ==
  <>[]~queueFull => \A i \in Incidents : irisActive[i] ~> ~irisActive[i]

(* messageQueueManager.go:288: the incident manager cleans up the messages   *)
(* of incidents.                                                             *)
NoOrphans ==
  \A m \in Tracker!Tracked \intersect IncidentMsgs :
    m[1] \in Known /\ Esc(m[1]).life = m[2]

(* incidentManager.go:682: incidents that are removed are no longer active.  *)
RemovesOnlyInactive == [][\A i \in Incidents : Deactivate(i) => ~irisActive[i]]_vars
=============================================================================
