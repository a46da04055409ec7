---------------------------- MODULE Notifications ----------------------------
(***************************************************************************)
(* What goes into the messages of one incident (incidentManager.go), on two *)
(* sides that run side by side:                                            *)
(*   escalate and createTrackingMessage put the variables "iris" of what    *)
(*     they are about into the incident's Context and have Iris render it.  *)
(*     The Context is a Go map, and a Notification holds a reference to it:  *)
(*     all notifications of the incident share one entry "iris".            *)
(*   triggerAggregationMessages, a goroutine of its own when the incident   *)
(*     trips the aggregation, asks Iris who is behind each notification of   *)
(*     the plan and gathers one destination per mode and target.            *)
(* What becomes of the messages is in MessageQueueManager, when an           *)
(* escalation moves on in IncidentManager.                                  *)
(***************************************************************************)
EXTENDS Naturals, Sequences

CONSTANTS
  Steps,         \* plan.Steps: a sequence of sequences of notifications
  Targets, OtherModes, Destinations

EmailMode == "email"
Modes == OtherModes \union {EmailMode}

(* Notification k of step s is <<s, k>>.                                    *)
PlanNotes == UNION {{<<s, k>> : k \in DOMAIN Steps[s]} : s \in DOMAIN Steps}

Tracking == <<0, 0>>     \* the tracking message, and its variables

VARIABLES
  tracked,          \* the plan has a tracking template for the application
  at,               \* "tracking", "setup" or "send": where escalate is
  step,             \* currStep + 1
  ready,            \* len(notificationMap[currStep])
  iris,             \* whose variables are under Context["iris"]
  rendered,         \* history: <<what, the variables Iris was sent for it>>
  triggered,        \* countIncident asked for the notices
  asked,            \* the notifications Iris was asked about
  destinationMap,   \* <<mode, target>> |-> destination
  offered,          \* history: <<mode, target, destination>> that Iris named
  told,             \* the entries of destinationMap that were sent to
  notices           \* the messages, <<mode, target, destination>>, in order

escalateVars == <<tracked, at, step, ready, iris, rendered>>
noticeVars   == <<triggered, asked, destinationMap, offered, told, notices>>
vars == <<escalateVars, noticeVars>>

Init ==
  /\ tracked \in BOOLEAN
  /\ at = "tracking"
  /\ step = 1
  /\ ready = 0
  /\ iris = <<>>
  /\ rendered = {}
  /\ triggered \in BOOLEAN
  /\ asked = {}
  /\ destinationMap = <<>>
  /\ offered = {}
  /\ told = {}
  /\ notices = <<>>

-----------------------------------------------------------------------------
(* escalate *)

(* The first call: the tracking message is rendered right away.             *)
CreateTrackingMessage ==
  /\ at = "tracking"
  /\ at' = "setup"
  /\ \/ tracked /\ iris' = Tracking /\ rendered' = rendered \union {<<Tracking, Tracking>>}
     \/ ~tracked /\ UNCHANGED <<iris, rendered>>
  /\ UNCHANGED <<tracked, step, ready, noticeVars>>

(* The notifications of the step are set up one after the other ...        *)
InitNotification ==
  /\ at = "setup"
  /\ step <= Len(Steps)
  /\ ready < Len(Steps[step])
  /\ ready' = ready + 1
  /\ iris' = <<step, ready + 1>>
  /\ UNCHANGED <<tracked, at, step, rendered, noticeVars>>

StepReady ==
  /\ at = "setup"
  /\ step <= Len(Steps)
  /\ ready = Len(Steps[step])
  /\ at' = "send"
  /\ UNCHANGED <<tracked, step, ready, iris, rendered, noticeVars>>

Built(p) == \E r \in rendered : r[1] = p

(* ... and built, each once, when all of them have been set up.             *)
GetBuildMessage(p) ==
  /\ at = "send"
  /\ p \in PlanNotes
  /\ p[1] = step
  /\ ~Built(p)
  /\ rendered' = rendered \union {<<p, iris>>}
  /\ UNCHANGED <<tracked, at, step, ready, iris, noticeVars>>

(* The step is only over when every notification has been built, or has     *)
(* failed to be.                                                           *)
NextStep ==
  /\ at = "send"
  /\ \A p \in PlanNotes : p[1] = step => Built(p)
  /\ step < Len(Steps)
  /\ at' = "setup"
  /\ step' = step + 1
  /\ ready' = 0
  /\ UNCHANGED <<tracked, iris, rendered, noticeVars>>

-----------------------------------------------------------------------------
(* triggerAggregationMessages *)

(* A user as GetRoleTarget describes them, with the mode they want for the   *)
(* priority of the notification or else its default ("" if there is none).  *)
UserInfo == [mode : Modes \union {""}, contacts : UNION {[M -> Destinations] : M \in SUBSET Modes}]

UserInfoMaps == UNION {[T -> UserInfo] : T \in SUBSET Targets}

(* The mode they are reached by: the wanted one or email.                   *)
Via(user) == IF user.mode \in DOMAIN user.contacts THEN user.mode ELSE EmailMode

Reachable(user) == Via(user) \in DOMAIN user.contacts

Entries(users) == {<<Via(users[t]), t>> : t \in {u \in DOMAIN users : Reachable(users[u])}}

Before(p, q) == p[1] < q[1] \/ (p[1] = q[1] /\ p[2] < q[2])

Turn(p) ==
  /\ triggered
  /\ p \in PlanNotes \ asked
  /\ \A q \in PlanNotes \ asked : q = p \/ Before(p, q)

(* Iris resolves role and target: later answers replace earlier ones.       *)
Resolve(p, users) ==
  /\ Turn(p)
  /\ asked' = asked \union {p}
  /\ destinationMap' = [e \in DOMAIN destinationMap \union Entries(users) |->
                          IF e \in Entries(users) THEN users[e[2]].contacts[e[1]] ELSE destinationMap[e]]
  /\ offered' = offered \union {<<e[1], e[2], users[e[2]].contacts[e[1]]>> : e \in Entries(users)}
  /\ UNCHANGED <<triggered, told, notices, escalateVars>>

(* It cannot: the others are told all the same.                            *)
ResolveFails(p) ==
  /\ Turn(p)
  /\ asked' = asked \union {p}
  /\ UNCHANGED <<triggered, destinationMap, offered, told, notices, escalateVars>>

AllAsked == triggered /\ asked = PlanNotes

(* One message for each entry, in the random order of Go's maps.            *)
AddMessage(e) ==
  /\ AllAsked
  /\ e \in DOMAIN destinationMap \ told
  /\ told' = told \union {e}
  /\ notices' = Append(notices, <<e[1], e[2], destinationMap[e]>>)
  /\ UNCHANGED <<triggered, asked, destinationMap, offered, escalateVars>>

-----------------------------------------------------------------------------

Escalate == \/ CreateTrackingMessage \/ InitNotification \/ StepReady \/ NextStep
            \/ \E p \in PlanNotes : GetBuildMessage(p)

TriggerAggregationMessages ==
  \/ \E p \in PlanNotes : (\E users \in UserInfoMaps : Resolve(p, users)) \/ ResolveFails(p)
  \/ \E e \in Modes \X Targets : AddMessage(e)

Next == Escalate \/ TriggerAggregationMessages

Spec == Init /\ [][Next]_vars
-----------------------------------------------------------------------------
(* Properties *)

(* incidentManager.go:267: the "built in iris context vars" Iris is sent for *)
(* a notification are those of the last notification of its step, which      *)
(* was set up after it, so that target, priority and template are its own    *)
(* only if it is the last one.  The tracking message gets its own.          *)
ContextOfLast ==
  \A r \in rendered :
    IF r[1] = Tracking THEN r[2] = Tracking ELSE r[2] = <<r[1][1], Len(Steps[r[1][1]])>>

(* No mode and target is notified twice, by however many notifications of   *)
(* the plan they are reached.                                              *)
OneNotice ==
  \A i, j \in DOMAIN notices : notices[i][1] = notices[j][1] /\ notices[i][2] = notices[j][2] => i = j

(* Everyone Iris named a usable destination for gets a notice by that mode,  *)
(* whatever other calls failed.                                            *)
NobodyForgotten ==
  AllAsked /\ told = DOMAIN destinationMap =>
    \A o \in offered : \E i \in DOMAIN notices : notices[i][1] = o[1] /\ notices[i][2] = o[2]

(* Nobody is notified at a place Iris did not give for them and this mode.  *)
OnlyWhereOffered == \A i \in DOMAIN notices : notices[i] \in offered
=============================================================================
