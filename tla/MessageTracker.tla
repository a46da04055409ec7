--------------------------- MODULE MessageTracker ---------------------------
(***************************************************************************)
(* What the message queue manager promises to those who hand it messages   *)
(* (the incident manager, the aggregation notices, the API): a message that *)
(* is added is active until it has been sent or given up, then inactive    *)
(* until somebody deletes it, and once deleted it never comes back.        *)
(*                                                                         *)
(* MessageQueueManager implements it with vendor queues, retries, routing  *)
(* and several goroutines; IncidentManager is written on top of it.        *)
(***************************************************************************)
EXTENDS Naturals, FiniteSets

CONSTANTS Msgs,            \* message ids
          MaxQueueLength   \* config.MaxQueueLength

VARIABLES status,     \* message |-> "none", "active", "inactive" or "gone"
          queueFull   \* the last back-pressure verdict, seen through CheckQueueFull

trackerVars == <<status, queueFull>>

Tracked == {m \in Msgs : status[m] \in {"active", "inactive"}}

Init == /\ status = [m \in Msgs |-> "none"]
        /\ queueFull = FALSE

(* AddMessage of an id the tracker does not know. *)
Add(m) == /\ status[m] = "none"
          /\ status' = [status EXCEPT ![m] = "active"]
          /\ UNCHANGED queueFull

(* The vendor sent the message, or used up its retries. *)
Settle(m) == /\ status[m] = "active"
             /\ status' = [status EXCEPT ![m] = "inactive"]
             /\ UNCHANGED queueFull

(* DeleteMessage, by the vendor or by the owner of the message. *)
Delete(m) == /\ m \in Tracked
             /\ status' = [status EXCEPT ![m] = "gone"]
             /\ UNCHANGED queueFull

(* RunOnce of the message queue manager recomputes the back-pressure. *)
Refresh == /\ queueFull' = (Cardinality(Tracked) > MaxQueueLength)
           /\ UNCHANGED status

Next == \/ \E m \in Msgs : Add(m) \/ Settle(m) \/ Delete(m)
        \/ Refresh

Spec == Init /\ [][Next]_trackerVars

(* No message stays active for ever. *)
Progress == \A m \in Msgs : WF_trackerVars(Settle(m))
=============================================================================
