------------------------ MODULE MessageQueueManager ------------------------
(***************************************************************************)
(* The message queue manager (messageQueueManager.go): the tracker of all  *)
(* messages, the loop that routes new ones to a vendor, the goroutine of   *)
(* every vendor, and the clients that add, poll, drop and delete messages: *)
(* the incident manager (incidentManager.go) and the API (api.go).         *)
(*                                                                         *)
(* The queue of a vendor is the pool of VendorPool, which VendorQueue      *)
(* implements.  Each access to the tracker is one critical section; what a *)
(* goroutine read in an earlier one is kept in a local copy, which the     *)
(* tracker may have left behind.                                           *)
(***************************************************************************)
EXTENDS Naturals, FiniteSets

CONSTANTS
  Msgs,              \* message ids; ids are never reused (uuid.NewV4)
  Kind,              \* message |-> "incident", "oob" or "error" (isOOB, isErrorMessage)
  Vendors, Dummy,    \* the vendor goroutines, and the dummy vendor
  Storing,           \* the vendors that only store messages and cannot fail: drop, error, dummy
  VendorOf,          \* the vendor of the message's mode; the dummy for a mode that is not known
  MaxMessageRetries,
  MaxQueueLength,
  SenderDryRun,      \* config.SenderDryRun: store everything, send nothing
  None               \* the zero UUID, and "no item"

ASSUME MsgsAssumption ==
  /\ None \notin Msgs \union Vendors
  /\ Kind \in [Msgs -> {"incident", "oob", "error"}]
ASSUME VendorsAssumption ==
  /\ Dummy \in Storing
  /\ Storing \subseteq Vendors
  /\ VendorOf \in [Msgs -> Vendors]
ASSUME LimitsAssumption ==
  /\ MaxMessageRetries \in Nat
  /\ MaxQueueLength \in Nat
  /\ SenderDryRun \in BOOLEAN

Item == [active : BOOLEAN, queued : BOOLEAN, retries : Nat, batched : BOOLEAN]

ASSUME NoneAssumption == None \notin Item

NewItem == [active |-> TRUE, queued |-> FALSE, retries |-> 0, batched |-> FALSE]

VARIABLES
  tracker,     \* messageTrackerMap: message |-> its item, or None
  queueFull,   \* the back-pressure flag
  unqueued,    \* unqueuedMessages: what RunOnce found and has not routed yet
  adding,      \* message |-> the vendor whose AddToVendorQueue goroutine was started
  pool,        \* vendor |-> the messages in its queue
  pc,          \* vendor |-> where its goroutine stands in runVendor
  msgUUID,     \* vendor |-> the message of this turn, or None
  msgItem,     \* vendor |-> msgQueueItem, the local copy of its item
  client,      \* message |-> what its owner is doing with it
  attempts,    \* history: message |-> calls of SendMessage
  succeeded,   \* history: message |-> how many of them returned true
  notified,    \* history: messages that reached their recipient
  dropped,     \* history: messages persisted as dropped
  gone         \* history: messages that were deleted from the tracker

queueVars   == <<unqueued, adding, pool>>
vendorVars  == <<pc, msgUUID, msgItem>>
historyVars == <<attempts, succeeded, notified, dropped>>
vars == <<tracker, gone, queueFull, queueVars, vendorVars, client, historyVars>>

Present == {m \in Msgs : tracker[m] # None}

Init ==
  /\ tracker = [m \in Msgs |-> None]
  /\ queueFull = FALSE
  /\ unqueued = {}
  /\ adding = [m \in Msgs |-> None]
  /\ pool = [v \in Vendors |-> {}]
  /\ pc = [v \in Vendors |-> "idle"]
  /\ msgUUID = [v \in Vendors |-> None]
  /\ msgItem = [v \in Vendors |-> None]
  /\ client = [m \in Msgs |-> "idle"]
  /\ attempts = [m \in Msgs |-> 0]
  /\ succeeded = [m \in Msgs |-> 0]
  /\ notified = {}
  /\ dropped = {}
  /\ gone = {}

-----------------------------------------------------------------------------
(* The operations on the tracker, each one critical section *)

(* Add the message unless it is there; the caller sees the item that is. *)
AddMessage(m) ==
  /\ tracker' = IF m \in Present THEN tracker ELSE [tracker EXCEPT ![m] = NewItem]
  /\ UNCHANGED gone

(* mutant: overwrite the item whether or not it is there *)
UpdateMessageBlindly(m, item) ==
  /\ tracker' = [tracker EXCEPT ![m] = item]
  /\ UNCHANGED gone

(* Overwrite the item, but only if the message was not deleted meanwhile. *)
UpdateMessage(m, item) ==
  /\ tracker' = IF m \in Present THEN [tracker EXCEPT ![m] = item] ELSE tracker
  /\ UNCHANGED gone

DeleteMessage(m) ==
  /\ tracker' = [tracker EXCEPT ![m] = None]
  /\ gone' = gone \union ({m} \intersect Present)

-----------------------------------------------------------------------------
(* The clients *)

(* postNotification: refuse when the queue is full ...                     *)
PostNotification(m) ==
  /\ Kind[m] = "oob"
  /\ client[m] = "idle"
  /\ ~queueFull
  /\ client' = [client EXCEPT ![m] = "accepted"]
  /\ UNCHANGED <<tracker, gone, queueFull, queueVars, vendorVars, historyVars>>

(* ... and add the message after the call to Iris that renders it.          *)
AddNotification(m) ==
  /\ client[m] = "accepted"
  /\ AddMessage(m)
  /\ client' = [client EXCEPT ![m] = "done"]
  /\ UNCHANGED <<queueFull, queueVars, vendorVars, historyVars>>

(* escalate: hand over a message about a notification that failed to build. *)
AddErrorMessage(m) ==
  /\ Kind[m] = "error"
  /\ client[m] = "idle"
  /\ AddMessage(m)
  /\ client' = [client EXCEPT ![m] = "done"]
  /\ UNCHANGED <<queueFull, queueVars, vendorVars, historyVars>>

(* escalate: AddMessage again in every loop, until the item it returns is   *)
(* no longer active.                                                        *)
Poll(m) ==
  /\ Kind[m] = "incident"
  /\ client[m] \in {"idle", "holding"}
  /\ AddMessage(m)
  /\ client' = [client EXCEPT ![m] = IF tracker'[m].active THEN "holding" ELSE "cleaning"]
  /\ UNCHANGED <<queueFull, queueVars, vendorVars, historyVars>>

CleanUp(m) ==
  /\ client[m] = "cleaning"
  /\ DeleteMessage(m)
  /\ client' = [client EXCEPT ![m] = "done"]
  /\ UNCHANGED <<queueFull, queueVars, vendorVars, historyVars>>

(* deleteIncident: CheckMessage, and persist as dropped what is active ...  *)
DropMessage(m) ==
  /\ client[m] = "holding"
  /\ client' = [client EXCEPT ![m] = "dropping"]
  /\ dropped' = IF m \in Present /\ tracker[m].active THEN dropped \union {m} ELSE dropped
  /\ UNCHANGED <<tracker, gone, queueFull, queueVars, vendorVars, attempts, succeeded, notified>>

(* ... then delete it from the tracker.                                     *)
DropDelete(m) ==
  /\ client[m] = "dropping"
  /\ DeleteMessage(m)
  /\ client' = [client EXCEPT ![m] = "done"]
  /\ UNCHANGED <<queueFull, queueVars, vendorVars, historyVars>>

(* deleteIncident does not know of the messages of a repeat, whose ids are   *)
(* not on messageIDList: nobody polls or deletes such a message any more.   *)
Forget(m) ==
  /\ client[m] \in {"holding", "cleaning"}
  /\ client' = [client EXCEPT ![m] = "forgotten"]
  /\ UNCHANGED <<tracker, gone, queueFull, queueVars, vendorVars, historyVars>>

-----------------------------------------------------------------------------
(* The manager's loop: RunOnce *)

Unqueued == {m \in Present : ~tracker[m].queued}

(* mutant: the copies are not marked as queued in the tracker *)
NothingMarked == tracker

Marked == [m \in Msgs |-> IF m \in Unqueued THEN [tracker[m] EXCEPT !.queued = TRUE] ELSE tracker[m]]

(* mutant: the back-pressure is raised and never taken back *)
FullForEver == queueFull \/ Cardinality(Present) > MaxQueueLength

Full == Cardinality(Present) > MaxQueueLength

(* With both locks held: mark what is new as queued, keep copies of it, and *)
(* recompute the back-pressure.                                             *)
RunOnce ==
  /\ unqueued = {}
  /\ unqueued' = Unqueued
  /\ tracker' = Marked
  /\ queueFull' = Full
  /\ UNCHANGED <<gone, adding, pool, vendorVars, client, historyVars>>

(* mutant: the tracker is not told how the message was routed *)
KeepRoute(m, aggregated) == UNCHANGED <<tracker, gone>>

RecordRoute(m, aggregated) == UpdateMessage(m, [NewItem EXCEPT !.queued = TRUE, !.batched = aggregated])

(* A message of a plan under aggregation, and any with SenderDryRun, goes to *)
(* the dummy vendor.                                                       *)
RouteOf(m, aggregated) == IF SenderDryRun \/ aggregated THEN Dummy ELSE VendorOf[m]

(* For one copy: the tracker is told whether the plan is under aggregation   *)
(* before the goroutine that queues the message starts.                     *)
Route(m) ==
  /\ m \in unqueued
  /\ unqueued' = unqueued \ {m}
  /\ \E aggregated \in (IF Kind[m] = "incident" THEN BOOLEAN ELSE {FALSE}) :
       /\ RecordRoute(m, aggregated)
       /\ adding' = [adding EXCEPT ![m] = RouteOf(m, aggregated)]
  /\ UNCHANGED <<queueFull, pool, vendorVars, client, historyVars>>

(* The goroutine that RunOnce started has added the message to the queue.   *)
AddToVendorQueue(m) ==
  /\ adding[m] # None
  /\ pool' = [pool EXCEPT ![adding[m]] = @ \union {m}]
  /\ adding' = [adding EXCEPT ![m] = None]
  /\ UNCHANGED <<tracker, gone, queueFull, unqueued, vendorVars, client, historyVars>>

-----------------------------------------------------------------------------
(* The goroutine of a vendor: runVendor *)

(* mutant: the message stays in the queue while it is being sent *)
NotTaken(v, m) == pool

Taken(v, m) == [pool EXCEPT ![v] = @ \ {m}]

GetNextMessage(v, m) ==
  /\ pc[v] = "idle"
  /\ m \in pool[v]
  /\ pool' = Taken(v, m)
  /\ msgUUID' = [msgUUID EXCEPT ![v] = m]
  /\ pc' = [pc EXCEPT ![v] = "check"]
  /\ UNCHANGED <<tracker, gone, queueFull, unqueued, adding, msgItem, client, historyVars>>

(* Copy the item; a message that was deleted is skipped.                    *)
CheckMessage(v) ==
  /\ pc[v] = "check"
  /\ IF msgUUID[v] \in Present
     THEN /\ msgItem' = [msgItem EXCEPT ![v] = tracker[msgUUID[v]]]
          /\ pc' = [pc EXCEPT ![v] = "send"]
          /\ UNCHANGED msgUUID
     ELSE /\ pc' = [pc EXCEPT ![v] = "idle"]
          /\ msgUUID' = [msgUUID EXCEPT ![v] = None]
          /\ UNCHANGED msgItem
  /\ UNCHANGED <<tracker, gone, queueFull, queueVars, client, historyVars>>

(* The message has had all its retries, as far as this copy of it tells. *)
OutOfRetries(v) == msgItem[v].retries >= MaxMessageRetries

(* mutant: the retries are counted down *)
CountedDown(item) == [item EXCEPT !.retries = @ - 1]

Failed(item) == [item EXCEPT !.retries = @ + 1]

(* The drop, error and dummy vendors store the message and return true.     *)
(* What the others return need not be what happened: a mail was taken before *)
(* the error, an answer came after the timeout, a push failed unseen.       *)
SendMessage(v) ==
  /\ pc[v] = "send"
  /\ \E sentSuccessfully, reached \in BOOLEAN :
       /\ v \in Storing => sentSuccessfully /\ ~reached
       /\ succeeded' = IF sentSuccessfully
                       THEN [succeeded EXCEPT ![msgUUID[v]] = @ + 1] ELSE succeeded
       /\ notified' = IF reached THEN notified \union {msgUUID[v]} ELSE notified
       /\ IF sentSuccessfully \/ OutOfRetries(v)
          THEN /\ msgItem' = [msgItem EXCEPT ![v].active = FALSE]
               /\ pc' = [pc EXCEPT ![v] = "finish"]
          ELSE /\ msgItem' = [msgItem EXCEPT ![v] = Failed(@)]
               /\ pc' = [pc EXCEPT ![v] = "retry"]
  /\ attempts' = [attempts EXCEPT ![msgUUID[v]] = @ + 1]
  /\ UNCHANGED <<tracker, gone, queueFull, queueVars, msgUUID, client, dropped>>

(* mutants: only a final outcome is recorded in the tracker, or only a retry *)
RecordFinal(v) == IF pc[v] = "finish" THEN UpdateMessage(msgUUID[v], msgItem[v])
                  ELSE UNCHANGED <<tracker, gone>>
RecordRetry(v) == IF pc[v] = "retry" THEN UpdateMessage(msgUUID[v], msgItem[v])
                  ELSE UNCHANGED <<tracker, gone>>

RecordOutcome(v) == UpdateMessage(msgUUID[v], msgItem[v])

WriteBack(v) ==
  /\ pc[v] \in {"finish", "retry"}
  /\ RecordOutcome(v)
  /\ pc' = [pc EXCEPT ![v] = IF pc[v] = "finish" THEN "advance" ELSE "requeue"]
  /\ UNCHANGED <<queueFull, queueVars, msgUUID, msgItem, client, historyVars>>

(* A failed message joins the queue of the same vendor again.               *)
Requeue(v) ==
  /\ pc[v] = "requeue"
  /\ pool' = [pool EXCEPT ![v] = @ \union {msgUUID[v]}]
  /\ pc' = [pc EXCEPT ![v] = "idle"]
  /\ msgUUID' = [msgUUID EXCEPT ![v] = None]
  /\ msgItem' = [msgItem EXCEPT ![v] = None]
  /\ UNCHANGED <<tracker, gone, queueFull, unqueued, adding, client, historyVars>>

(* The vendor is done with the message in its queue ...                     *)
AdvanceQueue(v) ==
  /\ pc[v] = "advance"
  /\ pc' = [pc EXCEPT ![v] = "delete"]
  /\ UNCHANGED <<tracker, gone, queueFull, queueVars, msgUUID, msgItem, client, historyVars>>

(* mutants: the vendor deletes everything, or only error messages *)
OwnsAll(m)    == TRUE
OwnsErrors(m) == Kind[m] = "error"

VendorOwns(m) == Kind[m] \in {"oob", "error"}

(* ... and deletes it from the tracker unless it belongs to an incident.    *)
VendorDelete(v) ==
  /\ pc[v] = "delete"
  /\ IF VendorOwns(msgUUID[v])
     THEN DeleteMessage(msgUUID[v])
     ELSE UNCHANGED <<tracker, gone>>
  /\ pc' = [pc EXCEPT ![v] = "idle"]
  /\ msgUUID' = [msgUUID EXCEPT ![v] = None]
  /\ msgItem' = [msgItem EXCEPT ![v] = None]
  /\ UNCHANGED <<queueFull, queueVars, client, historyVars>>

VendorStep(v) ==
  \/ CheckMessage(v) \/ SendMessage(v) \/ WriteBack(v)
  \/ Requeue(v) \/ AdvanceQueue(v) \/ VendorDelete(v)

Client(m) ==
  \/ PostNotification(m) \/ AddNotification(m) \/ AddErrorMessage(m)
  \/ Poll(m) \/ CleanUp(m) \/ DropMessage(m) \/ DropDelete(m) \/ Forget(m)

Next ==
  \/ \E m \in Msgs : Client(m) \/ Route(m) \/ AddToVendorQueue(m)
  \/ \E v \in Vendors : VendorStep(v) \/ \E m \in Msgs : GetNextMessage(v, m)
  \/ RunOnce

Spec == Init /\ [][Next]_vars

(* What the owner of a message does in the end once it has begun.           *)
OwnerGoesOn(m) ==
  AddNotification(m) \/ CleanUp(m) \/ DropDelete(m) \/ (client[m] = "holding" /\ Poll(m))

(* Both loops are driven by tickers and started goroutines run.  The round    *)
(* robin reaches every queued message (Served in VendorQueue), hence strong   *)
(* fairness for each of them.  The incident manager polls in every loop, for  *)
(* as long as it knows of the message, and finishes what it has begun;       *)
(* nothing makes a client start.                                             *)
Fairness ==
  /\ WF_vars(RunOnce)
  /\ \A m \in Msgs : /\ WF_vars(Route(m) \/ AddToVendorQueue(m))
                     /\ WF_vars(OwnerGoesOn(m))
                     /\ SF_vars(\E v \in Vendors : GetNextMessage(v, m))
  /\ \A v \in Vendors : WF_vars(VendorStep(v))

FairSpec == Spec /\ Fairness
-----------------------------------------------------------------------------
(* Properties *)

TypeOK ==
  /\ tracker \in [Msgs -> Item \union {None}]
  /\ queueFull \in BOOLEAN
  /\ unqueued \subseteq Msgs
  /\ adding \in [Msgs -> Vendors \union {None}]
  /\ pool \in [Vendors -> SUBSET Msgs]
  /\ pc \in [Vendors -> {"idle", "check", "send", "finish", "retry", "requeue", "advance", "delete"}]
  /\ msgUUID \in [Vendors -> Msgs \union {None}]
  /\ msgItem \in [Vendors -> Item \union {None}]
  /\ client \in [Msgs -> {"idle", "accepted", "holding", "cleaning", "dropping", "forgotten", "done"}]
  /\ attempts \in [Msgs -> Nat]
  /\ succeeded \in [Msgs -> Nat]
  /\ notified \subseteq Msgs
  /\ dropped \subseteq Msgs
  /\ gone \subseteq Msgs

(* Everywhere the manager and its goroutines keep a message outside the tracker. *)
Places(m) ==
  {"copy" : x \in {m} \intersect unqueued}
    \union (IF adding[m] = None THEN {} ELSE {<<"adding", adding[m]>>})
    \union {<<"pool", v>> : v \in {w \in Vendors : m \in pool[w]}}
    \union {<<"turn", v>> : v \in {w \in Vendors : msgUUID[w] = m}}

Settled(m) == \E v \in Vendors : msgUUID[v] = m /\ pc[v] \in {"advance", "delete"}

(* Between RunOnce, the goroutines it starts, the vendor queues and the      *)
(* retries, a message is in one place at a time (else it would be sent       *)
(* twice); and while the tracker says that it is queued and active, it is    *)
(* somewhere (else nobody would ever send it).                               *)
OnePlace ==
  \A m \in Msgs :
    /\ Cardinality(Places(m)) <= 1
    /\ m \in Present => (tracker[m].queued /\ tracker[m].active <=> Places(m) # {} /\ ~Settled(m))

(* Once SendMessage has returned true for a message no vendor tries it again, *)
(* whatever the polling, the retries and the deletions do: who is notified   *)
(* twice was notified by an attempt that was reported as failed.            *)
SuccessIsFinal ==
  [][\A m \in Msgs : succeeded[m] > 0 => attempts'[m] = attempts[m]]_vars

(* A message costs at most MaxMessageRetries + 1 calls of SendMessage, and   *)
(* its owner sees it inactive only after a success or after all of them: the *)
(* count lives in the item, which goes through local copies and the tracker. *)
RetryBudget ==
  \A m \in Msgs :
    /\ attempts[m] <= MaxMessageRetries + 1
    /\ m \in Present /\ ~tracker[m].active => succeeded[m] = 1 \/ attempts[m] = MaxMessageRetries + 1

(* The vendor that has a message agrees with the copy of the item it reads:  *)
(* a message marked as batched is with the dummy vendor, which stores it with *)
(* its batch, any other with the vendor of its mode.                        *)
SendFollowsRoute ==
  \A v \in Vendors : msgItem[v] # None => v = RouteOf(msgUUID[v], msgItem[v].batched)

(* UpdateMessage races with the deletion of a claimed incident's messages:   *)
(* no write brings a deleted message back.                                   *)
NoResurrection == [][Present' \intersect gone = {}]_vars

(* What deleteIncident has left behind, and a vendor is done with.           *)
Orphans == {m \in Present : client[m] = "forgotten" /\ ~tracker[m].active}

(* Every message that was handed over is sent, given up or dropped, and      *)
(* leaves the tracker, but for the repeats that deleteIncident leaves behind: *)
(* those are sent or given up, and stay.                                    *)
EventuallyGone == \A m \in Msgs : client[m] # "idle" ~> m \in gone \union Orphans

(* messageQueueManager.go:362: the pause is momentary, until what was left   *)
(* behind fills the queue by itself; then nothing ever ends it.             *)
BackPressureClears == queueFull ~> ~queueFull \/ Cardinality(Orphans) > MaxQueueLength

(* incidentManager.go:536: what is persisted as dropped has not been sent.   *)
DroppedNeverDelivered == dropped \intersect notified = {}

(* Clients see the tracker of MessageTracker.                                *)
Tracker == INSTANCE MessageTracker WITH
  status <- [m \in Msgs |-> IF m \in Present
                            THEN IF tracker[m].active THEN "active" ELSE "inactive"
                            ELSE IF m \in gone THEN "gone" ELSE "none"]

ImplementsTracker == Tracker!Spec /\ Tracker!Progress

(* Every vendor uses its queue as VendorPool allows.                         *)
Pool(v) == INSTANCE VendorPool WITH
  pool <- pool[v],
  hand <- IF pc[v] = "delete" THEN None ELSE msgUUID[v]

UsesPools ==
  /\ \A v \in Vendors : Pool(v)!Init
  /\ [][\A v \in Vendors : Pool(v)!Next \/ UNCHANGED Pool(v)!poolVars]_vars
=============================================================================
