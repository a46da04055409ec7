----------------------------- MODULE VendorQueue -----------------------------
(***************************************************************************)
(* The queue of one vendor (vendor.go) and the goroutine that drains it    *)
(* (runVendor in messageQueueManager.go).                                  *)
(*                                                                         *)
(* A vendor keeps one FIFO of message ids per plan and a buffered channel  *)
(* of the plans that have messages, so that plans share the vendor's rate  *)
(* limit in turn.  The FIFOs and the tracker are guarded by a mutex; the   *)
(* channel is received from without it, but SENT TO WHILE IT IS HELD, so a *)
(* full channel blocks a goroutine that owns the mutex.  Every message is  *)
(* added by a goroutine of its own (`go v.AddToVendorQueue(...)`), which   *)
(* the module names by the message.                                        *)
(*                                                                         *)
(* What happens to a message between GetNextMessage and AdvanceQueue       *)
(* (CheckMessage, SendMessage, the retry budget) is the subject of         *)
(* MessageQueueManager; here its outcome is a nondeterministic choice.     *)
(***************************************************************************)
EXTENDS Naturals, Sequences, FiniteSets

CONSTANTS Plans,     \* plan names ("" is not one of them: it becomes the mock plan)
          Msgs,      \* message ids
          PlanOf,    \* the plan each message belongs to
          Capacity,  \* size of the channel buffer (5000 in the code)
          None       \* the zero UUID, and "no plan"

ASSUME PlansAssumption == IsFiniteSet(Plans) /\ None \notin Plans
ASSUME MsgsAssumption  == None \notin Msgs /\ PlanOf \in [Msgs -> Plans]
ASSUME CapacityAssumption == Capacity \in Nat

Free   == <<"free">>     \* the mutex when nobody owns it
Vendor == <<"vendor">>   \* the mutex when the vendor goroutine owns it
Adder(m) == <<"adder", m>>

VARIABLES
  planQueue,         \* PlanQueue: the plans in the channel buffer
  planQueueTracker,  \* PlanQueueTracker: the plans mapped to true
  messageQueue,      \* MessageQueue: plan |-> message ids waiting, oldest first
  mutex,             \* VendorQueueMutex: Free, Vendor or Adder(m)
  adder,             \* where the goroutine that adds each message stands
  pc,                \* where the vendor goroutine stands in its loop
  plan, hand,        \* nextPlan and msgUUID of that loop
  shutdown,          \* "no", then "quit" (vendorQuit closed), then "closed"
  panicked,          \* a goroutine sent on the closed channel
  overtakers         \* history: plans received since this one began to wait

queueVars  == <<planQueue, planQueueTracker, messageQueue>>
vendorVars == <<pc, plan, hand>>
vars == <<queueVars, mutex, adder, vendorVars, shutdown, panicked, overtakers>>

Init ==
  /\ planQueue = <<>>
  /\ planQueueTracker = {}
  /\ messageQueue = [p \in Plans |-> <<>>]
  /\ mutex = Free
  /\ adder = [m \in Msgs |-> "none"]
  /\ pc = "top"
  /\ plan = None
  /\ hand = None
  /\ shutdown = "no"
  /\ panicked = FALSE
  /\ overtakers = [p \in Plans |-> {}]

-----------------------------------------------------------------------------
(* Sending on the channel.  The sender owns the mutex; it waits for room    *)
(* in the buffer, and panics if the channel is closed, even while waiting. *)

(* mutant: the buffer is one slot short *)
RoomShort == Len(planQueue) + 1 < Capacity

Room == Len(planQueue) < Capacity

SendPlan(p) == /\ shutdown # "closed"
               /\ Room
               /\ planQueue' = Append(planQueue, p)
               /\ mutex' = Free

PanicOnClosed == /\ shutdown = "closed"
                 /\ panicked' = TRUE
                 /\ UNCHANGED <<queueVars, mutex, adder, vendorVars, shutdown, overtakers>>

(* The body of AddToVendorQueue up to the send: append the message, and     *)
(* track the plan if it was not.  A plan that was already tracked is in     *)
(* the channel or with the vendor, and is not sent again.                   *)
Enqueue(m) ==
  /\ messageQueue' = [messageQueue EXCEPT ![PlanOf[m]] = Append(@, m)]
  /\ planQueueTracker' = planQueueTracker \union {PlanOf[m]}

(* mutant: the plan is sent with every message *)
MustSendAlways(m) == TRUE

MustSend(m) == PlanOf[m] \notin planQueueTracker

-----------------------------------------------------------------------------
(* The goroutines that add messages *)

(* RunOnce starts the goroutine for a message it had not queued before. *)
Spawn(m) == /\ shutdown = "no"
            /\ adder[m] = "none"
            /\ adder' = [adder EXCEPT ![m] = "locking"]
            /\ UNCHANGED <<queueVars, mutex, vendorVars, shutdown, panicked, overtakers>>

AddLock(m) ==
  /\ adder[m] = "locking"
  /\ mutex = Free
  /\ Enqueue(m)
  /\ adder' = [adder EXCEPT ![m] = IF MustSend(m) THEN "sending" ELSE "done"]
  /\ mutex' = IF MustSend(m) THEN Adder(m) ELSE Free
  /\ UNCHANGED <<planQueue, vendorVars, shutdown, panicked, overtakers>>

AddSend(m) ==
  /\ adder[m] = "sending"
  /\ SendPlan(PlanOf[m])
  /\ adder' = [adder EXCEPT ![m] = "done"]
  /\ UNCHANGED <<planQueueTracker, messageQueue, vendorVars, shutdown, panicked, overtakers>>

AddPanic(m) == adder[m] = "sending" /\ PanicOnClosed

-----------------------------------------------------------------------------
(* The vendor goroutine *)

(* One turn of the ticker: leave if vendorQuit is closed, else go for a plan. *)
LoopTop ==
  /\ pc = "top"
  /\ pc' = IF shutdown = "no" THEN "recv" ELSE "stopped"
  /\ UNCHANGED <<queueVars, mutex, adder, plan, hand, shutdown, panicked, overtakers>>

(* Receive a plan, without the mutex. *)
GetNextPlan ==
  /\ pc = "recv"
  /\ planQueue # <<>>
  /\ planQueue' = Tail(planQueue)
  /\ plan' = Head(planQueue)
  /\ overtakers' = [p \in Plans |->
                      IF p = plan' \/ p \notin planQueueTracker THEN {}
                      ELSE overtakers[p] \union {plan'}]
  /\ pc' = "peek"
  /\ UNCHANGED <<planQueueTracker, messageQueue, mutex, adder, hand, shutdown, panicked>>

(* A closed and drained channel yields "": the loop goes round again. *)
NoPlan ==
  /\ pc = "recv"
  /\ planQueue = <<>>
  /\ shutdown = "closed"
  /\ pc' = "top"
  /\ UNCHANGED <<queueVars, mutex, adder, plan, hand, shutdown, panicked, overtakers>>

(* mutant: the newest message instead of the oldest *)
NewestMessage == IF messageQueue[plan] = <<>> THEN None ELSE messageQueue[plan][Len(messageQueue[plan])]

NextMessage == IF messageQueue[plan] = <<>> THEN None ELSE Head(messageQueue[plan])

(* Look at the head of the plan's queue, under the read lock. *)
GetNextMessage ==
  /\ pc = "peek"
  /\ mutex = Free
  /\ hand' = NextMessage
  /\ pc' = "send"
  /\ UNCHANGED <<queueVars, mutex, adder, plan, shutdown, panicked, overtakers>>

(* CheckMessage and SendMessage: the message is gone, sent or given up, and *)
(* the queue advances; or it failed and is queued again first.              *)
SendMessage ==
  /\ pc = "send"
  /\ pc' \in {"advance"} \union (IF hand = None THEN {} ELSE {"requeue"})
  /\ UNCHANGED <<queueVars, mutex, adder, plan, hand, shutdown, panicked, overtakers>>

(* The retry: AddToVendorQueue called by the vendor goroutine itself. *)
Requeue ==
  /\ pc = "requeue"
  /\ mutex = Free
  /\ Enqueue(hand)
  /\ pc' = IF MustSend(hand) THEN "pushRetry" ELSE "advance"
  /\ mutex' = IF MustSend(hand) THEN Vendor ELSE Free
  /\ UNCHANGED <<planQueue, adder, plan, hand, shutdown, panicked, overtakers>>

(* mutant: off by one, the last message but one takes the last with it *)
MoreThanOneWaiting == Len(messageQueue[plan]) > 2

MoreWaiting == Len(messageQueue[plan]) > 1

(* mutant: an emptied plan stays tracked *)
StillTracked == planQueueTracker

Untracked == planQueueTracker \ {plan}

(* Drop the head.  If more is waiting the plan is sent to the channel again,  *)
(* else it is no longer tracked.                                            *)
AdvanceQueue ==
  /\ pc = "advance"
  /\ mutex = Free
  /\ hand' = None
  /\ IF MoreWaiting
     THEN /\ messageQueue' = [messageQueue EXCEPT ![plan] = Tail(@)]
          /\ mutex' = Vendor
          /\ pc' = "push"
          /\ UNCHANGED <<planQueueTracker, plan>>
     ELSE /\ messageQueue' = [messageQueue EXCEPT ![plan] = <<>>]
          /\ planQueueTracker' = Untracked
          /\ pc' = "top"
          /\ plan' = None
          /\ UNCHANGED mutex
  /\ UNCHANGED <<planQueue, adder, shutdown, panicked, overtakers>>

(* The send at the end of AdvanceQueue, or of the AddToVendorQueue of a retry. *)
VendorPush ==
  /\ pc \in {"push", "pushRetry"}
  /\ SendPlan(plan)
  /\ pc' = IF pc = "push" THEN "top" ELSE "advance"
  /\ plan' = IF pc = "push" THEN None ELSE plan
  /\ UNCHANGED <<planQueueTracker, messageQueue, adder, hand, shutdown, panicked, overtakers>>

VendorPanic == pc \in {"push", "pushRetry"} /\ PanicOnClosed

-----------------------------------------------------------------------------
(* The end of MessageQueueManager.Run: close(vendorQuit), then QuitVendor   *)
(* closes the channel; nobody waits for the goroutines in between.          *)

CloseVendorQuit ==
  /\ shutdown = "no"
  /\ shutdown' = "quit"
  /\ UNCHANGED <<queueVars, mutex, adder, vendorVars, panicked, overtakers>>

QuitVendor ==
  /\ shutdown = "quit"
  /\ shutdown' = "closed"
  /\ UNCHANGED <<queueVars, mutex, adder, vendorVars, panicked, overtakers>>

(* The process is over: the vendor left its loop, or a panic took it down. *)
Terminated == /\ panicked \/ (pc = "stopped" /\ shutdown = "closed")
              /\ UNCHANGED vars

Adding(m) == AddLock(m) \/ AddSend(m) \/ AddPanic(m)

VendorStep == \/ LoopTop \/ GetNextPlan \/ NoPlan \/ GetNextMessage
              \/ SendMessage \/ Requeue \/ AdvanceQueue \/ VendorPush \/ VendorPanic

Next == \/ /\ ~panicked
           /\ \/ \E m \in Msgs : Spawn(m) \/ Adding(m)
              \/ VendorStep
              \/ CloseVendorQuit
              \/ QuitVendor
        \/ Terminated

Spec == Init /\ [][Next]_vars

(* Goroutines that can run do run.  The ticker always fires again, and       *)
(* SendMessage returns.  Go's mutex hands itself to a goroutine that has     *)
(* waited too long (starvation mode), hence the strong fairness where a step *)
(* acquires it.                                                              *)
Fairness == /\ WF_vars(~panicked /\ VendorStep)
            /\ SF_vars(~panicked /\ (GetNextMessage \/ Requeue \/ AdvanceQueue))
            /\ \A m \in Msgs : SF_vars(~panicked /\ Adding(m))

FairSpec == Spec /\ Fairness

-----------------------------------------------------------------------------
(* Properties *)

Types ==
  /\ planQueue \in Seq(Plans)
  /\ planQueueTracker \subseteq Plans
  /\ messageQueue \in [Plans -> Seq(Msgs)]
  /\ mutex \in {Free, Vendor} \union {Adder(m) : m \in Msgs}
  /\ adder \in [Msgs -> {"none", "locking", "sending", "done"}]
  /\ pc \in {"top", "recv", "peek", "send", "requeue", "pushRetry", "advance", "push", "stopped"}
  /\ plan \in Plans \union {None}
  /\ hand \in Msgs \union {None}
  /\ shutdown \in {"no", "quit", "closed"}
  /\ panicked \in BOOLEAN
  /\ overtakers \in [Plans -> SUBSET Plans]

(* The types, and a turn is of a plan that has a message: GetNextMessage       *)
(* never answers with the zero UUID, which runVendor would look up like one. *)
TypeOK ==
  /\ Types
  /\ pc \in {"peek", "send", "requeue", "pushRetry", "advance", "push"} => plan \in Plans
  /\ pc \in {"send", "requeue", "pushRetry", "advance"} => hand \in Msgs

Elements(q) == {q[i] : i \in DOMAIN q}
Distinct(q) == \A i, j \in DOMAIN q : q[i] = q[j] => i = j

InChannel == Elements(planQueue)
Blocked   == {m \in Msgs : adder[m] = "sending"}   \* adders that own the mutex and must send
Serving   == pc \in {"send", "requeue", "advance"} \* the head has been read, not yet dropped
Holding   == Serving \/ pc \in {"peek", "push"}    \* the vendor has a plan that is not in the channel

(* The mutex is owned exactly by the goroutine that is sending, so at most  *)
(* one goroutine is between its critical section's first and last step.     *)
OneOwner ==
  /\ \A m \in Msgs : adder[m] = "sending" <=> mutex = Adder(m)
  /\ pc = "push" <=> mutex = Vendor

(* A plan is in exactly one place while it is tracked: once in the channel,  *)
(* with the vendor, or about to be sent by the adder that began to track it. *)
OnePlace ==
  /\ Distinct(planQueue)
  /\ InChannel \subseteq planQueueTracker
  /\ Holding => plan \in planQueueTracker \ InChannel
  /\ \A m \in Blocked : /\ PlanOf[m] \in planQueueTracker \ InChannel
                        /\ Holding => PlanOf[m] # plan
  /\ \A p \in planQueueTracker : \/ p \in InChannel
                                 \/ Holding /\ p = plan
                                 \/ \E m \in Blocked : p = PlanOf[m]

(* The tracker (AddToVendorQueue, AdvanceQueue) never disagrees with the    *)
(* queues: no plan with messages is forgotten, and no plan without messages *)
(* takes a turn.                                                            *)
TrackedHasMessages == \A p \in Plans : p \in planQueueTracker <=> messageQueue[p] # <<>>

(* GetNextMessage and AdvanceQueue are separate critical sections; adders    *)
(* and the vendor's own retry run in between.  The head that AdvanceQueue    *)
(* drops is still the message that was read and sent.                        *)
AdvanceDropsServed ==
  Serving => messageQueue[plan] # <<>> /\ hand = Head(messageQueue[plan])

QueueInv == OneOwner /\ OnePlace /\ TrackedHasMessages /\ AdvanceDropsServed

(* vendor.go:31: the channel is large enough.  When it holds every plan, no  *)
(* goroutine that owns the mutex ever waits for room, so the vendor, which   *)
(* is the channel's only reader, never blocks on its own send.               *)
SendNeverBlocks ==
  Cardinality(Plans) <= Capacity => (mutex # Free => Room)

(* vendor.go:83: the plans share the rate limit evenly.  No plan takes a     *)
(* second turn while another that was already waiting has had none.          *)
RoundRobin ==
  [][GetNextPlan => \A p \in planQueueTracker \ {plan'} : plan' \notin overtakers[p]]_vars

(* Every message a goroutine has set out to queue comes up for sending,      *)
(* whatever the other plans and the retries do, unless the process quits.    *)
Served == \A m \in Msgs : adder[m] = "locking" ~> (hand = m \/ shutdown # "no")

(* vendor.go:48, messageQueueManager.go:480: vendors shut down gracefully.   *)
NeverSendsOnClosed == ~panicked

(* The queue implements a pool of messages.  The head being served is in the *)
(* vendor's hand and not in the pool; once the retry has appended it again   *)
(* it is back in the pool, although it is also still the head.               *)
Waiting(p) == Elements(IF Serving /\ p = plan THEN Tail(messageQueue[p]) ELSE messageQueue[p])

Pool == INSTANCE VendorPool WITH
          pool <- UNION {Waiting(p) : p \in Plans},
          hand <- IF hand \in UNION {Waiting(p) : p \in Plans} THEN None ELSE hand

ImplementsPool == Pool!Spec
=============================================================================
