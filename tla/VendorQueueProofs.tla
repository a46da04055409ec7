-------------------------- MODULE VendorQueueProofs --------------------------
(***************************************************************************)
(* Proofs about VendorQueue, for every finite set of plans, every set of   *)
(* messages and every size of the channel.                                 *)
(*                                                                         *)
(* TypeInv makes Types inductive; QueueInv, with the facts that every      *)
(* message is queued under its own plan and that a retry finds its plan    *)
(* tracked, is inductive on top of it.  SendNeverBlocks is a counting      *)
(* argument over QueueInv: the channel holds distinct plans, and a         *)
(* goroutine that must send holds a plan that is not among them.           *)
(* RoundRobin needs TurnInv, the order of the channel against the history  *)
(* of who has overtaken whom.                                              *)
(*                                                                         *)
(* QueueIsPool is the refinement of VendorPool.  What it needs beyond the  *)
(* invariant is OnceInv: the pool is a set, so a message that waited twice *)
(* or that the vendor still held would be lost from view.                  *)
(***************************************************************************)
EXTENDS VendorQueue, TLAPS, FiniteSetTheorems, SequenceTheorems

(* The work a plan or a message is needed for is only done with one in hand. *)
InHand ==
  /\ pc \in {"peek", "send", "requeue", "pushRetry", "advance", "push"} => plan \in Plans
  /\ pc \in {"requeue", "pushRetry"} => hand \in Msgs

TypeInv == Types /\ InHand

(* A message waits in the queue of its own plan, and a retry never has to send. *)
RightPlan ==
  /\ \A p \in Plans : \A i \in DOMAIN messageQueue[p] : PlanOf[messageQueue[p][i]] = p
  /\ pc # "pushRetry"

IInv == TypeInv /\ RightPlan /\ QueueInv

USE PlansAssumption, MsgsAssumption, CapacityAssumption
    DEF PlansAssumption, MsgsAssumption, CapacityAssumption

-----------------------------------------------------------------------------
(* The owner of the mutex is recorded without confusion. *)
LEMMA Owners ==
  /\ Free # Vendor
  /\ \A m \in Msgs : Adder(m) # Free /\ Adder(m) # Vendor
  /\ \A m, n \in Msgs : Adder(m) = Adder(n) => m = n
  BY DEF Free, Vendor, Adder

(* A plan for which messages are queued, and a message in it, are of the    *)
(* right type; so are what Append and Tail make of the queue.               *)
LEMMA QueueOps ==
  ASSUME NEW S, NEW q \in Seq(S), NEW x \in S
  PROVE  /\ Append(q, x) \in Seq(S)
         /\ q # <<>> => Head(q) \in S /\ Tail(q) \in Seq(S)
  OBVIOUS

LEMMA TypeInit == Init => TypeInv
<1> SUFFICES ASSUME Init PROVE TypeInv
  OBVIOUS
<1>1. messageQueue \in [Plans -> Seq(Msgs)] /\ overtakers \in [Plans -> SUBSET Plans]
  BY DEF Init
<1>2. adder \in [Msgs -> {"none", "locking", "sending", "done"}]
  BY DEF Init
<1>3. planQueue \in Seq(Plans)
  BY DEF Init
<1>4. Types
  BY <1>1, <1>2, <1>3 DEF Init, Types
<1> QED
  BY <1>4 DEF Init, TypeInv, InHand

LEMMA TypeStep == TypeInv /\ [Next]_vars => TypeInv'
<1> SUFFICES ASSUME TypeInv, [Next]_vars PROVE TypeInv'
  OBVIOUS
<1> USE DEF TypeInv, Types, InHand, queueVars, vendorVars
<1>1. ASSUME NEW m \in Msgs, Spawn(m) PROVE TypeInv'
  BY <1>1 DEF Spawn
<1>2. ASSUME NEW m \in Msgs, AddLock(m) PROVE TypeInv'
  <2>1. PlanOf[m] \in Plans
    OBVIOUS
  <2>2. messageQueue' \in [Plans -> Seq(Msgs)]
    BY <1>2, <2>1 DEF AddLock, Enqueue
  <2> QED
    BY <1>2, <2>1, <2>2 DEF AddLock, Enqueue
<1>3. ASSUME NEW m \in Msgs, AddSend(m) PROVE TypeInv'
  <2>1. planQueue' \in Seq(Plans)
    BY <1>3, QueueOps DEF AddSend, SendPlan
  <2> QED
    BY <1>3, <2>1 DEF AddSend, SendPlan
<1>4. ASSUME NEW m \in Msgs, AddPanic(m) PROVE TypeInv'
  BY <1>4 DEF AddPanic, PanicOnClosed
<1>5. CASE LoopTop
  BY <1>5 DEF LoopTop
<1>6. CASE GetNextPlan
  <2>1. plan' \in Plans /\ planQueue' \in Seq(Plans)
    BY <1>6, QueueOps DEF GetNextPlan
  <2>2. overtakers' \in [Plans -> SUBSET Plans]
    BY <1>6, <2>1 DEF GetNextPlan
  <2> QED
    BY <1>6, <2>1, <2>2 DEF GetNextPlan
<1>7. CASE NoPlan
  BY <1>7 DEF NoPlan
<1>8. CASE GetNextMessage
  BY <1>8 DEF GetNextMessage, NextMessage
<1>9. CASE SendMessage
  BY <1>9 DEF SendMessage
<1>10. CASE Requeue
  <2>1. hand \in Msgs /\ PlanOf[hand] \in Plans
    BY <1>10 DEF Requeue
  <2>2. messageQueue' \in [Plans -> Seq(Msgs)]
    BY <1>10, <2>1 DEF Requeue, Enqueue
  <2> QED
    BY <1>10, <2>1, <2>2 DEF Requeue, Enqueue
<1>11. CASE AdvanceQueue
  <2>1. plan \in Plans /\ messageQueue[plan] \in Seq(Msgs)
    BY <1>11 DEF AdvanceQueue, MoreWaiting, Untracked
  <2>2. Len(messageQueue[plan]) > 1 => Tail(messageQueue[plan]) \in Seq(Msgs)
    BY <2>1
  <2>3. messageQueue' \in [Plans -> Seq(Msgs)]
    <3>1. CASE Len(messageQueue[plan]) > 1
      BY <1>11, <2>1, <2>2, <3>1 DEF AdvanceQueue, MoreWaiting, Untracked
    <3>2. CASE ~(Len(messageQueue[plan]) > 1)
      <4>1. messageQueue' = [messageQueue EXCEPT ![plan] = <<>>]
        BY <1>11, <3>2 DEF AdvanceQueue, MoreWaiting, Untracked
      <4> QED
        BY <2>1, <4>1
    <3> QED
      BY <3>1, <3>2
  <2> QED
    BY <1>11, <2>3 DEF AdvanceQueue, MoreWaiting, Untracked
<1>12. CASE VendorPush
  <2>1. planQueue' \in Seq(Plans)
    BY <1>12, QueueOps DEF VendorPush, SendPlan
  <2> QED
    BY <1>12, <2>1 DEF VendorPush, SendPlan
<1>13. CASE VendorPanic
  BY <1>13 DEF VendorPanic, PanicOnClosed
<1>14. CASE CloseVendorQuit \/ QuitVendor
  BY <1>14 DEF CloseVendorQuit, QuitVendor
<1>15. CASE UNCHANGED vars
  BY <1>15 DEF vars
<1> QED
  BY <1>1, <1>2, <1>3, <1>4, <1>5, <1>6, <1>7, <1>8, <1>9, <1>10, <1>11, <1>12,
     <1>13, <1>14, <1>15 DEF Next, Adding, VendorStep, Terminated

-----------------------------------------------------------------------------
(* What sending to and receiving from the channel does to the plans in it. *)

LEMMA AppendElements ==
  ASSUME NEW S, NEW q \in Seq(S), NEW x \in S, Distinct(q), x \notin Elements(q)
  PROVE  /\ Distinct(Append(q, x))
         /\ Elements(Append(q, x)) = Elements(q) \union {x}
<1>1. /\ DOMAIN Append(q, x) = 1 .. Len(q) + 1 /\ DOMAIN q = 1 .. Len(q) /\ Len(q) \in Nat
      /\ \A i \in 1 .. Len(q) : Append(q, x)[i] = q[i]
      /\ Append(q, x)[Len(q) + 1] = x
  OBVIOUS
<1> QED
  BY <1>1 DEF Distinct, Elements

LEMMA TailElements ==
  ASSUME NEW S, NEW q \in Seq(S), q # <<>>, Distinct(q)
  PROVE  /\ Distinct(Tail(q))
         /\ Elements(Tail(q)) = Elements(q) \ {Head(q)}
         /\ Head(q) \in Elements(q)
<1>1. /\ DOMAIN Tail(q) = 1 .. Len(q) - 1 /\ DOMAIN q = 1 .. Len(q) /\ Len(q) \in Nat \ {0}
      /\ \A i \in 1 .. Len(q) - 1 : Tail(q)[i] = q[i + 1]
      /\ Head(q) = q[1]
  OBVIOUS
<1>2. \A i \in DOMAIN q \ {1} : i - 1 \in DOMAIN Tail(q) /\ q[i] = Tail(q)[i - 1]
  BY <1>1
<1>3. Distinct(Tail(q))
  BY <1>1 DEF Distinct
<1>4. Head(q) \in Elements(q)
  BY <1>1 DEF Elements
<1>5. Elements(Tail(q)) \subseteq Elements(q) \ {Head(q)}
  BY <1>1 DEF Elements, Distinct
<1>6. ASSUME NEW e \in Elements(q), e # Head(q) PROVE e \in Elements(Tail(q))
  <2>1. PICK i \in DOMAIN q : e = q[i]
    BY DEF Elements
  <2>2. i - 1 \in DOMAIN Tail(q) /\ e = Tail(q)[i - 1]
    BY <1>1, <1>2, <1>6, <2>1
  <2> QED
    BY <2>2 DEF Elements
<1> QED
  BY <1>3, <1>4, <1>5, <1>6

(* The head of a queue stays while messages are added behind it. *)
LEMMA HeadOfAppend ==
  ASSUME NEW S, NEW q \in Seq(S), NEW x \in S
  PROVE  /\ Append(q, x) # <<>>
         /\ q # <<>> => Head(Append(q, x)) = Head(q)
  OBVIOUS

(* The tail of a queue to which something is appended.                      *)
LEMMA TailOfAppend ==
  ASSUME NEW S, NEW q \in Seq(S), NEW x \in S, q # <<>>
  PROVE  Tail(Append(q, x)) = Append(Tail(q), x)
  OBVIOUS

(* Dropping the head of a queue of several messages leaves the others. *)
LEMMA LongTail ==
  ASSUME NEW S, NEW q \in Seq(S), Len(q) > 1
  PROVE  /\ Tail(q) # <<>>
         /\ \A i \in DOMAIN Tail(q) : i + 1 \in DOMAIN q /\ Tail(q)[i] = q[i + 1]
<1>1. Len(Tail(q)) = Len(q) - 1 /\ Len(<<>>) = 0
  OBVIOUS
<1>2. Tail(q) # <<>>
  BY <1>1
<1>3. ASSUME NEW i \in DOMAIN Tail(q) PROVE i + 1 \in DOMAIN q /\ Tail(q)[i] = q[i + 1]
  BY <1>1
<1> QED
  BY <1>2, <1>3

-----------------------------------------------------------------------------
LEMMA QueueInit == Init => IInv
  BY TypeInit, Owners DEF Init, IInv, RightPlan, QueueInv, OneOwner, OnePlace, Distinct, Elements,
     InChannel, Blocked, Serving, Holding, TrackedHasMessages, AdvanceDropsServed

(* The actions that touch neither the channel, the tracker nor the queues. *)
LEMMA QueueStepElsewhere ==
  ASSUME IInv, TypeInv',
         \/ \E m \in Msgs : Spawn(m) \/ AddPanic(m)
         \/ LoopTop \/ NoPlan \/ GetNextMessage \/ SendMessage \/ VendorPanic
         \/ CloseVendorQuit \/ QuitVendor \/ UNCHANGED vars
  PROVE  IInv'
<1> USE DEF queueVars, vendorVars, IInv, TypeInv, Types, InHand
<1>1. UNCHANGED <<planQueue, planQueueTracker, messageQueue, mutex, plan>>
  BY DEF Spawn, AddPanic, PanicOnClosed, LoopTop, NoPlan, GetNextMessage, SendMessage, VendorPanic,
     CloseVendorQuit, QuitVendor, vars
<1>2. \A m \in Msgs : adder'[m] = "sending" <=> adder[m] = "sending"
  BY DEF Spawn, AddPanic, PanicOnClosed, LoopTop, NoPlan, GetNextMessage, SendMessage, VendorPanic,
     CloseVendorQuit, QuitVendor, vars
<1>3. /\ Holding' <=> Holding
      /\ Serving' => \/ Serving /\ hand' = hand
                     \/ GetNextMessage
      /\ pc' = "push" <=> pc = "push"
      /\ pc' # "pushRetry"
  BY DEF Spawn, AddPanic, PanicOnClosed, LoopTop, NoPlan, GetNextMessage, SendMessage, VendorPanic,
     CloseVendorQuit, QuitVendor, vars, Holding, Serving, RightPlan
<1>4. RightPlan' /\ OneOwner' /\ TrackedHasMessages'
  BY <1>1, <1>2, <1>3 DEF RightPlan, QueueInv, OneOwner, TrackedHasMessages
<1>5. OnePlace'
  BY <1>1, <1>2, <1>3 DEF QueueInv, OnePlace, InChannel, Blocked
<1>6. AdvanceDropsServed'
  <2>1. CASE Serving /\ hand' = hand
    BY <1>1, <2>1 DEF QueueInv, AdvanceDropsServed
  <2>2. CASE GetNextMessage
    BY <1>1, <2>2 DEF GetNextMessage, NextMessage, QueueInv, OnePlace, Holding, TrackedHasMessages, AdvanceDropsServed
  <2> QED
    BY <1>3, <2>1, <2>2 DEF AdvanceDropsServed
<1> QED
  BY <1>4, <1>5, <1>6 DEF QueueInv

LEMMA AddLockStep ==
  ASSUME IInv, TypeInv', NEW m \in Msgs, AddLock(m)
  PROVE  IInv'
<1> USE DEF AddLock, Enqueue, MustSend, vendorVars, IInv, TypeInv, Types, InHand
<1> DEFINE p == PlanOf[m]
           q == messageQueue[p]
<1>1. p \in Plans /\ q \in Seq(Msgs) /\ messageQueue' = [messageQueue EXCEPT ![p] = Append(q, m)]
  OBVIOUS
<1>2. RightPlan'
  <2>1. \A i \in DOMAIN Append(q, m) : PlanOf[Append(q, m)[i]] = p
    BY <1>1 DEF RightPlan
  <2> QED
    BY <1>1, <2>1 DEF RightPlan
<1>3. OneOwner'
  BY Owners DEF QueueInv, OneOwner
<1>4. Holding' <=> Holding
  BY DEF Holding, Serving
<1>5. OnePlace'
  <2>1. InChannel' = InChannel
    BY DEF InChannel
  <2>2. Blocked = {}
    BY Owners DEF Blocked, QueueInv, OneOwner
  <2>3. CASE p \in planQueueTracker
    <3>1. Blocked' = {}
      BY <2>2, <2>3 DEF Blocked
    <3> QED
      BY <1>4, <2>1, <2>2, <2>3, <3>1 DEF QueueInv, OnePlace
  <2>4. CASE p \notin planQueueTracker
    <3>1. Blocked' = {m}
      BY <2>2, <2>4 DEF Blocked
    <3> QED
      BY <1>1, <1>4, <2>1, <2>2, <2>4, <3>1 DEF QueueInv, OnePlace
  <2> QED
    BY <2>3, <2>4
<1>6. TrackedHasMessages'
  BY <1>1, HeadOfAppend DEF QueueInv, TrackedHasMessages
<1>7. AdvanceDropsServed'
  BY <1>1, HeadOfAppend DEF QueueInv, AdvanceDropsServed, Serving
<1> QED
  BY <1>2, <1>3, <1>5, <1>6, <1>7 DEF QueueInv

LEMMA AddSendStep ==
  ASSUME IInv, TypeInv', NEW m \in Msgs, AddSend(m)
  PROVE  IInv'
<1> USE DEF AddSend, SendPlan, vendorVars, IInv, TypeInv, Types, InHand
<1>1. m \in Blocked /\ mutex = Adder(m) /\ Blocked = {m} /\ Blocked' = {}
  BY Owners DEF Blocked, QueueInv, OneOwner
<1>2. PlanOf[m] \in Plans /\ PlanOf[m] \in planQueueTracker \ InChannel
  BY <1>1 DEF QueueInv, OnePlace
<1>3. Distinct(planQueue') /\ InChannel' = InChannel \union {PlanOf[m]}
  BY <1>2, AppendElements DEF InChannel, QueueInv, OnePlace
<1>4. (Holding' <=> Holding) /\ (Serving' <=> Serving)
  BY DEF Holding, Serving
<1>5. RightPlan' /\ TrackedHasMessages' /\ AdvanceDropsServed'
  BY <1>4 DEF RightPlan, QueueInv, TrackedHasMessages, AdvanceDropsServed
<1>6. OneOwner'
  BY <1>1, Owners DEF QueueInv, OneOwner
<1>7. OnePlace'
  BY <1>1, <1>2, <1>3, <1>4 DEF QueueInv, OnePlace
<1> QED
  BY <1>5, <1>6, <1>7 DEF QueueInv

LEMMA GetNextPlanStep ==
  ASSUME IInv, TypeInv', GetNextPlan
  PROVE  IInv'
<1> USE DEF GetNextPlan, IInv, TypeInv, Types, InHand
<1>1. ~Holding /\ Holding' /\ ~Serving' /\ Blocked' = Blocked
  BY DEF Holding, Serving, Blocked
<1>2. /\ Distinct(planQueue')
      /\ InChannel' = InChannel \ {plan'}
      /\ plan' \in InChannel
  BY TailElements DEF InChannel, QueueInv, OnePlace
<1>3. RightPlan' /\ OneOwner' /\ TrackedHasMessages' /\ AdvanceDropsServed'
  BY <1>1 DEF RightPlan, QueueInv, OneOwner, TrackedHasMessages, AdvanceDropsServed
<1>4. OnePlace'
  BY <1>1, <1>2 DEF QueueInv, OnePlace
<1> QED
  BY <1>3, <1>4 DEF QueueInv

LEMMA RequeueStep ==
  ASSUME IInv, TypeInv', Requeue
  PROVE  IInv'
<1> USE DEF Requeue, Enqueue, MustSend, vendorVars, IInv, TypeInv, Types, InHand
<1> DEFINE q == messageQueue[plan]
<1>1. /\ plan \in Plans /\ hand \in Msgs /\ q \in Seq(Msgs) /\ q # <<>>
      /\ hand = Head(q) /\ plan \in planQueueTracker
  BY DEF QueueInv, AdvanceDropsServed, OnePlace, Holding, Serving
<1>2. PlanOf[hand] = plan
  BY <1>1 DEF RightPlan
<1>3. /\ messageQueue' = [messageQueue EXCEPT ![plan] = Append(q, hand)]
      /\ planQueueTracker' = planQueueTracker
      /\ pc' = "advance" /\ mutex' = Free
  BY <1>1, <1>2
<1>4. Holding /\ Holding' /\ Serving /\ Serving' /\ Blocked' = Blocked
  BY <1>3 DEF Holding, Serving, Blocked
<1>5. RightPlan'
  <2>1. \A i \in DOMAIN Append(q, hand) : PlanOf[Append(q, hand)[i]] = plan
    BY <1>1, <1>2 DEF RightPlan
  <2> QED
    BY <1>1, <1>3, <2>1 DEF RightPlan
<1>6. OneOwner'
  BY <1>3, Owners DEF QueueInv, OneOwner
<1>7. OnePlace'
  BY <1>3, <1>4 DEF QueueInv, OnePlace, InChannel
<1>8. messageQueue'[plan] # <<>> /\ Head(messageQueue'[plan]) = Head(q)
  <2>1. messageQueue'[plan] = Append(q, hand)
    BY <1>1, <1>3
  <2>2. Append(q, hand) # <<>> /\ Head(Append(q, hand)) = Head(q)
    BY <1>1, HeadOfAppend
  <2> QED
    BY <2>1, <2>2
<1>9. TrackedHasMessages'
  BY <1>1, <1>3, <1>8 DEF QueueInv, TrackedHasMessages
<1>10. AdvanceDropsServed'
  BY <1>1, <1>8 DEF AdvanceDropsServed
<1> QED
  BY <1>5, <1>6, <1>7, <1>9, <1>10 DEF QueueInv

LEMMA AdvanceQueueStep ==
  ASSUME IInv, TypeInv', AdvanceQueue
  PROVE  IInv'
<1> USE DEF AdvanceQueue, MoreWaiting, Untracked, IInv, TypeInv, Types, InHand
<1> DEFINE q == messageQueue[plan]
<1>1. /\ plan \in Plans /\ q \in Seq(Msgs) /\ q # <<>>
      /\ plan \in planQueueTracker \ InChannel /\ Serving /\ Holding
  BY DEF QueueInv, AdvanceDropsServed, OnePlace, Holding, Serving
<1>2. Blocked = {} /\ Blocked' = {} /\ InChannel' = InChannel /\ ~Serving'
  BY Owners DEF Blocked, QueueInv, OneOwner, InChannel, Serving
<1>3. OneOwner'
  BY <1>2, Owners DEF QueueInv, OneOwner, Blocked
<1>4. AdvanceDropsServed'
  BY <1>2 DEF AdvanceDropsServed
<1>5. CASE Len(q) > 1
  <2>1. /\ messageQueue' = [messageQueue EXCEPT ![plan] = Tail(q)]
        /\ planQueueTracker' = planQueueTracker /\ plan' = plan /\ pc' = "push"
    BY <1>5
  <2>2. Tail(q) # <<>> /\ \A i \in DOMAIN Tail(q) : i + 1 \in DOMAIN q /\ Tail(q)[i] = q[i + 1]
    BY <1>1, <1>5, LongTail
  <2>3. RightPlan'
    BY <1>1, <2>1, <2>2 DEF RightPlan
  <2>4. TrackedHasMessages'
    BY <1>1, <2>1, <2>2 DEF QueueInv, TrackedHasMessages
  <2>5. OnePlace'
    BY <1>1, <1>2, <2>1 DEF QueueInv, OnePlace, Holding
  <2> QED
    BY <1>3, <1>4, <2>3, <2>4, <2>5 DEF QueueInv
<1>6. CASE ~(Len(q) > 1)
  <2>1. /\ messageQueue' = [messageQueue EXCEPT ![plan] = <<>>]
        /\ planQueueTracker' = planQueueTracker \ {plan} /\ pc' = "top"
    BY <1>6
  <2>2. RightPlan'
    BY <1>1, <2>1 DEF RightPlan
  <2>3. TrackedHasMessages'
    BY <1>1, <2>1 DEF QueueInv, TrackedHasMessages
  <2>4. ~Holding'
    BY <1>2, <2>1 DEF Holding
  <2>5. OnePlace'
    BY <1>1, <1>2, <2>1, <2>4 DEF QueueInv, OnePlace
  <2> QED
    BY <1>3, <1>4, <2>2, <2>3, <2>5 DEF QueueInv
<1> QED
  BY <1>5, <1>6

LEMMA VendorPushStep ==
  ASSUME IInv, TypeInv', VendorPush
  PROVE  IInv'
<1> USE DEF VendorPush, SendPlan, IInv, TypeInv, Types, InHand
<1>1. pc = "push" /\ plan \in Plans /\ Holding /\ ~Holding' /\ ~Serving'
  BY DEF RightPlan, Holding, Serving
<1>2. Blocked = {} /\ Blocked' = {}
  BY <1>1, Owners DEF Blocked, QueueInv, OneOwner
<1>3. Distinct(planQueue') /\ InChannel' = InChannel \union {plan}
  BY <1>1, AppendElements DEF InChannel, QueueInv, OnePlace
<1>4. RightPlan' /\ TrackedHasMessages' /\ AdvanceDropsServed'
  BY <1>1 DEF RightPlan, QueueInv, TrackedHasMessages, AdvanceDropsServed
<1>5. OneOwner'
  BY <1>1, <1>2, Owners DEF QueueInv, OneOwner, Blocked
<1>6. OnePlace'
  BY <1>1, <1>2, <1>3 DEF QueueInv, OnePlace
<1> QED
  BY <1>4, <1>5, <1>6 DEF QueueInv

LEMMA QueueStep == IInv /\ [Next]_vars => IInv'
<1> SUFFICES ASSUME IInv, [Next]_vars PROVE IInv'
  OBVIOUS
<1>1. TypeInv'
  BY TypeStep DEF IInv
<1>2. ASSUME NEW m \in Msgs, Spawn(m) \/ Adding(m) PROVE IInv'
  BY <1>1, <1>2, AddLockStep, AddSendStep, QueueStepElsewhere DEF Adding
<1>3. CASE VendorStep
  BY <1>1, <1>3, GetNextPlanStep, RequeueStep, AdvanceQueueStep, VendorPushStep,
     QueueStepElsewhere DEF VendorStep
<1> QED
  BY <1>1, <1>2, <1>3, QueueStepElsewhere DEF Next, Terminated

(* The mutex, the channel, the tracker and the queues agree in every state,  *)
(* and AdvanceQueue drops the message that GetNextMessage read.              *)
THEOREM QueueCorrect == Spec => []QueueInv
<1>1. IInv => QueueInv
  BY DEF IInv
<1> QED
  BY <1>1, QueueInit, QueueStep, PTL DEF Spec

(* Every state is well typed, and a turn of the vendor has a plan and a       *)
(* message: a tracked plan has messages when GetNextMessage looks, and what   *)
(* the vendor then serves is one of them.                                   *)
THEOREM TypeCorrect == Spec => []TypeOK
<1>1. IInv => TypeOK
  <2> SUFFICES ASSUME IInv PROVE TypeOK
    OBVIOUS
  <2>1. Types /\ (pc \in {"peek", "send", "requeue", "pushRetry", "advance", "push"} => plan \in Plans)
    BY DEF IInv, TypeInv, InHand
  <2>2. pc \in {"requeue", "pushRetry"} => hand \in Msgs
    BY DEF IInv, TypeInv, InHand
  <2>3. ASSUME Serving PROVE hand \in Msgs
    <3>1. plan \in Plans
      BY <2>1, <2>3 DEF Serving
    <3>2. messageQueue[plan] \in Seq(Msgs)
      BY <2>1, <3>1 DEF Types
    <3>3. messageQueue[plan] # <<>> /\ hand = Head(messageQueue[plan])
      BY <2>3 DEF IInv, QueueInv, AdvanceDropsServed
    <3> QED
      BY <3>2, <3>3
  <2> QED
    BY <2>1, <2>2, <2>3 DEF TypeOK, Serving
<1> QED
  BY <1>1, QueueInit, QueueStep, PTL DEF Spec

-----------------------------------------------------------------------------
(* Distinct plans, none of which is p, are fewer than all plans. *)
LEMMA DistinctLeavesRoom ==
  ASSUME NEW q \in Seq(Plans), Distinct(q), NEW p \in Plans, p \notin Elements(q)
  PROVE  Len(q) < Cardinality(Plans)
<1> DEFINE Others == Plans \ {p}
<1>1. IsFiniteSet(Others) /\ Cardinality(Others) = Cardinality(Plans) - 1
  BY FS_RemoveElement
<1>2. Len(q) \in Nat /\ DOMAIN q = 1 .. Len(q)
  OBVIOUS
<1>3. IsFiniteSet(1 .. Len(q)) /\ Cardinality(1 .. Len(q)) = Len(q)
  <2>1. ASSUME NEW n \in Nat PROVE IsFiniteSet(1 .. n) /\ Cardinality(1 .. n) = n
    <3>1. /\ IsFiniteSet(1 .. n)
          /\ Cardinality(1 .. n) = IF 1 > n THEN 0 ELSE n - 1 + 1
      BY FS_Interval
    <3> QED
      BY <3>1
  <2> QED
    BY <1>2, <2>1
<1>4. q \in [1 .. Len(q) -> Others]
  BY <1>2 DEF Elements
<1>5. IsInjective(q) /\ q \in Injection(1 .. Len(q), Others)
  BY <1>2, <1>4 DEF Distinct, IsInjective, Injection
<1>6. Cardinality(1 .. Len(q)) <= Cardinality(Others)
  BY <1>1, <1>3, <1>5, FS_Injection
<1> QED
  BY <1>1, <1>2, <1>3, <1>6, FS_CardinalityType

(* vendor.go:31: a channel with room for every plan never blocks a sender.   *)
THEOREM NeverBlocks == Spec => []SendNeverBlocks
<1>1. IInv => SendNeverBlocks
  <2> SUFFICES ASSUME IInv, Cardinality(Plans) <= Capacity, mutex # Free PROVE Room
    BY DEF SendNeverBlocks
  <2> USE DEF IInv, TypeInv, Types, InHand
  <2>1. PICK p \in Plans : p \notin InChannel
    <3>1. CASE mutex = Vendor
      BY <3>1 DEF QueueInv, OneOwner, OnePlace, Holding
    <3>2. CASE \E m \in Msgs : mutex = Adder(m)
      BY <3>2 DEF QueueInv, OneOwner, OnePlace, Blocked
    <3> QED
      BY <3>1, <3>2
  <2>2. Len(planQueue) < Cardinality(Plans)
    BY <2>1, DistinctLeavesRoom DEF QueueInv, OnePlace, InChannel
  <2> QED
    BY <2>2, FS_CardinalityType DEF Room
<1> QED
  BY <1>1, QueueInit, QueueStep, PTL DEF Spec

-----------------------------------------------------------------------------
(* Who has overtaken whom.  A plan in the channel is ahead of those that     *)
(* overtook it; what overtook a plan that is still to be sent is not in the *)
(* channel, since the vendor needs the mutex to send it again; and a plan   *)
(* that has its turn, or has no messages, starts afresh.                    *)
AheadOfOvertakers ==
  \A i, j \in DOMAIN planQueue : planQueue[j] \in overtakers[planQueue[i]] => i < j

TurnInv ==
  /\ AheadOfOvertakers
  /\ \A p \in Plans : p \notin overtakers[p]
  /\ \A p \in Plans \ planQueueTracker : overtakers[p] = {}
  /\ Holding => overtakers[plan] = {}
  /\ \A m \in Blocked : overtakers[PlanOf[m]] \intersect InChannel = {}

(* The order is kept when a plan that overtook nobody is sent.              *)
LEMMA AheadAfterSend ==
  ASSUME NEW p \in Plans, planQueue \in Seq(Plans), planQueue' = Append(planQueue, p),
         AheadOfOvertakers, UNCHANGED overtakers,
         p \notin overtakers[p], overtakers[p] \intersect InChannel = {}
  PROVE  AheadOfOvertakers'
<1> DEFINE n == Len(planQueue)
<1>1. /\ n \in Nat /\ DOMAIN planQueue = 1 .. n /\ DOMAIN planQueue' = 1 .. n + 1
      /\ \A i \in 1 .. n : planQueue'[i] = planQueue[i]
      /\ planQueue'[n + 1] = p
  OBVIOUS
<1>2. \A i \in 1 .. n : planQueue[i] \in InChannel
  BY <1>1 DEF InChannel, Elements
<1> HIDE DEF n
<1> SUFFICES ASSUME NEW i \in 1 .. n + 1, NEW j \in 1 .. n + 1,
                    planQueue'[j] \in overtakers[planQueue'[i]]
             PROVE  i < j
  BY <1>1 DEF AheadOfOvertakers
<1>3. CASE i \in 1 .. n /\ j \in 1 .. n
  BY <1>1, <1>3 DEF AheadOfOvertakers
<1>4. CASE i = n + 1
  <2>1. CASE j = n + 1
    BY <1>1, <1>4, <2>1
  <2>2. CASE j \in 1 .. n
    BY <1>1, <1>2, <1>4, <2>2
  <2> QED
    BY <1>1, <2>1, <2>2
<1>5. CASE i \in 1 .. n /\ j = n + 1
  BY <1>1, <1>5
<1> QED
  BY <1>1, <1>3, <1>4, <1>5

LEMMA TurnInit == Init => TurnInv
  BY DEF Init, TurnInv, AheadOfOvertakers, Holding, Serving, Blocked

(* The actions that neither send nor receive, nor change the tracker.       *)
LEMMA TurnStepElsewhere ==
  ASSUME IInv, TurnInv,
         \/ \E m \in Msgs : Spawn(m) \/ AddPanic(m)
         \/ LoopTop \/ NoPlan \/ GetNextMessage \/ SendMessage \/ VendorPanic
         \/ CloseVendorQuit \/ QuitVendor \/ UNCHANGED vars
  PROVE  TurnInv'
<1> USE DEF queueVars, vendorVars, IInv, TypeInv, Types
<1>1. UNCHANGED <<planQueue, planQueueTracker, plan, overtakers>>
  BY DEF Spawn, AddPanic, PanicOnClosed, LoopTop, NoPlan, GetNextMessage, SendMessage, VendorPanic,
     CloseVendorQuit, QuitVendor, vars
<1>2. Blocked' = Blocked
  BY DEF Spawn, AddPanic, PanicOnClosed, LoopTop, NoPlan, GetNextMessage, SendMessage, VendorPanic,
     CloseVendorQuit, QuitVendor, vars, Blocked
<1>3. Holding' => Holding
  BY DEF Spawn, AddPanic, PanicOnClosed, LoopTop, NoPlan, GetNextMessage, SendMessage, VendorPanic,
     CloseVendorQuit, QuitVendor, vars, Holding, Serving
<1> QED
  BY <1>1, <1>2, <1>3 DEF TurnInv, AheadOfOvertakers, InChannel

LEMMA TurnAddLock ==
  ASSUME IInv, TurnInv, NEW m \in Msgs, AddLock(m)
  PROVE  TurnInv'
<1> USE DEF AddLock, Enqueue, MustSend, vendorVars, IInv, TypeInv, Types
<1>1. /\ UNCHANGED <<planQueue, plan, overtakers>> /\ (Holding' <=> Holding)
      /\ planQueueTracker \subseteq planQueueTracker'
  BY DEF Holding, Serving
<1>2. Blocked = {}
  BY Owners DEF Blocked, QueueInv, OneOwner
<1>3. \A n \in Blocked' : n = m /\ PlanOf[m] \in Plans \ planQueueTracker
  BY <1>2 DEF Blocked
<1> QED
  BY <1>1, <1>3 DEF TurnInv, AheadOfOvertakers, InChannel

LEMMA TurnAddSend ==
  ASSUME IInv, TurnInv, NEW m \in Msgs, AddSend(m)
  PROVE  TurnInv'
<1> USE DEF AddSend, SendPlan, vendorVars, IInv, TypeInv, Types
<1>1. m \in Blocked /\ Blocked' = {} /\ PlanOf[m] \in Plans
  BY Owners DEF Blocked, QueueInv, OneOwner
<1>2. AheadOfOvertakers'
  BY <1>1, AheadAfterSend DEF TurnInv
<1>3. Holding' <=> Holding
  BY DEF Holding, Serving
<1> QED
  BY <1>1, <1>2, <1>3 DEF TurnInv

LEMMA TurnVendorPush ==
  ASSUME IInv, TurnInv, VendorPush
  PROVE  TurnInv'
<1> USE DEF VendorPush, SendPlan, IInv, TypeInv, Types, InHand
<1>1. pc = "push" /\ plan \in Plans /\ Holding /\ ~Holding'
  BY DEF RightPlan, Holding, Serving
<1>2. Blocked' = {}
  BY <1>1, Owners DEF Blocked, QueueInv, OneOwner
<1>3. AheadOfOvertakers'
  BY <1>1, AheadAfterSend DEF TurnInv
<1> QED
  BY <1>1, <1>2, <1>3 DEF TurnInv

LEMMA TurnKept ==
  ASSUME IInv, TurnInv, Requeue \/ AdvanceQueue
  PROVE  TurnInv'
<1> USE DEF IInv, TypeInv, Types, InHand
<1>1. Holding /\ plan \in Plans /\ plan \in planQueueTracker /\ Serving
  BY DEF Requeue, AdvanceQueue, Holding, Serving, QueueInv, OnePlace
<1>2. /\ UNCHANGED <<planQueue, adder, overtakers>>
      /\ Holding' => plan' = plan
  BY DEF Requeue, AdvanceQueue, Holding, Serving
<1>3. planQueueTracker \ {plan} \subseteq planQueueTracker'
  BY DEF Requeue, AdvanceQueue, Untracked, Enqueue
<1>4. Blocked' = Blocked
  BY <1>2 DEF Blocked
<1> QED
  BY <1>1, <1>2, <1>3, <1>4 DEF TurnInv, AheadOfOvertakers, InChannel

(* The plan that is received has overtaken none of those that wait ...      *)
LEMMA FirstHasNotOvertaken ==
  ASSUME IInv, TurnInv, GetNextPlan, NEW p \in planQueueTracker, p # plan'
  PROVE  plan' \notin overtakers[p]
<1> USE DEF GetNextPlan, IInv, TypeInv, Types
<1>1. /\ 1 \in DOMAIN planQueue /\ plan' = planQueue[1] /\ plan' \in InChannel
      /\ \A i \in DOMAIN planQueue : i \in Nat /\ ~(i < 1)
  BY DEF InChannel, Elements
<1>2. CASE p \in InChannel
  <2>1. PICK i \in DOMAIN planQueue : p = planQueue[i]
    BY <1>2 DEF InChannel, Elements
  <2> QED
    BY <1>1, <2>1 DEF TurnInv, AheadOfOvertakers
<1>3. CASE \E m \in Blocked : p = PlanOf[m]
  BY <1>1, <1>3 DEF TurnInv
<1>4. ~Holding
  BY DEF Holding, Serving
<1> QED
  BY <1>2, <1>3, <1>4 DEF QueueInv, OnePlace

(* ... and joins those that have overtaken them.                            *)
LEMMA TurnGetNextPlan ==
  ASSUME IInv, TurnInv, GetNextPlan
  PROVE  TurnInv'
<1> USE DEF GetNextPlan, IInv, TypeInv, Types
<1>1. /\ Blocked' = Blocked /\ plan' \in Plans
      /\ InChannel' = InChannel \ {plan'}
  BY TailElements DEF Blocked, InChannel, QueueInv, OnePlace
<1>2. \A p \in Plans : /\ p = plan' \/ p \notin planQueueTracker => overtakers'[p] = {}
                       /\ overtakers'[p] \subseteq overtakers[p] \union {plan'}
  BY <1>1
<1>3. /\ \A i \in DOMAIN planQueue' : /\ i \in Nat
                                      /\ i + 1 \in DOMAIN planQueue
                                      /\ planQueue'[i] = planQueue[i + 1]
                                      /\ planQueue'[i] \in InChannel'
                                      /\ planQueue'[i] \in Plans
  <2>1. /\ DOMAIN Tail(planQueue) = 1 .. Len(planQueue) - 1
        /\ DOMAIN planQueue = 1 .. Len(planQueue) /\ Len(planQueue) \in Nat
        /\ \A i \in 1 .. Len(planQueue) - 1 : Tail(planQueue)[i] = planQueue[i + 1]
    OBVIOUS
  <2> QED
    BY <2>1 DEF InChannel, Elements
<1>4. AheadOfOvertakers'
  <2> SUFFICES ASSUME NEW i \in DOMAIN planQueue', NEW j \in DOMAIN planQueue',
                      planQueue'[j] \in overtakers'[planQueue'[i]]
               PROVE  i < j
    BY DEF AheadOfOvertakers
  <2>1. planQueue'[j] # plan' /\ planQueue'[j] \in overtakers[planQueue'[i]]
    BY <1>1, <1>2, <1>3
  <2>2. i + 1 < j + 1
    BY <1>3, <2>1 DEF TurnInv, AheadOfOvertakers
  <2> QED
    BY <1>3, <2>2
<1>5. \A p \in Plans : p \notin overtakers'[p]
  BY <1>2 DEF TurnInv
<1>6. \A m \in Blocked' : overtakers'[PlanOf[m]] \intersect InChannel' = {}
  BY <1>1, <1>2 DEF TurnInv, Blocked
<1> QED
  BY <1>1, <1>2, <1>4, <1>5, <1>6 DEF TurnInv

LEMMA TurnStep == IInv /\ TurnInv /\ [Next]_vars => TurnInv'
<1> SUFFICES ASSUME IInv, TurnInv, [Next]_vars PROVE TurnInv'
  OBVIOUS
<1>1. ASSUME NEW m \in Msgs, Spawn(m) \/ Adding(m) PROVE TurnInv'
  BY <1>1, TurnAddLock, TurnAddSend, TurnStepElsewhere DEF Adding
<1>2. CASE VendorStep
  BY <1>2, TurnGetNextPlan, TurnKept, TurnVendorPush, TurnStepElsewhere DEF VendorStep
<1> QED
  BY <1>1, <1>2, TurnStepElsewhere DEF Next, Terminated

(* vendor.go:83: no plan gets a second turn while another that was waiting   *)
(* has had none.                                                             *)
THEOREM FairTurns == Spec => RoundRobin
<1>1. IInv /\ TurnInv =>
        [GetNextPlan => \A p \in planQueueTracker \ {plan'} : plan' \notin overtakers[p]]_vars
  BY FirstHasNotOvertaken
<1> QED
  BY <1>1, QueueInit, QueueStep, TurnInit, TurnStep, PTL DEF Spec, RoundRobin
-----------------------------------------------------------------------------
(* The queue implements the pool *)

(* What is waiting in the queue of a plan, without the head that is served. *)
Rest(p) == IF Serving /\ p = plan THEN Tail(messageQueue[p]) ELSE messageQueue[p]

(* No message waits twice, or waits while it is in the vendor's hand and no *)
(* retry has put it back, or waits before it has been added.                *)
OnceInv ==
  /\ \A p \in Plans : Distinct(Rest(p))
  /\ pc \in {"send", "requeue"} => hand \notin Waiting(plan)
  /\ Serving \/ hand = None
  /\ \A m \in Msgs : adder[m] \in {"none", "locking"} =>
                        m # hand /\ \A p \in Plans : m \notin Waiting(p)

LEMMA OnceInit == Init => OnceInv
<1> SUFFICES ASSUME Init PROVE OnceInv
  OBVIOUS
<1>1. \A p \in Plans : Rest(p) = <<>> /\ Waiting(p) = {}
  BY DEF Init, Rest, Serving, Waiting, Elements
<1> QED
  BY <1>1 DEF Init, OnceInv, Distinct

(* The rest of a queue is a sequence of messages of its plan.               *)
LEMMA RestIs ==
  ASSUME IInv, NEW p \in Plans
  PROVE  /\ Rest(p) \in Seq(Msgs)
         /\ Waiting(p) = Elements(Rest(p))
         /\ \A m \in Waiting(p) : m \in Msgs /\ PlanOf[m] = p
<1> DEFINE q == messageQueue[p]
<1>1. q \in Seq(Msgs) /\ \A i \in DOMAIN q : PlanOf[q[i]] = p
  BY DEF IInv, TypeInv, Types, RightPlan
<1>2. Serving /\ p = plan => q # <<>>
  BY DEF IInv, QueueInv, AdvanceDropsServed
<1>3. Waiting(p) = Elements(Rest(p))
  BY DEF Waiting, Rest
<1>4. ASSUME q # <<>>
      PROVE  Tail(q) \in Seq(Msgs) /\ \A i \in DOMAIN Tail(q) : i + 1 \in DOMAIN q /\ Tail(q)[i] = q[i + 1]
  BY <1>1, <1>4
<1>5. CASE Serving /\ p = plan
  BY <1>1, <1>2, <1>3, <1>4, <1>5 DEF Rest, Elements
<1>6. CASE ~(Serving /\ p = plan)
  BY <1>1, <1>3, <1>6 DEF Rest, Elements
<1> QED
  BY <1>5, <1>6

(* The vendor serves the head of the queue of its plan.                     *)
LEMMA ServedIs ==
  ASSUME IInv, Serving
  PROVE  /\ plan \in Plans /\ messageQueue[plan] \in Seq(Msgs) /\ messageQueue[plan] # <<>>
         /\ hand = Head(messageQueue[plan]) /\ hand \in Msgs /\ PlanOf[hand] = plan
<1>1. plan \in Plans
  BY DEF IInv, TypeInv, InHand, Serving
<1>2. messageQueue[plan] \in Seq(Msgs) /\ messageQueue[plan] # <<>> /\ hand = Head(messageQueue[plan])
  BY <1>1 DEF IInv, TypeInv, Types, QueueInv, AdvanceDropsServed
<1>3. 1 \in DOMAIN messageQueue[plan] /\ hand = messageQueue[plan][1]
  BY <1>2
<1> QED
  BY <1>1, <1>2, <1>3 DEF IInv, RightPlan

(* The steps that leave the queues and the vendor's hand as they are.       *)
Elsewhere ==
  \/ \E m \in Msgs : Spawn(m) \/ AddSend(m) \/ AddPanic(m)
  \/ LoopTop \/ GetNextPlan \/ NoPlan \/ SendMessage \/ VendorPush \/ VendorPanic
  \/ CloseVendorQuit \/ QuitVendor \/ UNCHANGED vars

LEMMA ElsewhereKeeps ==
  ASSUME IInv, Elsewhere
  PROVE  /\ hand' = hand /\ (Serving' <=> Serving)
         /\ pc' \in {"send", "requeue"} => pc \in {"send", "requeue"}
         /\ \A m \in Msgs : adder'[m] \in {"none", "locking"} => adder[m] \in {"none", "locking"}
         /\ \A p \in Plans : Rest(p)' = Rest(p) /\ Waiting(p)' = Waiting(p)
         /\ Serving => plan' = plan
<1> USE DEF queueVars, vendorVars
<1>1. messageQueue' = messageQueue /\ hand' = hand
  BY DEF Elsewhere, Spawn, AddSend, AddPanic, PanicOnClosed, LoopTop, GetNextPlan, NoPlan, SendMessage,
         VendorPush, VendorPanic, CloseVendorQuit, QuitVendor, vars
<1>2. /\ Serving' <=> Serving
      /\ pc' \in {"send", "requeue"} => pc \in {"send", "requeue"}
      /\ Serving => plan' = plan
  BY DEF Elsewhere, Spawn, AddSend, AddPanic, PanicOnClosed, LoopTop, GetNextPlan, NoPlan, SendMessage,
         VendorPush, VendorPanic, CloseVendorQuit, QuitVendor, vars, Serving, IInv, RightPlan
<1>3. \A m \in Msgs : adder'[m] \in {"none", "locking"} => adder[m] \in {"none", "locking"}
  BY DEF Elsewhere, Spawn, AddSend, AddPanic, PanicOnClosed, LoopTop, GetNextPlan, NoPlan, SendMessage,
         VendorPush, VendorPanic, CloseVendorQuit, QuitVendor, vars, IInv, TypeInv, Types
<1>4. \A p \in Plans : Rest(p)' = Rest(p) /\ Waiting(p)' = Waiting(p)
  BY <1>1, <1>2 DEF Rest, Waiting
<1> QED
  BY <1>1, <1>2, <1>3, <1>4

(* What the three steps that touch the queues do to what is waiting.        *)
LEMMA AddLockIs ==
  ASSUME IInv, OnceInv, NEW m \in Msgs, AddLock(m)
  PROVE  /\ hand' = hand /\ pc' = pc /\ plan' = plan
         /\ Rest(PlanOf[m])' = Append(Rest(PlanOf[m]), m)
         /\ Waiting(PlanOf[m])' = Waiting(PlanOf[m]) \union {m}
         /\ Distinct(Rest(PlanOf[m])')
         /\ \A p \in Plans \ {PlanOf[m]} : Rest(p)' = Rest(p) /\ Waiting(p)' = Waiting(p)
         /\ adder'[m] \notin {"none", "locking"}
         /\ \A k \in Msgs \ {m} : adder'[k] = adder[k]
         /\ m # hand /\ \A p \in Plans : m \notin Waiting(p)
<1> DEFINE q == PlanOf[m]
<1>1. q \in Plans /\ pc' = pc /\ plan' = plan /\ hand' = hand
  BY DEF AddLock, vendorVars
<1>2. messageQueue' = [messageQueue EXCEPT ![q] = Append(@, m)] /\ messageQueue \in [Plans -> Seq(Msgs)]
  BY DEF AddLock, Enqueue, IInv, TypeInv, Types
<1>3. m # hand /\ \A p \in Plans : m \notin Waiting(p)
  BY DEF AddLock, OnceInv
<1>4. Serving' <=> Serving
  BY <1>1 DEF Serving
<1>5. \A p \in Plans \ {q} : Rest(p)' = Rest(p) /\ Waiting(p)' = Waiting(p)
  BY <1>1, <1>2, <1>4 DEF Rest, Waiting
<1>6. Rest(q)' = Append(Rest(q), m)
  <2>1. messageQueue'[q] = Append(messageQueue[q], m) /\ messageQueue[q] \in Seq(Msgs)
    BY <1>1, <1>2
  <2>2. CASE Serving /\ q = plan
    <3>1. messageQueue[q] # <<>>
      BY <2>2, ServedIs
    <3>2. Tail(Append(messageQueue[q], m)) = Append(Tail(messageQueue[q]), m)
      BY <2>1, <3>1, TailOfAppend
    <3> QED
      BY <1>1, <1>4, <2>1, <2>2, <3>2 DEF Rest
  <2>3. CASE ~(Serving /\ q = plan)
    BY <1>1, <1>4, <2>1, <2>3 DEF Rest
  <2> QED
    BY <2>2, <2>3
<1>7. Distinct(Rest(q)) /\ Rest(q) \in Seq(Msgs) /\ Waiting(q) = Elements(Rest(q)) /\ m \notin Elements(Rest(q))
  BY <1>1, <1>3, RestIs DEF OnceInv
<1>8. Distinct(Append(Rest(q), m)) /\ Elements(Append(Rest(q), m)) = Elements(Rest(q)) \union {m}
  BY <1>7, AppendElements
<1>9. Waiting(q)' = Elements(Rest(q)')
  BY DEF Waiting, Rest
<1>10. adder'[m] \notin {"none", "locking"} /\ \A k \in Msgs \ {m} : adder'[k] = adder[k]
  BY DEF AddLock, IInv, TypeInv, Types
<1> QED
  BY <1>1, <1>3, <1>5, <1>6, <1>7, <1>8, <1>9, <1>10

LEMMA GetNextMessageIs ==
  ASSUME IInv, OnceInv, GetNextMessage
  PROVE  /\ plan \in Plans /\ ~Serving /\ Serving' /\ hand = None /\ plan' = plan /\ adder' = adder
         /\ hand' \in Msgs /\ hand' \in Waiting(plan) /\ pc' = "send"
         /\ Distinct(Rest(plan)')
         /\ Waiting(plan)' = Waiting(plan) \ {hand'}
         /\ \A p \in Plans \ {plan} : Rest(p)' = Rest(p) /\ Waiting(p)' = Waiting(p)
<1> DEFINE q == messageQueue[plan]
<1>1. /\ plan \in Plans /\ ~Serving /\ Serving' /\ plan' = plan /\ messageQueue' = messageQueue
      /\ pc' = "send" /\ adder' = adder
  BY DEF GetNextMessage, Serving, queueVars, IInv, TypeInv, InHand
<1>2. hand = None
  BY <1>1 DEF OnceInv
<1>3. q \in Seq(Msgs) /\ q # <<>>
  BY <1>1 DEF IInv, TypeInv, Types, QueueInv, OnePlace, Holding, GetNextMessage, TrackedHasMessages
<1>4. hand' = Head(q) /\ hand' \in Msgs
  BY <1>3 DEF GetNextMessage, NextMessage
<1>5. Rest(plan) = q /\ Rest(plan)' = Tail(q) /\ Waiting(plan) = Elements(q) /\ Waiting(plan)' = Elements(Tail(q))
  BY <1>1 DEF Rest, Waiting
<1>6. Distinct(q)
  BY <1>1, <1>5 DEF OnceInv
<1>7. Distinct(Tail(q)) /\ Elements(Tail(q)) = Elements(q) \ {Head(q)} /\ Head(q) \in Elements(q)
  BY <1>3, <1>6, TailElements
<1>8. \A p \in Plans \ {plan} : Rest(p)' = Rest(p) /\ Waiting(p)' = Waiting(p)
  BY <1>1 DEF Rest, Waiting
<1> QED
  BY <1>1, <1>2, <1>4, <1>5, <1>7, <1>8

LEMMA RequeueIs ==
  ASSUME IInv, OnceInv, Requeue
  PROVE  /\ plan \in Plans /\ hand \in Msgs /\ hand' = hand /\ plan' = plan /\ adder' = adder
         /\ Serving /\ Serving' /\ pc' = "advance"
         /\ hand \notin Waiting(plan)
         /\ Distinct(Rest(plan)')
         /\ Waiting(plan)' = Waiting(plan) \union {hand}
         /\ \A p \in Plans \ {plan} : Rest(p)' = Rest(p) /\ Waiting(p)' = Waiting(p)
<1> DEFINE q == messageQueue[plan]
<1>1. Serving /\ hand' = hand /\ plan' = plan /\ adder' = adder
  BY DEF Requeue, Serving
<1>2. /\ plan \in Plans /\ q \in Seq(Msgs) /\ q # <<>>
      /\ hand \in Msgs /\ PlanOf[hand] = plan
  BY <1>1, ServedIs
<1>3. ~MustSend(hand)
  BY <1>1, <1>2 DEF MustSend, IInv, QueueInv, OnePlace, Holding
<1>4. /\ pc' = "advance" /\ Serving'
      /\ messageQueue' = [messageQueue EXCEPT ![plan] = Append(@, hand)]
      /\ messageQueue \in [Plans -> Seq(Msgs)]
  BY <1>2, <1>3 DEF Requeue, Enqueue, Serving, IInv, TypeInv, Types
<1>5. Rest(plan) = Tail(q) /\ Rest(plan)' = Append(Tail(q), hand)
  <2>1. messageQueue'[plan] = Append(q, hand)
    BY <1>2, <1>4
  <2>2. Tail(Append(q, hand)) = Append(Tail(q), hand)
    BY <1>2, TailOfAppend
  <2> QED
    BY <1>1, <1>4, <2>1, <2>2 DEF Rest
<1>6. /\ Distinct(Rest(plan)) /\ Rest(plan) \in Seq(Msgs) /\ Waiting(plan) = Elements(Rest(plan))
      /\ hand \notin Waiting(plan)
  BY <1>2, RestIs DEF OnceInv, Requeue
<1>7. /\ Distinct(Append(Rest(plan), hand))
      /\ Elements(Append(Rest(plan), hand)) = Elements(Rest(plan)) \union {hand}
  BY <1>2, <1>6, AppendElements
<1>8. Waiting(plan)' = Elements(Rest(plan)')
  BY DEF Waiting, Rest
<1>9. \A p \in Plans \ {plan} : Rest(p)' = Rest(p) /\ Waiting(p)' = Waiting(p)
  BY <1>1, <1>4 DEF Rest, Waiting
<1> QED
  BY <1>1, <1>2, <1>4, <1>5, <1>6, <1>7, <1>8, <1>9

LEMMA AdvanceQueueIs ==
  ASSUME IInv, OnceInv, AdvanceQueue
  PROVE  /\ hand \in Msgs /\ hand' = None /\ ~Serving' /\ pc' \notin {"send", "requeue"} /\ adder' = adder
         /\ \A p \in Plans : Rest(p)' = Rest(p) /\ Waiting(p)' = Waiting(p)
<1> DEFINE q == messageQueue[plan]
<1>1. Serving /\ hand' = None /\ ~Serving' /\ pc' \notin {"send", "requeue"} /\ adder' = adder
  BY DEF AdvanceQueue, Serving
<1>2. plan \in Plans /\ q \in Seq(Msgs) /\ q # <<>> /\ hand \in Msgs
  BY <1>1, ServedIs
<1>3. messageQueue' = [messageQueue EXCEPT ![plan] = Tail(q)]
  <2>1. CASE MoreWaiting
    BY <2>1 DEF AdvanceQueue
  <2>2. CASE ~MoreWaiting
    <3>1. Tail(q) = <<>>
      BY <1>2, <2>2 DEF MoreWaiting
    <3> QED
      BY <2>2, <3>1 DEF AdvanceQueue
  <2> QED
    BY <2>1, <2>2
<1>4. \A p \in Plans : Rest(p)' = Rest(p)
  BY <1>1, <1>2, <1>3 DEF Rest, IInv, TypeInv, Types
<1>5. \A p \in Plans : Waiting(p)' = Elements(Rest(p)') /\ Waiting(p) = Elements(Rest(p))
  BY DEF Waiting, Rest
<1> QED
  BY <1>1, <1>2, <1>4, <1>5

LEMMA OnceStep == IInv /\ OnceInv /\ [Next]_vars => OnceInv'
<1> SUFFICES ASSUME IInv, OnceInv, [Next]_vars PROVE OnceInv'
  OBVIOUS
<1>1. CASE Elsewhere
  <2>1. plan' \in Plans \/ ~Serving
    BY <1>1, ElsewhereKeeps, ServedIs
  <2>2. pc' \in {"send", "requeue"} => Serving /\ plan' = plan /\ plan \in Plans
    BY <1>1, ElsewhereKeeps, ServedIs DEF Serving
  <2> QED
    BY <1>1, <2>2, ElsewhereKeeps DEF OnceInv
<1>2. ASSUME NEW m \in Msgs, AddLock(m)
      PROVE  OnceInv'
  <2>1. \A p \in Plans : Distinct(Rest(p)')
    BY <1>2, AddLockIs DEF OnceInv
  <2>2. pc' \in {"send", "requeue"} => (hand \notin Waiting(plan))'
    <3> SUFFICES ASSUME pc \in {"send", "requeue"}
                 PROVE  (hand \notin Waiting(plan))'
      BY <1>2, AddLockIs
    <3>1. plan \in Plans /\ hand \notin Waiting(plan)
      BY ServedIs DEF Serving, OnceInv
    <3>2. \A p \in Plans : Waiting(p)' \subseteq Waiting(p) \union {m}
      BY <1>2, AddLockIs
    <3>3. hand' = hand /\ plan' = plan /\ hand # m
      BY <1>2, AddLockIs
    <3> QED
      BY <3>1, <3>2, <3>3
  <2>3. Serving' \/ hand' = None
    BY <1>2, AddLockIs DEF OnceInv, Serving
  <2>4. ASSUME NEW k \in Msgs, adder'[k] \in {"none", "locking"}
        PROVE  k # hand' /\ \A p \in Plans : k \notin Waiting(p)'
    BY <1>2, <2>4, AddLockIs DEF OnceInv
  <2> QED
    BY <2>1, <2>2, <2>3, <2>4 DEF OnceInv
<1>3. CASE GetNextMessage
  BY <1>3, GetNextMessageIs DEF OnceInv
<1>4. CASE Requeue
  BY <1>4, RequeueIs DEF OnceInv
<1>5. CASE AdvanceQueue
  BY <1>5, AdvanceQueueIs DEF OnceInv
<1> QED
  BY <1>1, <1>2, <1>3, <1>4, <1>5 DEF Next, Adding, VendorStep, Terminated, Elsewhere

(* The pool and the hand that the vendor queue shows.                       *)
PoolNow == UNION {Waiting(p) : p \in Plans}
HandNow == IF hand \in PoolNow THEN None ELSE hand

LEMMA PoolInit == Init => Pool!Init
<1> SUFFICES ASSUME Init PROVE Pool!Init
  OBVIOUS
<1>1. \A p \in Plans : Waiting(p) = {}
  BY DEF Init, Serving, Waiting, Elements
<1>2. PoolNow = {} /\ HandNow = None
  BY <1>1 DEF PoolNow, HandNow, Init
<1> QED
  BY <1>2 DEF Pool!Init, PoolNow, HandNow

(* Every step of the queue is a step of the pool, or leaves it alone.       *)
LEMMA PoolStep == IInv /\ OnceInv /\ [Next]_vars => [Pool!Next]_(Pool!poolVars)
<1> SUFFICES ASSUME IInv, OnceInv, [Next]_vars PROVE [Pool!Next]_(Pool!poolVars)
  OBVIOUS
<1> USE DEF PoolNow, HandNow
<1>1. ASSUME PoolNow' = PoolNow, HandNow' = HandNow
      PROVE  [Pool!Next]_(Pool!poolVars)
  BY <1>1 DEF Pool!poolVars
<1>2. CASE Elsewhere
  <2>1. PoolNow' = PoolNow /\ HandNow' = HandNow
    BY <1>2, ElsewhereKeeps
  <2> QED
    BY <1>1, <2>1
<1>3. ASSUME NEW m \in Msgs, AddLock(m)
      PROVE  [Pool!Next]_(Pool!poolVars)
  <2>1. PlanOf[m] \in Plans
    OBVIOUS
  <2>2. PoolNow' = PoolNow \union {m} /\ m \notin PoolNow /\ m # hand /\ hand' = hand
    BY <1>3, <2>1, AddLockIs
  <2>3. HandNow' = HandNow /\ m \notin PoolNow \union {HandNow}
    BY <2>2
  <2>4. Pool!Put(m)
    BY <2>2, <2>3 DEF Pool!Put
  <2> QED
    BY <2>4 DEF Pool!Next
<1>4. CASE GetNextMessage
  <2>1. /\ plan \in Plans /\ plan' = plan /\ hand = None /\ hand' \in Msgs /\ hand' \in Waiting(plan)
        /\ Waiting(plan)' = Waiting(plan) \ {hand'}
        /\ \A p \in Plans \ {plan} : Waiting(p)' = Waiting(p)
    BY <1>4, GetNextMessageIs
  <2>2. ASSUME NEW p \in Plans, p # plan
        PROVE  hand' \notin Waiting(p)
    <3>1. PlanOf[hand'] = plan
      BY <2>1, RestIs
    <3> QED
      BY <2>2, <3>1, RestIs
  <2>3. PoolNow' = PoolNow \ {hand'} /\ hand' \in PoolNow
    <3>1. ASSUME NEW p \in Plans
          PROVE  Waiting(p)' = Waiting(p) \ {hand'}
      <4>1. CASE p = plan
        BY <2>1, <4>1
      <4>2. CASE p # plan
        BY <2>1, <2>2, <4>2
      <4> QED
        BY <4>1, <4>2
    <3>2. hand' \in PoolNow
      BY <2>1
    <3>3. \A x : x \in PoolNow' <=> x \in PoolNow /\ x # hand'
      BY <3>1
    <3> QED
      BY <3>2, <3>3
  <2>4. HandNow = None /\ HandNow' = hand'
    BY <2>1, <2>3
  <2>5. Pool!Take(hand')
    BY <2>3, <2>4 DEF Pool!Take
  <2> QED
    BY <2>1, <2>5 DEF Pool!Next
<1>5. CASE Requeue
  <2>1. /\ plan \in Plans /\ plan' = plan /\ hand \in Msgs /\ hand' = hand /\ PlanOf[hand] = plan
        /\ hand \notin Waiting(plan)
        /\ Waiting(plan)' = Waiting(plan) \union {hand}
        /\ \A p \in Plans \ {plan} : Waiting(p)' = Waiting(p)
    BY <1>5, RequeueIs, ServedIs
  <2>2. \A p \in Plans : hand \notin Waiting(p)
    BY <2>1, RestIs
  <2>3. PoolNow' = PoolNow \union {hand}
    <3>1. ASSUME NEW p \in Plans
          PROVE  Waiting(p)' = IF p = plan THEN Waiting(p) \union {hand} ELSE Waiting(p)
      BY <2>1
    <3>2. \A x : x \in PoolNow' => x \in PoolNow \union {hand}
      BY <3>1
    <3>3. \A x : x \in PoolNow \union {hand} => x \in PoolNow'
      BY <2>1, <3>1
    <3> HIDE DEF PoolNow
    <3> QED
      BY <3>2, <3>3
  <2>4. HandNow = hand /\ HandNow' = None /\ hand # None
    BY <2>1, <2>2, <2>3
  <2>5. Pool!Again
    BY <2>3, <2>4 DEF Pool!Again
  <2> QED
    BY <2>5 DEF Pool!Next
<1>6. CASE AdvanceQueue
  <2>1. PoolNow' = PoolNow /\ HandNow' = None
    BY <1>6, AdvanceQueueIs
  <2>2. CASE HandNow = None
    BY <1>1, <2>1, <2>2
  <2>3. CASE HandNow # None
    <3>1. Pool!Release
      BY <2>1, <2>3 DEF Pool!Release
    <3> QED
      BY <3>1 DEF Pool!Next
  <2> QED
    BY <2>2, <2>3
<1> QED
  BY <1>2, <1>3, <1>4, <1>5, <1>6 DEF Next, Adding, VendorStep, Terminated, Elsewhere

(* The channel of plans with a queue per plan, its lock and its retries,    *)
(* behave as a pool from which the vendor takes one message at a time: none *)
(* is in it twice, lost, or handed out while it is already in hand.         *)
THEOREM QueueIsPool == Spec => ImplementsPool
BY QueueInit, QueueStep, OnceInit, OnceStep, PoolInit, PoolStep, PTL DEF Spec, ImplementsPool, Pool!Spec
=============================================================================
