---------------------------- MODULE ProcessProofs ----------------------------
(***************************************************************************)
(* Proofs about Process, for any vendors and applications: its types, that  *)
(* it keeps having keys, and that it only ends by itself when everything    *)
(* has come to rest.                                                       *)
(*                                                                         *)
(* GracefulExit is not inductive: what main knows is that the loop of the   *)
(* message queue manager is done, and that one has waited for the vendors.  *)
(* QueueWaited says so, and vendors that are done stay done.               *)
(***************************************************************************)
EXTENDS Process, TLAPS

QueueWaited == loop["messageQueueManager"] = "done" => VendorsDone

LoopsEnded == main = "exited" => \A l \in Loops : loop[l] = "done"

Quitting == loop["messageQueueManager"] = "quitting" => vendorQuit

IInv == TypeOK /\ ReadyHasKeys /\ QueueWaited /\ LoopsEnded /\ Quitting

LEMMA InitInv == Init => IInv
  BY DEF Init, IInv, TypeOK, ReadyHasKeys, QueueWaited, LoopsEnded, Quitting, Loops

(* The keys do not touch the loops, except for where the checker stands.    *)
LEMMA AuthInv == IInv /\ (KeysChange \/ RefreshKeys \/ RefreshFails) => IInv'
<1> USE DEF IInv, TypeOK, ReadyHasKeys, QueueWaited, LoopsEnded, Quitting, Loops, VendorsDone, vendorVars, authVars,
            Alive, Goto, Fetched, SomeKeys
<1>1. ASSUME IInv, KeysChange PROVE IInv'
  BY <1>1 DEF KeysChange
<1>2. ASSUME IInv, RefreshKeys PROVE IInv'
  <2>1. /\ appAuthMap' \subseteq Apps /\ readyStatus' \in BOOLEAN
        /\ ReadyHasKeys'
    <3>1. CASE SomeKeys /\ appAuthMap' = Fetched /\ readyStatus' = TRUE
      BY <1>2, <3>1
    <3>2. CASE UNCHANGED <<appAuthMap, readyStatus>>
      BY <1>2, <3>2
    <3> QED BY <1>2, <3>1, <3>2, Zenon DEF RefreshKeys
  <2>2. /\ loop["authChecker"] = "work"
        /\ loop' = [loop EXCEPT !["authChecker"] = "look"]
        /\ UNCHANGED <<irisApps, quit, main, vendorQuit, closed, vendor>>
    BY <1>2 DEF RefreshKeys
  <2> HIDE DEF ReadyHasKeys
  <2> QED BY <1>2, <2>1, <2>2
<1>3. ASSUME IInv, RefreshFails PROVE IInv'
  BY <1>3 DEF RefreshFails
<1> QED BY <1>1, <1>2, <1>3

(* A loop that ends is the message queue manager's only after vendorWg.     *)
LEMMA LoopInv ==
  ASSUME IInv, NEW l \in Loops, LoopStep(l)
  PROVE  IInv'
<1> USE DEF IInv, TypeOK, ReadyHasKeys, QueueWaited, LoopsEnded, Quitting, Loops, VendorsDone, vendorVars, authVars,
            Alive, Goto
<1>1. CASE Work(l)
  BY <1>1 DEF Work
<1>2. CASE LookAtQuit(l)
  <2>1. CASE l = "messageQueueManager"
    BY <1>2, <2>1 DEF LookAtQuit
  <2>2. CASE l # "messageQueueManager"
    BY <1>2, <2>2 DEF LookAtQuit
  <2> QED BY <2>1, <2>2
<1>3. CASE NextTick(l)
  BY <1>3 DEF NextTick
<1> QED BY <1>1, <1>2, <1>3 DEF LoopStep

(* The incident manager comes up, or nothing does.                         *)
LEMMA SetupInv == IInv /\ (LoadPriorityMap \/ LoadFails) => IInv'
  BY DEF IInv, TypeOK, ReadyHasKeys, QueueWaited, LoopsEnded, Quitting, Loops, VendorsDone, vendorVars, authVars,
         Alive, Goto, LoadPriorityMap, LoadFails

(* The message queue manager is done when its vendors are.                  *)
LEMMA QueueEndsInv == IInv /\ QueueEnds => IInv'
<1> SUFFICES ASSUME IInv, QueueEnds PROVE IInv'
  OBVIOUS
<1> USE DEF IInv, TypeOK, ReadyHasKeys, QueueWaited, LoopsEnded, Quitting, Loops, VendorsDone, vendorVars, authVars,
            Alive, Goto
<1>1. ASSUME NEW v \in Vendors, QuitVendor(v) PROVE IInv'
  BY <1>1 DEF QuitVendor, ReadyToQuit
<1>2. ASSUME AllQuit PROVE IInv'
  BY <1>2 DEF AllQuit
<1>3. ASSUME VendorWgWait PROVE IInv'
  BY <1>3 DEF VendorWgWait
<1> HIDE DEF IInv
<1> QED BY <1>1, <1>2, <1>3 DEF QueueEnds

(* No vendor leaves the end of its loop.                                   *)
LEMMA VendorInv ==
  ASSUME IInv, NEW v \in Vendors, VendorStep(v) \/ GetNextPlan(v) \/ SenderPanics(v)
  PROVE  IInv'
<1> USE DEF IInv, TypeOK, ReadyHasKeys, QueueWaited, LoopsEnded, Quitting, Loops, VendorsDone, vendorVars, authVars,
            Alive
<1>1. CASE SenderPanics(v)
  BY <1>1 DEF SenderPanics
<1>2. ASSUME NEW from \in {"top", "plan", "send", "wait"}, NEW to \in {"top", "plan", "send", "wait", "done"},
             VendorGoto(v, from, to)
      PROVE  IInv'
  <2>1. vendor' \in [Vendors -> {"top", "plan", "send", "wait", "done"}]
    BY <1>2 DEF VendorGoto
  <2>2. ~VendorsDone
    BY <1>2 DEF VendorGoto
  <2> QED BY <1>2, <2>1, <2>2 DEF VendorGoto
<1>3. CASE VendorStep(v) \/ GetNextPlan(v)
  BY <1>2, <1>3, Zenon DEF VendorStep, VendorTop, NoPlan, SendMessage, VendorTick, GetNextPlan
<1> QED BY <1>1, <1>3

LEMMA MainInv == IInv /\ (Signal \/ ServerFails \/ MainWgWait \/ UNCHANGED vars) => IInv'
<1> USE DEF IInv, TypeOK, ReadyHasKeys, QueueWaited, LoopsEnded, Quitting, Loops, VendorsDone, vendorVars, authVars,
            Alive
<1>1. ASSUME IInv, Signal PROVE IInv'
  BY <1>1 DEF Signal
<1>2. ASSUME IInv, ServerFails PROVE IInv'
  BY <1>2 DEF ServerFails
<1>3. ASSUME IInv, MainWgWait PROVE IInv'
  BY <1>3 DEF MainWgWait
<1>4. ASSUME IInv, UNCHANGED vars PROVE IInv'
  BY <1>4 DEF vars
<1> QED BY <1>1, <1>2, <1>3, <1>4

(* IInv holds in every state.                                              *)
THEOREM Inductive == Spec => []IInv
<1>1. IInv /\ [Next]_vars => IInv'
  BY AuthInv, LoopInv, SetupInv, QueueEndsInv, VendorInv, MainInv DEF Next
<1> QED BY <1>1, InitInv, PTL DEF Spec

(* The variables have the values their Go counterparts can have, and the    *)
(* channels of plans are closed after vendorQuit (messageQueueManager.go:476-479). *)
THEOREM TypeCorrect == Spec => []TypeOK
<1>1. IInv => TypeOK
  BY DEF IInv
<1> QED BY <1>1, Inductive, PTL

(* A process that is ready keeps having keys (hmacAuth.go:168-174).         *)
THEOREM ReadyCorrect == Spec => []ReadyHasKeys
<1>1. IInv => ReadyHasKeys
  BY DEF IInv
<1> QED BY <1>1, Inductive, PTL

(* When main exits, every loop and every vendor has ended                   *)
(* (main.go:144-149, messageQueueManager.go:474-484).                      *)
THEOREM GracefulExitCorrect == Spec => []GracefulExit
<1>1. IInv => GracefulExit
  BY DEF IInv, QueueWaited, LoopsEnded, VendorsDone, GracefulExit, Loops
<1> QED BY <1>1, Inductive, PTL
=============================================================================
