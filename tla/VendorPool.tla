----------------------------- MODULE VendorPool -----------------------------
(***************************************************************************)
(* What one vendor queue promises to the rest of the message processor,    *)
(* with no plans, no channel and no lock: a pool of messages from which    *)
(* the single goroutine of the vendor takes one message at a time, which   *)
(* it then either lets go or puts back for a retry.                        *)
(*                                                                         *)
(* VendorQueue implements it with a channel of plans and a queue per plan  *)
(* (vendor.go); MessageQueueManager uses it, one pool per vendor, so that  *)
(* it need not model the round robin again.                                *)
(***************************************************************************)
CONSTANTS Msgs,    \* message ids
          None     \* "no message"

VARIABLES pool,    \* the messages waiting in this vendor's queue
          hand     \* the message the vendor goroutine is working on, or None

poolVars == <<pool, hand>>

Init == pool = {} /\ hand = None

(* AddToVendorQueue has taken effect for a message that was not there. *)
Put(m) == /\ m \notin pool \union {hand}
          /\ pool' = pool \union {m}
          /\ UNCHANGED hand

(* The round robin arrives at m: GetNextPlan, then GetNextMessage. *)
Take(m) == /\ hand = None
           /\ m \in pool
           /\ pool' = pool \ {m}
           /\ hand' = m

(* The message was sent, given up or found deleted: the vendor is done. *)
Release == /\ hand # None
           /\ hand' = None
           /\ UNCHANGED pool

(* A failed message goes back to the queue of the same vendor. *)
Again == /\ hand # None
         /\ pool' = pool \union {hand}
         /\ hand' = None

Next == \/ \E m \in Msgs : Put(m) \/ Take(m)
        \/ Release
        \/ Again

Spec == Init /\ [][Next]_poolVars
=============================================================================
