---------------------- MODULE MessageQueueManagerProofs ----------------------
(***************************************************************************)
(* Proofs about MessageQueueManager, for all messages, vendors and limits: *)
(* its safety invariants, the action properties SuccessIsFinal and         *)
(* NoResurrection, that it implements MessageTracker for its clients, and  *)
(* that every vendor uses its queue as VendorPool allows.                  *)
(*                                                                         *)
(* The inductive invariant IInv follows a message on its way.  Alone says  *)
(* that it is in one place; Clients what its owner has done with it;       *)
(* Items, Copies, Queues and Turns, for each place, how the item in the    *)
(* tracker, the local copy of a vendor and the history of the message are  *)
(* related there.  A deleted message may still be in a place: it is found  *)
(* missing by CheckMessage, or its last write is ignored.                  *)
(***************************************************************************)
EXTENDS MessageQueueManager, FiniteSetTheorems, TLAPS

(* m is somewhere outside the tracker: Places(m) # {}.                      *)
Somewhere(m) ==
  \/ m \in unqueued
  \/ adding[m] # None
  \/ \E v \in Vendors : m \in pool[v] \/ msgUUID[v] = m

(* Nothing has been done with m yet.                                       *)
Untouched(m) == attempts[m] = 0 /\ succeeded[m] = 0

(* m may be tried once more: no attempt has succeeded, and its retries are   *)
(* not used up.                                                            *)
Unsent(m) == attempts[m] <= MaxMessageRetries /\ succeeded[m] = 0

(* An attempt has succeeded, or the retries of m are used up.               *)
Spent(m) ==
  /\ attempts[m] <= MaxMessageRetries + 1
  /\ succeeded[m] <= 1
  /\ succeeded[m] = 1 \/ attempts[m] = MaxMessageRetries + 1

(* The item that vendor v works on, or will read for m, counts what has     *)
(* been done with m and agrees with the vendor on how it was routed.        *)
Faithful(item, m, v) ==
  /\ item.active /\ item.queued
  /\ item.retries = attempts[m]
  /\ v = RouteOf(m, item.batched)

(* All the places of a message are one.                                    *)
Alone ==
  \A m \in Msgs :
    /\ m \in unqueued => adding[m] = None
    /\ m \in unqueued \/ adding[m] # None => \A v \in Vendors : m \notin pool[v] /\ msgUUID[v] # m
    /\ \A v, w \in Vendors :
         /\ m \in pool[v] => msgUUID[w] # m
         /\ m \in pool[v] /\ m \in pool[w] => v = w
         /\ msgUUID[v] = m /\ msgUUID[w] = m => v = w

(* A message that nobody has handed over is unknown to the tracker, one      *)
(* that its incident still holds is in it; the unknown ones are nowhere.     *)
Clients ==
  \A m \in Msgs :
    /\ client[m] \in {"idle", "accepted"} => m \notin Present \union gone
    /\ client[m] \in {"holding", "cleaning", "dropping"} => Kind[m] = "incident" /\ m \in Present
    /\ client[m] = "accepted" => Kind[m] = "oob"
    /\ m \notin Present \union gone => Untouched(m) /\ ~Somewhere(m)
    /\ ~(m \in Present /\ m \in gone)

(* What the tracker says: a message that is not queued is untouched, one     *)
(* that is queued and active is on its way, one that is inactive is done.    *)
Items ==
  \A m \in Present :
    /\ ~tracker[m].queued => /\ tracker[m].active /\ tracker[m].retries = 0
                             /\ Untouched(m) /\ ~Somewhere(m)
    /\ tracker[m].queued /\ tracker[m].active => Somewhere(m)
    /\ ~tracker[m].active => Spent(m)

(* What RunOnce has found and not put into a queue yet.                      *)
Copies ==
  \A m \in Msgs :
    m \in unqueued \/ adding[m] # None =>
      /\ Untouched(m)
      /\ m \in Present => /\ tracker[m].active /\ tracker[m].queued /\ tracker[m].retries = 0
                          /\ adding[m] # None => adding[m] = RouteOf(m, tracker[m].batched)

(* What waits in a queue.                                                    *)
Queues ==
  \A v \in Vendors : \A m \in pool[v] :
    /\ Unsent(m)
    /\ m \in Present => Faithful(tracker[m], m, v)

(* A vendor has a message, and a copy of its item, exactly while it works.   *)
Goroutines ==
  \A v \in Vendors :
    /\ pc[v] = "idle" <=> msgUUID[v] = None
    /\ pc[v] \in {"idle", "check"} <=> msgItem[v] = None

(* The message a vendor works on: its copy is what the tracker has, or will  *)
(* have once it is written back, unless the message has been deleted.        *)
Turns ==
  \A v \in Vendors :
    LET m == msgUUID[v] IN
    /\ pc[v] = "check" => Unsent(m) /\ (m \in Present => Faithful(tracker[m], m, v))
    /\ pc[v] \in {"send", "retry", "requeue"} => Unsent(m) /\ Faithful(msgItem[v], m, v)
    /\ pc[v] \in {"finish", "advance", "delete"} =>
         Spent(m) /\ ~msgItem[v].active /\ msgItem[v].queued
    /\ msgItem[v] # None => v = RouteOf(m, msgItem[v].batched)
    /\ m \in Present =>
          /\ pc[v] \in {"send", "requeue", "advance", "delete"} => tracker[m] = msgItem[v]
          /\ pc[v] \in {"finish", "retry"} => tracker[m].active /\ tracker[m].queued

Limits == \A m \in Msgs : attempts[m] <= MaxMessageRetries + 1 /\ succeeded[m] <= 1

TInv == TypeOK /\ Goroutines

IInv == TInv /\ Alone /\ Clients /\ Items /\ Copies /\ Queues /\ Turns /\ Limits

(* None is neither a message nor a vendor nor an item.                      *)
LEMMA Nothing ==
  /\ None \notin Msgs
  /\ None \notin Vendors
  /\ None \notin Item
BY MsgsAssumption, NoneAssumption DEF MsgsAssumption, NoneAssumption

(* The limits are numbers.                                                 *)
LEMMA Limited ==
  /\ MaxMessageRetries \in Nat
  /\ MaxQueueLength \in Nat
BY LimitsAssumption DEF LimitsAssumption

(* What a failure, a final outcome and RunOnce change in an item.           *)
LEMMA ItemFields ==
  ASSUME NEW item \in Item
  PROVE  /\ item.retries \in Nat
         /\ Failed(item) \in Item
         /\ Failed(item).active = item.active
         /\ Failed(item).queued = item.queued
         /\ Failed(item).batched = item.batched
         /\ Failed(item).retries = item.retries + 1
         /\ [item EXCEPT !.active = FALSE] \in Item
         /\ ~[item EXCEPT !.active = FALSE].active
         /\ [item EXCEPT !.active = FALSE].queued = item.queued
         /\ [item EXCEPT !.active = FALSE].batched = item.batched
         /\ [item EXCEPT !.queued = TRUE] \in Item
         /\ [item EXCEPT !.queued = TRUE].queued
         /\ [item EXCEPT !.queued = TRUE].active = item.active
         /\ [item EXCEPT !.queued = TRUE].retries = item.retries
         /\ [item EXCEPT !.queued = TRUE].batched = item.batched
<1>1. item.retries \in Nat
  BY DEF Item
<1>2. /\ Failed(item) \in Item
      /\ Failed(item).active = item.active
      /\ Failed(item).queued = item.queued
      /\ Failed(item).batched = item.batched
      /\ Failed(item).retries = item.retries + 1
  BY DEF Item, Failed
<1>3. /\ [item EXCEPT !.active = FALSE] \in Item
      /\ ~[item EXCEPT !.active = FALSE].active
      /\ [item EXCEPT !.active = FALSE].queued = item.queued
      /\ [item EXCEPT !.active = FALSE].batched = item.batched
  BY DEF Item
<1>4. /\ [item EXCEPT !.queued = TRUE] \in Item
      /\ [item EXCEPT !.queued = TRUE].queued
      /\ [item EXCEPT !.queued = TRUE].active = item.active
      /\ [item EXCEPT !.queued = TRUE].retries = item.retries
      /\ [item EXCEPT !.queued = TRUE].batched = item.batched
  BY DEF Item
<1> QED
  BY <1>1, <1>2, <1>3, <1>4

Routed(aggregated) == [NewItem EXCEPT !.queued = TRUE, !.batched = aggregated]

(* A new item and the item RunOnce records once it has routed a message.    *)
LEMMA NewItems ==
  /\ NewItem \in Item
  /\ NewItem.active /\ ~NewItem.queued /\ NewItem.retries = 0
  /\ \A aggregated \in BOOLEAN :
       /\ Routed(aggregated) \in Item
       /\ Routed(aggregated).active /\ Routed(aggregated).queued
       /\ Routed(aggregated).retries = 0
       /\ Routed(aggregated).batched = aggregated
<1>1. NewItem \in Item /\ NewItem.active /\ ~NewItem.queued /\ NewItem.retries = 0
  BY DEF Item, NewItem
<1>2. ASSUME NEW aggregated \in BOOLEAN
      PROVE  /\ Routed(aggregated) \in Item
             /\ Routed(aggregated).active /\ Routed(aggregated).queued
             /\ Routed(aggregated).retries = 0
             /\ Routed(aggregated).batched = aggregated
  BY DEF Item, NewItem, Routed
<1> QED
  BY <1>1, <1>2

(* The operations on the tracker keep it a tracker.                        *)
LEMMA AddType ==
  ASSUME TypeOK, NEW m \in Msgs, AddMessage(m)
  PROVE  tracker' \in [Msgs -> Item \union {None}] /\ gone' \subseteq Msgs
BY NewItems DEF TypeOK, AddMessage

(* ... UpdateMessage too ...                                               *)
LEMMA UpdateType ==
  ASSUME TypeOK, NEW m \in Msgs, NEW item \in Item, UpdateMessage(m, item)
  PROVE  tracker' \in [Msgs -> Item \union {None}] /\ gone' \subseteq Msgs
BY DEF TypeOK, UpdateMessage

(* ... and DeleteMessage.                                                  *)
LEMMA DeleteType ==
  ASSUME TypeOK, NEW m \in Msgs, DeleteMessage(m)
  PROVE  tracker' \in [Msgs -> Item \union {None}] /\ gone' \subseteq Msgs
BY DEF TypeOK, DeleteMessage

(* What RunOnce does to the item of one message.                           *)
LEMMA MarkedIs ==
  ASSUME TypeOK, NEW m \in Msgs
  PROVE  /\ Marked[m] = IF m \in Unqueued THEN [tracker[m] EXCEPT !.queued = TRUE] ELSE tracker[m]
         /\ Marked[m] \in Item \union {None}
         /\ Marked[m] = None <=> tracker[m] = None
         /\ m \in Present => tracker[m] \in Item /\ Marked[m] \in Item
<1>1. Marked[m] = IF m \in Unqueued THEN [tracker[m] EXCEPT !.queued = TRUE] ELSE tracker[m]
  BY DEF Marked
<1>2. tracker[m] \in Item \union {None}
  BY DEF TypeOK
<1>3. m \in Unqueued => tracker[m] \in Item /\ m \in Present
  BY <1>2 DEF Unqueued, Present
<1>4. m \in Present <=> tracker[m] # None
  BY DEF Present
<1>5. CASE m \in Unqueued
  <2>1. Marked[m] \in Item
    <3>1. Marked[m] = [tracker[m] EXCEPT !.queued = TRUE]
      BY <1>1, <1>5
    <3>2. [tracker[m] EXCEPT !.queued = TRUE] \in Item
      BY <1>3, <1>5, ItemFields
    <3> QED BY <3>1, <3>2, Zenon
  <2> QED
    BY <1>1, <1>3, <1>5, <2>1, Nothing DEF Present
<1>6. CASE m \notin Unqueued
  BY <1>1, <1>2, <1>4, <1>6
<1> QED
  BY <1>5, <1>6

(* The type invariant holds at first ...                                   *)
LEMMA TypeInit == Init => TypeOK
<1> SUFFICES ASSUME Init PROVE TypeOK
  OBVIOUS
<1>1. /\ tracker \in [Msgs -> Item \union {None}]
      /\ adding \in [Msgs -> Vendors \union {None}]
      /\ msgUUID \in [Vendors -> Msgs \union {None}]
      /\ msgItem \in [Vendors -> Item \union {None}]
      /\ pool \in [Vendors -> SUBSET Msgs]
  BY DEF Init
<1>2. /\ pc \in [Vendors -> {"idle", "check", "send", "finish", "retry", "requeue", "advance", "delete"}]
      /\ client \in [Msgs -> {"idle", "accepted", "holding", "cleaning", "dropping", "forgotten", "done"}]
  BY DEF Init
<1>3. attempts \in [Msgs -> Nat] /\ succeeded \in [Msgs -> Nat] /\ notified \subseteq Msgs
  BY DEF Init
<1> QED
  BY <1>1, <1>2, <1>3 DEF Init, TypeOK

(* ... and is kept, with Goroutines: the item a vendor writes back is one.  *)
LEMMA TypeStep ==
  ASSUME TInv, [Next]_vars
  PROVE  TInv'
<1> USE DEF TInv, Goroutines
<1>1. ASSUME NEW m \in Msgs, PostNotification(m)
      PROVE  TInv'
  BY <1>1 DEF TypeOK, PostNotification, queueVars, vendorVars, historyVars
<1>2. ASSUME NEW m \in Msgs, AddNotification(m)
      PROVE  TInv'
  BY <1>2, AddType DEF TypeOK, AddNotification, queueVars, vendorVars, historyVars
<1>3. ASSUME NEW m \in Msgs, AddErrorMessage(m)
      PROVE  TInv'
  BY <1>3, AddType DEF TypeOK, AddErrorMessage, queueVars, vendorVars, historyVars
<1>4. ASSUME NEW m \in Msgs, Poll(m)
      PROVE  TInv'
  BY <1>4, AddType DEF TypeOK, Poll, queueVars, vendorVars, historyVars
<1>5. ASSUME NEW m \in Msgs, CleanUp(m)
      PROVE  TInv'
  BY <1>5, DeleteType DEF TypeOK, CleanUp, queueVars, vendorVars, historyVars
<1>6. ASSUME NEW m \in Msgs, DropMessage(m)
      PROVE  TInv'
  BY <1>6 DEF TypeOK, DropMessage, queueVars, vendorVars, historyVars
<1>7. ASSUME NEW m \in Msgs, DropDelete(m)
      PROVE  TInv'
  BY <1>7, DeleteType DEF TypeOK, DropDelete, queueVars, vendorVars, historyVars
<1>19. ASSUME NEW m \in Msgs, Forget(m)
      PROVE  TInv'
  BY <1>19 DEF TypeOK, Forget, queueVars, vendorVars, historyVars
<1>8. CASE RunOnce
  <2>1. tracker' \in [Msgs -> Item \union {None}]
    BY <1>8, MarkedIs DEF RunOnce, Marked
  <2>2. queueFull' \in BOOLEAN /\ unqueued' \subseteq Msgs
    BY <1>8 DEF RunOnce, Full, Unqueued, Present
  <2> QED
    BY <1>8, <2>1, <2>2 DEF TypeOK, RunOnce, vendorVars, historyVars
<1>9. ASSUME NEW m \in Msgs, Route(m)
      PROVE  TInv'
  <2>1. PICK aggregated \in BOOLEAN :
          /\ UpdateMessage(m, Routed(aggregated))
          /\ adding' = [adding EXCEPT ![m] = RouteOf(m, aggregated)]
    BY <1>9 DEF Route, RecordRoute, Routed
  <2>2. tracker' \in [Msgs -> Item \union {None}] /\ gone' \subseteq Msgs
    BY <2>1, NewItems, UpdateType
  <2>3. RouteOf(m, aggregated) \in Vendors
    BY VendorsAssumption DEF VendorsAssumption, RouteOf
  <2>4. adding' \in [Msgs -> Vendors \union {None}]
    BY <2>1, <2>3 DEF TypeOK
  <2> QED
    BY <1>9, <2>2, <2>4 DEF TypeOK, Route, vendorVars, historyVars
<1>10. ASSUME NEW m \in Msgs, AddToVendorQueue(m)
       PROVE  TInv'
  BY <1>10 DEF TypeOK, AddToVendorQueue, vendorVars, historyVars
<1>11. ASSUME NEW v \in Vendors, NEW m \in Msgs, GetNextMessage(v, m)
       PROVE  TInv'
  BY <1>11, Nothing DEF TypeOK, GetNextMessage, Taken, historyVars
<1>12. ASSUME NEW v \in Vendors, CheckMessage(v)
       PROVE  TInv'
  <2>1. CASE msgUUID[v] \in Present
    BY <1>12, <2>1 DEF TypeOK, CheckMessage, Present, queueVars, historyVars
  <2>2. CASE msgUUID[v] \notin Present
    BY <1>12, <2>2 DEF TypeOK, CheckMessage, queueVars, historyVars
  <2> QED
    BY <2>1, <2>2
<1>13. ASSUME NEW v \in Vendors, SendMessage(v)
       PROVE  TInv'
  <2>1. msgItem[v] \in Item /\ msgUUID[v] \in Msgs /\ pc[v] = "send"
    BY <1>13, Nothing DEF TypeOK, SendMessage
  <2>2. [msgItem[v] EXCEPT !.active = FALSE] \in Item /\ Failed(msgItem[v]) \in Item
    BY <2>1, ItemFields
  <2>3. \/ /\ msgItem' = [msgItem EXCEPT ![v] = [msgItem[v] EXCEPT !.active = FALSE]]
           /\ pc' = [pc EXCEPT ![v] = "finish"]
        \/ /\ msgItem' = [msgItem EXCEPT ![v] = Failed(msgItem[v])]
           /\ pc' = [pc EXCEPT ![v] = "retry"]
    BY <1>13 DEF SendMessage
  <2>4. /\ succeeded' \in [Msgs -> Nat] /\ attempts' \in [Msgs -> Nat]
        /\ notified' \subseteq Msgs
    BY <1>13, <2>1 DEF TypeOK, SendMessage
  <2>5. \A w \in Vendors : msgItem'[w] # None <=> msgItem[w] # None
    BY <2>1, <2>2, <2>3, Nothing DEF TypeOK
  <2>6. msgItem' \in [Vendors -> Item \union {None}]
    BY <2>2, <2>3 DEF TypeOK
  <2>7. \A w \in Vendors : pc'[w] = pc[w] \/ (w = v /\ pc'[w] \in {"finish", "retry"})
    BY <2>3 DEF TypeOK
  <2>8. pc' \in [Vendors -> {"idle", "check", "send", "finish", "retry", "requeue", "advance", "delete"}]
    BY <2>3 DEF TypeOK
  <2>9. UNCHANGED <<tracker, gone, queueFull, queueVars, msgUUID, client, dropped>>
    BY <1>13 DEF SendMessage
  <2>10. TypeOK'
    BY <2>4, <2>6, <2>8, <2>9 DEF TypeOK, queueVars
  <2> QED
    BY <2>1, <2>5, <2>7, <2>9, <2>10
<1>14. ASSUME NEW v \in Vendors, WriteBack(v)
       PROVE  TInv'
  <2>1. msgItem[v] \in Item /\ msgUUID[v] \in Msgs
    BY <1>14 DEF TypeOK, WriteBack
  <2>2. tracker' \in [Msgs -> Item \union {None}] /\ gone' \subseteq Msgs
    BY <1>14, <2>1, UpdateType DEF WriteBack, RecordOutcome
  <2> QED
    BY <1>14, <2>2 DEF TypeOK, WriteBack, queueVars, historyVars
<1>15. ASSUME NEW v \in Vendors, Requeue(v)
       PROVE  TInv'
  BY <1>15 DEF TypeOK, Requeue, historyVars
<1>16. ASSUME NEW v \in Vendors, AdvanceQueue(v)
       PROVE  TInv'
  BY <1>16 DEF TypeOK, AdvanceQueue, queueVars, historyVars
<1>17. ASSUME NEW v \in Vendors, VendorDelete(v)
       PROVE  TInv'
  <2>1. tracker' \in [Msgs -> Item \union {None}] /\ gone' \subseteq Msgs
    <3>1. msgUUID[v] \in Msgs
      BY <1>17 DEF VendorDelete, TypeOK
    <3>2. DeleteMessage(msgUUID[v]) \/ UNCHANGED <<tracker, gone>>
      BY <1>17 DEF VendorDelete
    <3> QED
      BY <3>1, <3>2, DeleteType DEF TypeOK
  <2> QED
    BY <1>17, <2>1 DEF TypeOK, VendorDelete, queueVars, historyVars
<1>18. CASE UNCHANGED vars
  BY <1>18 DEF TypeOK, vars, queueVars, vendorVars, historyVars
<1> QED
  BY <1>1, <1>2, <1>3, <1>4, <1>5, <1>6, <1>7, <1>8, <1>9, <1>10, <1>11, <1>12,
     <1>13, <1>14, <1>15, <1>16, <1>17, <1>18, <1>19 DEF Next, Client, VendorStep

(* PostNotification. Only the owner's state changes.                       *)
LEMMA PostNotificationStep ==
  ASSUME IInv, TInv', NEW m \in Msgs, PostNotification(m)
  PROVE  IInv'
<1>1. Alone'
  BY DEF IInv, Alone, PostNotification, queueVars, vendorVars, historyVars
<1>2. Clients'
  BY DEF IInv, Clients, Untouched, Somewhere, Present, PostNotification, queueVars, vendorVars,
     historyVars
<1>3. Items'
  BY DEF IInv, Items, Untouched, Somewhere, Spent, Present, PostNotification, queueVars, vendorVars,
     historyVars
<1>4. Copies'
  BY DEF IInv, Copies, Untouched, Present, PostNotification, queueVars, vendorVars, historyVars
<1>5. Queues'
  BY DEF IInv, Queues, Unsent, Faithful, Present, PostNotification, queueVars, vendorVars, historyVars
<1>6. Turns'
  BY DEF IInv, Turns, Unsent, Spent, Faithful, Present, PostNotification, queueVars, vendorVars,
     historyVars
<1>7. Limits'
  BY DEF IInv, Limits, PostNotification, queueVars, vendorVars, historyVars
<1> QED
  BY <1>1, <1>2, <1>3, <1>4, <1>5, <1>6, <1>7 DEF IInv

(* AddNotification. The accepted message is unknown, so it is nowhere.     *)
LEMMA AddNotificationStep ==
  ASSUME IInv, TInv', NEW m \in Msgs, AddNotification(m)
  PROVE  IInv'
<1>1. Alone'
  BY DEF IInv, Alone, AddNotification, AddMessage, queueVars, vendorVars, historyVars
<1>2. Clients'
  BY Nothing DEF IInv, TInv, TypeOK, Clients, Untouched, Somewhere, Present, AddNotification,
     AddMessage, queueVars, vendorVars, historyVars
<1>3. Items'
  BY Nothing, NewItems DEF IInv, TInv, TypeOK, Items, Untouched, Somewhere, Spent, Present, Clients,
     AddNotification, AddMessage, queueVars, vendorVars, historyVars
<1>4. Copies'
  BY Nothing DEF IInv, TInv, TypeOK, Copies, Untouched, Present, Clients, Somewhere, AddNotification,
     AddMessage, queueVars, vendorVars, historyVars
<1>5. Queues'
  BY Nothing DEF IInv, TInv, TypeOK, Queues, Unsent, Faithful, Present, Clients, Somewhere, Untouched,
     AddNotification, AddMessage, queueVars, vendorVars, historyVars
<1>6. Turns'
  BY Nothing DEF IInv, TInv, TypeOK, Turns, Unsent, Spent, Faithful, Present, Clients, Somewhere,
     Untouched, AddNotification, AddMessage, queueVars, vendorVars, historyVars
<1>7. Limits'
  BY DEF IInv, Limits, AddNotification, AddMessage, queueVars, vendorVars, historyVars
<1> QED
  BY <1>1, <1>2, <1>3, <1>4, <1>5, <1>6, <1>7 DEF IInv

(* AddErrorMessage. As AddNotification.                                    *)
LEMMA AddErrorMessageStep ==
  ASSUME IInv, TInv', NEW m \in Msgs, AddErrorMessage(m)
  PROVE  IInv'
<1>1. Alone'
  BY DEF IInv, Alone, AddErrorMessage, AddMessage, queueVars, vendorVars, historyVars
<1>2. Clients'
  BY Nothing DEF IInv, TInv, TypeOK, Clients, Untouched, Somewhere, Present, AddErrorMessage,
     AddMessage, queueVars, vendorVars, historyVars
<1>3. Items'
  BY Nothing, NewItems DEF IInv, TInv, TypeOK, Items, Untouched, Somewhere, Spent, Present, Clients,
     AddErrorMessage, AddMessage, queueVars, vendorVars, historyVars
<1>4. Copies'
  BY Nothing DEF IInv, TInv, TypeOK, Copies, Untouched, Present, Clients, Somewhere, AddErrorMessage,
     AddMessage, queueVars, vendorVars, historyVars
<1>5. Queues'
  BY Nothing DEF IInv, TInv, TypeOK, Queues, Unsent, Faithful, Present, Clients, Somewhere, Untouched,
     AddErrorMessage, AddMessage, queueVars, vendorVars, historyVars
<1>6. Turns'
  BY Nothing DEF IInv, TInv, TypeOK, Turns, Unsent, Spent, Faithful, Present, Clients, Somewhere,
     Untouched, AddErrorMessage, AddMessage, queueVars, vendorVars, historyVars
<1>7. Limits'
  BY DEF IInv, Limits, AddErrorMessage, AddMessage, queueVars, vendorVars, historyVars
<1> QED
  BY <1>1, <1>2, <1>3, <1>4, <1>5, <1>6, <1>7 DEF IInv

(* Poll. A held message is in the tracker; another one is unknown.         *)
LEMMA PollStep ==
  ASSUME IInv, TInv', NEW m \in Msgs, Poll(m)
  PROVE  IInv'
<1>1. Alone'
  BY DEF IInv, Alone, Poll, AddMessage, queueVars, vendorVars, historyVars
<1>2. Clients'
  BY Nothing, NewItems DEF IInv, TInv, TypeOK, Clients, Untouched, Somewhere, Present, Poll,
     AddMessage, queueVars, vendorVars, historyVars
<1>3. Items'
  BY Nothing, NewItems DEF IInv, TInv, TypeOK, Items, Untouched, Somewhere, Spent, Present, Clients,
     Poll, AddMessage, queueVars, vendorVars, historyVars
<1>4. Copies'
  BY Nothing DEF IInv, TInv, TypeOK, Copies, Untouched, Present, Clients, Somewhere, Poll, AddMessage,
     queueVars, vendorVars, historyVars
<1>5. Queues'
  BY Nothing DEF IInv, TInv, TypeOK, Queues, Unsent, Faithful, Present, Clients, Somewhere, Untouched,
     Poll, AddMessage, queueVars, vendorVars, historyVars
<1>6. Turns'
  BY Nothing DEF IInv, TInv, TypeOK, Turns, Unsent, Spent, Faithful, Present, Clients, Somewhere,
     Untouched, Poll, AddMessage, queueVars, vendorVars, historyVars
<1>7. Limits'
  BY DEF IInv, Limits, Poll, AddMessage, queueVars, vendorVars, historyVars
<1> QED
  BY <1>1, <1>2, <1>3, <1>4, <1>5, <1>6, <1>7 DEF IInv

(* CleanUp. The places of the message, if any, keep it.                    *)
LEMMA CleanUpStep ==
  ASSUME IInv, TInv', NEW m \in Msgs, CleanUp(m)
  PROVE  IInv'
<1>1. Alone'
  BY DEF IInv, Alone, CleanUp, DeleteMessage, queueVars, vendorVars, historyVars
<1>2. Clients'
  BY Nothing DEF IInv, TInv, TypeOK, Clients, Untouched, Somewhere, Present, CleanUp, DeleteMessage,
     queueVars, vendorVars, historyVars
<1>3. Items'
  BY DEF IInv, Items, Untouched, Somewhere, Spent, Present, CleanUp, DeleteMessage, queueVars,
     vendorVars, historyVars
<1>4. Copies'
  BY DEF IInv, Copies, Untouched, Present, CleanUp, DeleteMessage, queueVars, vendorVars, historyVars
<1>5. Queues'
  BY DEF IInv, Queues, Unsent, Faithful, Present, CleanUp, DeleteMessage, queueVars, vendorVars,
     historyVars
<1>6. Turns'
  BY DEF IInv, Turns, Unsent, Spent, Faithful, Present, CleanUp, DeleteMessage, queueVars, vendorVars,
     historyVars
<1>7. Limits'
  BY DEF IInv, Limits, CleanUp, DeleteMessage, queueVars, vendorVars, historyVars
<1> QED
  BY <1>1, <1>2, <1>3, <1>4, <1>5, <1>6, <1>7 DEF IInv

(* DropMessage. Only history changes.                                      *)
LEMMA DropMessageStep ==
  ASSUME IInv, TInv', NEW m \in Msgs, DropMessage(m)
  PROVE  IInv'
<1>1. Alone'
  BY DEF IInv, Alone, DropMessage, queueVars, vendorVars
<1>2. Clients'
  BY DEF IInv, Clients, Untouched, Somewhere, Present, DropMessage, queueVars, vendorVars
<1>3. Items'
  BY DEF IInv, Items, Untouched, Somewhere, Spent, Present, DropMessage, queueVars, vendorVars
<1>4. Copies'
  BY DEF IInv, Copies, Untouched, Present, DropMessage, queueVars, vendorVars
<1>5. Queues'
  BY DEF IInv, Queues, Unsent, Faithful, Present, DropMessage, queueVars, vendorVars
<1>6. Turns'
  BY DEF IInv, Turns, Unsent, Spent, Faithful, Present, DropMessage, queueVars, vendorVars
<1>7. Limits'
  BY DEF IInv, Limits, DropMessage, queueVars, vendorVars
<1> QED
  BY <1>1, <1>2, <1>3, <1>4, <1>5, <1>6, <1>7 DEF IInv

(* DropDelete. As CleanUp.                                                 *)
LEMMA DropDeleteStep ==
  ASSUME IInv, TInv', NEW m \in Msgs, DropDelete(m)
  PROVE  IInv'
<1>1. Alone'
  BY DEF IInv, Alone, DropDelete, DeleteMessage, queueVars, vendorVars, historyVars
<1>2. Clients'
  BY Nothing DEF IInv, TInv, TypeOK, Clients, Untouched, Somewhere, Present, DropDelete, DeleteMessage,
     queueVars, vendorVars, historyVars
<1>3. Items'
  BY DEF IInv, Items, Untouched, Somewhere, Spent, Present, DropDelete, DeleteMessage, queueVars,
     vendorVars, historyVars
<1>4. Copies'
  BY DEF IInv, Copies, Untouched, Present, DropDelete, DeleteMessage, queueVars, vendorVars,
     historyVars
<1>5. Queues'
  BY DEF IInv, Queues, Unsent, Faithful, Present, DropDelete, DeleteMessage, queueVars, vendorVars,
     historyVars
<1>6. Turns'
  BY DEF IInv, Turns, Unsent, Spent, Faithful, Present, DropDelete, DeleteMessage, queueVars,
     vendorVars, historyVars
<1>7. Limits'
  BY DEF IInv, Limits, DropDelete, DeleteMessage, queueVars, vendorVars, historyVars
<1> QED
  BY <1>1, <1>2, <1>3, <1>4, <1>5, <1>6, <1>7 DEF IInv

(* Forget. Nothing but what the owner knows changes.                       *)
LEMMA ForgetStep ==
  ASSUME IInv, TInv', NEW m \in Msgs, Forget(m)
  PROVE  IInv'
<1>1. Alone'
  BY DEF IInv, Alone, Forget, queueVars, vendorVars, historyVars
<1>2. Clients'
  BY DEF IInv, Clients, Untouched, Somewhere, Present, Forget, queueVars, vendorVars,
     historyVars
<1>3. Items'
  BY DEF IInv, Items, Untouched, Somewhere, Spent, Present, Forget, queueVars, vendorVars,
     historyVars
<1>4. Copies'
  BY DEF IInv, Copies, Untouched, Present, Forget, queueVars, vendorVars, historyVars
<1>5. Queues'
  BY DEF IInv, Queues, Unsent, Faithful, Present, Forget, queueVars, vendorVars, historyVars
<1>6. Turns'
  BY DEF IInv, Turns, Unsent, Spent, Faithful, Present, Forget, queueVars, vendorVars,
     historyVars
<1>7. Limits'
  BY DEF IInv, Limits, Forget, queueVars, vendorVars, historyVars
<1> QED
  BY <1>1, <1>2, <1>3, <1>4, <1>5, <1>6, <1>7 DEF IInv

(* RunOnce. What is not queued is nowhere: it becomes a copy.              *)
LEMMA RunOnceStep ==
  ASSUME IInv, TInv', RunOnce
  PROVE  IInv'
<1>1. /\ unqueued = {}
      /\ unqueued' = Unqueued
      /\ tracker' = Marked
      /\ UNCHANGED <<gone, adding, pool, pc, msgUUID, msgItem, client, attempts, succeeded, notified, dropped>>
  BY DEF RunOnce, vendorVars, historyVars
<1>2. ASSUME NEW m \in Msgs
      PROVE  /\ m \in Present' <=> m \in Present
             /\ m \notin Unqueued => tracker'[m] = tracker[m]
             /\ m \in Unqueued <=> m \in Present /\ ~tracker[m].queued
             /\ m \in Present => /\ tracker'[m].queued
                                 /\ tracker'[m].active = tracker[m].active
                                 /\ tracker'[m].retries = tracker[m].retries
                                 /\ tracker'[m].batched = tracker[m].batched
  <2>1. tracker'[m] = Marked[m]
    BY <1>1
  <2>2. m \in Present' <=> m \in Present
    BY <2>1, MarkedIs DEF Present, IInv, TInv
  <2>3. m \notin Unqueued => tracker'[m] = tracker[m]
    BY <2>1, MarkedIs DEF IInv, TInv
  <2>4. m \in Unqueued <=> m \in Present /\ ~tracker[m].queued
    BY DEF Unqueued
  <2>5. m \in Present => tracker[m] \in Item
    BY MarkedIs DEF IInv, TInv
  <2>6. CASE m \in Unqueued
    <3>1. tracker'[m] = [tracker[m] EXCEPT !.queued = TRUE]
      BY <2>1, <2>6, MarkedIs DEF IInv, TInv
    <3> QED
      BY <2>2, <2>4, <2>5, <2>6, <3>1, ItemFields
  <2>7. CASE m \notin Unqueued
    BY <2>2, <2>3, <2>7 DEF Unqueued
  <2> QED
    BY <2>6, <2>7
<1>11. Alone'
  BY <1>1, <1>2 DEF IInv, Alone, Items, Somewhere
<1>12. Clients'
  BY <1>1, <1>2 DEF IInv, Clients, Items, Somewhere, Untouched
<1>13. Items'
  BY <1>1, <1>2 DEF IInv, Items, Somewhere, Untouched, Spent, Present
<1>14. Copies'
  BY <1>1, <1>2 DEF IInv, Copies, Items, Somewhere, Untouched
<1>15. Queues'
  BY <1>1, <1>2 DEF IInv, Queues, Unsent, Faithful, Items, Somewhere, TInv, TypeOK
<1>16. Turns'
  BY <1>1, <1>2 DEF IInv, Turns, Unsent, Spent, Faithful, Items, Somewhere, Present
<1>17. Limits'
  BY <1>1, <1>2 DEF IInv, Limits

<1> QED
  BY <1>11, <1>12, <1>13, <1>14, <1>15, <1>16, <1>17 DEF IInv


(* Route. The copy becomes a started goroutine, and the item tells its vendor. *)
LEMMA RouteStep ==
  ASSUME IInv, TInv', NEW m \in Msgs, Route(m)
  PROVE  IInv'
<1>1. PICK aggregated \in BOOLEAN :
        /\ UpdateMessage(m, Routed(aggregated))
        /\ adding' = [adding EXCEPT ![m] = RouteOf(m, aggregated)]
  BY DEF Route, RecordRoute, Routed
<1>2. /\ m \in unqueued /\ unqueued' = unqueued \ {m}
      /\ UNCHANGED <<gone, pool, pc, msgUUID, msgItem, client, attempts, succeeded, notified, dropped>>
  BY <1>1 DEF Route, vendorVars, historyVars, UpdateMessage
<1>3. /\ \A x \in Msgs \ {m} : adding'[x] = adding[x]
      /\ adding'[m] # None
      /\ adding'[m] = RouteOf(m, aggregated)
  <2>1. RouteOf(m, aggregated) \in Vendors
    BY VendorsAssumption DEF VendorsAssumption, RouteOf
  <2> QED
    BY <1>1, <2>1, Nothing DEF IInv, TInv, TypeOK
<1>4. /\ \A x \in Msgs : x # m \/ m \notin Present => tracker'[x] = tracker[x]
      /\ m \in Present => tracker'[m] = Routed(aggregated)
  BY <1>1 DEF UpdateMessage, IInv, TInv, TypeOK
<1>5. /\ Routed(aggregated) # None
      /\ Routed(aggregated).active /\ Routed(aggregated).queued
      /\ Routed(aggregated).retries = 0
      /\ Routed(aggregated).batched = aggregated
  BY NewItems, Nothing
<1>6. \A x \in Msgs : x \in Present' <=> x \in Present
  BY <1>4, <1>5 DEF Present
<1>7. \A x \in Msgs : Somewhere(x)' <=> Somewhere(x)
  BY <1>2, <1>3 DEF Somewhere
<1>11. Alone'
  BY <1>2, <1>3, <1>4, <1>5, <1>6, <1>7 DEF IInv, Alone
<1>12. Clients'
  BY <1>2, <1>3, <1>4, <1>5, <1>6, <1>7 DEF IInv, Clients, Untouched
<1>13. Items'
  BY <1>2, <1>3, <1>4, <1>5, <1>6, <1>7 DEF IInv, Items, Copies, Untouched, Spent, Present, Somewhere
<1>14. Copies'
  BY <1>2, <1>3, <1>4, <1>5, <1>6, <1>7 DEF IInv, Copies, Untouched
<1>15. Queues'
  BY <1>2, <1>3, <1>4, <1>5, <1>6, <1>7 DEF IInv, Queues, Unsent, Faithful, Alone, TInv, TypeOK
<1>16. Turns'
  BY <1>2, <1>3, <1>4, <1>5, <1>6, <1>7 DEF IInv, Turns, Unsent, Spent, Faithful, Alone, Present
<1>17. Limits'
  BY <1>2, <1>3, <1>4, <1>5, <1>6, <1>7 DEF IInv, Limits

<1> QED
  BY <1>11, <1>12, <1>13, <1>14, <1>15, <1>16, <1>17 DEF IInv


(* AddToVendorQueue. The started goroutine becomes a place in the queue.   *)
LEMMA AddToVendorQueueStep ==
  ASSUME IInv, TInv', NEW m \in Msgs, AddToVendorQueue(m)
  PROVE  IInv'
<1>1. Alone'
  BY Nothing DEF IInv, TInv, TypeOK, Alone, AddToVendorQueue, vendorVars, historyVars
<1>2. Clients'
  BY DEF IInv, Clients, Untouched, Somewhere, Present, AddToVendorQueue, vendorVars, historyVars
<1>3. Items'
  BY Nothing DEF IInv, TInv, TypeOK, Items, Untouched, Somewhere, Spent, Present, AddToVendorQueue,
     vendorVars, historyVars
<1>4. Copies'
  BY DEF IInv, Copies, Untouched, Present, AddToVendorQueue, vendorVars, historyVars
<1>5. Queues'
  BY Nothing, NewItems, ItemFields, Limited DEF IInv, TInv, TypeOK, Queues, Unsent, Faithful, Present,
     Alone, Clients, Items, Copies, Turns, Limits, Goroutines, Untouched, Somewhere, Spent,
     AddToVendorQueue, vendorVars, historyVars
<1>6. Turns'
  BY DEF IInv, Turns, Unsent, Spent, Faithful, Present, AddToVendorQueue, vendorVars, historyVars
<1>7. Limits'
  BY DEF IInv, Limits, AddToVendorQueue, vendorVars, historyVars
<1> QED
  BY <1>1, <1>2, <1>3, <1>4, <1>5, <1>6, <1>7 DEF IInv

(* GetNextMessage. The place in the queue becomes the turn of the vendor. *)
LEMMA GetNextMessageStep ==
  ASSUME IInv, TInv', NEW v \in Vendors, NEW m \in Msgs, GetNextMessage(v, m)
  PROVE  IInv'
<1>1. Alone'
  BY Nothing DEF IInv, TInv, TypeOK, Alone, GetNextMessage, Taken, historyVars
<1>2. Clients'
  BY DEF IInv, Clients, Untouched, Somewhere, Present, GetNextMessage, Taken, historyVars
<1>3. Items'
  BY Nothing DEF IInv, TInv, TypeOK, Items, Untouched, Somewhere, Spent, Present, Goroutines,
     GetNextMessage, Taken, historyVars
<1>4. Copies'
  BY DEF IInv, Copies, Untouched, Present, GetNextMessage, Taken, historyVars
<1>5. Queues'
  BY DEF IInv, Queues, Unsent, Faithful, Present, GetNextMessage, Taken, historyVars
<1>6. Turns'
  BY Nothing DEF IInv, TInv, TypeOK, Turns, Unsent, Spent, Faithful, Present, Goroutines, Queues,
     Alone, GetNextMessage, Taken, historyVars
<1>7. Limits'
  BY DEF IInv, Limits, GetNextMessage, Taken, historyVars
<1> QED
  BY <1>1, <1>2, <1>3, <1>4, <1>5, <1>6, <1>7 DEF IInv

(* CheckMessage. The copy is what the tracker has.                         *)
LEMMA CheckMessageStep ==
  ASSUME IInv, TInv', NEW v \in Vendors, CheckMessage(v)
  PROVE  IInv'
<1>1. Alone'
  BY Nothing DEF IInv, TInv, TypeOK, Alone, CheckMessage, queueVars, historyVars
<1>2. Clients'
  BY Nothing DEF IInv, TInv, TypeOK, Clients, Untouched, Somewhere, Present, CheckMessage, queueVars,
     historyVars
<1>3. Items'
  BY Nothing DEF IInv, TInv, TypeOK, Items, Untouched, Somewhere, Spent, Present, CheckMessage,
     queueVars, historyVars
<1>4. Copies'
  BY DEF IInv, Copies, Untouched, Present, CheckMessage, queueVars, historyVars
<1>5. Queues'
  BY DEF IInv, Queues, Unsent, Faithful, Present, CheckMessage, queueVars, historyVars
<1>6. Turns'
  BY Nothing DEF IInv, TInv, TypeOK, Goroutines, Turns, Unsent, Spent, Faithful, Present, CheckMessage, queueVars,
     historyVars
<1>7. Limits'
  BY DEF IInv, Limits, CheckMessage, queueVars, historyVars
<1> QED
  BY <1>1, <1>2, <1>3, <1>4, <1>5, <1>6, <1>7 DEF IInv

(* SendMessage, with the three outcomes it has for the message of the turn. *)
LEMMA SendMessageTurns ==
  ASSUME IInv, TInv', NEW v \in Vendors, SendMessage(v)
  PROVE  Turns'
<1> DEFINE m == msgUUID[v]
<1>1. /\ m \in Msgs /\ msgItem[v] \in Item /\ pc[v] = "send"
      /\ Unsent(m) /\ Faithful(msgItem[v], m, v)
      /\ m \in Present => tracker[m] = msgItem[v]
  BY Nothing DEF TInv, TypeOK, Goroutines, SendMessage, IInv, Turns
<1>2. /\ attempts' = [attempts EXCEPT ![m] = @ + 1]
      /\ UNCHANGED <<tracker, msgUUID>>
  BY DEF SendMessage
<1>3. \A w \in Vendors \ {v} : /\ pc'[w] = pc[w] /\ msgItem'[w] = msgItem[w]
                               /\ msgUUID[w] # m
                               /\ \A x \in Msgs \ {m} : attempts'[x] = attempts[x] /\ succeeded'[x] = succeeded[x]
  BY <1>1 DEF TInv, TypeOK, IInv, Alone, SendMessage
<1>4. CASE /\ succeeded' = [succeeded EXCEPT ![m] = @ + 1] 
           /\ msgItem' = [msgItem EXCEPT ![v].active = FALSE]
           /\ pc' = [pc EXCEPT ![v] = "finish"]
  BY <1>1, <1>2, <1>3, <1>4, ItemFields, Limited DEF TInv, TypeOK, IInv, Turns, Goroutines, Unsent, Spent, Faithful, Present
<1>5. CASE /\ succeeded' = succeeded
           /\ OutOfRetries(v)
           /\ msgItem' = [msgItem EXCEPT ![v].active = FALSE]
           /\ pc' = [pc EXCEPT ![v] = "finish"]
  BY <1>1, <1>2, <1>3, <1>5, ItemFields, Limited DEF TInv, TypeOK, IInv, Turns, Goroutines, Unsent, Spent, Faithful, Present, OutOfRetries
<1>6. CASE /\ succeeded' = succeeded
           /\ ~OutOfRetries(v)
           /\ msgItem' = [msgItem EXCEPT ![v] = Failed(@)]
           /\ pc' = [pc EXCEPT ![v] = "retry"]
  <2>1. /\ msgItem'[v] = Failed(msgItem[v])
        /\ pc'[v] = "retry"
        /\ attempts'[m] = attempts[m] + 1
        /\ succeeded'[m] = 0
    BY <1>1, <1>2, <1>6 DEF IInv, TInv, TypeOK, Unsent
  <2>2. Unsent(m)'
    BY <1>1, <1>2, <1>6, <2>1, ItemFields, Limited DEF Unsent, Faithful, OutOfRetries, IInv, TInv, TypeOK
  <2>3. Faithful(msgItem[v], m, v)'
    <3>1. /\ Failed(msgItem[v]).active = msgItem[v].active
          /\ Failed(msgItem[v]).queued = msgItem[v].queued
          /\ Failed(msgItem[v]).batched = msgItem[v].batched
          /\ Failed(msgItem[v]).retries = msgItem[v].retries + 1
      BY <1>1, ItemFields
    <3>2. /\ msgItem[v].active /\ msgItem[v].queued
          /\ msgItem[v].retries = attempts[m]
          /\ v = RouteOf(m, msgItem[v].batched)
      BY <1>1 DEF Faithful
    <3>3. /\ msgItem'[v].active /\ msgItem'[v].queued
          /\ msgItem'[v].retries = attempts'[m]
          /\ v = RouteOf(m, msgItem'[v].batched)
      BY <2>1, <3>1, <3>2
    <3> QED
      BY <1>2, <3>3 DEF Faithful
  <2>4. m \in Present' => tracker'[m] = msgItem[v]
    BY <1>1, <1>2 DEF Present
  <2> QED
    BY <1>1, <1>2, <1>3, <2>1, <2>2, <2>3, <2>4 DEF TInv, TypeOK, IInv, Turns, Goroutines, Unsent, Spent, Faithful, Present
<1> QED
  BY <1>4, <1>5, <1>6 DEF SendMessage

(* SendMessage. The count and the copy go together; the tracker is behind until WriteBack. *)
LEMMA SendMessageStep ==
  ASSUME IInv, TInv', NEW v \in Vendors, SendMessage(v)
  PROVE  IInv'
<1>1. Alone'
  BY DEF IInv, Alone, SendMessage, OutOfRetries, queueVars
<1>2. Clients'
  BY DEF IInv, Clients, Untouched, Somewhere, Present, SendMessage, OutOfRetries, queueVars
<1>3. Items'
  BY Nothing DEF IInv, TInv, TypeOK, Items, Untouched, Somewhere, Spent, Present, Goroutines, Alone,
     Turns, Unsent, Faithful, SendMessage, OutOfRetries, queueVars
<1>4. Copies'
  BY Nothing DEF IInv, TInv, TypeOK, Copies, Untouched, Present, Alone, SendMessage, OutOfRetries,
     queueVars
<1>5. Queues'
  BY Nothing DEF IInv, TInv, TypeOK, Queues, Unsent, Faithful, Present, Alone, SendMessage,
     OutOfRetries, queueVars
<1>6. Turns'
  BY SendMessageTurns
<1>7. Limits'
  BY Nothing, Limited DEF IInv, TInv, TypeOK, Limits, Goroutines, Turns, Unsent, Spent, Faithful,
     Alone, Present, SendMessage, OutOfRetries, queueVars
<1> QED
  BY <1>1, <1>2, <1>3, <1>4, <1>5, <1>6, <1>7 DEF IInv

(* WriteBack. The tracker has what the copy has, or the message is deleted. *)
LEMMA WriteBackStep ==
  ASSUME IInv, TInv', NEW v \in Vendors, WriteBack(v)
  PROVE  IInv'
<1>1. Alone'
  BY DEF IInv, Alone, WriteBack, RecordOutcome, UpdateMessage, queueVars, historyVars
<1>2. Clients'
  BY Nothing DEF IInv, TInv, TypeOK, Clients, Untouched, Somewhere, Present, Goroutines, WriteBack,
     RecordOutcome, UpdateMessage, queueVars, historyVars
<1>3. Items'
  BY Nothing DEF IInv, TInv, TypeOK, Items, Untouched, Somewhere, Spent, Present, Goroutines, Alone,
     Turns, Unsent, Faithful, WriteBack, RecordOutcome, UpdateMessage, queueVars, historyVars
<1>4. Copies'
  BY Nothing DEF IInv, TInv, TypeOK, Copies, Untouched, Present, Alone, WriteBack, RecordOutcome,
     UpdateMessage, queueVars, historyVars
<1>5. Queues'
  BY Nothing DEF IInv, TInv, TypeOK, Queues, Unsent, Faithful, Present, Alone, WriteBack,
     RecordOutcome, UpdateMessage, queueVars, historyVars
<1>6. Turns'
  BY Nothing DEF IInv, TInv, TypeOK, Turns, Unsent, Spent, Faithful, Present, Alone, WriteBack,
     RecordOutcome, UpdateMessage, queueVars, historyVars
<1>7. Limits'
  BY DEF IInv, Limits, WriteBack, RecordOutcome, UpdateMessage, queueVars, historyVars
<1> QED
  BY <1>1, <1>2, <1>3, <1>4, <1>5, <1>6, <1>7 DEF IInv

(* Requeue. The turn becomes a place in the queue again.                   *)
LEMMA RequeueStep ==
  ASSUME IInv, TInv', NEW v \in Vendors, Requeue(v)
  PROVE  IInv'
<1>1. Alone'
  BY Nothing DEF IInv, TInv, TypeOK, Alone, Requeue, historyVars
<1>2. Clients'
  BY Nothing DEF IInv, TInv, TypeOK, Clients, Untouched, Somewhere, Present, Requeue, historyVars
<1>3. Items'
  BY Nothing DEF IInv, TInv, TypeOK, Items, Untouched, Somewhere, Spent, Present, Requeue, historyVars
<1>4. Copies'
  BY DEF IInv, Copies, Untouched, Present, Requeue, historyVars
<1>5. Queues'
  BY Nothing DEF IInv, TInv, TypeOK, Queues, Unsent, Faithful, Present, Goroutines, Alone, Turns,
     Spent, Requeue, historyVars
<1>6. Turns'
  BY Nothing DEF IInv, TInv, TypeOK, Turns, Unsent, Spent, Faithful, Present, Requeue, historyVars
<1>7. Limits'
  BY DEF IInv, Limits, Requeue, historyVars
<1> QED
  BY <1>1, <1>2, <1>3, <1>4, <1>5, <1>6, <1>7 DEF IInv

(* AdvanceQueue. Only the vendor's position changes.                       *)
LEMMA AdvanceQueueStep ==
  ASSUME IInv, TInv', NEW v \in Vendors, AdvanceQueue(v)
  PROVE  IInv'
<1>1. Alone'
  BY DEF IInv, Alone, AdvanceQueue, queueVars, historyVars
<1>2. Clients'
  BY DEF IInv, Clients, Untouched, Somewhere, Present, AdvanceQueue, queueVars, historyVars
<1>3. Items'
  BY DEF IInv, Items, Untouched, Somewhere, Spent, Present, AdvanceQueue, queueVars, historyVars
<1>4. Copies'
  BY DEF IInv, Copies, Untouched, Present, AdvanceQueue, queueVars, historyVars
<1>5. Queues'
  BY DEF IInv, Queues, Unsent, Faithful, Present, AdvanceQueue, queueVars, historyVars
<1>6. Turns'
  BY DEF IInv, Turns, Unsent, Spent, Faithful, Present, AdvanceQueue, queueVars, historyVars
<1>7. Limits'
  BY DEF IInv, Limits, AdvanceQueue, queueVars, historyVars
<1> QED
  BY <1>1, <1>2, <1>3, <1>4, <1>5, <1>6, <1>7 DEF IInv

(* VendorDelete. The turn is over and the message is nowhere.              *)
LEMMA VendorDeleteStep ==
  ASSUME IInv, TInv', NEW v \in Vendors, VendorDelete(v)
  PROVE  IInv'
<1>1. Alone'
  BY Nothing DEF IInv, TInv, TypeOK, Alone, VendorDelete, DeleteMessage, VendorOwns, queueVars,
     historyVars
<1>2. Clients'
  BY Nothing DEF IInv, TInv, TypeOK, Clients, Untouched, Somewhere, Present, VendorDelete,
     DeleteMessage, VendorOwns, queueVars, historyVars
<1>3. Items'
  BY Nothing, Limited DEF IInv, TInv, TypeOK, Items, Untouched, Somewhere, Spent, Present, Goroutines,
     Turns, Unsent, Faithful, Alone, Limits, VendorDelete, DeleteMessage, VendorOwns, queueVars,
     historyVars
<1>4. Copies'
  BY Nothing DEF IInv, TInv, TypeOK, Copies, Untouched, Present, VendorDelete, DeleteMessage,
     VendorOwns, queueVars, historyVars
<1>5. Queues'
  BY Nothing DEF IInv, TInv, TypeOK, Queues, Unsent, Faithful, Present, VendorDelete, DeleteMessage,
     VendorOwns, queueVars, historyVars
<1>6. Turns'
  BY Nothing DEF IInv, TInv, TypeOK, Turns, Unsent, Spent, Faithful, Present, VendorDelete,
     DeleteMessage, VendorOwns, queueVars, historyVars
<1>7. Limits'
  BY DEF IInv, Limits, VendorDelete, DeleteMessage, VendorOwns, queueVars, historyVars
<1> QED
  BY <1>1, <1>2, <1>3, <1>4, <1>5, <1>6, <1>7 DEF IInv

(* At first nothing is anywhere.                                           *)
LEMMA InitInv == Init => IInv
<1> SUFFICES ASSUME Init PROVE IInv
  OBVIOUS
<1>1. Present = {} /\ gone = {} /\ unqueued = {}
  BY DEF Init, Present
<1>2. /\ \A m \in Msgs : adding[m] = None /\ attempts[m] = 0 /\ succeeded[m] = 0 /\ client[m] = "idle"
      /\ \A v \in Vendors : pool[v] = {} /\ msgUUID[v] = None /\ pc[v] = "idle" /\ msgItem[v] = None
  BY DEF Init
<1>3. \A m \in Msgs : ~Somewhere(m)
  BY <1>1, <1>2, Nothing DEF Somewhere
<1>4. TInv
  BY <1>2, TypeInit DEF TInv, Goroutines
<1>5. Alone /\ Clients
  BY <1>1, <1>2, <1>3, Nothing DEF Alone, Clients, Untouched
<1>6. Items /\ Copies /\ Queues
  BY <1>1, <1>2 DEF Items, Copies, Queues
<1>7. Turns
  BY <1>1, <1>2 DEF Turns
<1>8. Limits
  BY <1>2, Limited DEF Limits
<1> QED
  BY <1>4, <1>5, <1>6, <1>7, <1>8 DEF IInv

(* Every step keeps the invariant.                                         *)
LEMMA NextInv == IInv /\ [Next]_vars => IInv'
<1> SUFFICES ASSUME IInv, [Next]_vars
             PROVE  IInv'
  OBVIOUS
<1>1. TInv'
  BY TypeStep DEF IInv
<1>2. ASSUME NEW m \in Msgs, Client(m)
      PROVE  IInv'
  BY <1>1, <1>2, PostNotificationStep, AddNotificationStep, AddErrorMessageStep, PollStep, CleanUpStep,
     DropMessageStep, DropDeleteStep, ForgetStep DEF Client
<1>3. ASSUME NEW m \in Msgs, Route(m) \/ AddToVendorQueue(m)
      PROVE  IInv'
  BY <1>1, <1>3, RouteStep, AddToVendorQueueStep
<1>4. ASSUME NEW v \in Vendors, NEW m \in Msgs, GetNextMessage(v, m)
      PROVE  IInv'
  BY <1>1, <1>4, GetNextMessageStep
<1>5. ASSUME NEW v \in Vendors, VendorStep(v)
      PROVE  IInv'
  BY <1>1, <1>5, CheckMessageStep, SendMessageStep, WriteBackStep, RequeueStep, AdvanceQueueStep,
     VendorDeleteStep DEF VendorStep
<1>6. CASE RunOnce
  BY <1>1, <1>6, RunOnceStep
<1>7. CASE UNCHANGED vars
  BY <1>1, <1>7 DEF IInv, vars, queueVars, vendorVars, historyVars, Present, Alone, Clients, Items, Copies,
     Queues, Turns, Limits, Untouched, Unsent, Spent, Faithful, Somewhere
<1> QED
  BY <1>2, <1>3, <1>4, <1>5, <1>6, <1>7 DEF Next

(* Where a message is: at most one place, and none iff it is nowhere.       *)
LEMMA PlacesOf ==
  ASSUME IInv, NEW m \in Msgs
  PROVE  /\ Places(m) # {} <=> Somewhere(m)
         /\ Cardinality(Places(m)) <= 1
<1> USE DEF IInv, Alone
<1>1. CASE m \in unqueued
  <2>1. Places(m) = {"copy"}
    BY <1>1 DEF Places
  <2>2. Cardinality({"copy"}) = 1
    BY FS_Singleton, Zenon
  <2> QED
    BY <1>1, <2>1, <2>2 DEF Somewhere
<1>2. CASE adding[m] # None
  <2>1. Places(m) = {<<"adding", adding[m]>>}
    BY <1>2 DEF Places
  <2>2. Cardinality({<<"adding", adding[m]>>}) = 1
    BY FS_Singleton, Zenon
  <2> QED
    BY <1>2, <2>1, <2>2 DEF Somewhere
<1>3. ASSUME NEW v \in Vendors, m \in pool[v]
      PROVE  /\ Places(m) # {} <=> Somewhere(m)
             /\ Cardinality(Places(m)) <= 1
  <2>1. Places(m) = {<<"pool", v>>}
    BY <1>3 DEF Places
  <2>2. Cardinality({<<"pool", v>>}) = 1
    BY FS_Singleton, Zenon
  <2> QED
    BY <1>3, <2>1, <2>2 DEF Somewhere
<1>4. ASSUME NEW v \in Vendors, msgUUID[v] = m
      PROVE  /\ Places(m) # {} <=> Somewhere(m)
             /\ Cardinality(Places(m)) <= 1
  <2>1. Places(m) = {<<"turn", v>>}
    BY <1>4 DEF Places
  <2>2. Cardinality({<<"turn", v>>}) = 1
    BY FS_Singleton, Zenon
  <2> QED
    BY <1>4, <2>1, <2>2 DEF Somewhere
<1>5. CASE ~Somewhere(m)
  <2>1. Places(m) = {}
    BY <1>5 DEF Places, Somewhere
  <2> QED
    BY <1>5, <2>1, FS_EmptySet
<1> QED
  BY <1>1, <1>2, <1>3, <1>4, <1>5 DEF Somewhere

(* A message that is queued and active is somewhere and not settled, and the *)
(* other way round.                                                        *)
LEMMA InvOnePlace == IInv => OnePlace
<1> SUFFICES ASSUME IInv, NEW m \in Msgs
             PROVE  /\ Cardinality(Places(m)) <= 1
                    /\ m \in Present => (tracker[m].queued /\ tracker[m].active <=> Places(m) # {} /\ ~Settled(m))
  BY DEF OnePlace
<1>1. ASSUME m \in Present, tracker[m].queued, tracker[m].active
      PROVE  Somewhere(m) /\ ~Settled(m)
  BY <1>1 DEF IInv, Items, Turns, Settled
<1>2. ASSUME m \in Present, Somewhere(m), ~Settled(m)
      PROVE  tracker[m].queued /\ tracker[m].active
  <2>1. CASE m \in unqueued \/ adding[m] # None
    BY <1>2, <2>1 DEF IInv, Copies
  <2>2. ASSUME NEW v \in Vendors, m \in pool[v]
        PROVE  tracker[m].queued /\ tracker[m].active
    BY <1>2, <2>2 DEF IInv, Queues, Faithful
  <2>3. ASSUME NEW v \in Vendors, msgUUID[v] = m
        PROVE  tracker[m].queued /\ tracker[m].active
    <3>1. pc[v] \in {"check", "send", "finish", "retry", "requeue"}
      BY <1>2, <2>3, Nothing DEF IInv, TInv, TypeOK, Goroutines, Settled
    <3> QED
      BY <1>2, <2>3, <3>1 DEF IInv, Turns, Faithful
  <2> QED
    BY <1>2, <2>1, <2>2, <2>3 DEF Somewhere
<1> QED
  BY <1>1, <1>2, PlacesOf

(* The counts are part of the invariant.                                   *)
LEMMA InvLimits == IInv => RetryBudget
<1> SUFFICES ASSUME IInv, NEW m \in Msgs
             PROVE  /\ attempts[m] <= MaxMessageRetries + 1
                    /\ m \in Present /\ ~tracker[m].active =>
                         succeeded[m] = 1 \/ attempts[m] = MaxMessageRetries + 1
  BY DEF RetryBudget
<1> QED
  BY DEF IInv, Limits, Items, Spent

(* So is the agreement of the vendor and its copy.                          *)
LEMMA InvRoute == IInv => SendFollowsRoute
BY DEF IInv, TInv, Goroutines, Turns, SendFollowsRoute

(* The invariant holds in every behaviour.                                 *)
THEOREM Invariance == Spec => []IInv
<1>1. Init => IInv
  BY InitInv
<1>2. IInv /\ [Next]_vars => IInv'
  BY NextInv
<1> QED
  BY <1>1, <1>2, PTL DEF Spec

(* Every variable keeps its type; the item a vendor writes back is one.     *)
THEOREM TypeCorrect == Spec => []TypeOK
<1>1. IInv => TypeOK
  BY DEF IInv, TInv
<1> QED
  BY <1>1, Invariance, PTL

(* RunOnce, the goroutines it starts, the queues and the retries keep a     *)
(* message in one place, and what the tracker calls queued is in one.       *)
THEOREM KeptInOnePlace == Spec => []OnePlace
BY Invariance, InvOnePlace, PTL

(* Only SendMessage attempts a message, and only the one of the turn.      *)
LEMMA AttemptsOf ==
  ASSUME Next, NEW m \in Msgs
  PROVE  \/ attempts'[m] = attempts[m]
         \/ \E v \in Vendors : pc[v] = "send" /\ msgUUID[v] = m
<1>1. ASSUME NEW x \in Msgs, Client(x) \/ Route(x) \/ AddToVendorQueue(x)
      PROVE  UNCHANGED attempts
  BY <1>1 DEF Client, PostNotification, AddNotification, AddErrorMessage, Poll, CleanUp, DropMessage,
     DropDelete, Forget, Route, AddToVendorQueue, historyVars
<1>2. ASSUME NEW v \in Vendors, SendMessage(v)
      PROVE  /\ pc[v] = "send"
             /\ m # msgUUID[v] => attempts'[m] = attempts[m]
  BY <1>2 DEF SendMessage
<1>3. ASSUME NEW v \in Vendors,
             \/ CheckMessage(v) \/ WriteBack(v) \/ Requeue(v) \/ AdvanceQueue(v) \/ VendorDelete(v)
             \/ \E x \in Msgs : GetNextMessage(v, x)
      PROVE  UNCHANGED attempts
  BY <1>3 DEF CheckMessage, WriteBack, Requeue, AdvanceQueue, VendorDelete, GetNextMessage, historyVars
<1>4. CASE RunOnce
  BY <1>4 DEF RunOnce, historyVars
<1> QED
  BY <1>1, <1>2, <1>3, <1>4 DEF Next, VendorStep

(* No interleaving of polling, retries and deletions tries a message again   *)
(* of which SendMessage has returned true: a message that a vendor is about  *)
(* to send is Unsent.                                                      *)
THEOREM SuccessIsFinalCorrect == Spec => SuccessIsFinal
<1>1. IInv /\ [Next]_vars => [\A m \in Msgs : succeeded[m] > 0 => attempts'[m] = attempts[m]]_vars
  <2> SUFFICES ASSUME IInv, Next, NEW m \in Msgs, succeeded[m] > 0
               PROVE  attempts'[m] = attempts[m]
    OBVIOUS
  <2>1. ~\E v \in Vendors : pc[v] = "send" /\ msgUUID[v] = m
    BY DEF IInv, Turns, Unsent
  <2> QED
    BY <2>1, AttemptsOf
<1> QED
  BY <1>1, Invariance, PTL DEF Spec, SuccessIsFinal

(* A message costs at most MaxMessageRetries + 1 attempts, and is inactive   *)
(* only after a success or all of them.                                    *)
THEOREM BudgetKept == Spec => []RetryBudget
BY Invariance, InvLimits, PTL

(* A vendor works only on messages that its copy of the item routes to it:   *)
(* nothing between Route and the turn moves a message or changes the mark.   *)
THEOREM RouteFollowed == Spec => []SendFollowsRoute
BY Invariance, InvRoute, PTL

(* Nothing is taken from the history of deleted messages.                   *)
LEMMA GoneForEver == 
  ASSUME [Next]_vars
  PROVE  gone \subseteq gone'
<1> USE DEF AddMessage, UpdateMessage, DeleteMessage
<1>1. ASSUME NEW m \in Msgs, Client(m) \/ Route(m) \/ AddToVendorQueue(m)
      PROVE  gone \subseteq gone'
  BY <1>1 DEF Client, PostNotification, AddNotification, AddErrorMessage, Poll, CleanUp, DropMessage,
     DropDelete, Forget, Route, RecordRoute, AddToVendorQueue
<1>2. ASSUME NEW v \in Vendors, VendorStep(v) \/ \E m \in Msgs : GetNextMessage(v, m)
      PROVE  gone \subseteq gone'
  BY <1>2 DEF VendorStep, CheckMessage, SendMessage, WriteBack, RecordOutcome, Requeue, AdvanceQueue,
     VendorDelete, GetNextMessage
<1>3. CASE RunOnce \/ UNCHANGED vars
  BY <1>3 DEF RunOnce, vars
<1> QED
  BY <1>1, <1>2, <1>3 DEF Next

(* No write of a vendor, no polling and no RunOnce brings a deleted message  *)
(* back.                                                                   *)
THEOREM NothingResurrected == Spec => NoResurrection
<1>1. IInv /\ IInv' /\ [Next]_vars => [Present' \intersect gone = {}]_vars
  <2> SUFFICES ASSUME IInv', [Next]_vars
               PROVE  Present' \intersect gone = {}
    OBVIOUS
  <2>1. \A m \in Msgs : ~(m \in Present' /\ m \in gone')
    BY DEF IInv, Clients
  <2> QED
    BY <2>1, GoneForEver DEF Present
<1> QED
  BY <1>1, Invariance, PTL DEF Spec, NoResurrection

(***************************************************************************)
(* The refinement of MessageTracker                                        *)
(***************************************************************************)
(* What the clients see of a message: the refinement mapping of Tracker.    *)
Status ==
  [m \in Msgs |-> IF m \in Present
                  THEN IF tracker[m].active THEN "active" ELSE "inactive"
                  ELSE IF m \in gone THEN "gone" ELSE "none"]

(* What the clients see changes in m only, or not at all.                   *)
Becomes(m, s) == Status' = [Status EXCEPT ![m] = s] /\ UNCHANGED queueFull
SeesNothing   == Status' = Status /\ UNCHANGED queueFull

(* A step of the tracker that leaves every item and the deleted messages as *)
(* they are, as far as clients can tell, is not seen by them.               *)
LEMMA SameStatus ==
  ASSUME \A m \in Msgs : /\ m \in Present' <=> m \in Present
                         /\ m \in gone' <=> m \in gone
                         /\ m \in Present => (tracker'[m].active <=> tracker[m].active)
  PROVE  Status' = Status
BY DEF Status

(* The tracker starts empty for its clients, too.                          *)
LEMMA AbstractInit ==
  ASSUME Init
  PROVE  Tracker!Init
<1>1. \A m \in Msgs : m \notin Present /\ m \notin gone
  BY DEF Init, Present
<1> QED
  BY <1>1 DEF Init, Tracker!Init

(* MessageTracker calls tracked what is present here.                      *)
LEMMA TrackedArePresent == Tracker!Tracked = Present
  BY DEF Tracker!Tracked, Present

(* The Cardinality that MessageTracker extends is the same operator.        *)
LEMMA SameCardinality == \A S : Tracker!Cardinality(S) = Cardinality(S)
BY DEF Tracker!Cardinality, Cardinality

(* A message that is unknown and becomes active is added, in the terms of   *)
(* MessageTracker ...                                                      *)
LEMMA AddIs ==
  ASSUME NEW m \in Msgs, m \notin Present, m \notin gone, Becomes(m, "active")
  PROVE  Tracker!Next
<1>1. Status[m] = "none"
  BY DEF Status
<1>2. Tracker!Add(m)
  BY <1>1 DEF Tracker!Add, Becomes, Status
<1> QED
  BY <1>2 DEF Tracker!Next

(* ... one that is active and becomes inactive is settled ...              *)
LEMMA SettleIs ==
  ASSUME NEW m \in Msgs, m \in Present, tracker[m].active, Becomes(m, "inactive")
  PROVE  Tracker!Next
<1>1. Status[m] = "active"
  BY DEF Status
<1>2. Tracker!Settle(m)
  BY <1>1 DEF Tracker!Settle, Becomes, Status
<1> QED
  BY <1>2 DEF Tracker!Next

(* ... one that is present and is gone then is deleted ...                 *)
LEMMA DeleteIs ==
  ASSUME NEW m \in Msgs, m \in Present, Becomes(m, "gone")
  PROVE  Tracker!Next
<1>1. Tracker!Delete(m)
  BY TrackedArePresent DEF Tracker!Delete, Becomes, Status
<1> QED
  BY <1>1 DEF Tracker!Next

(* ... and RunOnce refreshes the back-pressure.                            *)
LEMMA RefreshIs ==
  ASSUME Status' = Status, queueFull' = Full
  PROVE  Tracker!Next
<1>1. Tracker!Cardinality(Tracker!Tracked) = Cardinality(Present)
  BY TrackedArePresent, SameCardinality
<1>2. queueFull' = (Tracker!Cardinality(Tracker!Tracked) > MaxQueueLength)
  BY <1>1 DEF Full
<1>3. Tracker!Refresh
  BY <1>2 DEF Tracker!Refresh, Status
<1> QED
  BY <1>3 DEF Tracker!Next

(* What clients do not see is a stuttering step.                           *)
LEMMA SeesNothingIs ==
  ASSUME SeesNothing
  PROVE  UNCHANGED Tracker!trackerVars
BY DEF SeesNothing, Status, Tracker!trackerVars

(* AddMessage adds a message that was not there; the others see nothing.    *)
LEMMA AddSeen ==
  ASSUME IInv, NEW m \in Msgs, AddMessage(m), UNCHANGED queueFull,
         m \in Present \/ m \notin gone
  PROVE  Tracker!Next \/ UNCHANGED Tracker!trackerVars
<1>1. CASE m \in Present
  BY <1>1, SeesNothingIs, SameStatus DEF AddMessage, SeesNothing, Present
<1>2. CASE m \notin Present
  <2>1. /\ tracker'[m] = NewItem
        /\ \A x \in Msgs \ {m} : tracker'[x] = tracker[x]
        /\ gone' = gone
    BY <1>2 DEF AddMessage, IInv, TInv, TypeOK
  <2>2. m \in Present' /\ \A x \in Msgs \ {m} : x \in Present' <=> x \in Present
    BY <2>1, NewItems, Nothing DEF Present
  <2>3. Status' = [Status EXCEPT ![m] = "active"]
    BY <2>1, <2>2, NewItems DEF Status
  <2> QED
    BY <1>2, <2>3, AddIs DEF Becomes
<1> QED
  BY <1>1, <1>2

(* DeleteMessage deletes a message that is there.                          *)
LEMMA DeleteSeen ==
  ASSUME IInv, NEW m \in Msgs, DeleteMessage(m), UNCHANGED queueFull
  PROVE  Tracker!Next \/ UNCHANGED Tracker!trackerVars
<1>1. /\ m \notin Present'
      /\ \A x \in Msgs \ {m} : tracker'[x] = tracker[x] /\ (x \in gone' <=> x \in gone)
      /\ m \in gone' <=> m \in gone \/ m \in Present
  BY DEF DeleteMessage, IInv, TInv, TypeOK, Present
<1>2. \A x \in Msgs \ {m} : x \in Present' <=> x \in Present
  BY <1>1 DEF Present
<1>3. CASE m \in Present
  <2>1. Status' = [Status EXCEPT ![m] = "gone"]
    BY <1>1, <1>2, <1>3 DEF Status
  <2> QED
    BY <1>3, <2>1, DeleteIs DEF Becomes
<1>4. CASE m \notin Present
  <2>1. Status' = Status
    BY <1>1, <1>2, <1>4 DEF Status
  <2> QED
    BY <2>1, SeesNothingIs DEF SeesNothing
<1> QED
  BY <1>3, <1>4

(* UpdateMessage settles the message or keeps it active.                    *)
LEMMA UpdateSeen ==
  ASSUME IInv, NEW m \in Msgs, NEW item \in Item, UpdateMessage(m, item), UNCHANGED queueFull,
         m \in Present => tracker[m].active
  PROVE  Tracker!Next \/ UNCHANGED Tracker!trackerVars
<1>1. /\ \A x \in Msgs : x # m \/ m \notin Present => tracker'[x] = tracker[x]
      /\ m \in Present => tracker'[m] = item
      /\ gone' = gone
  BY DEF UpdateMessage, IInv, TInv, TypeOK
<1>2. \A x \in Msgs : x \in Present' <=> x \in Present
  BY <1>1, Nothing DEF Present
<1>3. CASE m \in Present /\ ~item.active
  <2>1. Status' = [Status EXCEPT ![m] = "inactive"]
    BY <1>1, <1>2, <1>3 DEF Status
  <2> QED
    BY <1>3, <2>1, SettleIs DEF Becomes
<1>4. CASE ~(m \in Present /\ ~item.active)
  <2>1. Status' = Status
    BY <1>1, <1>2, <1>4, SameStatus
  <2> QED
    BY <2>1, SeesNothingIs DEF SeesNothing
<1> QED
  BY <1>3, <1>4

(* Steps that leave the tracker alone are not seen.                        *)
LEMMA UnseenIs ==
  ASSUME UNCHANGED <<tracker, gone, queueFull>>
  PROVE  UNCHANGED Tracker!trackerVars
BY SameStatus, SeesNothingIs DEF SeesNothing, Present

(* Every step is a step of MessageTracker or is not seen.                  *)
LEMMA TrackerStep ==
  ASSUME IInv, [Next]_vars
  PROVE  [Tracker!Next]_Tracker!trackerVars
<1> DEFINE Seen == Tracker!Next \/ UNCHANGED Tracker!trackerVars
<1>1. ASSUME NEW m \in Msgs, PostNotification(m) \/ DropMessage(m) \/ Forget(m) \/ AddToVendorQueue(m)
      PROVE  Seen
  BY <1>1, UnseenIs DEF PostNotification, DropMessage, Forget, AddToVendorQueue
<1>2. ASSUME NEW m \in Msgs, AddNotification(m) \/ AddErrorMessage(m) \/ Poll(m)
      PROVE  Seen
  <2>1. AddMessage(m) /\ UNCHANGED queueFull
    BY <1>2 DEF AddNotification, AddErrorMessage, Poll
  <2>2. m \in Present \/ m \notin gone
    BY <1>2 DEF AddNotification, AddErrorMessage, Poll, IInv, Clients
  <2> QED
    BY <2>1, <2>2, AddSeen
<1>3. ASSUME NEW m \in Msgs, CleanUp(m) \/ DropDelete(m)
      PROVE  Seen
  <2>1. DeleteMessage(m) /\ UNCHANGED queueFull
    BY <1>3 DEF CleanUp, DropDelete
  <2> QED
    BY <2>1, DeleteSeen
<1>4. CASE RunOnce
  <2>1. tracker' = Marked /\ gone' = gone /\ queueFull' = Full
    BY <1>4 DEF RunOnce
  <2>2. ASSUME NEW m \in Msgs
        PROVE  /\ m \in Present' <=> m \in Present
               /\ m \in Present => (tracker'[m].active <=> tracker[m].active)
    <3>1. m \in Present' <=> m \in Present
      BY <2>1, MarkedIs DEF IInv, TInv, Present
    <3>2. m \in Present => tracker[m] \in Item
      BY MarkedIs DEF IInv, TInv
    <3>3. CASE m \in Unqueued
      <4>1. tracker'[m] = [tracker[m] EXCEPT !.queued = TRUE]
        BY <2>1, <3>3, MarkedIs DEF IInv, TInv
      <4> QED
        BY <3>1, <3>2, <4>1, ItemFields
    <3>4. CASE m \notin Unqueued
      BY <2>1, <3>1, <3>4, MarkedIs DEF IInv, TInv
    <3> QED
      BY <3>3, <3>4
  <2>3. Status' = Status
    BY <2>1, <2>2, SameStatus
  <2> QED
    BY <2>1, <2>3, RefreshIs
<1>5. ASSUME NEW m \in Msgs, Route(m)
      PROVE  Seen
  <2>1. PICK aggregated \in BOOLEAN : UpdateMessage(m, Routed(aggregated))
    BY <1>5 DEF Route, RecordRoute, Routed
  <2>2. m \in Present => tracker[m].active
    BY <1>5 DEF Route, IInv, Copies
  <2>3. UNCHANGED queueFull
    BY <1>5 DEF Route
  <2> QED
    BY <2>1, <2>2, <2>3, NewItems, UpdateSeen
<1>6. ASSUME NEW v \in Vendors,
             \/ \E m \in Msgs : GetNextMessage(v, m)
             \/ CheckMessage(v) \/ SendMessage(v) \/ Requeue(v) \/ AdvanceQueue(v)
      PROVE  Seen
  BY <1>6, UnseenIs DEF GetNextMessage, CheckMessage, SendMessage, Requeue, AdvanceQueue
<1>7. ASSUME NEW v \in Vendors, WriteBack(v)
      PROVE  Seen
  <2>1. msgUUID[v] \in Msgs /\ msgItem[v] \in Item
    BY <1>7 DEF WriteBack, IInv, TInv, TypeOK, Goroutines
  <2>2. UpdateMessage(msgUUID[v], msgItem[v]) /\ UNCHANGED queueFull
    BY <1>7 DEF WriteBack, RecordOutcome
  <2>3. msgUUID[v] \in Present => tracker[msgUUID[v]].active
    BY <1>7 DEF WriteBack, IInv, Turns
  <2> QED
    BY <2>1, <2>2, <2>3, UpdateSeen
<1>8. ASSUME NEW v \in Vendors, VendorDelete(v)
      PROVE  Seen
  <2>1. msgUUID[v] \in Msgs
    BY <1>8 DEF VendorDelete, IInv, TInv, TypeOK, Goroutines
  <2>2. UNCHANGED queueFull
    BY <1>8 DEF VendorDelete
  <2>3. DeleteMessage(msgUUID[v]) \/ UNCHANGED <<tracker, gone>>
    BY <1>8 DEF VendorDelete
  <2> QED
    BY <2>1, <2>2, <2>3, DeleteSeen, UnseenIs
<1>9. CASE UNCHANGED vars
  BY <1>9, UnseenIs DEF vars
<1> QED
  BY <1>1, <1>2, <1>3, <1>4, <1>5, <1>6, <1>7, <1>8, <1>9 DEF Next, Client, VendorStep

(* The safety part of ImplementsTracker: polling, retries, routing and the   *)
(* goroutines of the vendors look to the clients like MessageTracker.       *)
THEOREM ClientsSeeTracker == Spec => Tracker!Spec
<1>1. Init => Tracker!Init
  BY AbstractInit
<1>2. IInv /\ [Next]_vars => [Tracker!Next]_Tracker!trackerVars
  BY TrackerStep
<1> QED
  BY <1>1, <1>2, Invariance, PTL DEF Spec, Tracker!Spec

(***************************************************************************)
(* The use of the queues, as VendorPool allows                             *)
(***************************************************************************)
(* The message vendor v has taken and not let go.                           *)
Hand(v) == IF pc[v] = "delete" THEN None ELSE msgUUID[v]

(* What vendor v does to its queue is a step of VendorPool, or none.        *)
UsesPool(v) == Pool(v)!Next \/ UNCHANGED Pool(v)!poolVars

(* The steps of VendorPool, in the terms of this module.                   *)
LEMMA PutIs ==
  ASSUME NEW v \in Vendors, NEW m \in Msgs, m \notin pool[v] \union {Hand(v)},
         pool'[v] = pool[v] \union {m}, UNCHANGED Hand(v)
  PROVE  UsesPool(v)
BY DEF UsesPool, Pool!Next, Pool!Put, Hand

(* The goroutine takes a message ...                                       *)
LEMMA TakeIs ==
  ASSUME NEW v \in Vendors, NEW m \in pool[v], m \in Msgs, Hand(v) = None,
         pool'[v] = pool[v] \ {m}, Hand(v)' = m
  PROVE  UsesPool(v)
BY DEF UsesPool, Pool!Next, Pool!Take, Hand

(* ... lets it go ...                                                      *)
LEMMA ReleaseIs ==
  ASSUME NEW v \in Vendors, Hand(v) # None, Hand(v)' = None, pool'[v] = pool[v]
  PROVE  UsesPool(v)
BY DEF UsesPool, Pool!Next, Pool!Release, Hand

(* ... or puts it back.                                                    *)
LEMMA AgainIs ==
  ASSUME NEW v \in Vendors, Hand(v) # None, Hand(v)' = None,
         pool'[v] = pool[v] \union {Hand(v)}
  PROVE  UsesPool(v)
BY DEF UsesPool, Pool!Next, Pool!Again, Hand

(* The queue and the hand stay as they are.                                *)
LEMMA SameQueueIs ==
  ASSUME NEW v \in Vendors, pool'[v] = pool[v], Hand(v)' = Hand(v)
  PROVE  UsesPool(v)
BY DEF UsesPool, Pool!poolVars, Hand

(* Every step, of whatever vendor, is one that VendorPool allows vendor w.  *)
LEMMA PoolStep ==
  ASSUME IInv, Next, NEW w \in Vendors
  PROVE  UsesPool(w)
<1> USE DEF IInv, TInv, TypeOK
<1>1. ASSUME UNCHANGED <<pool, pc, msgUUID>>
      PROVE  UsesPool(w)
  BY <1>1, SameQueueIs DEF Hand
<1>2. ASSUME NEW m \in Msgs, Client(m) \/ Route(m)
      PROVE  UsesPool(w)
  BY <1>1, <1>2 DEF Client, PostNotification, AddNotification, AddErrorMessage, Poll, CleanUp, DropMessage,
     DropDelete, Forget, Route, queueVars, vendorVars
<1>3. CASE RunOnce
  BY <1>1, <1>3 DEF RunOnce, vendorVars
<1>4. ASSUME NEW m \in Msgs, AddToVendorQueue(m)
      PROVE  UsesPool(w)
  <2>1. /\ pool' = [pool EXCEPT ![adding[m]] = @ \union {m}]
        /\ UNCHANGED <<pc, msgUUID>>
        /\ adding[m] # None
    BY <1>4 DEF AddToVendorQueue, vendorVars
  <2>2. m \notin pool[w] /\ m # msgUUID[w]
    BY <2>1 DEF Alone
  <2>3. Hand(w)' = Hand(w) /\ m # Hand(w)
    BY <2>1, <2>2, Nothing DEF Hand
  <2>4. CASE adding[m] = w
    BY <2>1, <2>2, <2>3, <2>4, PutIs
  <2>5. CASE adding[m] # w
    BY <2>1, <2>3, <2>5, SameQueueIs
  <2> QED
    BY <2>4, <2>5
<1>5. ASSUME NEW v \in Vendors, NEW m \in Msgs, GetNextMessage(v, m)
      PROVE  UsesPool(w)
  <2>1. CASE v = w
    <3>1. Hand(w) = None /\ Hand(w)' = m
      BY <1>5, <2>1 DEF GetNextMessage, Hand, Goroutines
    <3>2. m \in pool[w] /\ pool'[w] = pool[w] \ {m}
      BY <1>5, <2>1 DEF GetNextMessage, Taken
    <3> QED
      BY <3>1, <3>2, TakeIs
  <2>2. CASE v # w
    BY <1>5, <2>2, SameQueueIs DEF GetNextMessage, Taken, Hand
  <2> QED
    BY <2>1, <2>2
<1>6. ASSUME NEW v \in Vendors, CheckMessage(v) \/ SendMessage(v) \/ WriteBack(v) \/ AdvanceQueue(v)
      PROVE  UsesPool(w)
  <2>1. pool' = pool
    BY <1>6 DEF CheckMessage, SendMessage, WriteBack, AdvanceQueue, queueVars
  <2>2. CASE Hand(w)' = Hand(w)
    BY <2>1, <2>2, SameQueueIs
  <2>3. CASE Hand(w)' # Hand(w)
    <3>1. Hand(w) # None /\ Hand(w)' = None
      BY <1>6, <2>3 DEF CheckMessage, SendMessage, WriteBack, AdvanceQueue, Hand, Goroutines
    <3> QED
      BY <2>1, <3>1, ReleaseIs
  <2> QED
    BY <2>2, <2>3
<1>7. ASSUME NEW v \in Vendors, Requeue(v)
      PROVE  UsesPool(w)
  <2>1. CASE v = w
    <3>1. Hand(w) # None /\ Hand(w)' = None /\ Hand(w) = msgUUID[w]
      BY <1>7, <2>1 DEF Requeue, Hand, Goroutines
    <3>2. pool'[w] = pool[w] \union {msgUUID[w]}
      BY <1>7, <2>1 DEF Requeue
    <3> QED
      BY <3>1, <3>2, AgainIs
  <2>2. CASE v # w
    BY <1>7, <2>2, SameQueueIs DEF Requeue, Hand
  <2> QED
    BY <2>1, <2>2
<1>8. ASSUME NEW v \in Vendors, VendorDelete(v)
      PROVE  UsesPool(w)
  <2>1. pool' = pool /\ Hand(w)' = Hand(w)
    BY <1>8 DEF VendorDelete, Hand, queueVars
  <2> QED
    BY <2>1, SameQueueIs
<1> QED
  BY <1>2, <1>3, <1>4, <1>5, <1>6, <1>7, <1>8 DEF Next, VendorStep

(* No message is put twice into a queue, taken while another is in hand or   *)
(* let go by a vendor that has none.                                       *)
THEOREM QueuesUsed == Spec => UsesPools
<1>1. Init => \A v \in Vendors : Pool(v)!Init
  BY DEF Init, Pool!Init
<1>2. IInv /\ [Next]_vars => [\A v \in Vendors : Pool(v)!Next \/ UNCHANGED Pool(v)!poolVars]_vars
  BY PoolStep DEF UsesPool
<1> QED
  BY <1>1, <1>2, Invariance, PTL DEF Spec, UsesPools
=============================================================================
