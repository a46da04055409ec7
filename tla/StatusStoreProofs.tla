-------------------------- MODULE StatusStoreProofs --------------------------
(***************************************************************************)
(* Proofs about StatusStore and Senders, for any number of messages and     *)
(* callbacks and whatever fails.                                           *)
(*                                                                         *)
(* The inductive invariant Inv says of every call of writeStatus which      *)
(* message it is about (CallInv), of every row that the vendor's id in it    *)
(* belongs to its message (RowInv), and that the vendor is done with a       *)
(* message when it reports it (Reported).  A statement then has one of two   *)
(* effects (StatementEffect), which is all that the type invariant and the  *)
(* refinement of StatusRegister need to know about it.                     *)
(*                                                                         *)
(* The last part is about the answers of MessageQuery, which reads what the *)
(* store has written.                                                      *)
(***************************************************************************)
EXTENDS StatusStore, MessageQuery, TLAPS

(* OneRecordEach for one outcome.                                          *)
OneRecord(o, v, last) ==
  /\ o \in Outcomes
  /\ o.status # None <=> v \in Recording /\ (o.ok \/ last)
  /\ o.status = "sent" => o.ok /\ o.reached

LEMMA NoneIsNoStatus == None # "sent" /\ None # "failed" /\ None # "stored"
BY SendersAssumption DEF SendersAssumption

LEMMA OutcomeCorrect ==
  ASSUME NEW v, NEW last \in BOOLEAN, NEW ok \in BOOLEAN, NEW hit \in BOOLEAN, NEW sid \in BOOLEAN,
         NEW status \in {None, "sent", "failed", "stored"},
         status # None <=> v \in Recording /\ (ok \/ last),
         status = "sent" => ok /\ hit
  PROVE  OneRecord(Outcome(ok, hit, status, sid), v, last)
<1>1. Outcome(ok, hit, status, sid) \in Outcomes
  BY DEF Outcome, Outcomes
<1>2. /\ Outcome(ok, hit, status, sid).ok = ok
      /\ Outcome(ok, hit, status, sid).reached = hit
      /\ Outcome(ok, hit, status, sid).status = status
  BY DEF Outcome
<1> QED BY <1>1, <1>2 DEF OneRecord

LEMMA FailureCorrect ==
  ASSUME NEW v \in Recording, NEW last \in BOOLEAN, NEW hit \in BOOLEAN
  PROVE  OneRecord(Failure(last, hit), v, last)
BY NoneIsNoStatus, OutcomeCorrect DEF Failure

(* What the vendors' methods promise to runVendor and to the status table.  *)
THEOREM SendersCorrect == OneRecordEach
<1> SUFFICES ASSUME NEW v \in Vendors, NEW last \in BOOLEAN, NEW o \in SendMessage(v, last)
             PROVE  OneRecord(o, v, last)
  BY DEF OneRecordEach, OneRecord
<1> USE NoneIsNoStatus, OutcomeCorrect, FailureCorrect
<1>1. CASE v = "email"
  <2>1. o \in EmailSend(last)
    BY <1>1 DEF SendMessage
  <2>2. CASE ~SMTPServer
    BY <1>1, <2>1, <2>2 DEF EmailSend, Recording
  <2>3. CASE SMTPServer
    <3>1. PICK r \in SendMailNoAuth : o = IF r.err THEN Failure(last, r.reached) ELSE Outcome(TRUE, TRUE, "sent", FALSE)
      BY <2>1, <2>3 DEF EmailSend
    <3>2. r.reached \in BOOLEAN /\ v \in Recording
      BY <1>1, <2>3, <3>1 DEF SendMailNoAuth, Recording
    <3> QED BY <3>1, <3>2
  <2> QED BY <2>2, <2>3
<1>2. CASE v = "slack"
  <2>1. o \in {Outcome(TRUE, TRUE, "sent", FALSE), Outcome(TRUE, FALSE, "failed", FALSE),
               Failure(last, FALSE), Failure(last, TRUE)}
    BY <1>2 DEF SendMessage, SlackSend, SlackPost
  <2>2. v \in Recording
    BY <1>2 DEF Recording
  <2> QED BY <2>1, <2>2
<1>3. CASE v = "twilio"
  <2>1. o \in TwilioSend(last)
    BY <1>3 DEF SendMessage
  <2>2. CASE ~TwilioNumbers
    BY <1>3, <2>1, <2>2 DEF TwilioSend, Recording
  <2>3. CASE TwilioNumbers
    <3>1. PICK r \in CreateCall : o = IF r.err THEN Failure(last, r.reached) ELSE Outcome(TRUE, TRUE, "sent", TRUE)
      BY <2>1, <2>3 DEF TwilioSend
    <3>2. r.reached \in BOOLEAN /\ v \in Recording
      BY <1>3, <2>3, <3>1 DEF CreateCall, Recording
    <3> QED BY <3>1, <3>2
  <2> QED BY <2>2, <2>3
<1>4. CASE v = "fcm"
  BY <1>4 DEF SendMessage, FCMSend, Recording
<1>5. CASE v = "drop"
  <2>1. o = Outcome(TRUE, FALSE, IF PersistDroppedMsgs THEN "stored" ELSE None, FALSE)
    BY <1>5 DEF SendMessage, DropSend
  <2>2. v \in Recording <=> PersistDroppedMsgs
    BY <1>5 DEF Recording
  <2>3. CASE PersistDroppedMsgs
    BY <2>1, <2>2, <2>3
  <2>4. CASE ~PersistDroppedMsgs
    BY <2>1, <2>2, <2>4
  <2> QED BY <2>3, <2>4
<1>6. CASE v \in {"error", "dummy"}
  BY <1>6 DEF SendMessage, StoreSend, Recording
<1> QED BY <1>1, <1>2, <1>3, <1>4, <1>5, <1>6 DEF Vendors

-----------------------------------------------------------------------------

USE StoreAssumption

(* A call is about the message it names, or the one its vendor's id belongs *)
(* to, and works with no other.                                            *)
CallInv(c, tab) ==
  /\ c \in Call
  /\ c.id = None => c.vendorID # NoId
  /\ c.vendorID # NoId => About(c) = c.vendorID[1]
  /\ c.key \in {None, About(c)}
  /\ c.id # None => c.key = c.id
  /\ c.stored => c.id # None /\ tab[c.id] # None
  /\ c.state = "store" => c.id # None

RowInv(m, r) == r \in Row /\ (r.vendorID # NoId => r.vendorID[1] = m)

(* A vendor reports a message when it will not try it again.                *)
Reported(m) == writer[<<m, "vendor">>] # None => pc[m] \in {"sent", "finished"}

Inv ==
  /\ TypeOK
  /\ \A w \in Writers : writer[w] # None => CallInv(writer[w], table)
  /\ \A m \in Msgs : table[m] # None => RowInv(m, table[m])
  /\ \A m \in Msgs : Reported(m)

LEMMA AboutMsg ==
  ASSUME NEW c, NEW tab, CallInv(c, tab)
  PROVE  About(c) \in Msgs
BY DEF CallInv, About, Call, Sids, NoId

(* What one statement of writeStatus does: it changes nothing, and if it was *)
(* the last one the call has written before, or had no message id to go by; *)
(* or it gives the message the call is about its status.                    *)
StatementEffect(w, d) ==
  LET c == writer[w]
  IN  /\ c # None
      /\ c.state \notin {"done", "failed"}
      /\ writer' = [writer EXCEPT ![w] = d]
      /\ CallInv(d, table')
      /\ d.id = c.id /\ d.vendorID = c.vendorID /\ d.status = c.status
      /\ \/ /\ table' = table
            /\ d.written = c.written
            /\ d.state = "done" => c.written \/ c.id = None
         \/ /\ d.written
            /\ \E r : /\ RowInv(About(c), r)
                      /\ r.status = c.status
                      /\ table' = [table EXCEPT ![About(c)] = r]

(* SELECT reads the row of the message, or of the vendor's id.              *)
LEMMA SelectEffect ==
  ASSUME Inv, NEW w \in Writers, Select(w)
  PROVE  StatementEffect(w, writer'[w])
<1> DEFINE c == writer[w]
           d == writer'[w]
<1>1. /\ c # None /\ c.state = "select" /\ table' = table
      /\ CallInv(c, table) /\ c \in Call /\ writer \in [Writers -> Call \union {None}]
  BY DEF Select, At, Inv, CallInv, storeVars, TypeOK
<1>2. CASE SelectMessageStatusByMsgID(w)
  <2>1. PICK st \in BOOLEAN :
          /\ writer' = [writer EXCEPT ![w] = [c EXCEPT !.stored = st, !.state = "update"]]
          /\ st => table[c.id] # None \/ c.stored
    <3>1. CASE writer' = [writer EXCEPT ![w].stored = table[writer[w].id] # None, ![w].state = "update"]
      <4>1. writer' = [writer EXCEPT ![w] = [c EXCEPT !.stored = (table[c.id] # None), !.state = "update"]]
        BY <3>1
      <4> QED BY <4>1
    <3>2. CASE writer' = [writer EXCEPT ![w].state = "update"]
      <4>1. [c EXCEPT !.stored = c.stored, !.state = "update"] = [c EXCEPT !.state = "update"]
        BY <1>1 DEF Call
      <4>2. c.stored \in BOOLEAN
        BY <1>1 DEF Call
      <4> QED BY <3>2, <4>1, <4>2
    <3> QED BY <1>2, <3>1, <3>2 DEF SelectMessageStatusByMsgID
  <2>2. d = [c EXCEPT !.stored = st, !.state = "update"]
    BY <1>1, <2>1
  <2>3. c.id # None
    BY <1>2 DEF SelectMessageStatusByMsgID
  <2>4. CallInv(d, table)
    BY <1>1, <2>1, <2>2, <2>3 DEF CallInv, Call, About
  <2> QED BY <1>1, <2>1, <2>2, <2>4 DEF StatementEffect, Call
<1>3. CASE SelectMessageStatusByVendorID(w)
  <2>1. c.id = None /\ c.vendorID # NoId /\ c.vendorID[1] = About(c)
    BY <1>1, <1>3 DEF SelectMessageStatusByVendorID, CallInv
  <2>2. \A m \in RowsOf(c.vendorID) : m = About(c) /\ m \in Msgs
    BY <2>1 DEF RowsOf, Inv, RowInv
  <2>3. CASE writer' = [writer EXCEPT ![w].state = "failed"]
    <3>1. d = [c EXCEPT !.state = "failed"]
      BY <1>1, <2>3
    <3>2. CallInv(d, table)
      BY <1>1, <3>1 DEF CallInv, Call, About
    <3> QED BY <1>1, <2>3, <3>1, <3>2 DEF StatementEffect, Call
  <2>4. CASE \E key \in IF RowsOf(c.vendorID) = {} THEN {None} ELSE RowsOf(c.vendorID) :
               writer' = [writer EXCEPT ![w].key = key, ![w].state = "update"]
    <3>1. PICK key \in Msgs \union {None} :
            /\ writer' = [writer EXCEPT ![w] = [c EXCEPT !.key = key, !.state = "update"]]
            /\ key \in {None, About(c)}
      BY <1>1, <2>2, <2>4
    <3>2. d = [c EXCEPT !.key = key, !.state = "update"]
      BY <1>1, <3>1
    <3>3. CallInv(d, table)
      BY <1>1, <2>1, <3>1, <3>2 DEF CallInv, Call, About
    <3> QED BY <1>1, <3>1, <3>2, <3>3 DEF StatementEffect, Call
  <2> QED BY <1>3, <2>3, <2>4 DEF SelectMessageStatusByVendorID
<1> QED BY <1>2, <1>3 DEF Select

(* UPDATE and INSERT give the message of the call its status, or nothing.    *)
LEMMA TableEffect ==
  ASSUME Inv, NEW w \in Writers, writer[w] # None,
         \/ UpdateMessageStatus(w)
         \/ InsertMessageStatus(w) /\ writer[w].key # None
         \/ table' = table
  PROVE  \/ table' = table
         \/ \E r : /\ RowInv(About(writer[w]), r)
                   /\ r.status = writer[w].status
                   /\ table' = [table EXCEPT ![About(writer[w])] = r]
<1> DEFINE c == writer[w]
<1>1. CallInv(c, table) /\ About(c) \in Msgs /\ c \in Call /\ table \in [Msgs -> Row \union {None}]
  BY AboutMsg DEF Inv, CallInv, TypeOK
<1>2. CASE UpdateMessageStatus(w) /\ Stored(c.key)
  <2> DEFINE r == [table[c.key] EXCEPT !.status = c.status]
  <2>1. c.key = About(c) /\ table[c.key] # None
    BY <1>1, <1>2 DEF CallInv, Stored
  <2>2. table' = [table EXCEPT ![About(c)] = r]
    BY <1>1, <1>2, <2>1 DEF UpdateMessageStatus
  <2>3. RowInv(About(c), table[c.key])
    BY <1>1, <2>1 DEF Inv
  <2>4. RowInv(About(c), r) /\ r.status = c.status
    BY <1>1, <2>3 DEF RowInv, Row, Call
  <2> QED BY <2>2, <2>4
<1>3. CASE UpdateMessageStatus(w) /\ ~Stored(c.key)
  BY <1>3 DEF UpdateMessageStatus
<1>4. CASE InsertMessageStatus(w) /\ c.key # None
  <2> DEFINE r == [status |-> c.status, vendorID |-> c.vendorID]
  <2>1. table' = [table EXCEPT ![About(c)] = r]
    BY <1>1, <1>4 DEF InsertMessageStatus, CallInv
  <2>2. RowInv(About(c), r)
    BY <1>1 DEF RowInv, Row, CallInv, Call
  <2> QED BY <2>1, <2>2
<1> QED BY <1>2, <1>3, <1>4

(* A statement that fails, before or after it took effect.                 *)
LEMMA FailingEffect ==
  ASSUME Inv, NEW w \in Writers, writer[w] # None, writer[w].state \notin {"done", "failed"},
         NEW effect \in BOOLEAN, Failing(w, effect),
         effect => UpdateMessageStatus(w) \/ (InsertMessageStatus(w) /\ writer[w].key # None),
         \A m \in Msgs : table[m] # None => table'[m] # None
  PROVE  StatementEffect(w, writer'[w])
<1> DEFINE c == writer[w]
           d == writer'[w]
           wrote == c.written \/ table' # table
<1>1. /\ CallInv(c, table) /\ c \in Call /\ c.written \in BOOLEAN
      /\ writer \in [Writers -> Call \union {None}]
  BY DEF Inv, CallInv, TypeOK, Call
<1>2. /\ writer' = [writer EXCEPT ![w] = [c EXCEPT !.state = "failed", !.written = wrote]]
      /\ d = [c EXCEPT !.state = "failed", !.written = wrote]
      /\ wrote \in BOOLEAN
  BY <1>1 DEF Failing
<1> HIDE DEF wrote
<1>3. CallInv(d, table')
  BY <1>1, <1>2 DEF CallInv, Call, About
<1>4. \/ table' = table
      \/ \E r : /\ RowInv(About(c), r)
                /\ r.status = c.status
                /\ table' = [table EXCEPT ![About(c)] = r]
  BY TableEffect DEF Failing
<1>5. /\ d.id = c.id /\ d.vendorID = c.vendorID /\ d.status = c.status
      /\ d.state = "failed" /\ d.written = wrote
  BY <1>1, <1>2 DEF Call
<1>6. writer' = [writer EXCEPT ![w] = d]
  BY <1>2
<1>7. CASE table' = table
  <2>1. d.written = c.written
    BY <1>1, <1>5, <1>7 DEF wrote
  <2> QED BY <1>3, <1>5, <1>6, <1>7, <2>1 DEF StatementEffect
<1>8. CASE table' # table
  <2>1. d.written
    BY <1>5, <1>8 DEF wrote
  <2> QED BY <1>3, <1>4, <1>5, <1>6, <1>8, <2>1 DEF StatementEffect
<1> QED BY <1>7, <1>8

(* A statement that succeeds, having written or not.                       *)
LEMMA AdvanceEffect ==
  ASSUME Inv, NEW w \in Writers, writer[w] # None, writer[w].state \notin {"done", "failed"},
         NEW state \in {"store", "done"}, NEW wrote \in BOOLEAN, Advance(w, state, wrote),
         state = "store" => writer[w].id # None,
         \A m \in Msgs : table[m] # None => table'[m] # None,
         \/ /\ wrote
            /\ \E r : /\ RowInv(About(writer[w]), r)
                      /\ r.status = writer[w].status
                      /\ table' = [table EXCEPT ![About(writer[w])] = r]
         \/ /\ ~wrote /\ table' = table
            /\ state = "done" => writer[w].id = None
  PROVE  StatementEffect(w, writer'[w])
<1> DEFINE c == writer[w]
           d == writer'[w]
<1>1. /\ CallInv(c, table) /\ c \in Call /\ c.written \in BOOLEAN
      /\ writer \in [Writers -> Call \union {None}]
  BY DEF Inv, CallInv, TypeOK, Call
<1>2. /\ writer' = [writer EXCEPT ![w] = [c EXCEPT !.state = state, !.written = c.written \/ wrote]]
      /\ d = [c EXCEPT !.state = state, !.written = c.written \/ wrote]
  BY <1>1 DEF Advance
<1>3. CallInv(d, table')
  BY <1>1, <1>2 DEF CallInv, Call, About
<1>4. /\ d.id = c.id /\ d.vendorID = c.vendorID /\ d.status = c.status
      /\ d.state = state /\ d.written = (c.written \/ wrote)
  BY <1>1, <1>2 DEF Call
<1>5. writer' = [writer EXCEPT ![w] = d]
  BY <1>2
<1>6. CASE wrote
  BY <1>3, <1>4, <1>5, <1>6 DEF StatementEffect
<1>7. CASE ~wrote
  <2>1. d.written = c.written
    BY <1>1, <1>4, <1>7
  <2> QED BY <1>3, <1>4, <1>5, <1>7, <2>1 DEF StatementEffect
<1> QED BY <1>6, <1>7

(* Rows are never deleted.                                                 *)
LEMMA RowsStay ==
  ASSUME Inv, NEW w \in Writers, writer[w] # None,
         \/ UpdateMessageStatus(w)
         \/ InsertMessageStatus(w) /\ writer[w].key # None
         \/ table' = table
  PROVE  \A m \in Msgs : table[m] # None => table'[m] # None
<1>1. About(writer[w]) \in Msgs /\ table \in [Msgs -> Row \union {None}]
  BY AboutMsg DEF Inv, TypeOK
<1>2. \A m \in Msgs : \A r : RowInv(m, r) => r # None
  BY DEF RowInv
<1> QED BY <1>1, <1>2, TableEffect

LEMMA UpdateEffect ==
  ASSUME Inv, NEW w \in Writers, Update(w)
  PROVE  StatementEffect(w, writer'[w])
<1> DEFINE c == writer[w]
<1>1. c # None /\ c.state = "update" /\ CallInv(c, table) /\ c \in Call
  BY DEF Update, At, Inv, CallInv
<1>2. CASE UpdateMessageStatus(w) /\ Advance(w, IF c.id = None THEN "done" ELSE "store", Stored(c.key))
  <2>1. Stored(c.key) \in BOOLEAN
    BY DEF Stored
  <2>2. CASE Stored(c.key)
    <3> DEFINE r == [table[c.key] EXCEPT !.status = c.status]
    <3>1. c.key = About(c) /\ About(c) \in Msgs /\ table[c.key] # None
      BY <1>1, <2>2, AboutMsg DEF CallInv, Stored
    <3>2. table' = [table EXCEPT ![About(c)] = r]
      BY <1>2, <2>2, <3>1 DEF UpdateMessageStatus
    <3>3. RowInv(About(c), r) /\ r.status = c.status
      BY <1>1, <3>1 DEF Inv, RowInv, Row, Call
    <3> QED BY <1>1, <1>2, <2>1, <2>2, <3>2, <3>3, RowsStay, AdvanceEffect
  <2>3. CASE ~Stored(c.key)
    <3>1. table' = table
      BY <1>2, <2>3 DEF UpdateMessageStatus
    <3> QED BY <1>1, <1>2, <2>1, <2>3, <3>1, RowsStay, AdvanceEffect
  <2> QED BY <2>2, <2>3
<1>3. CASE Failing(w, UpdateMessageStatus(w))
  <2>1. UpdateMessageStatus(w) \/ table' = table
    BY <1>3 DEF Failing
  <2> QED BY <1>1, <1>3, <2>1, RowsStay, FailingEffect DEF UpdateMessageStatus
<1> QED BY <1>2, <1>3 DEF Update

LEMMA StoreEffect ==
  ASSUME Inv, NEW w \in Writers, Store(w)
  PROVE  StatementEffect(w, writer'[w])
<1> DEFINE c == writer[w]
<1>1. /\ c # None /\ c.state = "store" /\ CallInv(c, table) /\ c \in Call
      /\ c.id # None /\ c.key = c.id /\ c.key = About(c) /\ About(c) \in Msgs
  BY AboutMsg DEF Store, At, Inv, CallInv, About
<1>2. c.key # None
  BY <1>1
<1>3. CASE ~MustInsert(w) /\ UpdateMessageStatus(w) /\ Advance(w, "done", Stored(c.key))
  <2>1. Stored(c.key) /\ Stored(c.key) \in BOOLEAN
    BY <1>1, <1>3 DEF MustInsert, CallInv, Stored
  <2> DEFINE r == [table[c.key] EXCEPT !.status = c.status]
  <2>2. table' = [table EXCEPT ![About(c)] = r]
    BY <1>1, <1>3, <2>1 DEF UpdateMessageStatus
  <2>3. RowInv(About(c), r) /\ r.status = c.status
    BY <1>1, <2>1 DEF Inv, RowInv, Row, Call, Stored
  <2> QED BY <1>1, <1>3, <2>1, <2>2, <2>3, RowsStay, AdvanceEffect
<1>4. CASE ~MustInsert(w) /\ Failing(w, UpdateMessageStatus(w))
  <2>1. UpdateMessageStatus(w) \/ table' = table
    BY <1>4 DEF Failing
  <2> QED BY <1>1, <1>4, <2>1, RowsStay, FailingEffect DEF UpdateMessageStatus
<1>5. CASE InsertMessageStatus(w) /\ Advance(w, "done", TRUE)
  <2> DEFINE r == [status |-> c.status, vendorID |-> c.vendorID]
  <2>1. table' = [table EXCEPT ![About(c)] = r]
    BY <1>1, <1>5 DEF InsertMessageStatus
  <2>2. RowInv(About(c), r) /\ r.status = c.status
    BY <1>1 DEF RowInv, Row, CallInv, Call
  <2> QED BY <1>1, <1>2, <1>5, <2>1, <2>2, RowsStay, AdvanceEffect
<1>6. CASE Failing(w, InsertMessageStatus(w))
  <2>1. InsertMessageStatus(w) \/ table' = table
    BY <1>6 DEF Failing
  <2> QED BY <1>1, <1>2, <1>6, <2>1, RowsStay, FailingEffect DEF InsertMessageStatus
<1>7. CASE Advance(w, "failed", FALSE) /\ UNCHANGED table
  <2> DEFINE d == writer'[w]
  <2>1. /\ writer \in [Writers -> Call \union {None}] /\ c.written \in BOOLEAN
    BY <1>1 DEF Inv, TypeOK, Call
  <2>2. /\ writer' = [writer EXCEPT ![w] = [c EXCEPT !.state = "failed", !.written = c.written \/ FALSE]]
        /\ d = [c EXCEPT !.state = "failed", !.written = c.written \/ FALSE]
    BY <1>7, <2>1 DEF Advance
  <2>3. CallInv(d, table')
    BY <1>1, <1>7, <2>1, <2>2 DEF CallInv, Call, About
  <2>4. d.id = c.id /\ d.vendorID = c.vendorID /\ d.status = c.status /\ d.state = "failed" /\ d.written = c.written
    BY <1>1, <2>1, <2>2 DEF Call
  <2> QED BY <1>1, <1>7, <2>2, <2>3, <2>4 DEF StatementEffect
<1> QED BY <1>3, <1>4, <1>5, <1>6, <1>7 DEF Store

-----------------------------------------------------------------------------
(* Inv is inductive *)

(* What a call knows stays true while rows are not deleted.                *)
LEMMA CallStays ==
  ASSUME NEW c, NEW tab, NEW tab2, CallInv(c, tab),
         \A m \in Msgs : tab[m] # None => tab2[m] # None
  PROVE  CallInv(c, tab2)
BY DEF CallInv, Call, About

LEMMA StartedById ==
  ASSUME NEW m \in Msgs, NEW s \in Statuses, NEW sid \in Sids \union {NoId}, NEW tab,
         sid # NoId => sid[1] = m
  PROVE  /\ WriteStatus(m, s, sid) \in Call
         /\ CallInv(WriteStatus(m, s, sid), tab)
BY DEF WriteStatus, CallInv, Call, About

LEMMA StartedByVendorID ==
  ASSUME NEW s \in Statuses, NEW sid \in Sids, NEW tab, sid # NoId
  PROVE  /\ WriteStatus(None, s, sid) \in Call
         /\ CallInv(WriteStatus(None, s, sid), tab)
BY DEF WriteStatus, CallInv, Call, About

(* A step that leaves the tables alone and starts at most one call.         *)
LEMMA BeginInv ==
  ASSUME Inv, NEW w \in Writers, NEW d \in Call, CallInv(d, table),
         writer' = [writer EXCEPT ![w] = d], table' = table,
         /\ route' \in [Msgs -> Vendors]
         /\ pc' \in [Msgs -> {"queued", "sending", "sent", "finished"}]
         /\ retries' \in [Msgs -> 0 .. MaxMessageRetries]
         /\ tracked' \subseteq Msgs
         /\ inserting' \subseteq Msgs \X {"vendor", "incident"}
         /\ rows' \subseteq Msgs
         /\ reached' \subseteq Sids
         /\ faults' \in 0 .. MaxFaults
         /\ crashes' \in 0 .. MaxCrashes
         /\ exited' \in BOOLEAN,
         \A m \in Msgs : Reported(m)'
  PROVE  Inv'
<1>1. TypeOK'
  BY DEF Inv, TypeOK
<1>2. ASSUME NEW x \in Writers, writer'[x] # None
      PROVE  CallInv(writer'[x], table')
  BY <1>2 DEF Inv, TypeOK
<1>3. \A m \in Msgs : table'[m] # None => RowInv(m, table'[m])
  BY DEF Inv
<1> QED BY <1>1, <1>2, <1>3 DEF Inv

(* A statement of writeStatus.                                             *)
LEMMA StatementInv ==
  ASSUME Inv, NEW w \in Writers, StatementEffect(w, writer'[w]),
         UNCHANGED <<route, sendVars, inserting, rows, crashes, exited>>,
         faults' \in 0 .. MaxFaults
  PROVE  Inv'
<1> DEFINE c == writer[w]
           d == writer'[w]
<1>1. /\ c # None /\ writer' = [writer EXCEPT ![w] = d]
      /\ CallInv(d, table') /\ d \in Call /\ CallInv(c, table) /\ About(c) \in Msgs
      /\ table \in [Msgs -> Row \union {None}]
      /\ writer \in [Writers -> Call \union {None}]
  BY AboutMsg DEF StatementEffect, Inv, CallInv, TypeOK
<1>2. \/ table' = table
      \/ \E r : RowInv(About(c), r) /\ table' = [table EXCEPT ![About(c)] = r]
  BY DEF StatementEffect
<1>3. \A m \in Msgs : \A r : RowInv(m, r) => r \in Row /\ r # None
  BY DEF RowInv
<1>4. /\ table' \in [Msgs -> Row \union {None}]
      /\ \A m \in Msgs : table[m] # None => table'[m] # None
      /\ \A m \in Msgs : table'[m] # None => RowInv(m, table'[m])
  BY <1>1, <1>2, <1>3 DEF Inv
<1>5. TypeOK'
  <2>1. writer' \in [Writers -> Call \union {None}]
    BY <1>1
  <2> QED BY <1>4, <2>1 DEF Inv, TypeOK, sendVars
<1>6. ASSUME NEW x \in Writers, writer'[x] # None
      PROVE  CallInv(writer'[x], table')
  <2>1. CASE x = w
    BY <1>1, <2>1
  <2>2. CASE x # w
    <3>1. writer'[x] = writer[x]
      BY <1>1, <2>2
    <3> QED BY <1>4, <1>6, <3>1, CallStays DEF Inv
  <2> QED BY <2>1, <2>2
<1>7. \A m \in Msgs : Reported(m)'
  <2> SUFFICES ASSUME NEW m \in Msgs, writer'[<<m, "vendor">>] # None
               PROVE  pc[m] \in {"sent", "finished"}
    BY DEF Reported, sendVars
  <2>1. <<m, "vendor">> \in Writers
    BY DEF Writers
  <2>2. writer[<<m, "vendor">>] # None
    BY <1>1, <2>1
  <2> QED BY <2>2 DEF Inv, Reported
<1> QED BY <1>4, <1>5, <1>6, <1>7 DEF Inv

LEMMA InitInv ==
  ASSUME Init
  PROVE  Inv
<1>1. TypeOK
  <2>1. exited \in BOOLEAN
    BY Zenon DEF Init
  <2>2. /\ route \in [Msgs -> Vendors]
        /\ pc \in [Msgs -> {"queued", "sending", "sent", "finished"}]
        /\ retries \in [Msgs -> 0 .. MaxMessageRetries]
        /\ table \in [Msgs -> Row \union {None}]
        /\ writer \in [Writers -> Call \union {None}]
        /\ faults \in 0 .. MaxFaults
        /\ crashes \in 0 .. MaxCrashes
    BY DEF Init
  <2>3. /\ tracked \subseteq Msgs
        /\ inserting \subseteq Msgs \X {"vendor", "incident"}
        /\ rows \subseteq Msgs
        /\ reached \subseteq Sids
    BY DEF Init
  <2> QED BY <2>1, <2>2, <2>3 DEF TypeOK
<1>2. \A m \in Msgs : <<m, "vendor">> \in Writers
  BY DEF Writers
<1> QED BY <1>1, <1>2 DEF Init, Inv, Reported

(* Steps that start no call and touch no table.                            *)
LEMMA QuietInv ==
  ASSUME Inv,
         route' = route, rows' = rows, table' = table, writer' = writer, reached' = reached,
         retries' = retries, crashes' = crashes, exited' = exited,
         tracked' \subseteq tracked, inserting' \subseteq inserting,
         pc' \in [Msgs -> {"queued", "sending", "sent", "finished"}],
         \A m \in Msgs : pc[m] \in {"sent", "finished"} => pc'[m] \in {"sent", "finished"},
         faults' \in 0 .. MaxFaults
  PROVE  Inv'
<1>1. TypeOK'
  BY DEF Inv, TypeOK
<1>2. \A m \in Msgs : Reported(m)'
  BY DEF Inv, Reported
<1> QED BY <1>1, <1>2 DEF Inv

(* What Send does, with the promises of the vendor it calls.                *)
LEMMA SendEffect ==
  ASSUME Inv, NEW m \in Msgs, Send(m)
  PROVE  \E o \in Outcomes :
           /\ reached' = IF o.reached THEN reached \union {<<m, retries[m]>>} ELSE reached
           /\ IF o.status # None THEN PersistMsg(m, o) ELSE UNCHANGED <<inserting, writer>>
           /\ \/ pc' = [pc EXCEPT ![m] = "sent"] /\ retries' = retries
              \/ /\ o.status = None
                 /\ retries[m] < MaxMessageRetries
                 /\ pc' = [pc EXCEPT ![m] = "queued"]
                 /\ retries' = [retries EXCEPT ![m] = retries[m] + 1]
<1>1. route[m] \in Vendors /\ retries[m] \in 0 .. MaxMessageRetries
  BY DEF Inv, TypeOK
<1>2. LastAttempt(m) \in BOOLEAN /\ (GivesUp(m) <=> LastAttempt(m))
  BY DEF LastAttempt, GivesUp
<1>3. PICK o \in SendMessage(route[m], LastAttempt(m)) :
        /\ reached' = IF o.reached THEN reached \union {<<m, retries[m]>>} ELSE reached
        /\ IF o.status # None THEN PersistMsg(m, o) ELSE UNCHANGED <<inserting, writer>>
        /\ \/ /\ o.ok \/ GivesUp(m)
              /\ pc' = [pc EXCEPT ![m] = "sent"]
              /\ UNCHANGED retries
           \/ /\ ~o.ok /\ ~GivesUp(m)
              /\ pc' = [pc EXCEPT ![m] = "queued"]
              /\ retries' = [retries EXCEPT ![m] = @ + 1]
  BY DEF Send
<1>4. o \in Outcomes /\ (~o.ok /\ ~LastAttempt(m) => o.status = None)
  BY <1>1, <1>2, SendersCorrect DEF OneRecordEach
<1>5. ~GivesUp(m) => retries[m] < MaxMessageRetries
  BY <1>1 DEF GivesUp
<1> QED BY <1>2, <1>3, <1>4, <1>5

LEMMA SendInv ==
  ASSUME Inv, NEW m \in Msgs, Send(m)
  PROVE  Inv'
<1> DEFINE w == <<m, "vendor">>
<1>1. /\ w \in Writers
      /\ pc[m] = "sending" /\ writer[w] = None
      /\ UNCHANGED <<route, tracked, storeVars, faults, crashes, exited>>
  BY DEF Send, Inv, Reported, Writers
<1>2. /\ TypeOK
      /\ retries[m] \in 0 .. MaxMessageRetries
      /\ <<m, retries[m]>> \in Sids
  BY DEF Inv, TypeOK, Sids
<1>3. PICK o \in Outcomes :
        /\ reached' = IF o.reached THEN reached \union {<<m, retries[m]>>} ELSE reached
        /\ IF o.status # None THEN PersistMsg(m, o) ELSE UNCHANGED <<inserting, writer>>
        /\ \/ pc' = [pc EXCEPT ![m] = "sent"] /\ retries' = retries
           \/ /\ o.status = None
              /\ retries[m] < MaxMessageRetries
              /\ pc' = [pc EXCEPT ![m] = "queued"]
              /\ retries' = [retries EXCEPT ![m] = retries[m] + 1]
  BY SendEffect
<1>4. /\ reached' \subseteq Sids
      /\ pc' \in [Msgs -> {"queued", "sending", "sent", "finished"}]
      /\ retries' \in [Msgs -> 0 .. MaxMessageRetries]
      /\ route' = route /\ tracked' = tracked /\ rows' = rows /\ table' = table
      /\ faults' = faults /\ crashes' = crashes /\ exited' = exited
  BY <1>1, <1>2, <1>3 DEF TypeOK, storeVars
<1>5. CASE o.status # None
  <2> DEFINE sid == IF o.sid THEN <<m, retries[m]>> ELSE NoId
             d == WriteStatus(m, o.status, sid)
  <2>1. /\ inserting' = inserting \union {w}
        /\ writer' = [writer EXCEPT ![w] = d]
        /\ pc' = [pc EXCEPT ![m] = "sent"]
    BY <1>3, <1>5 DEF PersistMsg
  <2>2. o.status \in Statuses /\ sid \in Sids \union {NoId} /\ (sid # NoId => sid[1] = m)
    BY <1>2, <1>5 DEF Outcomes, Statuses
  <2>3. d \in Call /\ CallInv(d, table)
    BY <2>2, StartedById
  <2>4. \A n \in Msgs : Reported(n)'
    <3> SUFFICES ASSUME NEW n \in Msgs, writer'[<<n, "vendor">>] # None
                 PROVE  pc'[n] \in {"sent", "finished"}
      BY DEF Reported
    <3>1. CASE n = m
      BY <1>2, <2>1, <3>1 DEF TypeOK
    <3>2. CASE n # m
      <4>1. writer'[<<n, "vendor">>] = writer[<<n, "vendor">>] /\ pc'[n] = pc[n]
        BY <1>2, <2>1, <3>2 DEF TypeOK, Writers
      <4> QED BY <4>1 DEF Inv, Reported
    <3> QED BY <3>1, <3>2
  <2>5. inserting' \subseteq Msgs \X {"vendor", "incident"}
    BY <1>2, <2>1 DEF TypeOK
  <2> QED BY <1>1, <1>2, <1>4, <2>1, <2>3, <2>4, <2>5, BeginInv DEF TypeOK
<1>6. CASE o.status = None
  <2>1. inserting' = inserting /\ writer' = writer
    BY <1>3, <1>6
  <2>2. TypeOK'
    BY <1>2, <1>4, <2>1 DEF TypeOK
  <2>3. \A n \in Msgs : Reported(n)'
    <3> SUFFICES ASSUME NEW n \in Msgs, writer[<<n, "vendor">>] # None
                 PROVE  pc'[n] \in {"sent", "finished"}
      BY <2>1 DEF Reported
    <3>1. n # m
      BY <1>1
    <3>2. pc'[n] = pc[n]
      BY <1>2, <1>3, <3>1 DEF TypeOK
    <3> QED BY <3>2 DEF Inv, Reported
  <2> QED BY <1>4, <2>1, <2>2, <2>3 DEF Inv
<1> QED BY <1>5, <1>6

LEMMA DropInv ==
  ASSUME Inv, NEW m \in Msgs, Drop(m)
  PROVE  Inv'
<1> DEFINE w == <<m, "incident">>
           d == WriteStatus(m, "dropped", NoId)
<1>1. /\ w \in Writers
      /\ inserting' = inserting \union {w}
      /\ writer' = [writer EXCEPT ![w] = d]
      /\ UNCHANGED <<route, pc, retries, tracked, reached, rows, table, faults, crashes, exited>>
  BY DEF Drop, Writers, sendVars, storeVars
<1>2. d \in Call /\ CallInv(d, table)
  BY StartedById DEF Statuses
<1>3. inserting' \subseteq Msgs \X {"vendor", "incident"}
  BY <1>1 DEF Inv, TypeOK
<1>4. ASSUME NEW n \in Msgs
      PROVE  Reported(n)'
  <2>1. writer'[<<n, "vendor">>] = writer[<<n, "vendor">>]
    BY <1>1 DEF Inv, TypeOK, Writers
  <2> QED BY <1>1, <2>1 DEF Inv, Reported
<1> QED BY <1>1, <1>2, <1>3, <1>4, BeginInv DEF Inv, TypeOK

(* The call that a callback makes.                                         *)
LEMMA CallbackEffect ==
  ASSUME Inv, NEW c \in Callbacks, Callback(c)
  PROVE  \E d : /\ CallInv(d, table)
                /\ \E id, sid : d = WriteStatus(id, "delivered", sid)
                /\ writer' = [writer EXCEPT ![<<c, "callback">>] = d]
<1>1. PICK sid \in reached, byId \in BOOLEAN, byVendor \in BOOLEAN :
        LET id == IF byId THEN sid[1] ELSE None
            vendorID == IF byVendor THEN sid ELSE NoId
        IN /\ ValidBody(id, vendorID)
           /\ writer' = [writer EXCEPT ![<<c, "callback">>] = WriteStatus(id, "delivered", vendorID)]
  BY DEF Callback
<1> DEFINE id == IF byId THEN sid[1] ELSE None
           vendorID == IF byVendor THEN sid ELSE NoId
<1>2. sid \in Sids /\ sid[1] \in Msgs /\ "delivered" \in Statuses
  BY DEF Inv, TypeOK, Sids, Statuses
<1>3. CASE byId
  <2>1. CallInv(WriteStatus(sid[1], "delivered", vendorID), table)
    BY <1>2, StartedById
  <2> QED BY <1>1, <1>3, <2>1
<1>4. CASE ~byId
  <2>1. byVendor /\ sid # NoId
    BY <1>1, <1>4 DEF ValidBody
  <2>2. CallInv(WriteStatus(None, "delivered", sid), table)
    BY <1>2, <2>1, StartedByVendorID
  <2> QED BY <1>1, <1>4, <2>1, <2>2
<1> QED BY <1>3, <1>4

LEMMA CallbackInv ==
  ASSUME Inv, NEW c \in Callbacks, Callback(c)
  PROVE  Inv'
<1> DEFINE w == <<c, "callback">>
<1>1. /\ w \in Writers
      /\ UNCHANGED <<route, pc, retries, tracked, reached, inserting, rows, table, faults, crashes, exited>>
  BY DEF Callback, Writers, sendVars, storeVars
<1>2. PICK d : CallInv(d, table) /\ writer' = [writer EXCEPT ![w] = d]
  BY CallbackEffect
<1>3. d \in Call
  BY <1>2 DEF CallInv
<1>4. ASSUME NEW n \in Msgs
      PROVE  Reported(n)'
  <2>1. writer'[<<n, "vendor">>] = writer[<<n, "vendor">>]
    BY <1>1, <1>2 DEF Inv, TypeOK, Writers
  <2> QED BY <1>1, <2>1 DEF Inv, Reported
<1> QED BY <1>1, <1>2, <1>3, <1>4, BeginInv DEF Inv, TypeOK

LEMMA FaultTyped ==
  ASSUME Inv
  PROVE  /\ UNCHANGED faults => faults' \in 0 .. MaxFaults
         /\ Fault => faults' \in 0 .. MaxFaults
BY DEF Inv, TypeOK, Fault

LEMMA StatementCounts ==
  ASSUME Inv, NEW w \in Writers, Select(w) \/ Update(w) \/ Store(w)
  PROVE  /\ UNCHANGED <<route, sendVars, inserting, rows, crashes, exited>>
         /\ faults' \in 0 .. MaxFaults
<1>1. UNCHANGED <<route, sendVars, inserting, rows, crashes, exited>>
  BY DEF Select, Update, Store, storeVars
<1>2. UNCHANGED faults \/ Fault
  <2>1. CASE Select(w)
    <3>1. SelectMessageStatusByMsgID(w) \/ SelectMessageStatusByVendorID(w)
      BY <2>1 DEF Select
    <3>2. SelectMessageStatusByMsgID(w) => UNCHANGED faults \/ Fault
      BY ZenonT(20) DEF SelectMessageStatusByMsgID
    <3>3. SelectMessageStatusByVendorID(w) => UNCHANGED faults \/ Fault
      BY ZenonT(20) DEF SelectMessageStatusByVendorID
    <3> QED BY <3>1, <3>2, <3>3
  <2>2. CASE Update(w)
    BY <2>2 DEF Update, Advance, Failing
  <2>3. CASE Store(w)
    BY <2>3 DEF Store, Advance, Failing
  <2> QED BY <2>1, <2>2, <2>3
<1> QED BY <1>1, <1>2, FaultTyped

LEMMA InsertMessageInv ==
  ASSUME Inv, NEW w \in Writers, InsertMessage(w)
  PROVE  Inv'
<1>1. /\ w \in inserting /\ inserting' = inserting \ {w}
      /\ rows' \in {rows, rows \union {w[1]}}
      /\ UNCHANGED <<route, pc, retries, tracked, reached, table, writer, crashes, exited>>
      /\ faults' \in 0 .. MaxFaults
  BY FaultTyped DEF InsertMessage, sendVars
<1>2. w[1] \in Msgs
  BY <1>1 DEF Inv, TypeOK
<1>3. TypeOK'
  BY <1>1, <1>2 DEF Inv, TypeOK
<1> QED BY <1>1, <1>3 DEF Inv, Reported

(* When the process is gone no call is under way, and what was done stays done.        *)
LEMMA StopInv ==
  ASSUME Inv, Stop, crashes' \in 0 .. MaxCrashes, exited' \in BOOLEAN
  PROVE  Inv'
<1>1. /\ UNCHANGED <<route, retries, reached, rows, table, faults>>
      /\ tracked' = {} /\ inserting' = {}
      /\ pc' = [m \in Msgs |-> "finished"]
  BY DEF Stop, Inv, TypeOK, storeVars
<1>2. ASSUME NEW w \in Writers, writer[w] # None
      PROVE  CallInv(writer'[w], table) /\ writer'[w] \in Call
  <2>1. CallInv(writer[w], table) /\ writer[w] \in Call
    BY <1>2 DEF Inv, CallInv
  <2>2. writer'[w] \in {writer[w], [writer[w] EXCEPT !.state = "failed"]}
    BY <1>2 DEF Stop
  <2> QED BY <2>1, <2>2 DEF CallInv, Call, About
<1>3. ASSUME NEW w \in Writers, writer[w] = None
      PROVE  writer'[w] = None
  BY <1>3 DEF Stop
<1>4. writer' = [w \in Writers |-> writer'[w]]
  BY DEF Stop
<1>5. writer' \in [Writers -> Call \union {None}]
  <2>1. \A w \in Writers : writer'[w] \in Call \union {None}
    BY <1>2, <1>3
  <2> QED BY <1>4, <2>1
<1>6. TypeOK'
  BY <1>1, <1>5 DEF Inv, TypeOK
<1> QED BY <1>1, <1>2, <1>3, <1>6 DEF Inv, Reported

(* ... be it by a crash or by an orderly exit.                              *)
LEMMA EndsInv ==
  ASSUME Inv, Crash \/ Exit
  PROVE  Inv'
<1>1. exited \in BOOLEAN /\ crashes \in 0 .. MaxCrashes
  BY DEF Inv, TypeOK
<1>2. CASE Crash
  <2>1. Stop /\ crashes < MaxCrashes /\ crashes' = crashes + 1 /\ exited' = exited
    BY <1>2 DEF Crash
  <2>2. crashes' \in 0 .. MaxCrashes
    BY <1>1, <2>1
  <2>3. exited' \in BOOLEAN
    BY <1>1, <2>1, Zenon
  <2> QED BY <2>1, <2>2, <2>3, StopInv
<1>3. CASE Exit
  <2>1. Stop /\ crashes' = crashes /\ exited' = TRUE
    BY <1>3 DEF Exit
  <2>2. crashes' \in 0 .. MaxCrashes /\ exited' \in BOOLEAN
    BY <1>1, <2>1, Zenon
  <2> QED BY <2>1, <2>2, StopInv
<1> QED BY <1>2, <1>3

LEMMA NextInv ==
  ASSUME Inv, Next
  PROVE  Inv'
<1>1. ASSUME NEW m \in Msgs, CheckMessage(m)
      PROVE  Inv'
  BY <1>1, QuietInv DEF CheckMessage, storeVars, Inv, TypeOK
<1>2. ASSUME NEW m \in Msgs, WriteBack(m)
      PROVE  Inv'
  BY <1>2, QuietInv DEF WriteBack, storeVars, Inv, TypeOK
<1>3. ASSUME NEW m \in Msgs, DropDelete(m)
      PROVE  Inv'
  BY <1>3, QuietInv DEF DropDelete, storeVars, Inv, TypeOK
<1>4. ASSUME NEW w \in Writers, Statement(w)
      PROVE  Inv'
  BY <1>4, InsertMessageInv, SelectEffect, UpdateEffect, StoreEffect, StatementCounts, StatementInv DEF Statement
<1> QED BY <1>1, <1>2, <1>3, <1>4, SendInv, DropInv, CallbackInv, EndsInv DEF Next, Vendor

(* Inv holds in every state.                                               *)
THEOREM InvInvariant == Spec => []Inv
<1>1. Inv /\ UNCHANGED vars => Inv'
  BY DEF Inv, TypeOK, Reported, vars, sendVars, storeVars
<1> QED BY <1>1, InitInv, NextInv, PTL DEF Spec

(* In every state a message has been tried at most MaxMessageRetries times  *)
(* more than once, and every row and every call is well formed.             *)
THEOREM TypeCorrect == Spec => []TypeOK
BY InvInvariant, PTL DEF Inv

(* The record a vendor makes of a message is about its last attempt.        *)
THEOREM RecordFinalCorrect == Spec => RecordIsFinal
<1> DEFINE Final(m) ==
             writer[<<m, "vendor">>] # None =>
               /\ retries'[m] = retries[m]
               /\ \A k \in 0 .. MaxMessageRetries : <<m, k>> \in reached' => <<m, k>> \in reached
<1>1. ASSUME Inv, NEW n \in Msgs, Send(n), NEW m \in Msgs
      PROVE  Final(m)
  <2> SUFFICES ASSUME writer[<<m, "vendor">>] # None
               PROVE  /\ retries'[m] = retries[m]
                      /\ \A k \in 0 .. MaxMessageRetries : <<m, k>> \in reached' => <<m, k>> \in reached
    OBVIOUS
  <2>1. m # n
    BY <1>1 DEF Inv, Reported, Send
  <2>2. /\ reached' \subseteq reached \union {<<n, retries[n]>>}
        /\ retries' = retries \/ retries' = [retries EXCEPT ![n] = retries[n] + 1]
    BY <1>1, SendEffect
  <2> QED BY <1>1, <2>1, <2>2 DEF Inv, TypeOK
<1>2. ASSUME Next, ~ \E n \in Msgs : Send(n)
      PROVE  UNCHANGED <<retries, reached>>
  BY <1>2 DEF Next, Vendor, CheckMessage, WriteBack, Drop, DropDelete, Callback, Statement, InsertMessage,
              Select, Update, Store, Crash, Exit, Stop, sendVars
<1>3. ASSUME Inv, [Next]_vars
      PROVE  \A m \in Msgs : Final(m)
  <2>1. CASE \E n \in Msgs : Send(n)
    BY <1>1, <1>3, <2>1
  <2>2. CASE ~ \E n \in Msgs : Send(n)
    <3>1. UNCHANGED <<retries, reached>>
      BY <1>2, <1>3, <2>2 DEF vars, sendVars
    <3> QED BY <3>1
  <2> QED BY <2>1, <2>2
<1>4. Inv /\ [Next]_vars => [\A m \in Msgs : Final(m)]_vars
  BY <1>3
<1> QED BY <1>4, InvInvariant, PTL DEF Spec, RecordIsFinal

-----------------------------------------------------------------------------
(* writeStatus implements StatusRegister *)

(* The value and the operations that the register sees (see Register).      *)
Values(tab) == [m \in Msgs |-> IF tab[m] = None THEN None ELSE tab[m].status]

OpOf(c) == IF c = None THEN None
           ELSE [msg |-> About(c), status |-> c.status, byVendor |-> c.id = None,
                 written |-> c.written, state |-> Progress(c)]

Ops(wr) == [w \in Writers |-> OpOf(wr[w])]

LEMMA OpTyped ==
  ASSUME NEW c, NEW tab, CallInv(c, tab)
  PROVE  /\ OpOf(c) = [msg |-> About(c), status |-> c.status, byVendor |-> c.id = None,
                       written |-> c.written, state |-> Progress(c)]
         /\ OpOf(c) \in Op /\ OpOf(c) # None
<1>1. About(c) \in Msgs /\ c \in Call /\ c # None
  BY AboutMsg DEF CallInv
<1>2. OpOf(c) = [msg |-> About(c), status |-> c.status, byVendor |-> c.id = None,
                 written |-> c.written, state |-> Progress(c)]
  BY <1>1 DEF OpOf
<1>3. /\ Progress(c) \in {"open", "done", "failed"}
      /\ c.status \in Statuses /\ c.written \in BOOLEAN /\ (c.id = None) \in BOOLEAN
  BY <1>1 DEF Progress, Call
<1>4. [msg |-> About(c), status |-> c.status, byVendor |-> c.id = None,
       written |-> c.written, state |-> Progress(c)] \in Op
  BY <1>1, <1>3 DEF Op
<1>5. OpOf(c) # None
  BY <1>2, <1>4
<1> QED BY <1>2, <1>4, <1>5

LEMMA OpStateExcept ==
  ASSUME NEW o \in Op, NEW st \in {"open", "done", "failed"}
  PROVE  [o EXCEPT !.state = st] = [msg |-> o.msg, status |-> o.status, byVendor |-> o.byVendor,
                                    written |-> o.written, state |-> st]
<1>1. PICK m \in Msgs, s \in Statuses, b \in BOOLEAN, w \in BOOLEAN, t \in {"open", "done", "failed"} :
        o = [msg |-> m, status |-> s, byVendor |-> b, written |-> w, state |-> t]
  BY SMTT(20) DEF Op
<1> QED BY <1>1

LEMMA OpWrittenExcept ==
  ASSUME NEW o \in Op, NEW wr \in BOOLEAN
  PROVE  /\ [o EXCEPT !.written = wr] = [msg |-> o.msg, status |-> o.status, byVendor |-> o.byVendor,
                                         written |-> wr, state |-> o.state]
         /\ [o EXCEPT !.written = wr] \in Op
<1>1. PICK m \in Msgs, s \in Statuses, b \in BOOLEAN, w \in BOOLEAN, t \in {"open", "done", "failed"} :
        o = [msg |-> m, status |-> s, byVendor |-> b, written |-> w, state |-> t]
  BY SMTT(20) DEF Op
<1>2. [o EXCEPT !.written = wr] = [msg |-> m, status |-> s, byVendor |-> b, written |-> wr, state |-> t]
  BY <1>1
<1>3. [msg |-> m, status |-> s, byVendor |-> b, written |-> wr, state |-> t] \in Op
  BY DEF Op
<1>4. o.msg = m /\ o.status = s /\ o.byVendor = b /\ o.state = t
  BY <1>1
<1> QED BY <1>2, <1>3, <1>4

LEMMA OpExcept ==
  ASSUME NEW o \in Op, NEW st \in {"open", "done", "failed"}
  PROVE  /\ [o EXCEPT !.state = st] = [msg |-> o.msg, status |-> o.status, byVendor |-> o.byVendor,
                                       written |-> o.written, state |-> st]
         /\ [[o EXCEPT !.written = TRUE] EXCEPT !.state = st]
              = [msg |-> o.msg, status |-> o.status, byVendor |-> o.byVendor, written |-> TRUE, state |-> st]
<1>1. PICK p \in Op : /\ p = [o EXCEPT !.written = TRUE]
                       /\ p = [msg |-> o.msg, status |-> o.status, byVendor |-> o.byVendor,
                               written |-> TRUE, state |-> o.state]
  BY OpWrittenExcept
<1>2. p.msg = o.msg /\ p.status = o.status /\ p.byVendor = o.byVendor /\ p.written = TRUE
  BY <1>1
<1>3. [p EXCEPT !.state = st] = [msg |-> p.msg, status |-> p.status, byVendor |-> p.byVendor,
                                 written |-> p.written, state |-> st]
  BY ONLY p \in Op, st \in {"open", "done", "failed"}, OpStateExcept, Zenon
<1> QED BY <1>1, <1>2, <1>3, OpStateExcept

(* One call changes: so does one operation.                                *)
LEMMA OpsExcept ==
  ASSUME Inv, NEW w \in Writers, NEW d, writer' = [writer EXCEPT ![w] = d]
  PROVE  Ops(writer') = [Ops(writer) EXCEPT ![w] = OpOf(d)]
BY DEF Ops, Inv, TypeOK

LEMMA ValuesExcept ==
  ASSUME Inv, NEW m \in Msgs, NEW r, RowInv(m, r), table' = [table EXCEPT ![m] = r]
  PROVE  Values(table') = [Values(table) EXCEPT ![m] = r.status]
<1>1. r # None
  BY DEF RowInv
<1> QED BY <1>1 DEF Values, Inv, TypeOK

(* The actions of the register, in these terms.                            *)
LEMMA BeginIs ==
  ASSUME NEW w
  PROVE  Register!Begin(w) <=>
           /\ Ops(writer)[w] = None
           /\ \E m \in Msgs, s \in Statuses, byVendor \in BOOLEAN :
                Ops(writer)' = [Ops(writer) EXCEPT ![w] = [msg |-> m, status |-> s, byVendor |-> byVendor,
                                                           written |-> FALSE, state |-> "open"]]
           /\ UNCHANGED Values(table)
BY DEF Register!Begin, Ops, OpOf, Values

LEMMA WriteIs ==
  ASSUME NEW w
  PROVE  Register!Write(w) <=>
           /\ Ops(writer)[w] # None /\ Ops(writer)[w].state = "open"
           /\ Values(table)' = [Values(table) EXCEPT ![Ops(writer)[w].msg] = Ops(writer)[w].status]
           /\ \E s \in {"open", "done", "failed"} :
                Ops(writer)' = [Ops(writer) EXCEPT ![w].written = TRUE, ![w].state = s]
BY DEF Register!Write, Register!Open, Ops, OpOf, Values

LEMMA AnswerIs ==
  ASSUME NEW w
  PROVE  Register!Answer(w) <=>
           /\ Ops(writer)[w] # None /\ Ops(writer)[w].state = "open"
           /\ \E s \in {"done", "failed"} :
                /\ s = "done" => Ops(writer)[w].written \/ Ops(writer)[w].byVendor
                /\ Ops(writer)' = [Ops(writer) EXCEPT ![w].state = s]
           /\ UNCHANGED Values(table)
BY DEF Register!Answer, Register!Open, Ops, OpOf, Values

LEMMA AbandonIs ==
  Register!Abandon <=>
    /\ Ops(writer)' = [w \in Writers |-> IF Ops(writer)[w] # None /\ Ops(writer)[w].state = "open"
                                         THEN [Ops(writer)[w] EXCEPT !.state = "failed"] ELSE Ops(writer)[w]]
    /\ UNCHANGED Values(table)
BY DEF Register!Abandon, Register!Open, Ops, OpOf, Values

LEMMA StutterIs == UNCHANGED Register!registerVars <=> UNCHANGED <<Values(table), Ops(writer)>>
BY DEF Register!registerVars, Ops, OpOf, Values

(* A call starts: an operation begins.                                     *)
LEMMA BeginRefines ==
  ASSUME Inv, NEW w \in Writers, NEW d, writer[w] = None, CallInv(d, table),
         d.state = "select", ~d.written, writer' = [writer EXCEPT ![w] = d], table' = table
  PROVE  Register!Next
<1>1. Ops(writer') = [Ops(writer) EXCEPT ![w] = OpOf(d)] /\ Values(table') = Values(table)
  BY OpsExcept
<1>2. d.written = FALSE /\ d.status \in Statuses /\ (d.id = None) \in BOOLEAN /\ About(d) \in Msgs
  BY AboutMsg DEF CallInv, Call
<1>3. OpOf(d) = [msg |-> About(d), status |-> d.status, byVendor |-> d.id = None,
                 written |-> FALSE, state |-> "open"]
  BY <1>2, OpTyped DEF Progress
<1>4. Ops(writer)[w] = None
  BY DEF Ops, OpOf
<1>5. \E m \in Msgs, s \in Statuses, byVendor \in BOOLEAN :
        Ops(writer') = [Ops(writer) EXCEPT ![w] = [msg |-> m, status |-> s, byVendor |-> byVendor,
                                                   written |-> FALSE, state |-> "open"]]
  <2>1. Ops(writer') = [Ops(writer) EXCEPT ![w] = [msg |-> About(d), status |-> d.status, byVendor |-> d.id = None,
                                                   written |-> FALSE, state |-> "open"]]
    BY <1>1, <1>3
  <2> QED BY <1>2, <2>1
<1>6. Register!Begin(w)
  BY <1>1, <1>4, <1>5, BeginIs
<1> QED BY <1>6 DEF Register!Next

(* A statement is a write, an answer, or no step of the register at all.    *)
LEMMA StatementRefines ==
  ASSUME Inv, NEW w \in Writers, NEW d, StatementEffect(w, d)
  PROVE  Register!Next \/ UNCHANGED Register!registerVars
<1> DEFINE c == writer[w]
<1>1. /\ c # None /\ c.state \notin {"done", "failed"}
      /\ CallInv(c, table) /\ CallInv(d, table')
      /\ d.id = c.id /\ d.vendorID = c.vendorID /\ d.status = c.status
      /\ writer' = [writer EXCEPT ![w] = d]
  BY DEF StatementEffect, Inv
<1>2. About(d) = About(c) /\ About(c) \in Msgs
  BY <1>1, AboutMsg DEF About
<1>3. Ops(writer') = [Ops(writer) EXCEPT ![w] = OpOf(d)]
  BY <1>1, OpsExcept
<1>4. /\ Ops(writer)[w] = OpOf(c)
      /\ OpOf(c) = [msg |-> About(c), status |-> c.status, byVendor |-> c.id = None,
                    written |-> c.written, state |-> "open"]
      /\ OpOf(d) = [msg |-> About(c), status |-> c.status, byVendor |-> c.id = None,
                    written |-> d.written, state |-> Progress(d)]
      /\ OpOf(c) # None
      /\ Progress(d) \in {"open", "done", "failed"}
  BY <1>1, <1>2, OpTyped DEF Ops, Progress, CallInv, Call
<1>5. c.written \in BOOLEAN /\ d.written \in BOOLEAN
  BY <1>1 DEF CallInv, Call
<1>6. CASE /\ table' = table
           /\ d.written = c.written
           /\ d.state = "done" => c.written \/ c.id = None
  <2>1. Values(table') = Values(table)
    BY <1>6
  <2>2. CASE Progress(d) = "open"
    <3>1. OpOf(d) = OpOf(c)
      BY <1>4, <1>6, <2>2
    <3>2. Ops(writer') = Ops(writer)
      BY <1>3, <1>4, <3>1 DEF Ops
    <3> QED BY <2>1, <3>2, StutterIs
  <2>3. CASE Progress(d) # "open"
    <3>1. /\ Progress(d) \in {"done", "failed"}
          /\ Progress(d) = "done" => c.written \/ c.id = None
      BY <1>4, <1>6, <2>3 DEF Progress
    <3>2. OpOf(d) = [Ops(writer)[w] EXCEPT !.state = Progress(d)]
      <4> DEFINE o == OpOf(c)
      <4>1. /\ o \in Op /\ o.msg = About(c) /\ o.status = c.status /\ o.byVendor = (c.id = None)
            /\ o.written = c.written
        BY <1>1, <1>4, OpTyped
      <4>2. OpOf(d) = [msg |-> o.msg, status |-> o.status, byVendor |-> o.byVendor,
                       written |-> o.written, state |-> Progress(d)]
        BY <1>4, <1>6, <4>1
      <4> HIDE DEF o
      <4>3. OpOf(d) = [o EXCEPT !.state = Progress(d)]
        BY <1>4, <4>1, <4>2, OpExcept
      <4> QED BY <1>4, <4>3 DEF o
    <3>3. /\ Ops(writer)[w] # None /\ Ops(writer)[w].state = "open"
          /\ Progress(d) = "done" => Ops(writer)[w].written \/ Ops(writer)[w].byVendor
      <4>1. Ops(writer)[w].state = "open" /\ Ops(writer)[w].written = c.written /\ Ops(writer)[w].byVendor = (c.id = None)
        BY <1>4
      <4>2. Ops(writer)[w] # None
        BY <1>4
      <4> QED BY <3>1, <4>1, <4>2
    <3>4. Ops(writer') = [Ops(writer) EXCEPT ![w].state = Progress(d)]
      BY <1>3, <3>2
    <3>5. Register!Answer(w)
      BY <2>1, <3>1, <3>3, <3>4, AnswerIs
    <3> QED BY <3>5 DEF Register!Next
  <2> QED BY <2>2, <2>3
<1>7. CASE d.written /\ \E r : /\ RowInv(About(c), r)
                               /\ r.status = c.status
                               /\ table' = [table EXCEPT ![About(c)] = r]
  <2>1. Values(table') = [Values(table) EXCEPT ![About(c)] = c.status]
    BY <1>2, <1>7, ValuesExcept
  <2>2. OpOf(d) = [Ops(writer)[w] EXCEPT !.written = TRUE, !.state = Progress(d)]
    <3> DEFINE o == OpOf(c)
    <3>1. /\ o \in Op /\ o.msg = About(c) /\ o.status = c.status /\ o.byVendor = (c.id = None)
      BY <1>1, <1>4, OpTyped
    <3>2. d.written = TRUE
      BY <1>5, <1>7
    <3>3. OpOf(d) = [msg |-> o.msg, status |-> o.status, byVendor |-> o.byVendor,
                     written |-> TRUE, state |-> Progress(d)]
      BY <1>4, <3>1, <3>2
    <3> HIDE DEF o
    <3>4. OpOf(d) = [o EXCEPT !.written = TRUE, !.state = Progress(d)]
      BY <1>4, <3>1, <3>3, OpExcept
    <3> QED BY <1>4, <3>4 DEF o
  <2>3. /\ Ops(writer)[w] # None /\ Ops(writer)[w].state = "open"
        /\ Ops(writer)[w].msg = About(c) /\ Ops(writer)[w].status = c.status
    BY <1>4
  <2>4. Ops(writer') = [Ops(writer) EXCEPT ![w].written = TRUE, ![w].state = Progress(d)]
    BY <1>3, <2>2
  <2>5. Register!Write(w)
    BY <1>4, <2>1, <2>3, <2>4, WriteIs
  <2> QED BY <2>5 DEF Register!Next
<1> QED BY <1>6, <1>7 DEF StatementEffect

LEMMA StopRefines ==
  ASSUME Inv, Stop
  PROVE  Register!Next
<1>1. ASSUME NEW w \in Writers
      PROVE  OpOf(writer'[w]) = IF OpOf(writer[w]) # None /\ OpOf(writer[w]).state = "open"
                                THEN [OpOf(writer[w]) EXCEPT !.state = "failed"] ELSE OpOf(writer[w])
  <2> DEFINE c == writer[w]
             o == OpOf(c)
             d == writer'[w]
  <2>1. CASE c = None
    BY <2>1 DEF Stop, OpOf
  <2>2. CASE c # None
    <3>1. CallInv(c, table) /\ c \in Call
      BY <2>2 DEF Inv, CallInv
    <3>2. /\ o = [msg |-> About(c), status |-> c.status, byVendor |-> c.id = None,
                  written |-> c.written, state |-> Progress(c)]
          /\ o \in Op /\ o # None
      BY <3>1, OpTyped
    <3>3. CASE c.state = "done"
      <4>1. d = c /\ o.state = "done"
        BY <2>2, <3>2, <3>3 DEF Stop, Progress
      <4> QED BY <4>1
    <3>4. CASE c.state # "done"
      <4>1. d = [c EXCEPT !.state = "failed"]
        BY <2>2, <3>4 DEF Stop
      <4>2. CallInv(d, table)
        BY <3>1, <4>1 DEF CallInv, Call, About
      <4>3. /\ About(d) = About(c) /\ d.status = c.status /\ d.id = c.id /\ d.written = c.written
            /\ Progress(d) = "failed"
        BY <3>1, <4>1 DEF About, Progress, Call
      <4>4. OpOf(d) = [msg |-> About(c), status |-> c.status, byVendor |-> c.id = None,
                       written |-> c.written, state |-> "failed"]
        BY <4>2, <4>3, OpTyped
      <4>5. CASE c.state = "failed"
        <5>1. OpOf(d) = o /\ o.state = "failed"
          BY <3>2, <4>4, <4>5 DEF Progress
        <5> QED BY <5>1
      <4>6. CASE c.state # "failed"
        <5>1. o.state = "open"
          BY <3>2, <3>4, <4>6 DEF Progress
        <5>2. OpOf(d) = [msg |-> o.msg, status |-> o.status, byVendor |-> o.byVendor,
                         written |-> o.written, state |-> "failed"]
          BY <3>2, <4>4
        <5> HIDE DEF o
        <5>3. OpOf(d) = [o EXCEPT !.state = "failed"]
          BY <3>2, <5>2, OpExcept
        <5> QED BY <3>2, <5>1, <5>3 DEF o
      <4> QED BY <4>5, <4>6
    <3> QED BY <3>3, <3>4
  <2> QED BY <2>1, <2>2
<1>2. Ops(writer') = [w \in Writers |-> IF Ops(writer)[w] # None /\ Ops(writer)[w].state = "open"
                                        THEN [Ops(writer)[w] EXCEPT !.state = "failed"] ELSE Ops(writer)[w]]
  BY <1>1 DEF Ops
<1>3. Values(table') = Values(table)
  BY DEF Stop, storeVars
<1>4. Register!Abandon
  BY <1>2, <1>3, AbandonIs
<1> QED BY <1>4 DEF Register!Next

LEMMA QuietRefines ==
  ASSUME table' = table, writer' = writer
  PROVE  UNCHANGED Register!registerVars
BY StutterIs

LEMMA SendRefines ==
  ASSUME Inv, NEW m \in Msgs, Send(m)
  PROVE  Register!Next \/ UNCHANGED Register!registerVars
<1> DEFINE w == <<m, "vendor">>
<1>1. /\ w \in Writers /\ writer[w] = None /\ table' = table
      /\ <<m, retries[m]>> \in Sids
  BY DEF Send, Inv, TypeOK, Reported, Writers, Sids, storeVars
<1>2. PICK o \in Outcomes : IF o.status # None THEN PersistMsg(m, o) ELSE UNCHANGED <<inserting, writer>>
  BY SendEffect
<1>3. CASE o.status = None
  BY <1>1, <1>2, <1>3, QuietRefines
<1>4. CASE o.status # None
  <2> DEFINE sid == IF o.sid THEN <<m, retries[m]>> ELSE NoId
             d == WriteStatus(m, o.status, sid)
  <2>1. writer' = [writer EXCEPT ![w] = d]
    BY <1>2, <1>4 DEF PersistMsg
  <2>2. o.status \in Statuses /\ sid \in Sids \union {NoId} /\ (sid # NoId => sid[1] = m)
    BY <1>1, <1>4 DEF Outcomes, Statuses
  <2>3. CallInv(d, table) /\ d.state = "select" /\ ~d.written
    BY <2>2, StartedById DEF WriteStatus
  <2> HIDE DEF d
  <2> QED BY <1>1, <2>1, <2>3, BeginRefines
<1> QED BY <1>3, <1>4

LEMMA DropRefines ==
  ASSUME Inv, NEW m \in Msgs, Drop(m)
  PROVE  Register!Next
<1> DEFINE w == <<m, "incident">>
           d == WriteStatus(m, "dropped", NoId)
<1>1. w \in Writers /\ writer[w] = None /\ table' = table /\ writer' = [writer EXCEPT ![w] = d]
  BY DEF Drop, Writers, storeVars
<1>2. CallInv(d, table) /\ d.state = "select" /\ ~d.written
  BY StartedById DEF WriteStatus, Statuses
<1> HIDE DEF d
<1> QED BY <1>1, <1>2, BeginRefines

LEMMA CallbackRefines ==
  ASSUME Inv, NEW c \in Callbacks, Callback(c)
  PROVE  Register!Next
<1> DEFINE w == <<c, "callback">>
<1>1. w \in Writers /\ writer[w] = None /\ table' = table
  BY DEF Callback, Writers, storeVars
<1>2. PICK d : /\ CallInv(d, table)
               /\ \E id, sid : d = WriteStatus(id, "delivered", sid)
               /\ writer' = [writer EXCEPT ![w] = d]
  BY CallbackEffect
<1>3. d.state = "select" /\ ~d.written
  BY <1>2 DEF WriteStatus
<1> QED BY <1>1, <1>2, <1>3, BeginRefines

LEMMA InitRefines ==
  ASSUME Init
  PROVE  Register!Init
BY DEF Init, Register!Init, About, Progress

LEMMA NextRefines ==
  ASSUME Inv, [Next]_vars
  PROVE  Register!Next \/ UNCHANGED Register!registerVars
<1>1. CASE UNCHANGED vars
  BY <1>1, QuietRefines DEF vars, storeVars
<1>2. ASSUME NEW m \in Msgs, CheckMessage(m) \/ WriteBack(m) \/ DropDelete(m)
      PROVE  UNCHANGED Register!registerVars
  BY <1>2, QuietRefines DEF CheckMessage, WriteBack, DropDelete, storeVars
<1>3. ASSUME NEW w \in Writers, Statement(w)
      PROVE  Register!Next \/ UNCHANGED Register!registerVars
  <2>1. CASE InsertMessage(w)
    BY <2>1, QuietRefines DEF InsertMessage
  <2>2. CASE Select(w) \/ Update(w) \/ Store(w)
    BY <1>3, <2>2, SelectEffect, UpdateEffect, StoreEffect, StatementRefines
  <2> QED BY <1>3, <2>1, <2>2 DEF Statement
<1> QED BY <1>1, <1>2, <1>3, SendRefines, DropRefines, CallbackRefines, StopRefines DEF Next, Vendor, Crash, Exit

(* However its statements interleave, fail or are cut off, writeStatus is a  *)
(* write to one message, over when it returns and made if it returns no     *)
(* error.                                                                  *)
THEOREM RegisterCorrect == Spec => ImplementsRegister
BY InitRefines, NextRefines, InvInvariant, PTL DEF Spec, ImplementsRegister, Register!Spec

-----------------------------------------------------------------------------
(* What a writer may count on that names the message: with no error it has   *)
(* written, and what has been written to has a row from then on.            *)
Saved(c, tab) ==
  /\ c.written => tab[About(c)] # None
  /\ c.state = "done" /\ c.id # None => c.written

SavedInv == \A w \in Writers : writer[w] # None => Saved(writer[w], table)

LEMMA StatementSaves ==
  ASSUME Inv, SavedInv, NEW w \in Writers, StatementEffect(w, writer'[w])
  PROVE  SavedInv'
<1> DEFINE c == writer[w]
           d == writer'[w]
<1>1. /\ c # None /\ writer' = [writer EXCEPT ![w] = d] /\ d.id = c.id /\ d.vendorID = c.vendorID
      /\ CallInv(c, table) /\ About(c) \in Msgs /\ Saved(c, table)
      /\ table \in [Msgs -> Row \union {None}] /\ writer \in [Writers -> Call \union {None}]
  BY AboutMsg DEF StatementEffect, Inv, TypeOK, SavedInv
<1>2. About(d) = About(c)
  BY <1>1 DEF About
<1>3. \A m \in Msgs : \A r : RowInv(m, r) => r # None
  BY DEF RowInv
<1>4. \/ table' = table /\ d.written = c.written /\ (d.state = "done" => c.written \/ c.id = None)
      \/ d.written /\ \E r : RowInv(About(c), r) /\ table' = [table EXCEPT ![About(c)] = r]
  BY DEF StatementEffect
<1>5. Saved(d, table') /\ \A m \in Msgs : table[m] # None => table'[m] # None
  BY <1>1, <1>2, <1>3, <1>4 DEF Saved
<1>6. ASSUME NEW x \in Writers, x # w, writer'[x] # None
      PROVE  Saved(writer'[x], table')
  <2>1. writer'[x] = writer[x]
    BY <1>1, <1>6
  <2>2. Saved(writer[x], table) /\ About(writer[x]) \in Msgs
    BY <1>6, <2>1, AboutMsg DEF SavedInv, Inv
  <2> QED
    BY <1>5, <2>1, <2>2 DEF Saved
<1> QED
  BY <1>5, <1>6 DEF SavedInv

(* A call that begins has written nothing.                                  *)
LEMMA BeginSaves ==
  ASSUME Inv, SavedInv, NEW w \in Writers, NEW id, NEW status, NEW sid,
         writer' = [writer EXCEPT ![w] = WriteStatus(id, status, sid)], table' = table
  PROVE  SavedInv'
<1>1. Saved(WriteStatus(id, status, sid), table)
  BY DEF Saved, WriteStatus
<1> QED
  BY <1>1 DEF SavedInv, Inv, TypeOK

LEMMA StopSaves ==
  ASSUME Inv, SavedInv, Stop
  PROVE  SavedInv'
<1> SUFFICES ASSUME NEW w \in Writers, writer'[w] # None PROVE Saved(writer'[w], table')
  BY DEF SavedInv
<1>1. table' = table /\ writer[w] # None /\ writer'[w] \in {writer[w], [writer[w] EXCEPT !.state = "failed"]}
  BY DEF Stop, storeVars
<1>2. Saved(writer[w], table) /\ writer[w] \in Call
  BY <1>1 DEF SavedInv, Inv, TypeOK
<1> QED
  BY <1>1, <1>2 DEF Saved, About, Call

LEMMA SavedStep == Inv /\ SavedInv /\ [Next]_vars => SavedInv'
<1> SUFFICES ASSUME Inv, SavedInv, [Next]_vars PROVE SavedInv'
  OBVIOUS
<1>1. ASSUME UNCHANGED <<writer, table>>
      PROVE  SavedInv'
  BY <1>1 DEF SavedInv, Saved, About
<1>2. ASSUME NEW m \in Msgs, CheckMessage(m) \/ WriteBack(m) \/ DropDelete(m)
      PROVE  SavedInv'
  BY <1>1, <1>2 DEF CheckMessage, WriteBack, DropDelete, storeVars
<1>3. ASSUME NEW m \in Msgs, Send(m)
      PROVE  SavedInv'
  <2>1. <<m, "vendor">> \in Writers /\ table' = table
    BY <1>3 DEF Writers, Send, storeVars
  <2>2. PICK o \in Outcomes : IF o.status # None THEN PersistMsg(m, o) ELSE UNCHANGED <<inserting, writer>>
    BY <1>3, SendEffect
  <2> QED
    BY <1>1, <2>1, <2>2, BeginSaves DEF PersistMsg
<1>4. ASSUME NEW m \in Msgs, Drop(m)
      PROVE  SavedInv'
  BY <1>4, BeginSaves DEF Drop, Writers, storeVars
<1>5. ASSUME NEW k \in Callbacks, Callback(k)
      PROVE  SavedInv'
  <2>1. <<k, "callback">> \in Writers /\ table' = table
    BY <1>5 DEF Writers, Callback, storeVars
  <2>2. \E id, sid : writer' = [writer EXCEPT ![<<k, "callback">>] = WriteStatus(id, "delivered", sid)]
    BY <1>5, CallbackEffect
  <2> QED
    BY <2>1, <2>2, BeginSaves
<1>6. ASSUME NEW w \in Writers, Select(w) \/ Update(w) \/ Store(w)
      PROVE  SavedInv'
  BY <1>6, SelectEffect, UpdateEffect, StoreEffect, StatementSaves
<1>7. ASSUME NEW w \in Writers, InsertMessage(w)
      PROVE  SavedInv'
  BY <1>1, <1>7 DEF InsertMessage
<1>8. CASE Crash \/ Exit
  BY <1>8, StopSaves DEF Crash, Exit
<1>9. CASE UNCHANGED vars
  BY <1>1, <1>9 DEF vars, storeVars
<1> QED
  BY <1>2, <1>3, <1>4, <1>5, <1>6, <1>7, <1>8, <1>9 DEF Next, Vendor, Statement

(* writeStatus with the id of a message returns no error only when its      *)
(* status was written, and the message has a row from then on, whoever else *)
(* writes and whatever fails: an answer of 200 to a callback that names its *)
(* message, unlike one that knows the vendor's id alone, is never empty.    *)
THEOREM AcknowledgedIsStored ==
  Spec => [](\A w \in Writers : At(w, "done") /\ writer[w].id # None =>
               writer[w].written /\ table[writer[w].id] # None)
<1> DEFINE Kept == \A w \in Writers : At(w, "done") /\ writer[w].id # None =>
                     writer[w].written /\ table[writer[w].id] # None
<1>1. Init => SavedInv
  BY DEF Init, SavedInv
<1>2. SavedInv => Kept
  BY DEF SavedInv, Saved, At, About
<1> QED
  BY <1>1, <1>2, SavedStep, InvInvariant, PTL DEF Spec

-----------------------------------------------------------------------------
(* The answers to GET /v0/messages: MessageQuery *)

(* A condition always comes from a key of the request that asks for it.     *)
LEMMA ConditionsAreAsked ==
  ASSUME NEW request, NEW p \in Where(request)
  PROVE  \E k \in DOMAIN request : Meaningful(k) /\ \A row : Condition(p, row) = Asks(k, request[k], row)
<1>1. p \in ParsedParams(request) /\ Usable(p)
  BY DEF Where
<1>2. PICK k \in {x \in DOMAIN request : Known(x) /\ ~Overridden(request, x)} :
        p = [field |-> Column(k.field), filter |-> k.filter, kind |-> Kind(k.field, request[k]), values |-> request[k]]
  BY <1>1 DEF ParsedParams
<1>3. p.field = Column(k.field) /\ p.filter = k.filter /\ p.values = request[k]
  BY <1>2
<1>4. Meaningful(k)
  <2>1. k.filter \in Filters
    BY <1>1, <1>3 DEF Usable, Filters
  <2>2. k.field \in Fields \union {"created"}
    BY <1>1, <1>3 DEF Usable, Column
  <2> QED BY <2>1, <2>2 DEF Meaningful
<1>5. ASSUME NEW row
      PROVE  Condition(p, row) = Asks(k, request[k], row)
  BY <1>3 DEF Condition, Asks
<1> QED BY <1>2, <1>4, <1>5

(* An answer holds only messages that match every condition, and without a   *)
(* limit all of them.                                                      *)
LEMMA AnswersMatch ==
  ASSUME NEW request, NEW messages, NEW answer \in GetMessages(request, messages), answer.code = 200
  PROVE  /\ Where(request) # {}
         /\ answer.rows \in SelectMessages(request, messages)
         /\ answer.rows \subseteq Matching(request, messages)
<1>1. /\ Where(request) # {}
      /\ answer \in {[code |-> 200, rows |-> S] : S \in SelectMessages(request, messages)} \union {Refused(500)}
  BY DEF GetMessages, Refused
<1>2. PICK S \in SelectMessages(request, messages) : answer = [code |-> 200, rows |-> S]
  BY <1>1 DEF Refused
<1>3. S \subseteq Matching(request, messages)
  BY DEF SelectMessages, Newest
<1> QED BY <1>1, <1>2, <1>3

(* However many filters are left out, a message that is what the client has *)
(* asked for is in the answer, unless a limit was asked for and all that    *)
(* are in it are at least as new.                                          *)
THEOREM NeverHides ==
  ASSUME NEW request, NEW messages, NEW answer \in GetMessages(request, messages), answer.code = 200,
         NEW row \in messages \ answer.rows, Wanted(request, row)
  PROVE  Limit \in DOMAIN request /\ \A s \in answer.rows : row.sent <= s.sent
<1>1. row \in Matching(request, messages)
  <2>1. ASSUME NEW p \in Where(request)
        PROVE  Condition(p, row)
    BY ConditionsAreAsked DEF Wanted
  <2> QED BY <2>1 DEF Matching
<1>2. answer.rows \in SelectMessages(request, messages)
  BY AnswersMatch
<1>3. Limit \in DOMAIN request
  BY <1>1, <1>2 DEF SelectMessages
<1>4. answer.rows \in Newest(Matching(request, messages), request[Limit][1])
  BY <1>2, <1>3 DEF SelectMessages
<1> QED BY <1>1, <1>3, <1>4 DEF Newest

(* errBadMYSQLWhereClause: whatever is left out, the table is never handed   *)
(* out unfiltered; something the client asked for holds of every message.   *)
THEOREM NeverUnfiltered ==
  ASSUME NEW request, NEW messages, NEW answer \in GetMessages(request, messages), answer.code = 200
  PROVE  \E k \in DOMAIN request : Meaningful(k) /\ \A row \in answer.rows : Asks(k, request[k], row)
<1>1. Where(request) # {} /\ answer.rows \subseteq Matching(request, messages)
  BY AnswersMatch
<1>2. PICK p \in Where(request) : TRUE
  BY <1>1
<1>3. PICK k \in DOMAIN request : Meaningful(k) /\ \A row : Condition(p, row) = Asks(k, request[k], row)
  BY <1>2, ConditionsAreAsked
<1>4. \A row \in answer.rows : Condition(p, row)
  BY <1>1, <1>2 DEF Matching
<1> QED BY <1>3, <1>4

(* When every filter is understood the answer holds nothing but what the    *)
(* client has asked for.                                                   *)
THEOREM ExactWhenUnderstood ==
  ASSUME NEW request, NEW messages, NEW answer \in GetMessages(request, messages), answer.code = 200,
         \A k \in DOMAIN request : Meaningful(k) => Understood(request, k),
         NEW row \in answer.rows
  PROVE  Wanted(request, row)
<1> SUFFICES ASSUME NEW k \in DOMAIN request, Meaningful(k)
             PROVE  Asks(k, request[k], row)
  BY DEF Wanted
<1> DEFINE p == [field |-> Column(k.field), filter |-> k.filter,
                 kind |-> Kind(k.field, request[k]), values |-> request[k]]
<1>1. Understood(request, k)
  OBVIOUS
<1>2. Known(k) /\ ~Overridden(request, k)
  BY <1>1 DEF Understood, Known, Fields, Overridden, StringFields
<1>3. p \in ParsedParams(request)
  BY <1>2 DEF ParsedParams
<1>4. Usable(p)
  <2>1. CASE k.field \in StringFields
    <3>1. Column(k.field) = k.field /\ p.field \in Fields
      BY <2>1 DEF Column, StringFields, Fields
    <3>2. p.kind = IF Len(request[k]) = 1 THEN "string" ELSE "[]string"
      BY <2>1 DEF Kind, StringFields
    <3>3. IF k.filter = "in" THEN Len(request[k]) # 1
          ELSE Len(request[k]) = 1 /\ k.filter \in {"", "eq", "ne", "contains", "startswith", "endswith"}
      BY <1>1, <2>1 DEF Understood, StringFields
    <3> QED BY <3>1, <3>2, <3>3 DEF Usable
  <2>2. CASE k.field = "incident_id"
    <3>1. p.field \in Fields
      BY <2>2 DEF Column, Fields
    <3>2. p.kind = IF Len(request[k]) = 1 THEN "uint64" ELSE "[]uint64"
      BY <2>2 DEF Kind, StringFields
    <3>3. IF k.filter = "in" THEN Len(request[k]) # 1
          ELSE Len(request[k]) = 1 /\ k.filter \in {"", "eq", "ne", "gt", "ge", "lt", "le"}
      BY <1>1, <2>2 DEF Understood, StringFields
    <3> QED BY <3>1, <3>2, <3>3 DEF Usable
  <2>3. CASE k.field \in {"sent", "created"}
    <3>1. p.field \in Fields
      BY <2>3 DEF Column, Fields
    <3>2. p.kind = "time.Time"
      BY <2>3 DEF Kind, StringFields
    <3>3. k.filter \in {"gt", "ge", "lt", "le"}
      BY <1>1, <2>3 DEF Understood, StringFields
    <3> QED BY <3>1, <3>2, <3>3 DEF Usable
  <2> QED BY <1>1, <2>1, <2>2, <2>3 DEF Understood
<1>5. p \in Where(request)
  BY <1>3, <1>4 DEF Where
<1>6. row \in Matching(request, messages)
  BY AnswersMatch
<1>7. Condition(p, row)
  BY <1>5, <1>6 DEF Matching
<1> QED BY <1>7 DEF Condition, Asks
=============================================================================
