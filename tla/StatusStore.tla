----------------------------- MODULE StatusStore -----------------------------
(***************************************************************************)
(* The life of a message from the last step of runVendor to the tables     *)
(* message and message_sent_status: the attempts of its vendor, persistMsg  *)
(* with its two goroutines (vendor.go), PersistMessage of an incident that  *)
(* is deleted meanwhile (incidentManager.go), and the callbacks that        *)
(* postMessageStatus (api.go) takes from outside.  All writers of a status  *)
(* go through writeStatus (dbClient.go), which is not a transaction: it     *)
(* reads the row, updates it, and then updates it again or inserts it.      *)
(*                                                                         *)
(* StorageDryRun, under which nothing is stored, is not modelled.           *)
(***************************************************************************)
EXTENDS Senders, Sequences

CONSTANTS
  Msgs,                \* the messages, each routed to a vendor at the start
  Routes,              \* the vendors they may be routed to
  Callbacks,           \* the status callbacks that may come from outside
  MaxMessageRetries,
  MaxFaults,           \* bound: statements on the database that fail
  MaxCrashes           \* bound: crashes of the process

VARIABLES
  route,      \* message |-> its vendor; never changes
  pc,         \* message |-> "queued", "sending", "sent" or "finished": runVendor
  retries,    \* message |-> msgQueueItem.retries
  tracked,    \* the messages the tracker still knows
  inserting,  \* the writers whose writeMessage has not been done
  rows,       \* table message: the messages that are in it
  table,      \* table message_sent_status: message |-> its row, or None
  writer,     \* writer |-> its call of writeStatus, or None before it
  reached,    \* history: the attempts <<m, k>> that a vendor accepted
  faults, crashes,
  exited      \* history: the process has once left its loops and returned from main

sendVars  == <<pc, retries, tracked, reached>>
storeVars == <<rows, table>>
vars == <<route, sendVars, inserting, storeVars, writer, faults, crashes, exited>>

Sids == Msgs \X (0 .. MaxMessageRetries)   \* the id a vendor gives to an attempt
NoId == <<>>                               \* the empty string

(* Who calls writeStatus: the vendor, deleteIncident, and callbacks.       *)
Writers == (Msgs \X {"vendor", "incident"}) \union (Callbacks \X {"callback"})

Statuses == {"sent", "failed", "stored", "dropped", "delivered"}

Call == [id : Msgs \union {None},         \* the message id of the call, or empty
         key : Msgs \union {None},        \* the message id it works with
         vendorID : Sids \union {NoId},
         status : Statuses,
         stored : BOOLEAN,                \* storedRecord has a message id
         written : BOOLEAN,               \* history: it changed the table
         state : {"select", "update", "store", "done", "failed"}]

Row == [status : Statuses, vendorID : Sids \union {NoId}]

(* What the register of statuses (below) knows of a call.                   *)
Op == [msg : Msgs, status : Statuses, byVendor : BOOLEAN, written : BOOLEAN, state : {"open", "done", "failed"}]

ASSUME StoreAssumption ==
  /\ Routes \subseteq Vendors
  /\ MaxMessageRetries \in Nat /\ MaxFaults \in Nat /\ MaxCrashes \in Nat
  /\ None \notin Msgs /\ None \notin Call /\ None \notin Row /\ None \notin Op

WriteStatus(m, status, sid) ==
  [id |-> m, key |-> m, vendorID |-> sid, status |-> status,
   stored |-> FALSE, written |-> FALSE, state |-> "select"]

Init ==
  /\ route \in [Msgs -> Routes]
  /\ pc = [m \in Msgs |-> "queued"]
  /\ retries = [m \in Msgs |-> 0]
  /\ tracked = Msgs
  /\ inserting = {}
  /\ rows = {}
  /\ table = [m \in Msgs |-> None]
  /\ writer = [w \in Writers |-> None]
  /\ reached = {}
  /\ faults = 0
  /\ crashes = 0
  /\ exited = FALSE

-----------------------------------------------------------------------------
(* The vendor *)

(* runVendor asks the tracker for the message whose turn it is.            *)
CheckMessage(m) ==
  /\ pc[m] = "queued"
  /\ pc' = [pc EXCEPT ![m] = IF m \in tracked THEN "sending" ELSE "finished"]
  /\ UNCHANGED <<route, retries, tracked, reached, inserting, storeVars, writer, faults, crashes, exited>>

(* mutant: count the retry that is about to be made *)
LastAttemptEarly(m) == retries[m] + 1 >= MaxMessageRetries

LastAttempt(m) == retries[m] >= MaxMessageRetries

(* persistMsg: one goroutine for the message, one for its status.          *)
PersistMsg(m, o) ==
  /\ inserting' = inserting \union {<<m, "vendor">>}
  /\ writer' = [writer EXCEPT ![<<m, "vendor">>] =
                  WriteStatus(m, o.status, IF o.sid THEN <<m, retries[m]>> ELSE NoId)]

(* mutant: one attempt more than MaxMessageRetries allows *)
GivesUpLate(m) == retries[m] > MaxMessageRetries

(* runVendor compares for itself what SendMessage has compared as well.     *)
GivesUp(m) == retries[m] >= MaxMessageRetries

(* SendMessage returns; runVendor is done with the message or tries again.  *)
Send(m) ==
  /\ pc[m] = "sending"
  /\ \E o \in SendMessage(route[m], LastAttempt(m)) :
       /\ reached' = IF o.reached THEN reached \union {<<m, retries[m]>>} ELSE reached
       /\ IF o.status # None THEN PersistMsg(m, o) ELSE UNCHANGED <<inserting, writer>>
       /\ \/ /\ o.ok \/ GivesUp(m)
             /\ pc' = [pc EXCEPT ![m] = "sent"]
             /\ UNCHANGED retries
          \/ /\ ~o.ok /\ ~GivesUp(m)
             /\ pc' = [pc EXCEPT ![m] = "queued"]
             /\ retries' = [retries EXCEPT ![m] = @ + 1]
  /\ UNCHANGED <<route, tracked, storeVars, faults, crashes, exited>>

(* UpdateMessage: the item is no longer active, if the tracker still has it. *)
WriteBack(m) ==
  /\ pc[m] = "sent"
  /\ pc' = [pc EXCEPT ![m] = "finished"]
  /\ UNCHANGED <<route, retries, tracked, reached, inserting, storeVars, writer, faults, crashes, exited>>

-----------------------------------------------------------------------------
(* deleteIncident *)

(* A message that is still active: PersistMessage, first the message ...  *)
Drop(m) ==
  LET w == <<m, "incident">>
  IN /\ m \in tracked
     /\ pc[m] # "finished"
     /\ writer[w] = None
     /\ inserting' = inserting \union {w}
     /\ writer' = [writer EXCEPT ![w] = WriteStatus(m, "dropped", NoId)]
     /\ UNCHANGED <<route, sendVars, storeVars, faults, crashes, exited>>

(* ... then its status, and then the message is deleted from the tracker.   *)
DropDelete(m) ==
  /\ m \in tracked
  /\ writer[<<m, "incident">>] # None
  /\ writer[<<m, "incident">>].state \in {"done", "failed"}
  /\ tracked' = tracked \ {m}
  /\ UNCHANGED <<route, pc, retries, reached, inserting, storeVars, writer, faults, crashes, exited>>

-----------------------------------------------------------------------------
(* postMessageStatus *)

ValidBody(id, sid) == id # None \/ sid # NoId

(* A callback is about an attempt that a vendor accepted; it names the id   *)
(* of the message, the id Twilio gave the attempt, or both, and is refused  *)
(* when it names neither.                                                  *)
Callback(c) ==
  /\ writer[<<c, "callback">>] = None
  /\ \E sid \in reached, byId, byVendor \in BOOLEAN :
       LET id == IF byId THEN sid[1] ELSE None
           vendorID == IF byVendor THEN sid ELSE NoId
       IN /\ byVendor => route[sid[1]] = "twilio"
          /\ ValidBody(id, vendorID)
          /\ writer' = [writer EXCEPT ![<<c, "callback">>] = WriteStatus(id, "delivered", vendorID)]
  /\ UNCHANGED <<route, sendVars, inserting, storeVars, faults, crashes, exited>>

-----------------------------------------------------------------------------
(* writeMessage and writeStatus, one statement at a time *)

(* A statement that fails may have taken effect before its answer was lost. *)
Fault == faults < MaxFaults /\ faults' = faults + 1

(* INSERT INTO message: a second one for the same message fails, and so may *)
(* any; the error is only logged.                                          *)
InsertMessage(w) ==
  /\ w \in inserting
  /\ inserting' = inserting \ {w}
  /\ \/ rows' = rows \union {w[1]} /\ UNCHANGED faults
     \/ rows' = rows /\ Fault
  /\ UNCHANGED <<route, sendVars, table, writer, crashes, exited>>

(* persistMsg does not wait for the message to be stored, PersistMessage does. *)
MayStart(w) == w[2] = "incident" => w \notin inserting

At(w, state) == writer[w] # None /\ writer[w].state = state

(* SELECT ... WHERE message_id = ?: an error is overwritten by the next     *)
(* statement's, and what was not read counts as not stored.                *)
SelectMessageStatusByMsgID(w) ==
  /\ writer[w].id # None
  /\ \/ /\ writer' = [writer EXCEPT ![w].stored = table[writer[w].id] # None, ![w].state = "update"]
        /\ UNCHANGED faults
     \/ /\ writer' = [writer EXCEPT ![w].state = "update"]
        /\ Fault

(* The rows that match WHERE vendor_message_id = ?                          *)
RowsOf(sid) == {m \in Msgs : table[m] # None /\ table[m].vendorID = sid}

(* A callback without a message id: the row tells which message it is.      *)
SelectMessageStatusByVendorID(w) ==
  /\ writer[w].id = None
  /\ \/ /\ \E key \in IF RowsOf(writer[w].vendorID) = {} THEN {None} ELSE RowsOf(writer[w].vendorID) :
             writer' = [writer EXCEPT ![w].key = key, ![w].state = "update"]
        /\ UNCHANGED faults
     \/ writer' = [writer EXCEPT ![w].state = "failed"] /\ Fault

Select(w) ==
  /\ At(w, "select")
  /\ MayStart(w)
  /\ SelectMessageStatusByMsgID(w) \/ SelectMessageStatusByVendorID(w)
  /\ UNCHANGED <<route, sendVars, inserting, storeVars, crashes, exited>>

Stored(m) == m # None /\ table[m] # None

(* UPDATE ... SET status, last_updated WHERE message_id = ?: no row, no     *)
(* effect; the vendor's id is not among the columns.                       *)
UpdateMessageStatus(w) ==
  table' = IF Stored(writer[w].key) THEN [table EXCEPT ![writer[w].key].status = writer[w].status] ELSE table

(* INSERT INTO message_sent_status: message_id is the primary key.          *)
InsertMessageStatus(w) ==
  table' = [table EXCEPT ![writer[w].key] = [status |-> writer[w].status, vendorID |-> writer[w].vendorID]]

(* The statement of w fails, before or after it took effect.               *)
Failing(w, effect) ==
  /\ effect \/ table' = table
  /\ writer' = [writer EXCEPT ![w].state = "failed", ![w].written = @ \/ table' # table]
  /\ Fault

Advance(w, state, wrote) ==
  /\ writer' = [writer EXCEPT ![w].state = state, ![w].written = @ \/ wrote]
  /\ UNCHANGED faults

(* The first UPDATE; a callback without a message id is done with it.       *)
Update(w) ==
  /\ At(w, "update")
  /\ \/ /\ UpdateMessageStatus(w)
        /\ Advance(w, IF writer[w].id = None THEN "done" ELSE "store", Stored(writer[w].key))
     \/ Failing(w, UpdateMessageStatus(w))
  /\ UNCHANGED <<route, sendVars, inserting, rows, crashes, exited>>

(* mutant: insert what is stored and update what is not *)
MustInsertInverted(w) == writer[w].stored

MustInsert(w) == ~writer[w].stored

(* UPDATE again or INSERT, as the SELECT said.                             *)
Store(w) ==
  /\ At(w, "store")
  /\ \/ /\ ~MustInsert(w)
        /\ \/ UpdateMessageStatus(w) /\ Advance(w, "done", Stored(writer[w].key))
           \/ Failing(w, UpdateMessageStatus(w))
     \/ /\ MustInsert(w)
        /\ ~Stored(writer[w].key)
        /\ \/ InsertMessageStatus(w) /\ Advance(w, "done", TRUE)
           \/ Failing(w, InsertMessageStatus(w))
     \/ /\ MustInsert(w)
        /\ Stored(writer[w].key)
        /\ Advance(w, "failed", FALSE)
        /\ UNCHANGED table
  /\ UNCHANGED <<route, sendVars, inserting, rows, crashes, exited>>

-----------------------------------------------------------------------------

(* The process is gone: what the tables hold is what is left.               *)
Stop ==
  /\ pc' = [m \in Msgs |-> "finished"]
  /\ tracked' = {}
  /\ inserting' = {}
  /\ writer' = [w \in Writers |-> IF writer[w] = None THEN None
                                  ELSE IF writer[w].state = "done" THEN writer[w]
                                  ELSE [writer[w] EXCEPT !.state = "failed"]]
  /\ UNCHANGED <<route, retries, reached, storeVars, faults>>

Crash == crashes < MaxCrashes /\ crashes' = crashes + 1 /\ Stop /\ UNCHANGED exited

(* The shutdown waits for the turns of the vendors and for the loop of the   *)
(* incident manager, but neither for the goroutines of persistMsg nor for    *)
(* the handlers of callbacks.                                              *)
Exit ==
  /\ ~exited
  /\ \A m \in Msgs : pc[m] \in {"queued", "finished"}
  /\ \A m \in tracked : writer[<<m, "incident">>] = None
  /\ exited' = TRUE
  /\ Stop
  /\ UNCHANGED crashes

Vendor(m) == CheckMessage(m) \/ Send(m) \/ WriteBack(m)

Statement(w) == InsertMessage(w) \/ Select(w) \/ Update(w) \/ Store(w)

Next ==
  \/ \E m \in Msgs : Vendor(m) \/ Drop(m) \/ DropDelete(m)
  \/ \E c \in Callbacks : Callback(c)
  \/ \E w \in Writers : Statement(w)
  \/ Crash \/ Exit

Spec == Init /\ [][Next]_vars

(* While the process runs Go schedules every goroutine, and vendors and     *)
(* database answer; Crash and Exit leave no goroutine to schedule.          *)
FairSpec == /\ Spec
            /\ \A m \in Msgs : WF_vars(Vendor(m))
            /\ \A w \in Writers : WF_vars(Statement(w))
-----------------------------------------------------------------------------
(* Properties *)

(* Every variable has the values its Go counterpart can have; no message is *)
(* tried more often than MaxMessageRetries allows.                         *)
TypeOK ==
  /\ route \in [Msgs -> Vendors]
  /\ pc \in [Msgs -> {"queued", "sending", "sent", "finished"}]
  /\ retries \in [Msgs -> 0 .. MaxMessageRetries]
  /\ tracked \subseteq Msgs
  /\ inserting \subseteq Msgs \X {"vendor", "incident"}
  /\ rows \subseteq Msgs
  /\ table \in [Msgs -> Row \union {None}]
  /\ writer \in [Writers -> Call \union {None}]
  /\ reached \subseteq Sids
  /\ faults \in 0 .. MaxFaults
  /\ crashes \in 0 .. MaxCrashes
  /\ exited \in BOOLEAN

(* The record a vendor makes of a message is about its last attempt: there  *)
(* is no other after it, so persistMsg runs at most once per message and    *)
(* its unordered goroutines never race with those of another attempt.      *)
RecordIsFinal ==
  [][\A m \in Msgs : writer[<<m, "vendor">>] # None =>
       /\ retries'[m] = retries[m]
       /\ \A k \in 0 .. MaxMessageRetries : <<m, k>> \in reached' => <<m, k>> \in reached]_vars

(* The message a call of writeStatus is about, and how far it is.           *)
About(call) == IF call.id # None THEN call.id ELSE call.vendorID[1]

Progress(call) == IF call.state \in {"done", "failed"} THEN call.state ELSE "open"

Register == INSTANCE StatusRegister WITH
  value <- [m \in Msgs |-> IF table[m] = None THEN None ELSE table[m].status],
  op <- [w \in Writers |-> IF writer[w] = None THEN None
                           ELSE [msg |-> About(writer[w]), status |-> writer[w].status,
                                 byVendor |-> writer[w].id = None,
                                 written |-> writer[w].written, state |-> Progress(writer[w])]]

(* However its statements interleave with those of others, fail or are cut  *)
(* off by a crash or exit, writeStatus is a write to one message that is over when  *)
(* it returns and was made if it returns no error; a status callback that   *)
(* knows only the vendor's id never changes another message.               *)
ImplementsRegister == Register!Spec

(* Every message a recording vendor is done with, sent or given up, gets a   *)
(* row in both tables; so does one whose incident is deleted before.  Only  *)
(* a failing database, a crash, or a shutdown that comes before persistMsg's *)
(* goroutines are through prevents it.                                     *)
EveryOutcomeRecorded ==
  \A m \in Msgs : pc[m] = "finished" /\ (route[m] \in Recording \/ m \notin tracked)
                    ~> (m \in rows /\ table[m] # None) \/ faults > 0 \/ crashes > 0 \/ exited

(* The message of this attempt was handed to writeStatus by its vendor.     *)
SidReported(m, sid) == writer[<<m, "vendor">>] # None /\ writer[<<m, "vendor">>].vendorID = sid

(* postMessageStatus is to "update message status" (api.go:79): when it     *)
(* answers 200 to a callback about the very attempt that the vendor has     *)
(* reported as sent, a status has been updated.  It has not if the row is   *)
(* not there yet, or was made by somebody who did not know the vendor's id. *)
CallbackApplied ==
  \A c \in Callbacks :
    LET w == <<c, "callback">>
    IN At(w, "done") /\ SidReported(About(writer[w]), writer[w].vendorID) => writer[w].written
=============================================================================
