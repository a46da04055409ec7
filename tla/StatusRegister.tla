--------------------------- MODULE StatusRegister ---------------------------
(***************************************************************************)
(* What the table of message statuses promises to its writers: a status of *)
(* a message is the one some writer wrote, a writer only touches the       *)
(* message it is about, while it is at work, and when it is told that all   *)
(* went well its status has been written.  The exception is a writer that   *)
(* names the message by the id its vendor gave it: it may be told so when   *)
(* that id was not on record, and then nothing has been written.           *)
(***************************************************************************)
CONSTANTS Msgs, Writers, Statuses, None

VARIABLES value,   \* message |-> its status, or None while it has no row
          op       \* writer |-> what it writes and how far it is, or None

registerVars == <<value, op>>

Init == /\ value = [m \in Msgs |-> None]
        /\ op = [w \in Writers |-> None]

Begin(w) ==
  /\ op[w] = None
  /\ \E m \in Msgs, s \in Statuses, byVendor \in BOOLEAN :
       op' = [op EXCEPT ![w] = [msg |-> m, status |-> s, byVendor |-> byVendor,
                                written |-> FALSE, state |-> "open"]]
  /\ UNCHANGED value

Open(w) == op[w] # None /\ op[w].state = "open"

(* A write takes effect, and the writer may get its answer with it.        *)
Write(w) ==
  /\ Open(w)
  /\ value' = [value EXCEPT ![op[w].msg] = op[w].status]
  /\ \E s \in {"open", "done", "failed"} : op' = [op EXCEPT ![w].written = TRUE, ![w].state = s]

(* The writer gets its answer.                                             *)
Answer(w) ==
  /\ Open(w)
  /\ \E s \in {"done", "failed"} :
       /\ s = "done" => op[w].written \/ op[w].byVendor
       /\ op' = [op EXCEPT ![w].state = s]
  /\ UNCHANGED value

(* A crash or the end of the process: nobody will be told anything.        *)
Abandon ==
  /\ op' = [w \in Writers |-> IF Open(w) THEN [op[w] EXCEPT !.state = "failed"] ELSE op[w]]
  /\ UNCHANGED value

Next == \/ \E w \in Writers : Begin(w) \/ Write(w) \/ Answer(w)
        \/ Abandon

Spec == Init /\ [][Next]_registerVars
=============================================================================
