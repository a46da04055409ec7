------------------------------ MODULE Senders ------------------------------
(***************************************************************************)
(* The SendMessage methods of the vendors: email, Slack, Twilio, FCM and    *)
(* the three that talk to nobody.  Each takes a message and whether this is *)
(* the last attempt, and is modelled by the set of its outcomes:           *)
(*   ok       what it returns: FALSE asks runVendor for another attempt    *)
(*   reached  the outside service accepted the message                     *)
(*   status   what persistMsg stores, or None when it is not called        *)
(*   sid      the service gave it an id, which is stored with the status    *)
(* Formats, templates and protocols are left out; the point at which a call *)
(* fails is kept, because it decides whether the message went out.         *)
(***************************************************************************)
EXTENDS Naturals

CONSTANTS
  None,
  SMTPServer,          \* config.SMTPServerAddr is set
  TwilioNumbers,       \* config.TwilioNumbers has an entry
  PersistDroppedMsgs   \* config.PersistDroppedMsgs

ASSUME SendersAssumption ==
  /\ {SMTPServer, TwilioNumbers, PersistDroppedMsgs} \subseteq BOOLEAN
  /\ None \notin {"sent", "failed", "stored"}

Vendors == {"email", "slack", "twilio", "fcm", "drop", "error", "dummy"}

Outcome(ok, reached, status, sid) ==
  [ok |-> ok, reached |-> reached, status |-> status, sid |-> sid]

Outcomes == [ok : BOOLEAN, reached : BOOLEAN, status : {None, "sent", "failed", "stored"}, sid : BOOLEAN]

(* mutant: no attempt that failed is recorded *)
FailureForgotten(last, reached) == Outcome(FALSE, reached, None, FALSE)

(* A failed attempt is recorded only when there will be no other.          *)
Failure(last, reached) == Outcome(FALSE, reached, IF last THEN "failed" ELSE None, FALSE)

(* The dialogue with the mail server: an error before the mail is complete *)
(* means it was not taken, an error after w.Close() or in Quit comes too   *)
(* late: the server may have taken the mail.  (An error of smtp.NewClient  *)
(* is not looked at; the nil client then panics, which is a crash and no   *)
(* outcome.)                                                               *)
SendMailNoAuth == {r \in [err : BOOLEAN, reached : BOOLEAN] : r.err \/ r.reached}

EmailSend(last) ==
  IF ~SMTPServer
  THEN {Outcome(TRUE, FALSE, None, FALSE)}
  ELSE {IF r.err THEN Failure(last, r.reached) ELSE Outcome(TRUE, TRUE, "sent", FALSE) : r \in SendMailNoAuth}

(* The answer of the Slack API, or none before the timeout.                *)
SlackPost == {"posted", "channel_not_found", "error", "timeout"}

SlackSend(last) ==
  {CASE r = "posted"            -> Outcome(TRUE, TRUE, "sent", FALSE)
     [] r = "channel_not_found" -> Outcome(TRUE, FALSE, "failed", FALSE)
     [] r = "error"             -> Failure(last, FALSE)
     [] r = "timeout"           -> Failure(last, TRUE) : r \in SlackPost}

(* sendText and sendVoice: the call or text is created and its sid comes    *)
(* back, or an error does, after which it may have been created or not.    *)
CreateCall == {r \in [err : BOOLEAN, reached : BOOLEAN] : r.err \/ r.reached}

TwilioSend(last) ==
  IF ~TwilioNumbers
  THEN {Outcome(FALSE, FALSE, None, FALSE)}
  ELSE {IF r.err THEN Failure(last, r.reached) ELSE Outcome(TRUE, TRUE, "sent", TRUE) : r \in CreateCall}

(* One push per device, each tried once; whether any arrives is not kept.  *)
FCMSend == {Outcome(TRUE, reached, None, FALSE) : reached \in BOOLEAN}

DropSend == {Outcome(TRUE, FALSE, IF PersistDroppedMsgs THEN "stored" ELSE None, FALSE)}

(* errorVendor and dummyVendor: store the message and nothing else.        *)
StoreSend == {Outcome(TRUE, FALSE, "stored", FALSE)}

SendMessage(vendor, last) ==
  CASE vendor = "email"  -> EmailSend(last)
    [] vendor = "slack"  -> SlackSend(last)
    [] vendor = "twilio" -> TwilioSend(last)
    [] vendor = "fcm"    -> FCMSend
    [] vendor = "drop"   -> DropSend
    [] vendor \in {"error", "dummy"} -> StoreSend

(* The vendors whose configuration lets every message leave a record.      *)
Recording == {"slack", "error", "dummy"} \union (IF SMTPServer THEN {"email"} ELSE {})
                                         \union (IF TwilioNumbers THEN {"twilio"} ELSE {})
                                         \union (IF PersistDroppedMsgs THEN {"drop"} ELSE {})

-----------------------------------------------------------------------------

(* What runVendor and the status table rely on: a vendor whose configuration *)
(* lets messages leave a record makes one exactly of an attempt that will not *)
(* be repeated, the others never make one, and "sent" is never said of a     *)
(* message that did not go out.                                            *)
OneRecordEach ==
  \A v \in Vendors, last \in BOOLEAN : \A o \in SendMessage(v, last) :
    /\ o \in Outcomes
    /\ o.status # None <=> v \in Recording /\ (o.ok \/ last)
    /\ o.status = "sent" => o.ok /\ o.reached
=============================================================================
