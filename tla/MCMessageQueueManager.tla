------------------------ MODULE MCMessageQueueManager ------------------------
(* Instances of MessageQueueManager for TLC: messages of an incident, one   *)
(* out-of-band notification and one error message; one vendor that can fail, *)
(* the error vendor and the dummy vendor.                                   *)
EXTENDS MessageQueueManager, TLC

CONSTANTS i1, o1, e1, sms, error, dummy

Kinds   == i1 :> "incident" @@ o1 :> "oob" @@ e1 :> "error"
Routes  == i1 :> sms @@ o1 :> sms @@ e1 :> error
MCKind  == [m \in Msgs |-> Kinds[m]]
MCVendorOf == [m \in Msgs |-> Routes[m]]
=============================================================================
