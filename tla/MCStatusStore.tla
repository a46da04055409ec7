--------------------------- MODULE MCStatusStore ---------------------------
(* Instances of StatusStore for TLC: one message, which any vendor may get,  *)
(* and one callback.                                                       *)
EXTENDS StatusStore

CONSTANTS m1, c1
=============================================================================
