--------------------------- MODULE MCDurableQueue ---------------------------
(* Model-checking instances of DurableQueue: only the constants differ. *)
EXTENDS DurableQueue
=============================================================================
