-------------------------- MODULE MCModemWatchdog --------------------------
(* Model-checking instances of ModemWatchdog: only the constants differ. *)
EXTENDS ModemWatchdog
=============================================================================
