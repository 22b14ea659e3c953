---------------------------- MODULE MCSmsRelay ----------------------------
(* Model-checking instances of SmsRelay: only the constants differ. *)
EXTENDS SmsRelay
=============================================================================
