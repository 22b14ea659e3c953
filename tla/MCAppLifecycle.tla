--------------------------- MODULE MCAppLifecycle ---------------------------
(* Model-checking instances of AppLifecycle: only the constants differ. *)
EXTENDS AppLifecycle
=============================================================================
