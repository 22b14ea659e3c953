--------------------------- MODULE MCModemWatch ---------------------------
(* Model-checking instances of ModemWatch. *)
EXTENDS ModemWatch

(* Paths are only names: a modem that is there at the start has this one. *)
FirstPath == CHOOSE p \in Path : TRUE
FirstInit == WatchInit /\ exposed \subseteq {FirstPath}
FairFirstSpec == FirstInit /\ [][WatchNext]_vars /\ Fairness
=============================================================================
