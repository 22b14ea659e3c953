-------------------------- MODULE MCDeliveryWorker --------------------------
(* Model-checking instances of DeliveryWorker: only the constants differ. *)
EXTENDS DeliveryWorker
=============================================================================
