------------------------- MODULE MCAdmissionWebhooks -------------------------
(* AdmissionWebhooks with two replicas, for TLC. *)
EXTENDS AdmissionWebhooks
===============================================================================
