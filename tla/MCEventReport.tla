---------------------------- MODULE MCEventReport ----------------------------
(* EventReport on a small buffer, for TLC. *)
EXTENDS EventReport

AllElements == Events \cup {Torn}
===============================================================================
