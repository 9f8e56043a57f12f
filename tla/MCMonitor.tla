------------------------------ MODULE MCMonitor ------------------------------
(* The monitor on two configurations. *)
EXTENDS Monitor

MCStatuses == {"OK", "BAD"}
=============================================================================
