-------------------------------- MODULE MCFleet --------------------------------
(* Every check module, up to four faults away from well. *)
EXTENDS Fleet

MCChecks == DOMAIN Scales
=============================================================================
