----------------------------- MODULE MCExporter -----------------------------
(***************************************************************************)
(* Two modules on cadences the tick does not divide, and one that sets     *)
(* none; in MCUniform no module sets a cadence.                            *)
(***************************************************************************)
EXTENDS Exporter

CONSTANTS certs, http, redis

MCEvery == [m \in Modules |-> CASE m = http -> 3 [] m = certs -> 4 [] m = redis -> 0]
MCUniform == [m \in Modules |-> 0]
=============================================================================
