------------------------------ MODULE MCHistory ------------------------------
(* A cron check that compacts, the desktop, and an upgraded installation. *)
EXTENDS History, TLC

CONSTANTS cron, cron2

\* The two cron jobs run the same command.
MCSymmetry == Permutations({cron, cron2})

Policy(runs, age, sample) == [maxRuns |-> runs, maxAge |-> age, downsampleAfter |-> sample]

MCPolicies == {Policy(1, 0, 0), Policy(0, 1, 0), Policy(2, 0, 1)}
=============================================================================
