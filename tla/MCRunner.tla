------------------------------ MODULE MCRunner ------------------------------
(***************************************************************************)
(* Three jobs, under no cap, a cap of one and a cap of two.  The first two *)
(* report on the same check and target: a tie the report has to break by   *)
(* job order, and a duplicate it has to drop.  Both may retry once; the    *)
(* third carries the retries: -1 a config may hold.                        *)
(***************************************************************************)
EXTENDS Runner

F(c, s, m) == [check |-> c, target |-> 1, status |-> s, msg |-> m]

MCRetries == <<1, 1, -1>>
MCLimits == {-1, 1, 2}
MCOutcomes ==
  << {<<F(1, "OK", 1)>>, <<F(1, "ERROR", 1), F(1, "OK", 1)>>},
     {<<F(1, "OK", 1), F(1, "OK", 2)>>, <<>>, <<F(1, "ERROR", 2)>>},
     {<<F(2, "BAD", 1)>>} >>
=============================================================================
