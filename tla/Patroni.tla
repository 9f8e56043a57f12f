------------------------------- MODULE Patroni -------------------------------
(* Package checks/patroni: a cluster as the first endpoint to answer sees it. *)
EXTENDS Probing

PatroniConfig == {[lagWarnBytes |-> n, lagCritBytes |-> 2 * n] : n \in 0 .. 1}

\* knowsLag: Patroni gives the lag as a number.
PatroniServer == [knowsLag : BOOLEAN]

\* m1 leads and m2 follows; leaders: m3 claims to lead too, or nobody leads.
\* state, lag and sameTimeline are those of m2.
PatroniScale == [resolved |-> Bool, given |-> Bool, found |-> Bool,
          leaders |-> <<"one", "two", "none">>, state |-> <<"streaming", "starting", "crashed">>,
          lag |-> <<0, 1, 2>>, sameTimeline |-> Bool]

Member(name, leads, state, lag, timeline) ==
  [name |-> name, leads |-> leads, state |-> state, lag |-> lag, timeline |-> timeline]

PatroniMembers(o) ==
  << Member("m1", o.leaders # "none", "running", 0, 2),
     Member("m2", FALSE, o.state, o.lag, IF o.sameTimeline THEN 2 ELSE 1),
     Member("m3", o.leaders = "two", "streaming", 0, 2) >>

replicaState(s) == CASE s \in {"running", "streaming"} -> "OK"
                     [] s \in {"stopped", "start failed", "crashed", "restarting"} -> "BAD"
                     [] OTHER -> "WARN"

\* The state comes first, whatever the lag.
memberFinding(c, o, m, leaderTimeline) ==
  LET lag == IF o.knowsLag THEN Level(m.lag, c.lagWarnBytes, c.lagCritBytes) ELSE "OK"
      elsewhere == leaderTimeline > 0 /\ m.timeline > 0 /\ m.timeline # leaderTimeline
  IN  Say(m.name, Absent, IF m.leads THEN "OK"
                      ELSE IF replicaState(m.state) # "OK" THEN replicaState(m.state)
                      ELSE IF lag # "OK" THEN lag ELSE Warn(elsewhere))

analyze(c, o) ==
  LET leaders == Only(PatroniMembers(o), LAMBDA m : m.leads)
      leaderTimeline == IF Len(leaders) = 1 THEN leaders[1].timeline ELSE 0
  IN  Say("scope", Absent, IF leaders = <<>> THEN "BAD" ELSE Warn(Len(leaders) > 1))
        \o Each(PatroniMembers(o), LAMBDA m : memberFinding(c, o, m, leaderTimeline))

\* An endpoint is heard of only when it does not answer.
PatroniUnreachable(o) == Each(Targets(o), LAMBDA t : IfSo(~o[t], Say(t, Absent, "ERROR")))

PatroniRun(c, o) ==
  Unresolved(o) \o PatroniUnreachable(o)
    \o IfSo(\E i \in DOMAIN Targets(o) : o[Targets(o)[i]], analyze(c, o))
=============================================================================
