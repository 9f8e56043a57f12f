--------------------------------- MODULE Consul ---------------------------------
(* Package checks/consul: a cluster as the first endpoint to answer sees it. *)
EXTENDS Probing

ConsulConfig == [expectPeers : {0, 3}, kv : BOOLEAN]

ConsulServer == {<<>>}

\* leader: who leads; peers: how many there are.  critical, warning: the list of the
\* checks in that state; "unread": a 404 or a body that does not decode, which is taken
\* for an answer with nothing in it.  state: of the service svc on node1; other: of a
\* second check of it.  key: the key is there.
Listing == <<"listed", "unread", "fails">>

ConsulScale == [resolved |-> Bool, given |-> Bool, found |-> Bool,
          leaderAnswers |-> Bool, leader |-> <<"c1", Absent>>,
          peersAnswer |-> Bool, peers |-> <<3, 2, 1, 0>>, critical |-> Listing, warning |-> Listing,
          state |-> <<"passing", "warning", "critical">>, other |-> <<"passing", "warning", "critical">>,
          kvAnswers |-> Bool, key |-> Bool]

\* An endpoint is heard of only when it does not answer.
ConsulUnreachable(o) == Each(Targets(o), LAMBDA t : IfSo(~o[t], Say(t, Absent, "ERROR")))

leaderFinding(o) ==
  Say("raft-leader", Absent, IF ~o.leaderAnswers THEN "ERROR" ELSE Bad(o.leader = Absent))

\* Mutant: half of the peers are taken for a quorum.
peersFindingHalf(c, o) ==
  Say("raft-peers", Absent, FirstOf(<<
        Error(~o.peersAnswer),
        Bad(c.expectPeers > 0 /\ o.peers < c.expectPeers \div 2),
        Warn(c.expectPeers > 0 /\ o.peers < c.expectPeers)>>))

peersFinding(c, o) ==
  Say("raft-peers", Absent, FirstOf(<<
        Error(~o.peersAnswer),
        Bad(c.expectPeers > 0 /\ o.peers < (c.expectPeers \div 2) + 1),
        Warn(c.expectPeers > 0 /\ o.peers < c.expectPeers)>>))

\* The checks in a state, each under its service and node.
stateFindings(o, state, status) ==
  IF o[state] = "fails" THEN Say("health", state, "ERROR")
  ELSE IfSo(o[state] = "listed",
            IfSo(o.state = state, Say("svc", "node1", status)) \o IfSo(o.other = state, Say("svc", "node1", status)))

kvFindings(c, o) ==
  IfSo(c.kv, Say("key", Absent, IF ~o.kvAnswers THEN "ERROR" ELSE Bad(~o.key)))

ConsulRun(c, o) ==
  Unresolved(o) \o ConsulUnreachable(o)
    \o IfSo(\E i \in DOMAIN Targets(o) : o[Targets(o)[i]],
            leaderFinding(o) \o peersFinding(c, o) \o stateFindings(o, "critical", "BAD")
              \o stateFindings(o, "warning", "WARN") \o kvFindings(c, o))
=============================================================================
