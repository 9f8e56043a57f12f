------------------------------- MODULE Brokers -------------------------------
(***************************************************************************)
(* The check modules of message brokers: kafka, nats and rabbitmq.         *)
(***************************************************************************)
EXTENDS Probing

-----------------------------------------------------------------------------
\* Package checks/kafka: the metadata of the cluster, and the lag of a group.

KafkaConfig == {[expectBrokers |-> b, lagWarn |-> n, lagCrit |-> 2 * n, caReadable |-> r]
             : b \in {0, 2}, n \in 0 .. 1, r \in BOOLEAN}

KafkaServer == {<<>>}

\* partition: p0 has all its replicas in sync, or fewer, or no leader, or its topic
\* could not be described.
KafkaScale == [metadata |-> Bool, controller |-> Bool, brokers |-> <<2, 1>>,
          partition |-> <<"whole", "under-replicated", "offline", "unknown">>,
          group |-> Bool, lag |-> <<0, 1, 2>>]

KafkaClusterFinding(c, o) ==
  Say("cluster", Absent, FirstOf(<<Bad(~o.controller),
                               Warn(c.expectBrokers > 0 /\ o.brokers < c.expectBrokers)>>))

\* A partition that comes with an error is not counted, nor is a topic.
underReplicated(o) == o.partition = "under-replicated"

partitionsFinding(o) == Say("partitions", Absent, Bad(underReplicated(o)))

groupFinding(c, o) ==
  Say("group", Absent, IF ~o.group THEN "ERROR" ELSE Level(o.lag, c.lagWarn, c.lagCrit))

\* Without metadata the groups are still asked for.
KafkaRun(c, o) ==
  IF ~c.caReadable THEN Say("cluster", Absent, "ERROR")
  ELSE (IF ~o.metadata THEN Say("cluster", Absent, "ERROR") ELSE KafkaClusterFinding(c, o) \o partitionsFinding(o))
         \o groupFinding(c, o)

-----------------------------------------------------------------------------
\* Package checks/nats: the JetStream meta-cluster, put together from what each
\* monitoring endpoint says of the other peers. Endpoints s1 and s2 are asked; s3 is
\* known through them only, and s4 should not be there.

NatsConfig == {[expectMetaLeader |-> l, expectPeers |-> ps, lagWarn |-> n, lagCrit |-> 2 * n]
             : l \in {Absent, "s1"}, ps \in {{}, {"s1", "s2", "s3"}}, n \in 0 .. 1}

\* leads: the leader s1 sees, and s2 where the two agree.
NatsServer == [leads : {"s1", "s2"}]

\* leaders: how many there are; s2 takes s4 for the second.  current and lag: of s3
\* as s1 sees it; online: as s2 does.
NatsScale == [resolved |-> Bool, s1 |-> Bool, s2 |-> Bool, jsz1 |-> Bool, jsz2 |-> Bool, sameVersion |-> Bool,
          leaders |-> <<1, 2, 0>>, online |-> Bool,
          current |-> Bool, lag |-> <<0, 1, 2>>, listed |-> Bool, noGhost |-> Bool]

Peer(name, current, offline, lag) ==
  [name |-> name, current |-> current, offline |-> offline, lag |-> lag]

\* /jsz is best effort: a node without it is up, and has no view.
NatsFetch(o) ==
  IfSo(o.s1 /\ o.jsz1,
       << [responder |-> "s1", leader |-> IF o.leaders = 0 THEN Absent ELSE o.leads,
           replicas |-> {Peer("s2", TRUE, FALSE, 0)}
                          \cup (IF o.listed THEN {Peer("s3", o.current, FALSE, o.lag)} ELSE {})
                          \cup (IF o.noGhost THEN {} ELSE {Peer("s4", TRUE, FALSE, 0)})] >>)
    \o IfSo(o.s2 /\ o.jsz2,
       << [responder |-> "s2", leader |-> CASE o.leaders = 0 -> Absent [] o.leaders = 1 -> o.leads [] o.leaders = 2 -> "s4",
           replicas |-> {Peer("s1", TRUE, FALSE, 0)}
                          \cup (IF o.listed THEN {Peer("s3", TRUE, ~o.online, 0)} ELSE {})] >>)

Reachability(o) ==
  Each(<<"s1", "s2">>, LAMBDA s : Say(s, "monitoring", IF o[s] THEN "OK" ELSE "ERROR"))

MixedVersions(o) == IfSo(o.s1 /\ o.s2 /\ ~o.sameVersion, Say("cluster", Absent, "WARN"))

Leader(c, views) ==
  LET leaders == {views[i].leader : i \in DOMAIN views} \ {Absent}
  IN  Say("meta-cluster", Absent,
          IF leaders = {} THEN "BAD"
          ELSE Warn(\/ Cardinality(leaders) > 1
                    \/ c.expectMetaLeader # Absent /\ leaders # {c.expectMetaLeader}))

\* The least healthy observation of a peer, and its highest lag.
Merged(seen) ==
  [offline |-> \E p \in seen : p.offline, current |-> \A p \in seen : p.current,
   lag |-> CHOOSE n \in {p.lag : p \in seen} : \A p \in seen : p.lag <= n]

peerFinding(c, name, p) ==
  Say(name, Absent, IF p.offline THEN "BAD" ELSE IF ~p.current THEN "WARN"
                ELSE Level(p.lag, c.lagWarn, c.lagCrit))

\* Those that are not expected, then those that are missing.
ghostFindings(c, members) ==
  IfSo(c.expectPeers # {},
       Each(Only(<<"s1", "s2", "s3", "s4">>, LAMBDA n : n \in members \ c.expectPeers),
            LAMBDA n : Say(n, Absent, "WARN"))
         \o Each(Only(<<"s1", "s2", "s3">>, LAMBDA n : n \in c.expectPeers \ members),
                 LAMBDA n : Say(n, Absent, "BAD")))

analyzePeers(c, views) ==
  LET replicas == UNION {views[i].replicas : i \in DOMAIN views}
      Known(n) == \E p \in replicas : p.name = n
      members == {p.name : p \in replicas} \cup ({views[i].leader : i \in DOMAIN views} \ {Absent})
                   \cup {views[i].responder : i \in DOMAIN views}
  IN  Each(Only(<<"s1", "s2", "s3", "s4">>, Known),
           LAMBDA n : peerFinding(c, n, Merged({p \in replicas : p.name = n})))
        \o ghostFindings(c, members)

analyzeMeta(c, views) == IfSo(views # <<>>, Leader(c, views) \o analyzePeers(c, views))

NatsRun(c, o) == Unresolved(o) \o Reachability(o) \o MixedVersions(o) \o analyzeMeta(c, NatsFetch(o))

-----------------------------------------------------------------------------
\* Package checks/rabbitmq: the management API of whichever node answers.

RabbitMQConfig == {[queueWarnDepth |-> n, queueCritDepth |-> 2 * n] : n \in 0 .. 1}

\* sameHost: both nodes of the cluster run on one host, under different names.
RabbitMQServer == [sameHost : BOOLEAN]

RabbitMQScale == [t1 |-> Bool, t2 |-> Bool, nodes |-> Bool, queues |-> Bool, running |-> Bool,
          memory |-> Bool, disk |-> Bool, messages |-> <<0, 1, 2>>, consumers |-> <<1, 0>>]

\* The first endpoint to answer speaks for the cluster; the others are asked too,
\* and heard of only when they do not answer.
base(o) == IF o.t1 THEN "t1" ELSE IF o.t2 THEN "t2" ELSE Absent

Endpoint(o, t) == IF ~o[t] THEN Say(t, Absent, "ERROR") ELSE IfSo(base(o) = t, Say(t, Absent, "OK"))

\* A node goes by its host, without the name before it.
shortNode(o, n) == IF o.sameHost THEN "host" ELSE n

nodeFindings(o) ==
  IF ~o.nodes THEN Say("nodes", Absent, "ERROR")
  ELSE Say(shortNode(o, "node1"), Absent, "OK")
         \o Say(shortNode(o, "node2"), Absent, Bad(~o.running \/ ~o.memory \/ ~o.disk))

\* Mutant: the consumers are looked at before the depth.
queueFindingsConsumersFirst(c, o) ==
  IF ~o.queues THEN Say("queues", Absent, "ERROR")
  ELSE Say("queue", Absent, IF o.messages > 0 /\ o.consumers = 0 THEN "WARN"
                        ELSE Level(o.messages, c.queueWarnDepth, c.queueCritDepth))

queueFindings(c, o) ==
  IF ~o.queues THEN Say("queues", Absent, "ERROR")
  ELSE LET level == Level(o.messages, c.queueWarnDepth, c.queueCritDepth)
       IN  Say("queue", Absent, IF level # "OK" THEN level ELSE Warn(o.messages > 0 /\ o.consumers = 0))

RabbitMQRun(c, o) ==
  Each(<<"t1", "t2">>, LAMBDA t : Endpoint(o, t))
    \o IfSo(base(o) # Absent, nodeFindings(o) \o queueFindings(c, o))
=============================================================================
