------------------------------ MODULE Databases ------------------------------
(***************************************************************************)
(* The check modules of databases asked over their own protocol:           *)
(* cassandra, mongodb, mysql and postgres.                                 *)
(***************************************************************************)
EXTENDS Probing

-----------------------------------------------------------------------------
\* Package checks/cassandra: a CQL handshake per node, and the roll-up.

CassandraConfig == [nodes : {<<"n1">>, <<"n1", "n2">>}, expectNodes : 0 .. 3, maxLatency : {0, 1}]

CassandraServer == {<<>>}

\* How far a node's handshake gets.  "garbled": a frame that is cut short, too
\* large, or not a response at all; "odd": a frame of an unexpected kind.
Handshake == <<"ready", "slow", "rejected", "odd", "garbled", "down">>

CassandraScale == [n1 |-> Handshake, n2 |-> Handshake]

\* A frame is read whole or the read is an error.
readFrame(h) == h \notin {"garbled", "down"}

\* READY and AUTHENTICATE both mean that the node takes CQL.
CassandraProbe(c, o, n) ==
  LET h == o[n]
  IN  Say(n, Absent, IF ~readFrame(h) THEN "ERROR"
                 ELSE IF h \in {"rejected", "odd"} THEN "BAD"
                 ELSE Warn(h = "slow" /\ c.maxLatency > 0))

acceptsCQL(s) == s \in {"OK", "WARN"}

\* One node without an expectation needs no roll-up.
CassandraClusterFinding(c, fs) ==
  LET up == Cardinality({i \in DOMAIN fs : acceptsCQL(fs[i].status)})
      want == IF c.expectNodes = 0 THEN Len(fs) ELSE c.expectNodes
  IN  IfSo(Len(fs) > 0 /\ ~(Len(fs) = 1 /\ c.expectNodes = 0),
           Say("cluster", Absent, IF up < want THEN "BAD" ELSE Warn(up < Len(fs))))

CassandraRun(c, o) ==
  LET nodes == Each(c.nodes, LAMBDA n : CassandraProbe(c, o, n))
  IN  nodes \o CassandraClusterFinding(c, nodes)

-----------------------------------------------------------------------------
\* Package checks/mongodb: a replica set as one of its members describes it.

MongoDBConfig == {[connWarnPct |-> 50 * n, lagWarnSeconds |-> n, lagCritSeconds |-> 2 * n] : n \in 0 .. 1}

MongoDBServer == [standalone : BOOLEAN, total : {0, 4}]

\* replStatus: asked for its replica set the server describes one, or says that it is
\* part of none.  m1 is the primary until it is lost; m2 a secondary that falls behind
\* and then is too stale to catch up.
MongoDBScale == [connected |-> Bool, serverStatus |-> Bool, replStatus |-> Bool, current |-> <<1, 2>>,
          primary |-> Bool, secondary |-> Bool, behind |-> <<-1, 1, 2, 3>>]

TooStale == 3

MongoDBMembers(o) ==
  << [name |-> "m1", health |-> o.primary, state |-> "PRIMARY", behind |-> 0],
     [name |-> "m2", health |-> o.secondary, behind |-> o.behind,
      state |-> IF o.behind = TooStale THEN "RECOVERING" ELSE "SECONDARY"] >>

\* Not being part of a replica set is an answer; any other error is an error.
MongoDBCollect(o) == o.serverStatus /\ o.replStatus

MongoDBConnectionFinding(c, o) ==
  Say("given", "connections", Warn(/\ o.total > 0 /\ c.connWarnPct > 0
                                   /\ (o.current * 100) \div o.total >= c.connWarnPct))

primaryPresent(o) == \E i \in DOMAIN MongoDBMembers(o) : MongoDBMembers(o)[i].state = "PRIMARY" /\ MongoDBMembers(o)[i].health

MemberStatus(c, o, m) ==
  IF ~m.health THEN "BAD"
  ELSE IF m.state = "SECONDARY" /\ primaryPresent(o)
       THEN Level(Max2(m.behind, 0), c.lagWarnSeconds, c.lagCritSeconds)
  ELSE "OK"

MongoDBReplicaFindings(c, o) ==
  IfSo(~primaryPresent(o), Say("given", "primary", "BAD"))
    \o Each(MongoDBMembers(o), LAMBDA m : Say("given", m.name, MemberStatus(c, o, m)))

MongoDBProbe(c, o) ==
  IF ~o.connected \/ ~MongoDBCollect(o) THEN Say("given", Absent, "ERROR")
  ELSE Say("given", Absent, "OK") \o MongoDBConnectionFinding(c, o) \o IfSo(~o.standalone, MongoDBReplicaFindings(c, o))

MongoDBRun(c, o) == MongoDBProbe(c, o)

-----------------------------------------------------------------------------
\* Package checks/mysql: connections and replication of two servers.

\* named: each target has a name of its own, or none.
MySQLConfig == {[named |-> b, connWarnPct |-> 50 * n, lagWarnSeconds |-> n, lagCritSeconds |-> 2 * n]
                  : b \in BOOLEAN, n \in 0 .. 1}

\* counters: the account may read the two connection counters.
\* maxConnections is zero where the variable is absent.
MySQLServer == [replica : BOOLEAN, counters : BOOLEAN, maxConnections : {0, 4}]

\* t1, t2: that server takes the connection; otherwise they are alike.
MySQLScale == [t1 |-> Bool, t2 |-> Bool, version |-> Bool, showReplica |-> Bool, showSlave |-> Bool,
               connections |-> <<1, 2>>, ioRunning |-> Bool, sqlRunning |-> Bool,
               replicating |-> Bool, behind |-> <<0, 1, 2>>]

\* Targets without a name all go by the same one.
MySQLLabel(c, t) == IF c.named THEN t ELSE "mysql"

\* A counter that cannot be read counts as zero.
Connections(o)    == IF o.counters THEN o.connections ELSE 0
MaxConnections(o) == IF o.counters THEN o.maxConnections ELSE 0

\* An older server knows only the legacy statement, which is tried second.
replicaStatus(o) == o.showReplica \/ o.showSlave

MySQLCollect(o) == o.version /\ replicaStatus(o)

MySQLConnectionFinding(c, t, o) ==
  Say(MySQLLabel(c, t), "connections",
      Warn(/\ MaxConnections(o) > 0 /\ c.connWarnPct > 0
           /\ (Connections(o) * 100) \div MaxConnections(o) >= c.connWarnPct))

replicaFinding(c, t, o) ==
  Say(MySQLLabel(c, t), "replication",
      IF ~o.ioRunning \/ ~o.sqlRunning \/ ~o.replicating THEN "BAD"
      ELSE Level(o.behind, c.lagWarnSeconds, c.lagCritSeconds))

MySQLProbe(c, t, o) ==
  IF ~o[t] \/ ~MySQLCollect(o) THEN Say(MySQLLabel(c, t), Absent, "ERROR")
  ELSE Say(MySQLLabel(c, t), Absent, "OK") \o MySQLConnectionFinding(c, t, o)
         \o IfSo(o.replica, replicaFinding(c, t, o))

MySQLRun(c, o) == Each(<<"t1", "t2">>, LAMBDA t : MySQLProbe(c, t, o))

-----------------------------------------------------------------------------
\* Package checks/postgres: one snapshot of a server's statistics views.

PostgresConfig == {[wraparoundWarnAge |-> n, wraparoundCritAge |-> 2 * n, connWarnPct |-> 50 * n,
            slotWarnBytes |-> n, slotCritBytes |-> 2 * n, lagWarnBytes |-> n, lagCritBytes |-> 2 * n]
             : n \in 0 .. 1}

\* oneClient: both replicas connect from one address.
PostgresServer == [inRecovery : BOOLEAN, maxConnections : {0, 4}, oneClient : BOOLEAN]

\* slot: the bytes an inactive replication slot retains, -1 if it is active.
\* lag: of the replica that lags more; streaming: that it is still connected.
PostgresScale == [connected |-> Bool, queried |-> Bool, age |-> <<0, 1, 2>>, connections |-> <<1, 2>>,
          slot |-> <<-1, 0, 1, 2>>, lag |-> <<0, 1, 2>>, streaming |-> Bool]

\* pg_stat_replication lists connected replicas only, and only a primary is asked.
Replicas(o) ==
  <<[client |-> "r1", lag |-> 0]>>
    \o IfSo(o.streaming, <<[client |-> IF o.oneClient THEN "r1" ELSE "r2", lag |-> o.lag]>>)

Slots(o) == IfSo(o.slot >= 0, <<o.slot>>)

wraparoundFinding(c, o) ==
  Say("given", "wraparound", Level(o.age, c.wraparoundWarnAge, c.wraparoundCritAge))

connectionsFinding(c, o) ==
  Say("given", "connections", Warn(/\ o.maxConnections > 0 /\ c.connWarnPct > 0
                                   /\ (o.connections * 100) \div o.maxConnections >= c.connWarnPct))

\* An inactive slot is a warning whatever it retains.
slotFindings(c, o) ==
  Each(Slots(o), LAMBDA n : Say("given", "slot", IF c.slotCritBytes > 0 /\ n >= c.slotCritBytes
                                                 THEN "BAD" ELSE "WARN"))

PostgresReplicaFindings(c, o) ==
  Each(Replicas(o), LAMBDA r : Say("given", r.client, Level(r.lag, c.lagWarnBytes, c.lagCritBytes)))

PostgresEvaluate(c, o) ==
  Say("given", Absent, "OK") \o wraparoundFinding(c, o) \o connectionsFinding(c, o)
    \o slotFindings(c, o) \o IfSo(~o.inRecovery, PostgresReplicaFindings(c, o))

\* Collect stops at the first query that fails.
PostgresProbe(c, o) == IF o.connected /\ o.queried THEN PostgresEvaluate(c, o) ELSE Say("given", Absent, "ERROR")

PostgresRun(c, o) == PostgresProbe(c, o)
=============================================================================
