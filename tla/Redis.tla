-------------------------------- MODULE Redis --------------------------------
(* Package checks/redis: what one INFO says of a server. *)
EXTENDS Probing

RedisConfig == {[password |-> p, memWarnPct |-> 50 * n, lagWarnBytes |-> n, lagCritBytes |-> 2 * n]
             : p \in BOOLEAN, n \in 0 .. 1}

RedisServer == [replica : BOOLEAN, maxmemory : {0, 4}, aof : BOOLEAN]

\* failsAt: the step of the conversation that fails.  rdb and aofWrite: the
\* last save and the last write succeeded, or nothing is said of them.
RedisScale == [resolved |-> Bool, failsAt |-> <<"nothing", "auth", "info", "ping", "dial">>,
          loaded |-> Bool, used |-> <<1, 2>>, link |-> Bool, behind |-> <<-1, 0, 1, 2>>,
          rdb |-> Bool, aofWrite |-> Bool]

\* AUTH is sent only when a password is at hand.
liveInfo(c, o) == o.failsAt = "nothing" \/ (o.failsAt = "auth" /\ ~c.password)

RedisMemoryFinding(c, t, o) ==
  Say(t, "memory", Warn(/\ o.maxmemory > 0 /\ c.memWarnPct > 0
                        /\ (o.used * 100) \div o.maxmemory >= c.memWarnPct))

replicationFinding(c, t, o) ==
  Say(t, "replication", IF ~o.link THEN "BAD"
                        ELSE Level(Max2(o.behind, 0), c.lagWarnBytes, c.lagCritBytes))

persistenceFindings(t, o) ==
  IfSo(~o.rdb, Say(t, "persistence", "WARN")) \o IfSo(o.aof /\ ~o.aofWrite, Say(t, "persistence", "WARN"))

RedisEvaluate(c, t, o) ==
  Say(t, Absent, Warn(~o.loaded)) \o RedisMemoryFinding(c, t, o)
    \o IfSo(o.replica, replicationFinding(c, t, o)) \o persistenceFindings(t, o)

RedisProbe(c, t, o) == IF liveInfo(c, o) THEN RedisEvaluate(c, t, o) ELSE Say(t, Absent, "ERROR")

RedisRun(c, o) == Unresolved(o) \o Each(Targets(o), LAMBDA t : RedisProbe(c, t, o))
=============================================================================
