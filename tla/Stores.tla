------------------------------- MODULE Stores -------------------------------
(***************************************************************************)
(* The check modules of stores of objects, secrets, keys and rows that are *)
(* asked over one connection: s3, vault, etcd, clickhouse and memcached.   *)
(***************************************************************************)
EXTENDS Probing

-----------------------------------------------------------------------------
\* Package checks/s3: one bucket at two endpoints, and the object that says its content
\* is fresh.

\* named: each target has a name of its own, or none.
S3Config == [named : BOOLEAN, object : BOOLEAN, maxAgeWarnSeconds : 0 .. 1]

S3Server == {<<>>}

\* t1, t2: what the bucket answers there.  A code of 0 stands for no answer.
S3Scale == [t1 |-> <<200, 404, 403, 500, 0>>, t2 |-> <<200, 404, 403, 500, 0>>,
            object |-> <<200, 404, 403, 0>>, age |-> <<0, 1, 2>>]

ofCode(code) == IF code = 0 THEN "ERROR" ELSE Bad(code # 200)

\* A target without a name goes by its bucket.
S3Label(c, t) == IF c.named THEN t ELSE "bucket"

\* The object is looked for in a bucket that is there.
S3Probe(c, t, o) ==
  Say(S3Label(c, t), Absent, ofCode(o[t]))
    \o IfSo(ofCode(o[t]) = "OK" /\ c.object,
            Say(S3Label(c, t), "object", IF o.object # 200 THEN ofCode(o.object)
                                           ELSE Warn(c.maxAgeWarnSeconds > 0 /\ o.age > c.maxAgeWarnSeconds)))

S3Run(c, o) == Each(<<"t1", "t2">>, LAMBDA t : S3Probe(c, t, o))

-----------------------------------------------------------------------------
\* Package checks/vault: is it initialized, and is it unsealed?

VaultConfig == {<<>>}

VaultServer == [standby : BOOLEAN]

\* body: of seal-status, whatever its code: the status, other JSON, or no JSON.
VaultScale == [t1 |-> <<"status", "other", "none">>, t2 |-> <<"status", "other", "none">>,
          initialized |-> Bool, unsealed |-> Bool, health |-> Bool]

\* Other JSON reads as a status of which nothing is true.
VaultProbe(t, o) ==
  Say(t, Absent, FirstOf(<<Error(o[t] = "none"),
                       Bad(o[t] = "other" \/ ~o.initialized),
                       Bad(~o.unsealed)>>))

VaultRun(c, o) == Each(<<"t1", "t2">>, LAMBDA t : VaultProbe(t, o))

-----------------------------------------------------------------------------
\* Package checks/etcd: one endpoint of the JSON gateway, asked in four steps.

EtcdConfig == [username : BOOLEAN, expectMembers : {0, 2}]

EtcdServer == {<<>>}

EtcdScale == [authenticates |-> Bool, health |-> <<"true", "false", "none">>, status |-> Bool,
          leader |-> Bool, memberList |-> Bool, members |-> <<2, 1>>]

\* Without a user name there is nothing to authenticate.
authenticate(c, o) == c.username => o.authenticates

\* A list that could not be had counts as empty, and an empty list as unknown.
EtcdMembers(o) == IF o.memberList THEN o.members ELSE 0

EtcdProbe(c, o) ==
  IF ~authenticate(c, o) \/ o.health = "none" THEN Say("given", Absent, "ERROR")
  ELSE IF o.health # "true" THEN Say("given", Absent, "BAD")
  ELSE IF ~o.status THEN Say("given", Absent, "ERROR")
  ELSE IF ~o.leader THEN Say("given", Absent, "BAD")
  ELSE Say("given", Absent, "OK")
         \o IfSo(/\ c.expectMembers > 0 /\ EtcdMembers(o) > 0 /\ EtcdMembers(o) < c.expectMembers,
                 Say("given", "members", "BAD"))

EtcdRun(c, o) == EtcdProbe(c, o)

-----------------------------------------------------------------------------
\* Package checks/clickhouse: the HTTP interface and system.replicas.

ClickHouseConfig == {[delayWarnSeconds |-> n, delayCritSeconds |-> 2 * n] : n \in 0 .. 1}

\* grants: the account may read system.replicas.
ClickHouseServer == [grants : BOOLEAN]

ClickHouseScale == [ping |-> <<"Ok", "other", "none">>, version |-> Bool, replicas |-> Bool,
          writable |-> Bool, delay |-> <<0, 1, 2>>]

\* A table without a problem has no finding, and neither has a list that could
\* not be read.
replicaFindings(c, o) ==
  LET status == IF ~o.writable THEN "BAD" ELSE Level(o.delay, c.delayWarnSeconds, c.delayCritSeconds)
  IN  IfSo(o.grants /\ o.replicas /\ status # "OK", Say("given", "table", status))

ClickHouseProbe(c, o) ==
  IF o.ping = "none" THEN Say("given", Absent, "ERROR")
  ELSE IF o.ping = "other" THEN Say("given", Absent, "BAD")
  ELSE IF ~o.version THEN Say("given", Absent, "ERROR")
  ELSE Say("given", Absent, "OK") \o replicaFindings(c, o)

ClickHouseRun(c, o) == ClickHouseProbe(c, o)

-----------------------------------------------------------------------------
\* Package checks/memcached: one STATS exchange per target.

MemcachedConfig == [memWarnPct : {0, 50}, evictionsWarn : {0, 2}]

\* A limit of zero is one the server did not send.
MemcachedServer == [limit : {0, 4}, sendsEvictions : BOOLEAN]

MemcachedScale == [connected |-> Bool, replied |-> Bool, bytes |-> <<1, 2, 3>>, evictions |-> <<0, 1, 2>>]

MemcachedMemoryFinding(c, o) ==
  LET pct == (o.bytes * 100) \div o.limit
  IN  Say("given", Absent, Warn(o.limit > 0 /\ c.memWarnPct > 0 /\ pct >= c.memWarnPct))

\* Reported only when the server sends the counter.
evictionsFinding(c, o) ==
  IfSo(o.sendsEvictions,
       Say("given", "evictions", Warn(c.evictionsWarn > 0 /\ o.evictions >= c.evictionsWarn)))

\* Any line counts as an answer, and no line at all is an error.
stats(o) == o.connected /\ o.replied

MemcachedProbe(c, o) ==
  IF stats(o) THEN MemcachedMemoryFinding(c, o) \o evictionsFinding(c, o) ELSE Say("given", Absent, "ERROR")

MemcachedRun(c, o) == MemcachedProbe(c, o)
=============================================================================
