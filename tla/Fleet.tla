--------------------------------- MODULE Fleet ---------------------------------
(***************************************************************************)
(* A server a check module looks at, as it gets worse and is repaired.  A  *)
(* behaviour is about one module and one configuration of it; Verdict is   *)
(* what the module's Run returns in each state.  What a server may be, and *)
(* what can be seen of it, is up to the module.                            *)
(***************************************************************************)
EXTENDS Registry

CONSTANTS
  Checks,      \* the modules looked at
  MaxFaults    \* a bound: how far from well a server gets

ASSUME ChecksAssumption == Checks \subseteq DOMAIN Scales
ASSUME MaxFaultsAssumption == MaxFaults \in Nat

VARIABLES
  check, cfg,  \* the module and its configuration
  server,      \* what kind of server it meets
  place        \* how far down its scale each thing about it is

vars == <<check, cfg, server, place>>

Scale == Scales[check]
Well == [f \in DOMAIN Scale |-> 1]
Seen(p) ==
  [f \in DOMAIN server \cup DOMAIN Scale |-> IF f \in DOMAIN server THEN server[f] ELSE Scale[f][p[f]]]
Verdict(p) == RunCheck(check, cfg, Seen(p))

Faults(p) == FoldFunction(LAMBDA n, sum : n - 1 + sum, 0, p)

Init ==
  /\ check \in Checks
  /\ cfg \in Configs[check]
  /\ server \in Servers[check]
  /\ place = Well

\* One thing about the server gets worse.
Degrade(f) ==
  /\ Faults(place) < MaxFaults
  /\ place[f] < Len(Scale[f])
  /\ place' = [place EXCEPT ![f] = @ + 1]
  /\ UNCHANGED <<check, cfg, server>>

\* And everything is put right again.
Repair ==
  /\ place # Well
  /\ place' = Well
  /\ UNCHANGED <<check, cfg, server>>

Next == (\E f \in DOMAIN Scale : Degrade(f)) \/ Repair

Spec == Init /\ [][Next]_vars

-----------------------------------------------------------------------------
\* The bounds of the state, and the statuses a finding may have.
TypeOK ==
  /\ check \in Checks /\ cfg \in Configs[check] /\ server \in Servers[check]
  /\ DOMAIN place = DOMAIN Scale
  /\ \A f \in DOMAIN Scale : place[f] \in DOMAIN Scale[f]
  /\ \A i \in DOMAIN Verdict(place) : Verdict(place)[i].status \in Status

\* How a report reads to whoever gates on its worst finding: green, yellow or red.
Colour(fs) == Min({2, Max({0} \cup {severity(fs[i].status) : i \in DOMAIN fs})})

\* What a module does not see get worse, or sees as something better: an error or an
\* unreadable answer that is taken for an empty one, a replica that is no longer listed,
\* a milder rule that comes first.
Unseen ==
  CASE check = "clickhouse"    -> {"replicas"}
    [] check = "consul"        -> {"critical", "warning"}
                                    \cup (IF Seen(place).critical = "unread" THEN {"state", "other"} ELSE {})
    [] check = "dns"           -> {"r1", "r2"}
    [] check = "elasticsearch" -> {"nodes"}
    [] check = "etcd"          -> {"memberList"}
    [] check = "grpc"          -> {"grpcStatus"}
    [] check = "haproxy"       -> {"pages"}
    [] check = "kafka"         -> {"partition"}
    [] check = "mediamtx"      -> {"exists"}
    [] check = "mongodb"       -> {"behind"}
    [] check = "nats"          -> {"current", "jsz1", "jsz2", "listed"}
    [] check = "patroni"       -> {"state"}
    [] check = "postgres"      -> {"streaming"}
    [] check = "stream"        -> {"onAir", "variants", "variantReachable"}
    [] OTHER                   -> {}

\* A server that gets worse never has a greener report, whatever else is wrong with it
\* already; but for the gaps of Unseen, which are all there are on these scales.
WorseNeverGreener ==
  [][(\E f \in DOMAIN Scale \ Unseen : place' = [place EXCEPT ![f] = @ + 1])
       => Colour(Verdict(place')) >= Colour(Verdict(place))]_vars

\* When a module may say several things under one target: two replicas behind one
\* address, two nodes of one host, a peer that is well and should not be there, two
\* checks of a service on a node, a server as two load balancers see it; and two targets
\* without a name, which go by "mysql", by "flow" or by their bucket.
SharesTargets ==
  CASE check \in {"consul", "haproxy"}     -> TRUE
    [] check = "nats"                      -> cfg.expectPeers # {}
    [] check = "postgres"                  -> server.oneClient
    [] check = "rabbitmq"                  -> server.sameHost
    [] check \in {"flow", "mysql", "s3"}   -> ~cfg.named
    [] OTHER                               -> FALSE

\* No two findings of a report disagree under one target, provided that the targets it
\* is configured with are told apart by their names or addresses: whoever keeps a status
\* for each check and target, as the baseline, the alerts and the history do, keeps the
\* one there is.
OneVerdictPerKey ==
  LET fs == Verdict(place)
  IN  ~SharesTargets =>
        \A i, j \in DOMAIN fs :
          (fs[i].target = fs[j].target /\ fs[i].part = fs[j].part) => fs[i].status = fs[j].status

\* What a measurement cannot do without.
Contact ==
  [cassandra |-> {"n1"}, certs |-> {"resolved", "connects", "handshake"}, clickhouse |-> {"ping"},
   consul |-> {"resolved", "given", "found"}, dns |-> {}, elasticsearch |-> {"health"},
   etcd |-> {"health"}, flow |-> {"f1", "f2"}, grpc |-> {"connects"},
   haproxy |-> {"resolved", "given", "found"}, http |-> {"answers"}, ingest |-> {}, kafka |-> {"metadata", "group"},
   keycloak |-> {"discovery"}, ldap |-> {"dial"}, mediamtx |-> {"page1"}, memcached |-> {"connected", "replied"},
   mongodb |-> {"connected", "serverStatus", "replStatus"}, mysql |-> {"t1", "t2", "version"},
   nats |-> {"resolved", "s1", "s2"}, ntp |-> {"answers"}, patroni |-> {"resolved", "given", "found"},
   postgres |-> {"connected", "queried"}, pq |-> {"verdict"}, rabbitmq |-> {"t1", "t2"},
   redis |-> {"resolved", "failsAt"}, s3 |-> {"t1", "t2"}, smtp |-> {"failsAt"}, stream |-> {"reachable"},
   tcp |-> {"listening"}, tls |-> {"resolved", "connects", "handshake"}, vault |-> {"t1", "t2"}]

\* The requests that are answered, in the protocol asked for, or are not.
Requests ==
  CASE check = "flow"     -> {"f1", "f2", "answers2"}
    [] check = "ingest"   -> {"connects", "answers", "answer"}
    [] check = "ldap"     -> {"dial", "tls"}
    [] check = "mediamtx" -> {"page1", "page2"}
    [] check = "mysql"    -> {"t1", "t2", "version", "showReplica", "showSlave"}
    [] check = "rabbitmq" -> {"t1", "t2", "nodes", "queues"}
    [] check = "tcp"      -> {"listening", "handshake"}
    [] OTHER              -> Contact[check]

\* Something is not known, for want of an answer, or of one the module can make sense
\* of: a frame or a message cut short, a gRPC status it has no verdict for, a colour it
\* does not know.
Unmeasured(o) ==
  CASE check = "cassandra"     -> {o.n1, o.n2} \cap {"garbled", "down"} # {}
    [] check = "clickhouse"    -> o.ping = "none" \/ ~o.version
    [] check = "consul"        -> \/ ~o.resolved \/ ~o.given \/ ~o.found
                                  \/ ~o.leaderAnswers \/ ~o.peersAnswer \/ ~o.kvAnswers
                                  \/ "fails" \in {o.critical, o.warning}
    [] check = "dns"           -> o.r1 = {"fails"} /\ o.r2 = {"fails"}
    [] check = "elasticsearch" -> ~o.health \/ ~o.allocation \/ o.status = "other"
    [] check = "etcd"          -> ~o.authenticates \/ o.health = "none" \/ ~o.status
    [] check = "grpc"          -> ~o.connects \/ o.grpcStatus = 14 \/ ~o.whole \/ o.field # 8
    [] check = "keycloak"      -> {o.health, o.discovery} \cap {0, 503} # {}
    [] check = "pq"            -> o.verdict = "ERROR"
    [] check = "redis"         -> ~o.resolved \/ o.failsAt # "nothing"
    [] check = "s3"            -> 0 \in {o.t1, o.t2, o.object}
    [] check = "smtp"          -> o.failsAt # "nothing"
    [] check = "vault"         -> "none" \in {o.t1, o.t2}
    [] OTHER                   -> \E f \in Requests : ~o[f]

\* A certificate to be read, client profiles to be known, a value to be at hand, a record
\* type to be known and a resolver to be asked.
Sound ==
  /\ "caReadable" \in DOMAIN cfg => cfg.caReadable
  /\ check = "pq" => cfg.profilesKnown
  /\ check = "flow" => cfg.extract /\ (cfg.bodyEnv => server.bodySet)
  /\ check = "dns" => cfg.supported /\ cfg.asked

\* The modules whose hosts are one given and one found, and the hosts that do not answer.
Discovers == {"certs", "consul", "haproxy", "patroni", "redis", "tls"}

Unreached ==
  {t \in {"given", "found"} : IF t \in DOMAIN Scale THEN place[t] = Len(Scale[t])
                              ELSE \E f \in Contact[check] \ {"resolved"} : place[f] = Len(Scale[f])}

\* ERROR says that something could not be measured, and nothing else: a target that
\* does not answer is one whatever else is wrong, and one that answers with bad news,
\* however bad, is none.  Hosts that do not answer are named, those of the other
\* sources too when one source of hosts fails.
ErrorIffUnmeasured ==
  LET fs == Verdict(place)
  IN  /\ (\E f \in Contact[check] : place[f] = Len(Scale[f])) => hasError(fs)
      /\ hasError(fs) => ~Sound \/ Unmeasured(Seen(place))
      /\ check \in Discovers =>
           \A t \in Unreached : \E i \in DOMAIN fs : fs[i].target = t /\ fs[i].status = "ERROR"

\* What puts a service out of use.  A list of critical checks that is not read says
\* nothing of them, and a server alone has no primary to lose.
Outage ==
  CASE check = "certs"    -> {"hours"}
    [] check = "consul"   -> {"leader"} \cup (IF Seen(place).critical = "unread" THEN {} ELSE {"state", "other"})
    [] check = "etcd"     -> {"leader"}
    [] check = "flow"     -> {"status", "token"}
    [] check = "haproxy"  -> {"server"}
    [] check = "http"     -> {"status"}
    [] check = "kafka"    -> {"controller"}
    [] check = "keycloak" -> {"tokenEndpoint"}
    [] check = "mongodb"  -> IF server.standalone THEN {} ELSE {"primary"}
    [] check = "ntp"      -> {"stratum"}
    [] check = "patroni"  -> {"leaders"}
    [] check = "rabbitmq" -> {"running", "memory", "disk"}
    [] check = "smtp"     -> {"greeting", "ehlo"}
    [] check = "stream"   -> {"valid"}
    [] check = "tls"      -> {"hours", "trusted"}
    [] check = "vault"    -> {"initialized", "unsealed"}
    [] OTHER              -> {}

\* A service that is out of use is red, in every configuration, whatever else is wrong
\* or cannot be measured at the same time; and so is a Raft cluster that has lost
\* its quorum, where its size is known.
OutageIsRed ==
  /\ (\E f \in Outage : place[f] = Len(Scale[f])) => Colour(Verdict(place)) = 2
  /\ (check = "consul" /\ cfg.expectPeers > 0 /\ 2 * Seen(place).peers <= cfg.expectPeers)
       => Colour(Verdict(place)) = 2
=============================================================================
