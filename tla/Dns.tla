---------------------------------- MODULE Dns ----------------------------------
(* Package checks/dns: one record of a name, asked of two resolvers. *)
EXTENDS Probing

\* supported: the record type is a known one.  asked: a resolver is configured, or the
\* system has one.
DnsConfig == [expect : {{}, {"a"}, {"a", "b"}}, minTTLSeconds : 0 .. 1, supported : BOOLEAN, asked : BOOLEAN]

DnsServer == {<<>>}

\* What each resolver answers: the records of the type, or nothing at all, for an
\* rcode other than success is a failed query.
DnsScale == [r1 |-> << {"a", "b"}, {"a"}, {}, {"fails"} >>, r2 |-> << {"a", "b"}, {"a"}, {}, {"fails"} >>,
          ttl |-> <<1, 0>>]

resolvers == <<"r1", "r2">>

Answered(o) == Only(resolvers, LAMBDA r : o[r] # {"fails"})

\* The resolver whose name sorts first speaks for all where nothing is expected.
anyValue(o) == o[Answered(o)[1]]

resolutionFinding(c, o) ==
  Say("given", Absent, IF c.expect # {} THEN Bad(\E i \in DOMAIN Answered(o) : o[Answered(o)[i]] # c.expect)
                   ELSE Bad(anyValue(o) = {}))

consistencyFinding(o) ==
  LET distinct == {o[Answered(o)[i]] : i \in DOMAIN Answered(o)}
  IN  IfSo(Cardinality(distinct) > 1 \/ Len(Answered(o)) < Len(resolvers),
           Say("given", "consistency", "WARN"))

ttlFinding(c, o) ==
  LET haveTTL == \E i \in DOMAIN Answered(o) : o[Answered(o)[i]] # {}
  IN  IfSo(c.minTTLSeconds > 0 /\ haveTTL, Say("given", "ttl", Warn(o.ttl < c.minTTLSeconds)))

DnsProbe(c, o) ==
  IF ~c.supported \/ ~c.asked \/ Answered(o) = <<>> THEN Say("given", Absent, "ERROR")
  ELSE resolutionFinding(c, o) \o consistencyFinding(o) \o ttlFinding(c, o)

DnsRun(c, o) == DnsProbe(c, o)
=============================================================================
