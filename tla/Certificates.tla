---------------------------- MODULE Certificates ----------------------------
(***************************************************************************)
(* The check modules about what a TLS server presents: certs, tlscheck and *)
(* pq.                                                                     *)
(***************************************************************************)
EXTENDS Probing

-----------------------------------------------------------------------------
\* Package checks/certs: the days left of the certificate a server presents.

\* applyDefaults: both are always set.
CertsConfig == {[critDays |-> 1, warnDays |-> 2]}

CertsServer == {<<>>}

CertsScale == [resolved |-> Bool, connects |-> Bool, handshake |-> Bool, hours |-> <<50, 30, 1, -1, -30>>]

\* The conversion truncates towards zero: the day of the expiry lasts two.
days(o) == IF o.hours >= 0 THEN o.hours \div 24 ELSE -((-o.hours) \div 24)

CertsProbe(c, t, o) ==
  Say(t, Absent, FirstOf(<<Error(~o.connects \/ ~o.handshake),
                       Bad(days(o) < 0 \/ days(o) < c.critDays),
                       Warn(days(o) < c.warnDays)>>))

\* The failed source comes last here.
CertsRun(c, o) == Each(Targets(o), LAMBDA t : CertsProbe(c, t, o)) \o Unresolved(o)

-----------------------------------------------------------------------------
\* Package checks/tlscheck: the certificate, the chain and the protocol of a server.

\* applyDefaults: both are always set.
TlsConfig == {[critDays |-> 1, warnDays |-> 2]}

TlsServer == {<<>>}

\* hours: until the certificate expires.  trusted: the chain leads to a known root.
TlsScale == [resolved |-> Bool, connects |-> Bool, handshake |-> Bool, hours |-> <<50, 30, 1, -1, -30>>,
          trusted |-> Bool, version |-> <<13, 12, 11>>]

expiryFinding(c, t, o) ==
  Say(t, "expiry", IF days(o) < 0 \/ days(o) < c.critDays THEN "BAD" ELSE Warn(days(o) < c.warnDays))

\* Verification looks at the dates too.
chainFinding(t, o) == Say(t, "chain", Bad(~o.trusted \/ o.hours < 0))

protocolFinding(t, o) == Say(t, "protocol", Warn(o.version < 12))

TlsProbe(c, t, o) ==
  IF ~o.connects \/ ~o.handshake THEN Say(t, Absent, "ERROR")
  ELSE expiryFinding(c, t, o) \o chainFinding(t, o) \o protocolFinding(t, o)

TlsRun(c, o) == Unresolved(o) \o Each(Targets(o), LAMBDA t : TlsProbe(c, t, o))

-----------------------------------------------------------------------------
\* Package checks/pq: what the embedded pqprobe reports of two endpoints.

\* profilesKnown: pqprobe knows the client profiles it is told to try.
PqConfig == [profilesKnown : BOOLEAN]

PqServer == {<<>>}

\* verdict: on the endpoint.  profile: the client profile that fares worst, of which
\* the verdict takes account in a way of its own.
PqScale == [verdict |-> <<"OK", "WARN", "BAD", "ERROR">>, profile |-> <<"OK", "WARN", "BAD">>]

targets == <<"given", "other">>

\* pqprobe's own findings on an endpoint.
Reported(o) == << [check |-> "verdict", status |-> o.verdict], [check |-> "profile", status |-> o.profile] >>

\* The verdict, and whatever is not well.
Kept(f) == f.check = "verdict" \/ f.status # "OK"
\* Mutant: every finding is about the endpoint.
subjectless(f) == Absent

subject(f) == IF f.check = "verdict" THEN Absent ELSE f.check

PqRun(c, o) ==
  Each(targets, LAMBDA t :
    IF ~c.profilesKnown THEN Say(t, Absent, "ERROR")
    ELSE Each(Only(Reported(o), Kept), LAMBDA f : Say(t, subject(f), f.status)))
=============================================================================
