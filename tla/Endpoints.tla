------------------------------ MODULE Endpoints ------------------------------
(***************************************************************************)
(* The check modules that put one question to a server and look at what    *)
(* comes back: httpcheck, tcp, ingest, ntp, ldapcheck and keycloak.        *)
(***************************************************************************)
EXTENDS Probing

-----------------------------------------------------------------------------
\* Package checks/httpcheck: the status, the body and the latency of one request.

HttpConfig == [expectBody : BOOLEAN, maxLatencyMS : 0 .. 1, caReadable : BOOLEAN]

HttpServer == {<<>>}

HttpScale == [answers |-> Bool, status |-> <<"expected", "other">>, body |-> Bool, latency |-> <<1, 2>>]

\* A certificate that cannot be read fails every request.
HttpProbe(c, o) ==
  FirstOf(<<Error(~c.caReadable \/ ~o.answers),
            Bad(o.status # "expected"),
            Bad(c.expectBody /\ ~o.body),
            Warn(c.maxLatencyMS > 0 /\ o.latency > c.maxLatencyMS)>>)

HttpRun(c, o) == Say("given", Absent, HttpProbe(c, o))

-----------------------------------------------------------------------------
\* Package checks/tcp: a connection, its latency and the server's banner.

TcpConfig == [tls : BOOLEAN, caReadable : BOOLEAN, expectBanner : BOOLEAN, maxLatency : {0, 1}]

TcpServer == {<<>>}

TcpScale == [listening |-> Bool, handshake |-> Bool, banner |-> Bool, latency |-> <<0, 1, 2>>]

\* Over TLS the client configuration may itself be broken.
dial(c, o) == o.listening /\ (c.tls => c.caReadable /\ o.handshake)

TcpProbe(c, o) ==
  Say("given", Absent, IF ~dial(c, o) THEN "ERROR"
                   ELSE IF c.expectBanner /\ ~o.banner THEN "BAD"
                   ELSE Warn(c.maxLatency > 0 /\ o.latency > c.maxLatency))

TcpRun(c, o) == TcpProbe(c, o)

-----------------------------------------------------------------------------
\* Package checks/ingest: does a streaming server answer a publisher's handshake?

IngestConfig == [protocol : {"rtmp", "srt", "other"}, maxLatencyMS : 0 .. 1]

IngestServer == {<<>>}

\* answer: the version byte of RTMP, or the type of SRT's packet, is the one expected.
IngestScale == [connects |-> Bool, answers |-> Bool, answer |-> Bool, latency |-> <<1, 2>>]

\* rtmpHandshake and srtInduction: a UDP server that is not there does not refuse,
\* it does not answer.
handshake(o) == o.connects /\ o.answers /\ o.answer

IngestProbe(c, o) ==
  FirstOf(<<Bad(c.protocol = "other"),
            Error(~handshake(o)),
            Warn(c.maxLatencyMS > 0 /\ o.latency > c.maxLatencyMS)>>)

IngestRun(c, o) == Say("given", Absent, IngestProbe(c, o))

-----------------------------------------------------------------------------
\* Package checks/ntp: the distance between a server's clock and this one.

NtpConfig == {[offsetWarnMS |-> 2 * n, offsetCritMS |-> 4 * n] : n \in 0 .. 1}

\* ahead: the server's clock is ahead of this one, or behind it.
NtpServer == [ahead : BOOLEAN]

\* drift: how far; the request and the answer each take a while.
NtpScale == [answers |-> Bool, stratum |-> <<1, 16>>, drift |-> <<0, 2, 4>>]

delay == 3

\* offset = ((T2 - T1) + (T3 - T4)) / 2: the delay cancels out where it is the same
\* both ways.
liveQuery(o) ==
  LET at(t) == t + (IF o.ahead THEN o.drift ELSE -o.drift)
      t1 == 100
      t2 == at(t1 + delay)
      t3 == at(t1 + delay + 1)
      t4 == t1 + 2 * delay + 1
  IN  ((t2 - t1) + (t3 - t4)) \div 2

Abs(n) == IF n < 0 THEN -n ELSE n

NtpProbe(c, o) ==
  FirstOf(<<Error(~o.answers),
            Bad(o.stratum = 0 \/ o.stratum >= 16),
            Level(Abs(liveQuery(o)), c.offsetWarnMS, c.offsetCritMS)>>)

NtpRun(c, o) == Say("given", Absent, NtpProbe(c, o))

-----------------------------------------------------------------------------
\* Package checks/ldapcheck: a bind, and a search that finds enough.

LdapConfig == [bindDN : BOOLEAN, startTLS : BOOLEAN, baseDN : BOOLEAN, minEntries : {0, 2}]

LdapServer == {<<>>}

LdapScale == [dial |-> Bool, tls |-> Bool, bind |-> Bool, search |-> Bool, entries |-> <<2, 1, 0>>]

\* An anonymous session does not bind.
Bound(c, o) == c.bindDN => o.bind

LdapProbe(c, o) ==
  FirstOf(<<Error(~o.dial \/ (c.startTLS /\ ~o.tls)),
            Bad(~Bound(c, o)),
            Bad(c.baseDN /\ ~o.search),
            Bad(c.baseDN /\ o.entries < c.minEntries)>>)

LdapRun(c, o) == Say("given", Absent, LdapProbe(c, o))

-----------------------------------------------------------------------------
\* Package checks/keycloak: the health endpoint, and the discovery document of a realm.

KeycloakConfig == [healthURL : BOOLEAN]

KeycloakServer == {<<>>}

\* A code of 0 stands for no answer.
KeycloakScale == [health |-> <<200, 404, 503, 0>>, up |-> Bool, discovery |-> <<200, 404, 503, 0>>,
          tokenEndpoint |-> Bool, issuer |-> Bool]

\* The caller is left to judge any answer below 500.
KeycloakGet(code) == code # 0 /\ code < 500

\* A page that is not the health report is not JSON either.
healthFinding(c, o) ==
  IfSo(c.healthURL, Say("health", Absent, IF ~KeycloakGet(o.health) THEN "ERROR" ELSE Bad(o.health # 200 \/ ~o.up)))

realmFinding(o) ==
  Say("realm", Absent, FirstOf(<<Error(~KeycloakGet(o.discovery)),
                             Bad(o.discovery # 200),
                             Bad(~o.tokenEndpoint),
                             Warn(~o.issuer)>>))

KeycloakRun(c, o) == healthFinding(c, o) \o realmFinding(o)
=============================================================================
