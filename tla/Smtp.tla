--------------------------------- MODULE Smtp ---------------------------------
(* Package checks/smtp: a relay up to, and never past, the first command of a mail. *)
EXTENDS Probing

SmtpConfig == [tls : BOOLEAN, startTLS : BOOLEAN, expectBanner : BOOLEAN, maxLatencyMS : 0 .. 1,
           caReadable : BOOLEAN]

\* applyDefaults: both are always set.
CritDays == 1
WarnDays == 2

SmtpServer == {<<>>}

\* failsAt: the exchange that fails.  days: before the certificate expires.
SmtpScale == [failsAt |-> <<"nothing", "handshake", "ehlo", "greeting", "dial">>,
          greeting |-> <<220, 554>>, banner |-> Bool, ehlo |-> <<250, 502>>, offersStartTLS |-> Bool,
          startTLS |-> <<220, 454>>, days |-> <<2, 1, 0, -1>>, latency |-> <<1, 2>>]

Upgrades(c) == c.startTLS /\ ~c.tls

certificate(c, o) ==
  IF ~(c.tls \/ Upgrades(c)) THEN "OK"
  ELSE IF o.days < CritDays THEN "BAD" ELSE Warn(o.days < WarnDays)

\* The session in its order.  With implicit TLS the handshake precedes the greeting.
SmtpProbe(c, o) ==
  LET unsecured == ~c.caReadable \/ o.failsAt = "handshake"
  IN  FirstOf(<<
        Error(o.failsAt = "dial"),
        Error(c.tls /\ unsecured),
        Error(o.failsAt = "greeting"),
        Bad(o.greeting # 220),
        Bad(c.expectBanner /\ ~o.banner),
        Error(o.failsAt = "ehlo"),
        Bad(o.ehlo # 250),
        Bad(Upgrades(c) /\ ~o.offersStartTLS),
        Bad(Upgrades(c) /\ o.startTLS # 220),
        Error(Upgrades(c) /\ unsecured),
        certificate(c, o),
        Warn(c.maxLatencyMS > 0 /\ o.latency > c.maxLatencyMS)>>)

SmtpRun(c, o) == Say("given", Absent, SmtpProbe(c, o))
=============================================================================
