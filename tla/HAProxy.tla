------------------------------- MODULE HAProxy -------------------------------
(* Package checks/haproxy: the rows of the statistics page of each load balancer. *)
EXTENDS Probing

HAProxyConfig == [sessionWarnPct : {0, 50}]

\* limit: of the sessions of s1, 0 where there is none.
HAProxyServer == [limit : {0, 4}]

\* given and found: the load balancers, both in front of the backend be, which each
\* checks for itself: server is what the first thinks of s1, other what the second
\* does.  pages: what the page of the second lists.
HAProxyScale == [resolved |-> Bool, given |-> Bool, found |-> Bool, pages |-> <<"all", "none">>,
          server |-> <<"UP", "DRAIN", "MAINT", "DOWN">>, other |-> <<"UP", "MAINT", "DOWN">>, sessions |-> <<1, 2>>]

Row(svname, status, scur, slim) == [svname |-> svname, status |-> status, scur |-> scur, slim |-> slim]

\* A backend is down when every server of it is.
fetchStats(o, t) ==
  LET status == IF t = "given" THEN o.server ELSE o.other
  IN  IF t = "found" /\ o.pages = "none" THEN <<Row("FRONTEND", "OPEN", 1, 4)>>
      ELSE << Row("FRONTEND", "OPEN", 1, 4), Row("s1", status, o.sessions, o.limit),
              Row("BACKEND", IF status = "DOWN" THEN "DOWN" ELSE "UP", o.sessions, o.limit) >>

sessionUsage(row) == IF row.slim > 0 THEN (row.scur * 100) \div row.slim ELSE 0

\* A row goes by its backend and server, not by the load balancer that shows it.
rowFinding(c, row) ==
  Say("be", row.svname,
      CASE row.status = "DOWN" -> "BAD"
        [] row.status \in {"MAINT", "DRAIN", "NOLB"} -> "WARN"
        [] OTHER -> Warn(c.sessionWarnPct > 0 /\ sessionUsage(row) >= c.sessionWarnPct))

HAProxyProbe(c, t, o) ==
  LET rows == Only(fetchStats(o, t), LAMBDA row : row.svname \notin {Absent, "FRONTEND"})
  IN  IF ~o[t] THEN Say(t, Absent, "ERROR")
      ELSE IF rows = <<>> THEN Say(t, Absent, "WARN")
      ELSE Each(rows, LAMBDA row : rowFinding(c, row))

HAProxyRun(c, o) == Unresolved(o) \o Each(Targets(o), LAMBDA t : HAProxyProbe(c, t, o))
=============================================================================
