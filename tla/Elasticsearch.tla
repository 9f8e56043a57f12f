---------------------------- MODULE Elasticsearch ----------------------------
(* Package checks/elasticsearch: cluster health and disk watermarks. *)
EXTENDS Probing

ElasticsearchConfig == [expectNodes : {0, 2}, caReadable : BOOLEAN]

\* A configuration has both watermarks, by default if not by choice.
DiskWarnPct == 1
DiskCritPct == 2

ElasticsearchServer == {<<>>}

ElasticsearchScale == [health |-> Bool, status |-> <<"green", "yellow", "red", "other">>, nodes |-> <<2, 1>>,
          allocation |-> Bool, disk |-> <<0, 1, 2>>, shards |-> Bool]

\* A certificate that cannot be read fails every request.
get(c, answered) == c.caReadable /\ answered

\* Mutant: a colour nobody knows is passed on as a status.
StatusOfAsIs(colour) == CASE colour = "green"  -> "OK"
                          [] colour = "yellow" -> "WARN"
                          [] colour = "red"    -> "BAD"
                          [] OTHER             -> colour

StatusOf(colour) == CASE colour = "green"  -> "OK"
                      [] colour = "yellow" -> "WARN"
                      [] colour = "red"    -> "BAD"
                      [] OTHER             -> "ERROR"

\* The bucket of unassigned shards is a row without a node, and is passed over.
Rows(o) == <<[node |-> "e1", pct |-> 0]>> \o IfSo(o.nodes = 2, <<[node |-> "e2", pct |-> o.disk]>>)
             \o IfSo(~o.shards, <<[node |-> Absent, pct |-> 0]>>)

diskFindings(c, o) ==
  IF ~get(c, o.allocation) THEN Say("given", "disk", "ERROR")
  ELSE Each(Rows(o), LAMBDA r :
         IfSo(r.node # Absent, Say("given", r.node, IF r.pct >= DiskCritPct THEN "BAD"
                                                ELSE Warn(r.pct >= DiskWarnPct))))

ElasticsearchProbe(c, o) ==
  IF ~get(c, o.health) THEN Say("given", Absent, "ERROR")
  ELSE Say("given", Absent, StatusOf(o.status))
         \o IfSo(c.expectNodes > 0 /\ o.nodes < c.expectNodes, Say("given", "nodes", "BAD"))
         \o diskFindings(c, o)

ElasticsearchRun(c, o) == ElasticsearchProbe(c, o)
=============================================================================
