------------------------------- MODULE Probing -------------------------------
(***************************************************************************)
(* What the check modules (internal/checks) have in common.                *)
(*                                                                         *)
(* A check module M says what it is told and what it sees:                 *)
(*   Config  the configurations it may be given;                           *)
(*   Server  the kinds of server it may meet, none better than another;    *)
(*   Scale   for each thing it observes, the values from best to worst;    *)
(* and Run(c, o) is the list of findings of configuration c on observation *)
(* o, a record with the fields of Server and of Scale.  Where a TLA+       *)
(* module holds several, their names carry that of the check.              *)
(*                                                                         *)
(* A finding here is [target, part, status]: the text "host [part]" of its *)
(* Target field taken apart.  Numbers stand for sizes, ages and            *)
(* latencies, small enough for each threshold to be met, missed and        *)
(* passed; a threshold of zero is one that is not set.                     *)
(***************************************************************************)
EXTENDS Discovery, SequencesExt

Say(target, part, status) == <<[target |-> target, part |-> part, status |-> status]>>

IfSo(condition, fs) == IF condition THEN fs ELSE <<>>

Bool == <<TRUE, FALSE>>  \* a scale: it is better that this holds

\* The findings of each element of a sequence, in its order.  Some modules probe their
\* targets one after the other, others eight or sixteen at a time; then each goroutine
\* writes to its own place of a slice, which is read after the last is done.
Each(xs, probe(_)) == FlattenSeq([i \in DOMAIN xs |-> probe(xs[i])])

\* The status of a number against two thresholds, the critical one first.
Level(n, warn, crit) ==
  IF crit > 0 /\ n >= crit THEN "BAD" ELSE IF warn > 0 /\ n >= warn THEN "WARN" ELSE "OK"

Warn(condition)  == IF condition THEN "WARN" ELSE "OK"
Bad(condition)   == IF condition THEN "BAD" ELSE "OK"
Error(condition) == IF condition THEN "ERROR" ELSE "OK"

\* A probe that gives up at the first thing wrong: what it comes to by each rule, in
\* the order they are applied.
FirstOf(statuses) ==
  LET wrong == {i \in DOMAIN statuses : statuses[i] # "OK"}
  IN  IF wrong = {} THEN "OK" ELSE statuses[Min(wrong)]

Max2(m, n) == IF m > n THEN m ELSE n

\* A module that takes discovery: an inventory with one host, and a catalog that lists
\* it too, besides the host the module is given and one that is not well.  Every source
\* is asked, and one that fails is a finding, not the end of the run.
Inventory == LoadPath(TRUE, << [name |-> "host", address |-> "found"] >>)
Catalog(o) ==
  consulCatalog(o.resolved, TRUE, << [node |-> "found", service |-> Absent, passing |-> TRUE],
                                     [node |-> "node", service |-> "given", passing |-> TRUE],
                                     [node |-> "lost", service |-> Absent, passing |-> FALSE] >>)

Resolved(o) == Resolve(<<Inventory, Catalog(o)>>, <<"found", "given", "lost">>)

\* The targets given, then those found: one that is both is probed twice, and as a report
\* is of one state of the servers, with the same outcome.
Targets(o) == <<"given">> \o [i \in DOMAIN Resolved(o).hosts |-> Resolved(o).hosts[i].address]
Unresolved(o) == IfSo(Resolved(o).failed, Say(Label(2), Absent, "ERROR"))
=============================================================================
