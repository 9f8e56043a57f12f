------------------------------- MODULE Discovery -------------------------------
(***************************************************************************)
(* Package discovery: the hosts a module checks, from the places a fleet   *)
(* keeps that list.  A host is [name, address, source]; addresses are      *)
(* strings, and sorted is every address there may be, in their order.      *)
(***************************************************************************)
EXTENDS Findings, SequencesExt

Host(name, address, source) == [name |-> name, address |-> address, source |-> source]

\* What a source comes to: the hosts it gave and whether it failed, for one that
\* failed may have given some first.
LoadPath(read, hosts) ==
  [hosts |-> IF read THEN [i \in DOMAIN hosts |-> Host(hosts[i].name, hosts[i].address, "inventory")]
             ELSE <<>>,
   failed |-> ~read]

\* An instance goes by its own address, and by its node's where it has none; one that
\* has neither is passed over, and so is one that is not healthy.
consulCatalog(answered, healthyOnly, entries) ==
  LET listed == Only(entries, LAMBDA e : /\ healthyOnly => e.passing
                                         /\ e.service # Absent \/ e.node # Absent)
      instance(e) == Host(e.node, IF e.service # Absent THEN e.service ELSE e.node, "consul")
  IN  [hosts |-> IF answered THEN [i \in DOMAIN listed |-> instance(listed[i])] ELSE <<>>,
       failed |-> ~answered]

Of(hosts, address) == {i \in DOMAIN hosts : hosts[i].address = address}

\* The first host seen for an address, by address: the inventory beats the catalog.
dedup(hosts, sorted) ==
  LET addresses == Only(sorted, LAMBDA a : a # Absent /\ Of(hosts, a) # {})
  IN  [k \in DOMAIN addresses |-> hosts[Min(Of(hosts, addresses[k]))]]

\* Mutant: with an error there are no results.
ResolveOrFail(sources, sorted) ==
  LET failed == \E i \in DOMAIN sources : sources[i].failed
  IN  [hosts |-> IF failed THEN <<>> ELSE dedup(FlattenSeq([i \in DOMAIN sources |-> sources[i].hosts]), sorted),
       failed |-> failed]

\* Partial results are kept with the error.
Resolve(sources, sorted) ==
  [hosts |-> dedup(FlattenSeq([i \in DOMAIN sources |-> sources[i].hosts]), sorted),
   failed |-> \E i \in DOMAIN sources : sources[i].failed]

\* An inventory that is the only source is named; otherwise nothing in particular is.
Label(sourceCount) == IF sourceCount = 1 THEN "inventory" ELSE "discovery"
=============================================================================
