----------------------------- MODULE MCAlerting -----------------------------
(***************************************************************************)
(* Two keys; the first may be BAD and ERROR, or BAD and OK, at once.  The  *)
(* configurations: the flags alone; the flags with a shared history and    *)
(* dry runs; routes with a memory, one of them asking for labels, and two  *)
(* of different policies that one key takes by its severity; routes that   *)
(* leave a severity and a key out, with a memory and without.              *)
(***************************************************************************)
EXTENDS Alerting

Route(keys, min, provider, after, worsening) ==
  [keys |-> keys, labelled |-> FALSE, min |-> min, provider |-> provider,
   after |-> after, worsening |-> worsening]

Config(routes, history, remembers) ==
  [routes |-> routes, provider |-> "pd", history |-> history, state |-> remembers,
   dry |-> FALSE, shared |-> FALSE, fates |-> {"fail", "noreply", "crash"}]

MCFindable == << {{"OK"}, {"BAD"}, {"ERROR"}, {"BAD", "ERROR"}, {"OK", "BAD"}},
                 {{"OK"}, {"BAD"}} >>

Flags == [Config(<<>>, TRUE, FALSE) EXCEPT !.fates = @ \cup {"history"}]
SharedFlags == [Flags EXCEPT !.dry = TRUE, !.shared = TRUE]
Remembering ==
  Config(<< [Route({1, 2}, "OK", "og", 0, FALSE) EXCEPT !.labelled = TRUE],
            Route({1}, "ERROR", "pd", 1, FALSE),
            Route({1}, "OK", "pd", 0, TRUE),
            Route({2}, "OK", "sns", 0, FALSE) >>, TRUE, TRUE)
Partial == [Config(<< Route({1}, "ERROR", "pd", 0, TRUE) >>, TRUE, TRUE) EXCEPT
              !.dry = TRUE, !.fates = Flags.fates]
Stateless == Config(Partial.routes, TRUE, FALSE)
MCConfigs == {Flags, SharedFlags, Remembering, Partial, Stateless}

\* ERROR goes to one team, everything else to another; nothing fails.
Split == Config(<< Route({1, 2}, "ERROR", "pd", 0, FALSE), Route({1, 2}, "OK", "og", 0, FALSE) >>, TRUE, TRUE)
MCSplitConfigs == {[Split EXCEPT !.fates = {}]}

\* One route for everything; a send may fail.
MCRememberingConfigs == {[Config(<< Route({1, 2}, "OK", "pd", 0, FALSE) >>, TRUE, TRUE) EXCEPT !.fates = {"fail"}]}
=============================================================================
