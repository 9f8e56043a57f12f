----------------------------- MODULE Postprocess -----------------------------
(***************************************************************************)
(* What happens to the findings of a run before anyone reads or gates on   *)
(* them: maintenance windows, dependencies between checks, the filters of  *)
(* the command line, and the comparison of two runs.  Runbooks only        *)
(* annotate, and so do the notes on a downgraded finding's message.        *)
(*                                                                         *)
(* A pattern is the set of names its glob matches; the empty pattern {},   *)
(* like the empty string, matches everything.  The clock shows a day of    *)
(* the week and the time of day, now = [day, at, date]; date runs on.      *)
(***************************************************************************)
EXTENDS Findings, SequencesExt

CONSTANT Spelled  \* how each target is spelled: [host, part], "" for none

\* The host of "host:port" or "host", whose "/part" is cut off first.  "host [part]" and
\* "host:port [part]" have none: they are no address, and have a blank in them.
HostOf(target) == IF Spelled[target].part = "" THEN Spelled[target].host ELSE ""

globMatch(pattern, name) == pattern = {} \/ name \in pattern

Failing(f) == f.status \in {"BAD", "ERROR"}

-----------------------------------------------------------------------------
\* Mutant: the days are asked for only where the window is within one.
inDailyWindowAnyNight(now, daily, weekdays) ==
  \/ daily = <<>>
  \/ /\ Len(daily) = 2
     /\ IF daily[1] <= daily[2]
        THEN (weekdays = {} \/ now.day \in weekdays) /\ daily[1] <= now.at /\ now.at <= daily[2]
        ELSE daily[1] <= now.at \/ now.at <= daily[2]

\* daily is <<>>, <<start, end>>, or anything else if it does not parse.
inDailyWindow(now, daily, weekdays) ==
  \/ daily = <<>>
  \/ /\ Len(daily) = 2
     /\ weekdays = {} \/ now.day \in weekdays
     /\ IF daily[1] <= daily[2] THEN daily[1] <= now.at /\ now.at <= daily[2]
                                ELSE daily[1] <= now.at \/ now.at <= daily[2]

\* from and to are <<>> when not given; a date that does not parse is one out of reach.
Covers(w, f, now) ==
  /\ globMatch(w.check, f.check) /\ globMatch(w.target, f.target)
  /\ \A i \in DOMAIN w.from : w.from[i] <= now.date
  /\ \A i \in DOMAIN w.to : now.date <= w.to[i]
  /\ inDailyWindow(now, w.daily, w.weekdays)

\* The place of the first window, 0 if there is none.
activeWindow(f, windows, now) == SelectInSeq(windows, LAMBDA w : Covers(w, f, now))

ApplyMaintenance(fs, windows, now) ==
  LET window(f) == activeWindow(f, windows, now)
      warns(f)  == window(f) # 0 /\ windows[window(f)].action = "warn"
      kept      == Pick(fs, {i \in DOMAIN fs : window(fs[i]) = 0 \/ warns(fs[i])})
  IN  [i \in DOMAIN kept |-> IF warns(kept[i]) /\ Failing(kept[i])
                             THEN [kept[i] EXCEPT !.status = "WARN"] ELSE kept[i]]

-----------------------------------------------------------------------------
\* A rule is [check, target, onCheck, onTarget, sameHost]; onCheck is {} or the one
\* name given.
Explains(p, f, r) ==
  /\ r.onCheck # {} /\ globMatch(r.check, f.check) /\ globMatch(r.target, f.target)
  /\ p.check \in r.onCheck
  /\ p.check # f.check \/ p.target # f.target
  /\ IF r.sameHost THEN HostOf(p.target) # "" /\ HostOf(p.target) = HostOf(f.target)
                   ELSE r.onTarget # {} /\ globMatch(r.onTarget, p.target)

\* The failing findings that explain f.
parentOf(f, rules, failing) == {p \in failing : \E i \in DOMAIN rules : Explains(p, f, rules[i])}

\* Who fails is decided before anyone is suppressed.
ApplyDependencies(fs, rules) ==
  LET failing == {f \in ToSet(fs) : Failing(f)}
  IN  [i \in DOMAIN fs |-> IF Failing(fs[i]) /\ parentOf(fs[i], rules, failing) # {}
                           THEN [fs[i] EXCEPT !.status = "WARN"] ELSE fs[i]]

\* Mutant: only two rules that point at each other are a cycle.
cycleProblemsOfTwo(rules) ==
  LET edge(a, b) == \E i \in DOMAIN rules : rules[i].check = a /\ rules[i].onCheck = b
      nodes == {rules[i].check : i \in DOMAIN rules} \ {{}}
  IN  {n \in nodes : \E m \in nodes : edge(n, m) /\ edge(m, n)}

\* Nodes are patterns as they are written; a rule for every check has none.  A node is on
\* a cycle if every set that holds what it points at, and what its own members point at,
\* holds the node.
cycleProblems(rules) ==
  LET named == {i \in DOMAIN rules : rules[i].check # {} /\ rules[i].onCheck # {}}
      nodes == {rules[i].check : i \in named} \cup {rules[i].onCheck : i \in named}
      Follows(n, C) == \A i \in named : rules[i].check \in C \cup {n} => rules[i].onCheck \in C
  IN  {n \in nodes : \A C \in SUBSET nodes : Follows(n, C) => n \in C}

\* Whether `checkfleet validate` has nothing to say about the rules.
ValidateDependencies(rules) ==
  /\ \A i \in DOMAIN rules :
       LET r == rules[i]
       IN  /\ r.onCheck # {}
           /\ r.sameHost \/ r.onTarget # {}
           /\ ~(r.check # {} /\ r.check = r.onCheck /\ r.sameHost)
  /\ cycleProblems(rules) = {}

PostProcess(fs, cfg, now) ==
  ApplyDependencies(ApplyMaintenance(fs, cfg.windows, now), cfg.rules)

\* The flags --only, --min-severity ("" if not given) and --target.
Filter(fs, o) ==
  Pick(fs, {i \in DOMAIN fs : /\ globMatch(o.only, fs[i].check)
                              /\ o.minSeverity = "" \/ AtLeast(fs[i].status, o.minSeverity)
                              /\ globMatch(o.target, fs[i].target)})

Worst(fs) ==
  IF fs = <<>> THEN "OK" ELSE CHOOSE s \in {f.status : f \in ToSet(fs)} : \A f \in ToSet(fs) : AtLeast(s, f.status)

-----------------------------------------------------------------------------
KeyOf(f) == <<f.check, f.target>>

\* A status for each key: that of the last finding that has it.
StatusMap(fs) ==
  [k \in {KeyOf(f) : f \in ToSet(fs)} |-> fs[SelectLastInSeq(fs, LAMBDA f : KeyOf(f) = k)].status]

\* The kinds of change between two maps, an absent key being OK.
Kind(old, new) ==
  CASE severity(new) > severity(old) -> IF old = "OK" THEN "new" ELSE "worsened"
    [] severity(new) < severity(old) -> IF new = "OK" THEN "resolved" ELSE "improved"
    [] OTHER -> "none"

DiffStatus(prev, curr) ==
  LET at(m, k) == IF k \in DOMAIN m THEN m[k] ELSE "OK"
  IN  [k \in DOMAIN prev \cup DOMAIN curr |-> Kind(at(prev, k), at(curr, k))]

\* The findings a baseline does not excuse, one for each key.
NewOrWorse(fs, base) ==
  LET change == DiffStatus(base, StatusMap(fs))
      counts(i) == /\ change[KeyOf(fs[i])] \in {"new", "worsened"}
                   /\ \A j \in DOMAIN fs : KeyOf(fs[j]) = KeyOf(fs[i]) => j <= i
  IN  Pick(fs, {i \in DOMAIN fs : counts(i)})
=============================================================================
