----------------------------- MODULE CheckCommand -----------------------------
(***************************************************************************)
(* The command `checkfleet check`, run again and again with one set of     *)
(* flags: run the modules, post-process, send the report to every sink,    *)
(* record or consult the baseline, and exit with the verdict.              *)
(*                                                                         *)
(* What the modules find is raw: for each key (a check and a target) the   *)
(* statuses found under it, usually one.  A flapping key is a WARN that    *)
(* --history adds under a key of its own.  The dead-man ping that follows  *)
(* the sinks is best effort and changes nothing here.                      *)
(***************************************************************************)
EXTENDS Postprocess

CONSTANTS
  Setups,     \* configurations and flags, with what may be found under them
  Clock       \* the times a run may take place at

TimesOfDay == {t.at : t \in Clock}

ASSUME ClockAssumption ==
  Clock # {} /\ IsFiniteSet(TimesOfDay) /\ TimesOfDay \subseteq Nat

\* What the flags and the configuration are once they have been read: a threshold and
\* a severity that parse, one sink at least, and times of day in a window that has two.
ASSUME SetupsAssumption ==
  \A s \in Setups :
    /\ s.exitOn \in {"", "WARN", "BAD", "ERROR"} /\ s.minSeverity \in {""} \cup Status
    /\ s.sinks \in Nat \ {0}
    /\ DOMAIN s.windows = 1 .. Len(s.windows) /\ Len(s.windows) \in Nat
    /\ \A i \in DOMAIN s.windows : Len(s.windows[i].daily) = 2 =>
         \A j \in 1 .. 2 : s.windows[i].daily[j] \in 0 .. Max(TimesOfDay)
    /\ \A found \in s.found : /\ IsFiniteSet(DOMAIN found) /\ DOMAIN found \subseteq Nat \X Nat
                             /\ \A k \in DOMAIN found : found[k] \subseteq Status

\* A rule has the name of one parent check, if any.
ASSUME RulesAssumption ==
  \A s \in Setups : \A i \in DOMAIN s.rules :
    s.rules[i].onCheck # {} => \E n \in s.rules[i].onCheck : s.rules[i].onCheck = {n}

VARIABLES
  setup,      \* the configuration and the flags
  stage,      \* "idle", "emit", "baseline" or "exited"
  raw, now,   \* what the modules found, and when
  write,      \* --write-baseline is given
  tried,      \* how many sinks have been tried
  broken,     \* the sinks that failed
  file,       \* the baseline: [is, status], "none", "torn" or "whole" with its statuses
  outcome     \* how the command ended

checkVars == <<setup, stage, raw, now, write, tried, broken, file, outcome>>

-----------------------------------------------------------------------------
\* The gate: --exit-on, the older --exit-on-bad, and what --fail-on-new implies.
\* A value that does not parse, or OK, is refused before anything runs.
parseGate(exitOn, exitOnBad) == IF exitOn = "" /\ exitOnBad THEN "BAD" ELSE exitOn

withImpliedThreshold(threshold, failOnNew) ==
  IF failOnNew /\ threshold = "" THEN "BAD" ELSE threshold

Threshold == withImpliedThreshold(parseGate(setup.exitOn, setup.exitOnBad), setup.failOnNew)

Trips(fs) == Threshold # "" /\ AtLeast(Worst(fs), Threshold)

\* The raw findings as the runner reports them, and what is left of them.
Found(found) ==
  UNION {{[check |-> k[1], target |-> k[2], status |-> s] : s \in found[k]} : k \in DOMAIN found}
Run(found) == SortFindings(SetToSeq(Found(found)))
Shown == Filter(PostProcess(Run(raw), setup, now), setup)

-----------------------------------------------------------------------------
\* A baseline nothing can be read from.
Blank(is) == [is |-> is, status |-> <<>>]

CheckInit ==
  /\ setup \in Setups
  /\ stage = "idle"
  /\ raw = <<>> /\ now \in {CHOOSE t \in Clock : TRUE} /\ write = FALSE
  /\ tried = 0 /\ broken = {}
  /\ file = Blank("none") /\ outcome = "none"

\* The modules have run.
Collect ==
  /\ stage = "idle"
  /\ raw' \in setup.found
  /\ now' \in IF setup.windows = <<>> THEN {now} ELSE Clock
  /\ write' \in IF setup.baseline THEN BOOLEAN ELSE {FALSE}
  /\ stage' = "emit"
  /\ UNCHANGED <<setup, tried, broken, file, outcome>>

Exit(how) ==
  /\ stage' = "exited"
  /\ outcome' = how

\* Mutant: the first sink that fails ends the command.
AbortsAlways(bad) == bad # {}

\* emitAll: one sink that fails ends the command; of several, each is on its own.
Aborts(bad) == bad # {} /\ setup.sinks = 1

Emit(ok) ==
  /\ stage = "emit"
  /\ tried' = tried + 1
  /\ broken' = IF ok THEN broken ELSE broken \cup {tried'}
  /\ IF Aborts(broken') THEN Exit("error")
     ELSE /\ stage' = IF tried' = setup.sinks THEN "baseline" ELSE "emit"
          /\ UNCHANGED outcome
  /\ UNCHANGED <<setup, raw, now, write, file>>

\* applyBaseline, this run being one that records.
Records == setup.baseline /\ (write \/ file.is = "none")

Record ==
  /\ stage = "baseline" /\ Records
  /\ file' = [is |-> "whole", status |-> StatusMap(Shown)]
  /\ Exit("recorded")
  /\ UNCHANGED <<setup, raw, now, write, tried, broken>>

\* Save cannot open the file, or does not come to the end of it.
RecordFails ==
  /\ stage = "baseline" /\ Records
  /\ file' \in {file, Blank("torn")}
  /\ Exit("error")
  /\ UNCHANGED <<setup, raw, now, write, tried, broken>>

\* A baseline is there and cannot be read.
LoadFails ==
  /\ stage = "baseline" /\ setup.baseline /\ ~Records
  /\ Exit("error")
  /\ UNCHANGED <<setup, raw, now, write, tried, broken, file>>

\* The findings the gate judges.
Gated ==
  IF setup.baseline /\ setup.failOnNew THEN NewOrWorse(Shown, file.status) ELSE Shown

Judge ==
  /\ stage = "baseline" /\ ~Records
  /\ setup.baseline => file.is # "torn"
  /\ Exit(IF Trips(Gated) THEN "tripped" ELSE "green")
  /\ UNCHANGED <<setup, raw, now, write, tried, broken, file>>

\* The process is killed; while it saves, with a part of the file written.
Kill ==
  /\ stage \in {"emit", "baseline"}
  /\ file' \in IF stage = "baseline" /\ Records THEN {file, Blank("torn")} ELSE {file}
  /\ Exit("killed")
  /\ UNCHANGED <<setup, raw, now, write, tried, broken>>

\* Nothing of an invocation is left but the baseline.
Again ==
  /\ stage = "exited"
  /\ stage' = "idle" /\ raw' = <<>> /\ write' = FALSE /\ now' \in {CHOOSE t \in Clock : TRUE}
  /\ tried' = 0 /\ broken' = {} /\ outcome' = "none"
  /\ UNCHANGED <<setup, file>>

CheckNext ==
  \/ Collect \/ Emit(TRUE) \/ Emit(FALSE)
  \/ Record \/ RecordFails \/ LoadFails \/ Judge
  \/ Kill \/ Again

-----------------------------------------------------------------------------
CheckTypeOK ==
  /\ setup \in Setups /\ now \in Clock /\ write \in BOOLEAN
  /\ stage \in {"idle", "emit", "baseline", "exited"}
  /\ raw \in {<<>>} \cup setup.found
  /\ tried \in 0 .. setup.sinks /\ broken \subseteq 1 .. tried
  /\ file.is \in {"none", "torn", "whole"} /\ Range(file.status) \subseteq Status
  /\ outcome \in {"none", "green", "tripped", "recorded", "error", "killed"}

\* What the operator has planned: a window for the finding, on this date, that opened
\* today, or yesterday if it goes past midnight, and has not closed.  The days a window
\* is for are those it is open on.
Planned(f) ==
  LET day == 1 + Max(TimesOfDay)
      Open(d) == Len(d) = 2 /\ (now.at - d[1]) % day <= (d[2] - d[1]) % day
  IN  \E i \in DOMAIN setup.windows :
        LET w == setup.windows[i]
        IN  /\ globMatch(w.check, f.check) /\ globMatch(w.target, f.target)
            /\ \A t \in ToSet(w.from) : t <= now.date
            /\ \A t \in ToSet(w.to) : now.date <= t
            /\ w.daily # <<>> => Open(w.daily) /\ (w.weekdays # {} => now.day \in w.weekdays)

\* What another failure, that nobody has planned, accounts for.
Consequence(f) ==
  \E p \in Found(raw), i \in DOMAIN setup.rules :
    Failing(p) /\ ~Planned(p) /\ Explains(p, f, setup.rules[i])

\* A key that was at least as bad when the baseline was recorded; where a key has
\* several findings, only the last of them is compared.
Known(f) ==
  /\ setup.failOnNew
  /\ \/ Cardinality(raw[KeyOf(f)]) > 1
     \/ KeyOf(f) \in DOMAIN file.status /\ AtLeast(file.status[KeyOf(f)], f.status)

\* What the operator asked not to see.
Hidden(f) ==
  \/ ~globMatch(setup.only, f.check) \/ ~globMatch(setup.target, f.target)
  \/ setup.minSeverity # "" /\ ~AtLeast(f.status, setup.minSeverity)

\* A gated run that ends green has found nothing as bad as the gate says that is not
\* planned work, the consequence of something else that fails, known from the baseline,
\* or filtered out.
GreenMeansExcused ==
  (outcome = "green" /\ Threshold # "") =>
    \A f \in Found(raw) :
      AtLeast(f.status, Threshold) => Planned(f) \/ Consequence(f) \/ Hidden(f) \/ Known(f)

\* Sending the report decides nothing but whether there is a verdict: a run that reaches
\* one has tried every sink, one of several sinks that fails does not keep it from
\* there, and a red one has found something that bad.
SinksDoNotDecide ==
  /\ outcome \in {"green", "tripped", "recorded"} => tried = setup.sinks /\ (setup.sinks = 1 => broken = {})
  /\ (outcome = "error" /\ ~setup.baseline) => setup.sinks = 1 /\ broken = {1}
  /\ outcome = "tripped" => \E f \in Found(raw) : AtLeast(f.status, Threshold)

\* The findings left red by the windows.
Red == {f \in ToSet(ApplyMaintenance(Run(raw), setup.windows, now)) : Failing(f)}

StillRed == \E f \in ToSet(PostProcess(Run(raw), setup, now)) : Failing(f)

\* Dependencies thin out an outage and never silence it: with rules that validate
\* accepts, each about one check by its name, a red run has a red finding left.
OutageStaysRed ==
  (/\ ValidateDependencies(setup.rules)
   /\ \A i \in DOMAIN setup.rules : \E n \in setup.rules[i].check : setup.rules[i].check = {n}
   /\ Red # {}) => StillRed

\* What depends_test.go says of the parent, "it is the thing to page about", for every
\* rule that validate accepts, a rule about all checks included: the suppressed have a
\* parent that is not.
ValidRulesKeepARed == (ValidateDependencies(setup.rules) /\ Red # {}) => StillRed
=============================================================================
