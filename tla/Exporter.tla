------------------------------ MODULE Exporter ------------------------------
(***************************************************************************)
(* The two long-running commands, serve and watch, over the scheduler.     *)
(*                                                                         *)
(* serve runs everything once, then starts a ticker goroutine and the HTTP *)
(* server: the loop goroutine and the request handlers share the samples   *)
(* (behind Scheduler.mu) and the latest merged result (behind mu).  watch  *)
(* is the same loop with a sleep at its end and no readers.                *)
(*                                                                         *)
(* A sample is its age: what the properties ask of a module's findings is  *)
(* when they were measured.  age[m] is now - samples[m].At; fresh[m] is an *)
(* auxiliary variable, the time since the module's probe really ended.     *)
(* Probing is RunJobsLimited, whose contract (module RunContract) says that*)
(* it returns when every job it was given has settled.                     *)
(*                                                                         *)
(* One unit of time is a fraction of a tick.  A run takes at most MaxRun   *)
(* units (the deadline of the slowest check), and the loop starts at most  *)
(* MaxLatency units after its tick is delivered.                           *)
(***************************************************************************)
EXTENDS Scheduler

CONSTANTS MaxRun, MaxLatency

ASSUME MaxRunAssumption     == MaxRun \in Nat
ASSUME MaxLatencyAssumption == MaxLatency \in Nat

VARIABLES
  mode,    \* the command: "serve" or "watch"
  loop,    \* where the loop is: "start", "asleep", "running", "merging"
  tickIn,  \* time until the ticker (or the sleep) fires; 0: not armed
  pending, \* a tick is in the ticker's one-element channel
  late,    \* how long the sleeping loop has left that tick unread
  spent,   \* time since the loop read the clock, its `now`
  due,     \* the modules this run was started for
  probed,  \* auxiliary: time since m's job settled, None while it runs
  age,     \* the scheduler's samples, as ages
  fresh,   \* auxiliary: time since the stored findings were measured
  latest,  \* serve's latest result: the age of the sample merged for m
  ready,   \* serve's ready flag
  page     \* a /metrics request: [shown, ages], None where not read yet

loopVars  == <<loop, tickIn, pending, late, spent, due, probed>>
dataVars  == <<age, fresh, latest, ready>>
vars      == <<mode, loopVars, dataVars, page>>

Nothing == [m \in Modules |-> None]
NoPage  == [shown |-> None, ages |-> None]

Init ==
  /\ mode \in {"serve", "watch"}
  /\ loop = "start"
  /\ tickIn = 0 /\ pending = FALSE /\ late = 0 /\ spent = 0
  /\ due = {} /\ probed = Nothing
  /\ age = Nothing /\ fresh = Nothing /\ latest = Nothing
  /\ ready = FALSE
  /\ page = NoPage

-----------------------------------------------------------------------------
\* runOnce(now): Due is evaluated under the scheduler's lock, and a serve run
\* with nothing due returns at once.
Begin ==
  /\ due' = Due(age)
  /\ loop' = IF Due(age) = {} /\ mode = "serve" THEN "asleep" ELSE "running"
  /\ spent' = 0
  /\ probed' = Nothing
  /\ pending' = FALSE /\ late' = 0
  /\ UNCHANGED <<mode, tickIn, dataVars, page>>

\* The first run, before the ticker and the server exist.
First == loop = "start" /\ Begin

Wake == loop = "asleep" /\ pending /\ Begin

\* The job of a due module settles, somewhere inside RunJobsLimited.
Probe(m) ==
  /\ loop = "running"
  /\ m \in due /\ probed[m] = None
  /\ probed' = [probed EXCEPT ![m] = 0]
  /\ UNCHANGED <<mode, loop, tickIn, pending, late, spent, due, dataVars, page>>

\* Mutant: Sample.At is read when the run ends.
StampedAtTheEnd == 0

\* Sample.At is the now the run was started with.
Stamp == spent

\* Mutant: the run waits for every entry, not for those it started.
WaitedForAll == \A m \in Modules : probed[m] # None

\* RunJobsLimited returns: module RunContract's Publish.
Waited == \A m \in due : probed[m] # None

\* RunDue's second critical section: one new sample per module that was due.
Store ==
  /\ loop = "running"
  /\ Waited
  /\ age' = [m \in Modules |-> IF m \in due THEN Stamp ELSE age[m]]
  /\ fresh' = [m \in Modules |-> IF m \in due THEN probed[m] ELSE fresh[m]]
  /\ loop' = "merging"
  /\ UNCHANGED <<mode, tickIn, pending, late, spent, due, probed, latest, ready, page>>

\* Mutant: only what just ran contributes.
MergedDueOnly == [m \in Modules |-> IF m \in due THEN age[m] ELSE None]

\* Scheduler.Result: the latest sample of every module.
Merged == age

\* latest is replaced under mu.  serve's ticker is created after the first
\* run and rearms itself; watch goes to sleep for a tick after every run.
Merge ==
  /\ loop = "merging"
  /\ latest' = Merged
  /\ ready' = TRUE
  /\ loop' = "asleep"
  /\ tickIn' = IF mode = "watch" \/ ~ready THEN Tick ELSE tickIn
  /\ due' = {} /\ probed' = Nothing /\ spent' = 0
  /\ UNCHANGED <<mode, pending, late, age, fresh, page>>

\* Mutant: the server is started before the first run.
ListeningAtOnce == mode = "serve"

\* ListenAndServe comes after the first run, so a request never precedes it.
\* /metrics reads latest under mu ...
Listening == mode = "serve" /\ ready

ScrapeLatest ==
  /\ Listening
  /\ page = NoPage
  /\ page' = [page EXCEPT !.shown = latest]
  /\ UNCHANGED <<mode, loopVars, dataVars>>

\* ... and then the ages under the scheduler's lock.
ScrapeAges ==
  /\ page.shown # None /\ page.ages = None
  /\ page' = [page EXCEPT !.ages = age]
  /\ UNCHANGED <<mode, loopVars, dataVars>>

Respond ==
  /\ page.ages # None
  /\ page' = NoPage
  /\ UNCHANGED <<mode, loopVars, dataVars>>

-----------------------------------------------------------------------------
Older(ages) == [m \in Modules |-> IF ages[m] = None THEN None ELSE ages[m] + 1]

\* Mutant: a ticker made with --interval.
RearmedOnInterval == IF mode = "serve" THEN Base ELSE 0

\* A Go ticker goes on; a sleep is over.
Rearmed == IF mode = "serve" THEN Tick ELSE 0

\* One unit of time passes.  A run in progress, a delivered tick and a request
\* bound how far it may.  A tick that finds the channel full is dropped.
Elapse ==
  /\ loop \in {"asleep", "running"}
  /\ page = NoPage
  /\ loop = "running" => spent < MaxRun
  /\ loop = "asleep" /\ pending => late < MaxLatency
  /\ tickIn' = IF tickIn = 1 THEN Rearmed ELSE IF tickIn = 0 THEN 0 ELSE tickIn - 1
  /\ pending' = (pending \/ tickIn = 1)
  /\ late' = IF loop = "asleep" /\ pending THEN late + 1 ELSE 0
  /\ spent' = IF loop = "running" THEN spent + 1 ELSE 0
  /\ age' = Older(age) /\ fresh' = Older(fresh) /\ latest' = Older(latest)
  /\ probed' = Older(probed)
  /\ UNCHANGED <<mode, loop, due, ready, page>>

LoopStep == First \/ Wake \/ Store \/ Merge \/ \E m \in Modules : Probe(m)

Next == LoopStep \/ ScrapeLatest \/ ScrapeAges \/ Respond \/ Elapse

\* Time passes, the loop goroutine is scheduled, checks end by their deadline,
\* and a handler that was entered answers.  Requests come or do not; as they
\* take no time here, no number of them may stop the clock, hence SF.
Fairness ==
  /\ SF_vars(Elapse)
  /\ WF_vars(LoopStep)
  /\ WF_vars(ScrapeAges) /\ WF_vars(Respond)

Spec == Init /\ [][Next]_vars /\ Fairness

-----------------------------------------------------------------------------
Ages == Nat \cup {None}

\* Every variable of the loop, the samples and the served page keeps its type.
TypeOK ==
  /\ mode \in {"serve", "watch"}
  /\ loop \in {"start", "asleep", "running", "merging"}
  /\ tickIn \in 0 .. Tick
  /\ pending \in BOOLEAN /\ ready \in BOOLEAN
  /\ late \in 0 .. MaxLatency /\ spent \in 0 .. MaxRun
  /\ due \subseteq Modules
  /\ \A f \in {age, fresh, latest, probed} : f \in [Modules -> Ages]
  /\ page \in [shown : [Modules -> Ages] \cup {None}, ages : [Modules -> Ages] \cup {None}]

\* An age is never smaller than the real age of the findings it describes:
\* Sample.At is the start of the run that measured them, so an alarm on
\* checkfleet_sample_age_seconds can be early but not late.
AgeIsHonest == \A m \in Modules : age[m] # None => fresh[m] <= age[m]

\* "A module keeps contributing between its runs": whenever the loop sleeps,
\* what is served or shown holds the newest sample of every module, the ones
\* that did not run last time included.
LatestIsComplete ==
  loop = "asleep" => latest = age /\ \A m \in Modules : age[m] # None

\* How stale a module can get: its cadence, plus the shortest cadence in play
\* when the one is not a multiple of the other (or a late wake-up just missed
\* it), plus the run under way, the run that replaces the sample, and the
\* latency of a wake-up.  An --interval of zero, which nothing refuses, makes the
\* modules that follow it due at every wake-up and not sooner.
Cadence(m) == IF every(m) > 0 THEN every(m) ELSE 1

Stalest(m, n) == Cadence(m) + every(n) + 2 * MaxRun + MaxLatency

StalenessBound ==
  \A m, n \in Modules : age[m] # None /\ every(n) >= Second => age[m] < Stalest(m, n)

\* A /metrics page reads the findings and their ages under two locks, and a run
\* may be stored or merged around either.  Both halves cover every module, and
\* the findings are within the staleness bound even when the samples have moved
\* on.  The ages may understate: from the moment a run is stored until it is
\* merged, a page gives its modules the age of that run beside the findings of
\* the one before.  It happens to no other module, and to none by more than one
\* run: an age beyond the length of a run is that of the findings shown.
PageIsComplete ==
  page.ages # None =>
    \A m \in Modules :
      /\ page.shown[m] # None /\ page.ages[m] # None
      /\ \A n \in Modules : every(n) >= Second => page.shown[m] < Stalest(m, n)
      /\ page.ages[m] > MaxRun => page.shown[m] = page.ages[m]

\* What Tick promises: "the shortest cadence in play, so no module waits longer
\* than it asked for" -- a module's sample is never older than its cadence, the
\* latency of the wake-up and the run that replaces it being allowed for.
NoModuleWaitsLonger ==
  \A m \in Modules : age[m] # None => age[m] <= every(m) + 2 * MaxRun + MaxLatency

\* Every module is run again and again: a tick missed because a run was long,
\* or dropped because the channel was full, never stops the loop.
KeepsRunning == \A m \in Modules : []<>(loop = "running" /\ m \in due)
=============================================================================
