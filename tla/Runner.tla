------------------------------- MODULE Runner -------------------------------
(***************************************************************************)
(* The runner of package engine: RunJobsLimited and runWithRetry.          *)
(*                                                                         *)
(* One goroutine per job.  A goroutine takes a slot of the semaphore       *)
(* channel (when there is a cap), runs its check, retries it while the     *)
(* result holds an ERROR finding and attempts are left, sleeping between   *)
(* attempts WITHOUT giving the slot back, writes its own element of        *)
(* perCheck, and then runs its deferred calls: the slot is released, and   *)
(* wg.Done is called last.  The caller waits for the wait group and        *)
(* flattens perCheck in job order.                                         *)
(*                                                                         *)
(* A check is external here: an attempt ends with any list of findings in  *)
(* Outcomes[j].  The context may be cancelled at any moment.               *)
(***************************************************************************)
EXTENDS Findings, SequencesExt

CONSTANTS NumJobs,   \* len(jobs)
          Retries,   \* Retries[j]: jobs[j].Opts.Retries, which nothing keeps >= 0
          Limits,    \* the values of maxConcurrency a caller may pass
          Outcomes,  \* Outcomes[j]: the lists of findings an attempt may return
          None       \* "no report yet"

Jobs == 1 .. NumJobs

\* What an element of perCheck may hold: nil, or what a check returned.
Lists == {<<>>} \cup UNION {Outcomes[j] : j \in Jobs}

ASSUME NumJobsAssumption  == NumJobs \in Nat
ASSUME RetriesAssumption  == Retries \in [Jobs -> Int]
ASSUME LimitsAssumption   == Limits \subseteq Int
ASSUME NoneAssumption     == None \notin Lists

VARIABLES
  limit,     \* maxConcurrency, fixed for the run
  pc,        \* pc[j]: where the goroutine of job j is
  sem,       \* len(sem): occupied slots (stays 0 when there is no cap)
  attempt,   \* attempt[j]: the loop variable a of runWithRetry
  res,       \* res[j]: the local result of the last finished attempt
  perCheck,  \* the slice the goroutines write and the caller flattens
  wg,        \* the wait group's counter
  spawned,   \* how many jobs the caller's loop has started
  cancelled, \* ctx.Done() is closed
  output     \* Result.Findings once RunJobsLimited has returned, else None

vars == <<limit, pc, sem, attempt, res, perCheck, wg, spawned, cancelled, output>>

capped == limit > 0

\* A goroutine is at one of these points.  "collect" is after the return of
\* runWithRetry, "release" and "exit" are the two deferred calls.
Points == {"none", "acquire", "running", "backoff", "collect", "release", "exit", "done"}

\* Between the send on sem and the receive that undoes it.
Holding == {"running", "backoff", "collect", "release"}

Init ==
  /\ limit \in Limits
  /\ pc = [j \in Jobs |-> "none"]
  /\ sem = 0
  /\ attempt = [j \in Jobs |-> 0]
  /\ res = [j \in Jobs |-> <<>>]
  /\ perCheck = [j \in Jobs |-> <<>>]
  /\ wg = 0
  /\ spawned = 0
  /\ cancelled = FALSE
  /\ output = None

-----------------------------------------------------------------------------
\* The operators named after a slip (SlotFreeOneMore, SleepThrough, ...) are
\* mutants: the bugs the properties below were shown to catch.

\* wg.Add(1); go func ...
Spawn ==
  /\ spawned < NumJobs
  /\ spawned' = spawned + 1
  /\ wg' = wg + 1
  /\ pc' = [pc EXCEPT ![spawned + 1] = "acquire"]
  /\ UNCHANGED <<limit, sem, attempt, res, perCheck, cancelled, output>>

\* sem <- struct{}{} blocks while the channel's buffer is full.
SlotFreeOneMore == capped => sem <= limit
SlotFree == capped => sem < limit

\* With attempts = 1 + Retries <= 0 the loop of runWithRetry has no iteration:
\* the check is never called and the nil result is collected.
Acquire(j) ==
  /\ pc[j] = "acquire"
  /\ SlotFree
  /\ sem' = IF capped THEN sem + 1 ELSE sem
  /\ pc' = [pc EXCEPT ![j] = IF Retries[j] < 0 THEN "collect" ELSE "running"]
  /\ UNCHANGED <<limit, attempt, res, perCheck, wg, spawned, cancelled, output>>

SettledOneEarly(j, a, r) == a + 1 >= Retries[j] \/ ~hasError(r)

\* The loop leaves after a result r of attempt a: last attempt, or no ERROR.
Settled(j, a, r) == a = Retries[j] \/ ~hasError(r)

\* c.Run(cctx) returns, by itself or because the per-attempt deadline or the
\* cancellation of ctx ended it.
EndAttempt(j) ==
  /\ pc[j] = "running"
  /\ \E r \in Outcomes[j] :
       /\ res' = [res EXCEPT ![j] = r]
       /\ pc' = [pc EXCEPT ![j] = IF Settled(j, attempt[j], r) THEN "collect" ELSE "backoff"]
  /\ UNCHANGED <<limit, sem, attempt, perCheck, wg, spawned, cancelled, output>>

\* The select: time.After fires.  With both channels ready select picks
\* either, so this may still happen after the context was cancelled.
BackoffElapsed(j) ==
  /\ pc[j] = "backoff"
  /\ attempt' = [attempt EXCEPT ![j] = @ + 1]
  /\ pc' = [pc EXCEPT ![j] = "running"]
  /\ UNCHANGED <<limit, sem, res, perCheck, wg, spawned, cancelled, output>>

\* The select: ctx.Done() is closed; the last result is returned as it is.
SleepThrough(j) == FALSE
Interrupted(j) == pc[j] = "backoff" /\ cancelled

BackoffCancelled(j) ==
  /\ Interrupted(j)
  /\ pc' = [pc EXCEPT ![j] = "collect"]
  /\ UNCHANGED <<limit, sem, attempt, res, perCheck, wg, spawned, cancelled, output>>

\* perCheck[i] = ...
StoredAtLoopVariable(j) == [perCheck EXCEPT ![spawned] = res[j]]
Stored(j) == [perCheck EXCEPT ![j] = res[j]]

Collect(j) ==
  /\ pc[j] = "collect"
  /\ perCheck' = Stored(j)
  /\ pc' = [pc EXCEPT ![j] = "release"]
  /\ UNCHANGED <<limit, sem, attempt, res, wg, spawned, cancelled, output>>

\* Deferred calls run last-in first-out: the slot first, then wg.Done.
ReleasedAlways == sem - 1
ReleasedNever == sem
Released == IF capped THEN sem - 1 ELSE sem

Release(j) ==
  /\ pc[j] = "release"
  /\ sem' = Released
  /\ pc' = [pc EXCEPT ![j] = "exit"]
  /\ UNCHANGED <<limit, attempt, res, perCheck, wg, spawned, cancelled, output>>

Exit(j) ==
  /\ pc[j] = "exit"
  /\ wg' = wg - 1
  /\ pc' = [pc EXCEPT ![j] = "done"]
  /\ UNCHANGED <<limit, sem, attempt, res, perCheck, spawned, cancelled, output>>

\* The flatten loop, Dedup and SortFindings.
Assembled(lists) == Report(FlattenSeq(lists))

\* wg.Wait() returns and the report is made.
Finish ==
  /\ output = None
  /\ spawned = NumJobs
  /\ wg = 0
  /\ output' = Assembled(perCheck)
  /\ UNCHANGED <<limit, pc, sem, attempt, res, perCheck, wg, spawned, cancelled>>

\* The caller's context is cancelled.
Cancel ==
  /\ ~cancelled
  /\ cancelled' = TRUE
  /\ UNCHANGED <<limit, pc, sem, attempt, res, perCheck, wg, spawned, output>>

\* RunJobsLimited has returned: nothing is left to happen.
Returned == output # None /\ UNCHANGED vars

Step(j) ==
  \/ Acquire(j) \/ EndAttempt(j) \/ BackoffElapsed(j) \/ BackoffCancelled(j)
  \/ Collect(j) \/ Release(j) \/ Exit(j)

Next == Spawn \/ Finish \/ Cancel \/ Returned \/ \E j \in Jobs : Step(j)

\* The Go scheduler runs every runnable goroutine, and checks honour their
\* deadline, so every enabled step but two is eventually taken.  Cancelling is
\* the caller's choice, and a backoff may be arbitrarily long: the properties
\* below say which of them need the timer to fire.
Fairness ==
  /\ WF_vars(Spawn)
  /\ WF_vars(Finish)
  /\ \A j \in Jobs :
       /\ WF_vars(Acquire(j))
       /\ WF_vars(EndAttempt(j) \/ BackoffCancelled(j) \/ Collect(j) \/ Release(j) \/ Exit(j))

Spec == Init /\ [][Next]_vars /\ Fairness

-----------------------------------------------------------------------------
\* Every variable keeps its type: the counters of the semaphore, of the wait
\* group and of the attempts of RunJobsLimited stay in their ranges.
TypeOK ==
  /\ limit \in Limits
  /\ pc \in [Jobs -> Points]
  /\ sem \in 0 .. NumJobs
  /\ attempt \in [Jobs -> Nat]
  /\ \A j \in Jobs : attempt[j] = 0 \/ attempt[j] <= Retries[j]
  /\ res \in [Jobs -> Lists] /\ perCheck \in [Jobs -> Lists]
  /\ wg \in 0 .. NumJobs
  /\ spawned \in 0 .. NumJobs
  /\ cancelled \in BOOLEAN

HoldingJobs == {j \in Jobs : pc[j] \in Holding}

\* "capping the number running at once to maxConcurrency": with a positive
\* limit, never more than limit goroutines are between taking their slot and
\* giving it back -- a job that sleeps between two attempts counts.
CapRespected == limit > 0 => Cardinality(HoldingJobs) <= limit

\* A job settles for an ERROR result only when it has used every attempt it was
\* given or the context was cancelled: a transient is never reported early.
ErrorIsFinal ==
  \A j \in Jobs : pc[j] \in {"collect", "release", "exit", "done"} =>
    ~hasError(res[j]) \/ attempt[j] = Retries[j] \/ cancelled

\* "Results are collected per-job by index and flattened in job order, so the
\* output is deterministic regardless of completion order": the report of a run
\* is the one RunContract allows, made once, of one verdict per job, after
\* every goroutine has written its own element of perCheck.
Contract == INSTANCE RunContract WITH
  Outcomes <- [j \in Jobs |-> IF Retries[j] < 0 THEN {<<>>} ELSE Outcomes[j]],
  Assemble <- Assembled,
  verdict <- [j \in Jobs |-> IF pc[j] \in {"release", "exit", "done"} THEN perCheck[j] ELSE None],
  report  <- output
RunsToContract == Contract!Spec

TimersFire == \A j \in Jobs : WF_vars(BackoffElapsed(j))

\* A run always ends: no cap, however small, leaves a job waiting for a slot
\* for ever, provided the backoff timers fire.
Terminates == TimersFire => <>(output # None)

\* A cancelled run ends even if its backoff timers never fire: the select on
\* ctx.Done() gets every sleeping job out, and the jobs queued for its slot in.
CancelEndsRun == cancelled ~> (output # None)
=============================================================================
