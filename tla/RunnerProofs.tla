---------------------------- MODULE RunnerProofs ----------------------------
(***************************************************************************)
(* The runner's invariants and its contract, for any number of jobs, any   *)
(* retries, any cap and any checks.                                        *)
(***************************************************************************)
EXTENDS Runner, FiniteSetTheorems, TLAPS

Settling == {"collect", "release", "exit", "done"}
Written == {"release", "exit", "done"}
LiveJobs == {j \in Jobs : pc[j] \notin {"none", "done"}}

\* The channel holds one token per goroutine inside its slot.
SemCounts ==
  /\ sem = IF capped THEN Cardinality(HoldingJobs) ELSE 0
  /\ capped => sem <= limit

\* The wait group counts the goroutines that were started and have not ended,
\* and they are started in job order.
WgCounts ==
  /\ wg = Cardinality(LiveJobs)
  /\ \A j \in Jobs : pc[j] = "none" <=> j > spawned

\* What a goroutine has done by the time it is at each point.
Progress ==
  \A j \in Jobs :
    /\ pc[j] \in {"running", "backoff"} => 0 <= Retries[j] /\ attempt[j] <= Retries[j]
    /\ pc[j] = "backoff" => attempt[j] < Retries[j] /\ res[j] \in Outcomes[j]
    /\ pc[j] \in {"none", "acquire"} => res[j] = <<>> /\ attempt[j] = 0
    /\ pc[j] \in Settling => res[j] \in IF Retries[j] < 0 THEN {<<>>} ELSE Outcomes[j]
    /\ pc[j] \in Written => perCheck[j] = res[j]

\* A report is made only when every goroutine has called wg.Done.
Complete == output # None => \A j \in Jobs : pc[j] = "done"

\* The inductive invariant.
IInv == TypeOK /\ SemCounts /\ WgCounts /\ Progress /\ ErrorIsFinal /\ Complete

-----------------------------------------------------------------------------
\* Sets of jobs are finite, and one goroutine entering or leaving such a set
\* changes its cardinality by one.
LEMMA JobSets ==
  ASSUME NEW S \in SUBSET Jobs
  PROVE  IsFiniteSet(S) /\ Cardinality(S) \in 0 .. NumJobs
<1>1. IsFiniteSet(Jobs) /\ Cardinality(Jobs) = NumJobs
  BY FS_Interval, NumJobsAssumption DEF Jobs
<1>2. IsFiniteSet(S) /\ Cardinality(S) <= Cardinality(Jobs)
  BY <1>1, FS_Subset
<1>3. Cardinality(S) \in Nat
  BY <1>2, FS_CardinalityType
<1> QED  BY <1>1, <1>2, <1>3, NumJobsAssumption

LEMMA JobEnters ==
  ASSUME NEW S \in SUBSET Jobs, NEW j \in Jobs, j \notin S
  PROVE  Cardinality(S \cup {j}) = Cardinality(S) + 1
BY JobSets, FS_AddElement

LEMMA JobLeaves ==
  ASSUME NEW S \in SUBSET Jobs, NEW j \in S
  PROVE  Cardinality(S \ {j}) = Cardinality(S) - 1
BY JobSets, FS_RemoveElement

\* The invariant holds when RunJobsLimited starts.
LEMMA InitIInv == Init => IInv
<1> SUFFICES ASSUME Init PROVE IInv
  OBVIOUS
<1> USE NumJobsAssumption, RetriesAssumption, LimitsAssumption
<1>1. HoldingJobs = {} /\ LiveJobs = {}
  BY DEF Init, HoldingJobs, LiveJobs, Holding
<1>2. Cardinality(HoldingJobs) = 0 /\ Cardinality(LiveJobs) = 0
  BY <1>1, FS_EmptySet
<1>3. TypeOK
  <2>1. <<>> \in Lists
    BY DEF Lists
  <2>2. res \in [Jobs -> Lists] /\ perCheck \in [Jobs -> Lists]
    BY <2>1 DEF Init
  <2>3. pc \in [Jobs -> Points] /\ attempt \in [Jobs -> Nat] /\ \A j \in Jobs : attempt[j] = 0
    BY DEF Init, Points
  <2>4. sem \in 0 .. NumJobs /\ wg \in 0 .. NumJobs /\ spawned \in 0 .. NumJobs
    BY DEF Init
  <2>5. limit \in Limits /\ cancelled \in BOOLEAN
    BY DEF Init
  <2> QED  BY <2>2, <2>3, <2>4, <2>5 DEF TypeOK
<1>4. SemCounts /\ WgCounts
  BY <1>2 DEF Init, SemCounts, WgCounts, capped, Jobs
<1>5. Progress /\ ErrorIsFinal /\ Complete
  BY DEF Init, Progress, ErrorIsFinal, Complete, Settling, Written
<1> QED  BY <1>3, <1>4, <1>5 DEF IInv

\* A step that leaves every goroutine on its side of the two borders the
\* counters watch leaves the counters right.
LEMMA CountersKept ==
  ASSUME IInv, NEW j \in Jobs, NEW p, pc' = [pc EXCEPT ![j] = p],
         pc[j] \notin {"none", "done"}, p \notin {"none", "done"},
         pc[j] \in Holding <=> p \in Holding,
         UNCHANGED <<limit, sem, wg, spawned>>
  PROVE  SemCounts' /\ WgCounts'
<1>1. HoldingJobs' = HoldingJobs /\ LiveJobs' = LiveJobs
  BY DEF IInv, TypeOK, HoldingJobs, LiveJobs
<1>2. \A k \in Jobs : pc'[k] = "none" <=> pc[k] = "none"
  BY DEF IInv, TypeOK
<1> QED  BY <1>1, <1>2 DEF IInv, SemCounts, WgCounts, capped

LEMMA SpawnIInv == ASSUME IInv, Spawn PROVE IInv'
<1> USE NumJobsAssumption, RetriesAssumption, LimitsAssumption
<1> DEFINE j == spawned + 1
<1>1. j \in Jobs /\ pc[j] = "none" /\ pc'[j] = "acquire"
  BY DEF IInv, TypeOK, WgCounts, Spawn, Jobs
<1>2. HoldingJobs' = HoldingJobs /\ LiveJobs' = LiveJobs \cup {j} /\ j \notin LiveJobs
  BY <1>1 DEF IInv, TypeOK, Spawn, HoldingJobs, LiveJobs, Holding
<1>3. Cardinality(LiveJobs') = Cardinality(LiveJobs) + 1 /\ Cardinality(LiveJobs') \in 0 .. NumJobs
  <2>1. LiveJobs \in SUBSET Jobs /\ LiveJobs' \in SUBSET Jobs
    BY DEF LiveJobs, Jobs
  <2> HIDE DEF j
  <2> QED  BY <1>1, <1>2, <2>1, JobEnters, JobSets
<1>4. WgCounts'
  <2>1. \A k \in Jobs : pc'[k] = "none" <=> k > spawned'
    BY <1>1 DEF IInv, TypeOK, WgCounts, Spawn, Jobs
  <2> QED  BY <1>3, <2>1 DEF IInv, WgCounts, Spawn
<1>5. SemCounts'
  BY <1>2 DEF IInv, SemCounts, Spawn, capped
<1>6. TypeOK'
  BY <1>1, <1>3, <1>4 DEF IInv, TypeOK, Spawn, Points, WgCounts
<1>7. Progress' /\ ErrorIsFinal' /\ Complete'
  BY <1>1 DEF IInv, TypeOK, Progress, ErrorIsFinal, Complete, Spawn, Settling, Written
<1> QED  BY <1>4, <1>5, <1>6, <1>7 DEF IInv

LEMMA AcquireIInv == ASSUME IInv, NEW j \in Jobs, Acquire(j) PROVE IInv'
<1> USE NumJobsAssumption, RetriesAssumption, LimitsAssumption
<1>1. pc[j] = "acquire" /\ pc'[j] \in {"running", "collect"}
  BY DEF IInv, TypeOK, Acquire
<1>2. HoldingJobs' = HoldingJobs \cup {j} /\ j \notin HoldingJobs /\ LiveJobs' = LiveJobs
  BY <1>1 DEF IInv, TypeOK, Acquire, HoldingJobs, LiveJobs, Holding
<1>3. Cardinality(HoldingJobs') = Cardinality(HoldingJobs) + 1 /\ Cardinality(HoldingJobs') \in 0 .. NumJobs
  <2>1. HoldingJobs \in SUBSET Jobs /\ HoldingJobs' \in SUBSET Jobs
    BY DEF HoldingJobs, Jobs
  <2> QED  BY <1>2, <2>1, JobEnters, JobSets
<1>4. SemCounts'
  BY <1>3 DEF IInv, TypeOK, SemCounts, Acquire, SlotFree, capped
<1>5. WgCounts'
  BY <1>1, <1>2 DEF IInv, TypeOK, WgCounts, Acquire
<1>6. TypeOK'
  BY <1>3, <1>4 DEF IInv, TypeOK, Acquire, Points, SemCounts
<1>7. Progress'
  <2>1. res[j] = <<>> /\ attempt[j] = 0 /\ Retries[j] \in Int
    BY <1>1 DEF IInv, Progress
  <2>2. pc' = [pc EXCEPT ![j] = IF Retries[j] < 0 THEN "collect" ELSE "running"]
        /\ UNCHANGED <<attempt, res, perCheck>>
    BY DEF Acquire
  <2> QED  BY <2>1, <2>2 DEF IInv, TypeOK, Progress, Settling, Written
<1>8. ErrorIsFinal'
  <2>1. ~hasError(res[j])
    BY <1>1 DEF IInv, Progress, hasError
  <2> QED  BY <2>1 DEF IInv, TypeOK, ErrorIsFinal, Acquire
<1>9. Complete'
  BY <1>1 DEF IInv, Complete, Acquire
<1> QED  BY <1>4, <1>5, <1>6, <1>7, <1>8, <1>9 DEF IInv

LEMMA EndAttemptIInv == ASSUME IInv, NEW j \in Jobs, EndAttempt(j) PROVE IInv'
<1> USE NumJobsAssumption, RetriesAssumption, LimitsAssumption
<1> DEFINE p == pc'[j]
<1>1. pc[j] = "running" /\ p \in {"collect", "backoff"} /\ pc' = [pc EXCEPT ![j] = p]
  BY DEF IInv, TypeOK, EndAttempt
<1>2. SemCounts' /\ WgCounts'
  BY <1>1, CountersKept DEF EndAttempt, Holding
<1>3. TypeOK'
  BY DEF IInv, TypeOK, EndAttempt, Points, Lists
<1>4. PICK r \in Outcomes[j] : res' = [res EXCEPT ![j] = r]
  BY DEF EndAttempt
<1>5. IF Settled(j, attempt[j], r) THEN p = "collect" ELSE p = "backoff"
  BY <1>4 DEF IInv, TypeOK, EndAttempt
<1>6. Retries[j] >= 0 /\ attempt[j] \in Nat /\ attempt[j] <= Retries[j] /\ attempt' = attempt
  BY <1>1 DEF IInv, TypeOK, Progress, EndAttempt
<1>7. p = "backoff" => attempt[j] < Retries[j]
  BY <1>5, <1>6 DEF Settled
<1>8. Progress'
  <2>1. SUFFICES ASSUME NEW k \in Jobs, k # j
        PROVE  pc'[k] = pc[k] /\ res'[k] = res[k] /\ attempt'[k] = attempt[k] /\ perCheck'[k] = perCheck[k]
    <3>1. pc'[j] = p /\ res'[j] = r /\ attempt'[j] = attempt[j]
      BY <1>4, <1>6 DEF IInv, TypeOK
    <3> QED  BY <1>1, <1>6, <1>7, <3>1 DEF IInv, Progress, Settling, Written
  <2>2. perCheck' = perCheck
    BY DEF EndAttempt
  <2>3. pc'[k] = pc[k] /\ res'[k] = res[k]
    <3> HIDE DEF p
    <3> QED  BY <1>1, <1>4, <2>1 DEF IInv, TypeOK
  <2> QED  BY <1>6, <2>2, <2>3
<1>9. ErrorIsFinal'
  BY <1>1, <1>4, <1>5, <1>6 DEF IInv, TypeOK, ErrorIsFinal, EndAttempt, Settled
<1>10. Complete'
  BY <1>1 DEF IInv, Complete, EndAttempt
<1> QED  BY <1>2, <1>3, <1>8, <1>9, <1>10 DEF IInv

LEMMA BackoffIInv ==
  ASSUME IInv, NEW j \in Jobs, BackoffElapsed(j) \/ BackoffCancelled(j)
  PROVE  IInv'
<1> USE NumJobsAssumption, RetriesAssumption, LimitsAssumption
<1> DEFINE p == pc'[j]
<1>1. pc[j] = "backoff" /\ p \in {"running", "collect"} /\ pc' = [pc EXCEPT ![j] = p]
  BY DEF IInv, TypeOK, BackoffElapsed, BackoffCancelled, Interrupted
<1>2. SemCounts' /\ WgCounts'
  BY <1>1, CountersKept DEF BackoffElapsed, BackoffCancelled, Holding
<1>3. TypeOK'
  <2>1. Retries[j] \in Int /\ attempt[j] \in Nat /\ attempt[j] + 1 <= Retries[j]
    BY <1>1 DEF IInv, TypeOK, Progress
  <2>2. attempt' \in [Jobs -> Nat] /\ \A k \in Jobs : attempt'[k] = 0 \/ attempt'[k] <= Retries[k]
    BY <2>1 DEF IInv, TypeOK, BackoffElapsed, BackoffCancelled
  <2> QED  BY <1>1, <2>2 DEF IInv, TypeOK, BackoffElapsed, BackoffCancelled, Points
<1>4. Progress' /\ ErrorIsFinal' /\ Complete'
  BY DEF IInv, TypeOK, Progress, ErrorIsFinal, Complete, BackoffElapsed, BackoffCancelled,
         Interrupted, Settling, Written
<1> QED  BY <1>2, <1>3, <1>4 DEF IInv

LEMMA CollectIInv == ASSUME IInv, NEW j \in Jobs, Collect(j) PROVE IInv'
<1>1. pc[j] = "collect" /\ pc' = [pc EXCEPT ![j] = "release"]
  BY DEF Collect
<1>2. SemCounts' /\ WgCounts'
  BY <1>1, CountersKept DEF Collect, Holding
<1>3. TypeOK'
  BY DEF IInv, TypeOK, Collect, Stored, Points
<1>4. Progress' /\ ErrorIsFinal' /\ Complete'
  BY DEF IInv, TypeOK, Progress, ErrorIsFinal, Complete, Collect, Stored, Settling, Written
<1> QED  BY <1>2, <1>3, <1>4 DEF IInv

LEMMA ReleaseIInv == ASSUME IInv, NEW j \in Jobs, Release(j) PROVE IInv'
<1> USE NumJobsAssumption, LimitsAssumption
<1>1. pc[j] = "release" /\ pc'[j] = "exit"
  BY DEF IInv, TypeOK, Release
<1>2. HoldingJobs' = HoldingJobs \ {j} /\ j \in HoldingJobs /\ LiveJobs' = LiveJobs
  BY <1>1 DEF IInv, TypeOK, Release, HoldingJobs, LiveJobs, Holding
<1>3. Cardinality(HoldingJobs') = Cardinality(HoldingJobs) - 1 /\ Cardinality(HoldingJobs') \in 0 .. NumJobs
  <2>1. HoldingJobs \in SUBSET Jobs /\ HoldingJobs' \in SUBSET Jobs
    BY DEF HoldingJobs, Jobs
  <2> QED  BY <1>2, <2>1, JobLeaves, JobSets
<1>4. SemCounts'
  BY <1>3 DEF IInv, TypeOK, SemCounts, Release, Released, capped
<1>5. WgCounts'
  BY <1>1, <1>2 DEF IInv, TypeOK, WgCounts, Release
<1>6. TypeOK'
  BY <1>3, <1>4 DEF IInv, TypeOK, Release, Points, SemCounts
<1>7. Progress' /\ ErrorIsFinal' /\ Complete'
  BY DEF IInv, TypeOK, Progress, ErrorIsFinal, Complete, Release, Settling, Written
<1> QED  BY <1>4, <1>5, <1>6, <1>7 DEF IInv

LEMMA ExitIInv == ASSUME IInv, NEW j \in Jobs, Exit(j) PROVE IInv'
<1> USE NumJobsAssumption
<1>1. pc[j] = "exit" /\ pc'[j] = "done"
  BY DEF IInv, TypeOK, Exit
<1>2. HoldingJobs' = HoldingJobs /\ LiveJobs' = LiveJobs \ {j} /\ j \in LiveJobs
  BY <1>1 DEF IInv, TypeOK, Exit, HoldingJobs, LiveJobs, Holding
<1>3. Cardinality(LiveJobs') = Cardinality(LiveJobs) - 1 /\ Cardinality(LiveJobs') \in 0 .. NumJobs
  <2>1. LiveJobs \in SUBSET Jobs /\ LiveJobs' \in SUBSET Jobs
    BY DEF LiveJobs, Jobs
  <2> QED  BY <1>2, <2>1, JobLeaves, JobSets
<1>4. WgCounts'
  BY <1>1, <1>3 DEF IInv, TypeOK, WgCounts, Exit
<1>5. SemCounts'
  BY <1>2 DEF IInv, SemCounts, Exit, capped
<1>6. TypeOK'
  BY <1>3, <1>4 DEF IInv, TypeOK, Exit, Points, WgCounts
<1>7. Progress' /\ ErrorIsFinal' /\ Complete'
  BY DEF IInv, TypeOK, Progress, ErrorIsFinal, Complete, Exit, Settling, Written
<1> QED  BY <1>4, <1>5, <1>6, <1>7 DEF IInv

\* When the wait group is at zero after the last job was started, every
\* goroutine has ended: what makes the read of perCheck safe.
LEMMA WaitIsEnough ==
  ASSUME IInv, spawned = NumJobs, wg = 0
  PROVE  \A j \in Jobs : pc[j] = "done"
<1>1. LiveJobs = {}
  <2>1. IsFiniteSet(LiveJobs) /\ Cardinality(LiveJobs) = 0
    BY JobSets DEF IInv, WgCounts, LiveJobs
  <2> QED  BY <2>1, FS_EmptySet
<1>2. \A j \in Jobs : pc[j] # "none"
  BY NumJobsAssumption DEF IInv, WgCounts, Jobs
<1> QED  BY <1>1, <1>2 DEF LiveJobs

LEMMA CallerIInv == ASSUME IInv, Finish \/ Cancel \/ UNCHANGED vars PROVE IInv'
<1>1. UNCHANGED <<limit, pc, sem, attempt, res, perCheck, wg, spawned>>
  BY DEF Finish, Cancel, vars
<1>2. HoldingJobs' = HoldingJobs /\ LiveJobs' = LiveJobs
  BY <1>1 DEF HoldingJobs, LiveJobs
<1>3. TypeOK' /\ SemCounts' /\ WgCounts' /\ Progress'
  BY <1>1, <1>2 DEF IInv, TypeOK, SemCounts, WgCounts, Progress, capped, Finish, Cancel, vars
<1>4. ErrorIsFinal'
  BY <1>1 DEF IInv, ErrorIsFinal, Finish, Cancel, vars
<1>5. Complete'
  BY <1>1, WaitIsEnough DEF IInv, Complete, Finish, Cancel, vars
<1> QED  BY <1>3, <1>4, <1>5 DEF IInv

LEMMA NextIInv == IInv /\ [Next]_vars => IInv'
<1> SUFFICES ASSUME IInv, [Next]_vars PROVE IInv'
  OBVIOUS
<1>1. CASE Spawn
  BY <1>1, SpawnIInv
<1>2. CASE Finish \/ Cancel \/ Returned \/ UNCHANGED vars
  BY <1>2, CallerIInv DEF Returned
<1>3. CASE \E j \in Jobs : Step(j)
  BY <1>3, AcquireIInv, EndAttemptIInv, BackoffIInv, CollectIInv, ReleaseIInv, ExitIInv DEF Step
<1> QED  BY <1>1, <1>2, <1>3 DEF Next

-----------------------------------------------------------------------------
\* IInv is an invariant of the runner.
THEOREM Invariance == Spec => []IInv
BY InitIInv, NextIInv, PTL DEF Spec

\* Type correctness of RunJobsLimited's state, for any jobs, retries and caps.
THEOREM TypeCorrect == Spec => []TypeOK
BY Invariance, PTL DEF IInv

\* maxConcurrency is respected, whatever the jobs and their retries: the number
\* of goroutines inside their slot is the number of tokens in the channel.
THEOREM CapHolds == Spec => []CapRespected
<1>1. IInv => CapRespected
  BY DEF IInv, SemCounts, CapRespected, capped
<1> QED  BY <1>1, Invariance, PTL

\* runWithRetry never settles for an ERROR while it has an attempt left and the
\* context lives.
THEOREM ErrorsAreFinal == Spec => []ErrorIsFinal
BY Invariance, PTL DEF IInv

-----------------------------------------------------------------------------
\* The slice as the contract sees it: what was written, None before.
Verdicts == [j \in Jobs |-> IF pc[j] \in Written THEN perCheck[j] ELSE None]

LEMMA InitContract == Init => Contract!Init
BY DEF Init, Contract!Init, Contract!Jobs, Jobs

\* Writing perCheck[j] is the contract's Settle(j): the element was None
\* before, and the list is one the check could return.
LEMMA CollectSettles == ASSUME IInv, NEW j \in Jobs, Collect(j) PROVE Contract!Settle(j)
<1> DEFINE legal == [k \in Jobs |-> IF Retries[k] < 0 THEN {<<>>} ELSE Outcomes[k]]
<1>1. pc[j] = "collect" /\ pc' = [pc EXCEPT ![j] = "release"]
      /\ perCheck' = [perCheck EXCEPT ![j] = res[j]] /\ output' = output
  BY DEF Collect, Stored
<1>2. res[j] \in legal[j]
  BY <1>1 DEF IInv, Progress, Settling
<1>3. Verdicts[j] = None /\ Verdicts' = [Verdicts EXCEPT ![j] = res[j]]
  BY <1>1 DEF IInv, TypeOK, Verdicts, Written
<1> QED  BY <1>1, <1>2, <1>3 DEF Contract!Settle, Verdicts, Written

\* The read of perCheck is the contract's Publish: every job has a verdict, so
\* the slice is exactly the verdicts.
LEMMA FinishPublishes == ASSUME IInv, Finish PROVE Contract!Publish
<1>1. \A j \in Jobs : pc[j] = "done"
  BY WaitIsEnough DEF Finish
<1>2. Verdicts = perCheck /\ \A j \in Jobs : Verdicts[j] # None
  BY <1>1, NoneAssumption DEF IInv, TypeOK, Verdicts, Written
<1>3. Verdicts' = Verdicts
  BY DEF Finish, Verdicts
<1> QED  BY <1>2, <1>3 DEF Finish, Contract!Publish, Contract!Jobs, Jobs, Verdicts, Written

\* Every other step of a goroutine leaves the verdicts and the report alone.
LEMMA OthersStutter ==
  ASSUME IInv, Spawn \/ Cancel \/ Returned \/ UNCHANGED vars
               \/ \E j \in Jobs : \/ Acquire(j) \/ EndAttempt(j) \/ BackoffElapsed(j)
                                 \/ BackoffCancelled(j) \/ Release(j) \/ Exit(j)
  PROVE  UNCHANGED <<Verdicts, output>>
<1>1. perCheck' = perCheck /\ output' = output
  BY DEF Spawn, Cancel, Returned, vars, Acquire, EndAttempt, BackoffElapsed, BackoffCancelled, Release, Exit
<1>2. \A j \in Jobs : pc'[j] \in Written <=> pc[j] \in Written
  <2>1. CASE Spawn
    BY <2>1, NumJobsAssumption DEF Spawn, IInv, TypeOK, WgCounts, Jobs, Written
  <2>2. CASE Cancel \/ Returned \/ UNCHANGED vars
    BY <2>2 DEF Cancel, Returned, vars
  <2>3. ASSUME NEW j \in Jobs,
               \/ Acquire(j) \/ EndAttempt(j) \/ BackoffElapsed(j)
               \/ BackoffCancelled(j) \/ Release(j) \/ Exit(j)
        PROVE  \A k \in Jobs : pc'[k] \in Written <=> pc[k] \in Written
    BY <2>3 DEF Acquire, EndAttempt, BackoffElapsed, BackoffCancelled, Interrupted, Release, Exit,
                IInv, TypeOK, Written
  <2> QED  BY <2>1, <2>2, <2>3
<1> QED  BY <1>1, <1>2 DEF Verdicts

\* The runner implements its contract: one verdict per job, one report, made
\* of all of them in job order, whatever the interleaving, the cap, the
\* retries and the moment of a cancellation.
THEOREM Refinement == Spec => RunsToContract
<1>1. IInv /\ [Next]_vars => [Contract!Next]_(Contract!vars)
  <2> SUFFICES ASSUME IInv, [Next]_vars PROVE [Contract!Next]_(Contract!vars)
    OBVIOUS
  <2>1. CASE Finish
    BY <2>1, FinishPublishes DEF Contract!Next
  <2>2. ASSUME NEW j \in Jobs, Collect(j) PROVE Contract!Next
    BY <2>2, CollectSettles DEF Contract!Next, Contract!Jobs, Jobs
  <2>3. ASSUME UNCHANGED <<Verdicts, output>> PROVE UNCHANGED Contract!vars
    BY <2>3 DEF Verdicts, Written, Contract!vars
  <2> QED  BY <2>1, <2>2, <2>3, OthersStutter DEF Next, Step
<1> QED  BY <1>1, InitContract, Invariance, PTL DEF Spec, RunsToContract, Contract!Spec
=============================================================================
