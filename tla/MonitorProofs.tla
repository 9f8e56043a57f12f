---------------------------- MODULE MonitorProofs ----------------------------
(***************************************************************************)
(* Proofs about module Monitor, for any number of calls of the frontend,   *)
(* any configurations and any changes of the fleet.                        *)
(***************************************************************************)
EXTENDS Monitor, TLAPS

-----------------------------------------------------------------------------
\* Of any statuses that include OK there is a worst, whatever is muted.
LEMMA WorstExists ==
  ASSUME NEW S, S \subseteq Statuses, S # {}
  PROVE  (CHOOSE s \in S : \A r \in S : statusRank(s) >= statusRank(r)) \in S
<1>1. \A s \in S : s \in {"OK", "WARN", "BAD", "ERROR"}
  BY StatusesAssumption
<1>2. \A s \in S : /\ s = "OK" => statusRank(s) = 0
                   /\ s = "WARN" => statusRank(s) = 1
                   /\ s = "BAD" => statusRank(s) = 2
                   /\ s = "ERROR" => statusRank(s) = 3
  BY DEF statusRank
<1>3. \E s \in S : \A r \in S : statusRank(s) >= statusRank(r)
  <2>1. CASE "ERROR" \in S
    BY <1>1, <1>2, <2>1
  <2>2. CASE "ERROR" \notin S /\ "BAD" \in S
    BY <1>1, <1>2, <2>2
  <2>3. CASE "ERROR" \notin S /\ "BAD" \notin S /\ "WARN" \in S
    BY <1>1, <1>2, <2>3
  <2>4. CASE "ERROR" \notin S /\ "BAD" \notin S /\ "WARN" \notin S
    BY <1>1, <1>2, <2>4
  <2> QED
    BY <2>1, <2>2, <2>3, <2>4
<1> QED
  BY <1>3

\* effectiveWorst says a status.
LEMMA EffectiveWorstIsAStatus ==
  ASSUME NEW c, NEW found \in [Targets -> Statuses]
  PROVE  effectiveWorst(c, found) \in Statuses
<1> DEFINE seen == {"OK"} \cup {found[t] : t \in Counted(c)}
<1>1. seen \subseteq Statuses /\ seen # {}
  BY StatusesAssumption DEF Counted
<1>2. effectiveWorst(c, found) = CHOOSE s \in seen : \A r \in seen : statusRank(s) >= statusRank(r)
  BY DEF effectiveWorst
<1> HIDE DEF seen
<1> QED
  BY <1>1, <1>2, WorstExists

-----------------------------------------------------------------------------
(***************************************************************************)
(* The inductive invariant.                                                *)
(***************************************************************************)
\* Nothing is known of a call that was not made yet.
NothingUnissued ==
  \A k \in Calls : k > issued =>
    call[k] = "none" /\ points[k] = None /\ taken[k] = None /\ loop[k] = "none"

\* Only a StartMonitor installs, and only its context is ever taken.
ContextsOfStarts ==
  \A k \in Calls : /\ call[k] = "install" => points[k] # None
                   /\ taken[k] # None => call[k] = "cancel" /\ points[taken[k]] # None

\* As long as no calls overlapped, one at most is under way.
OneCall == ~overlapped => \A j, k \in Active : j = k

\* As long as no calls overlapped, the loops left running are those of the context that
\* monCancel names, that the call under way took out of it, or none.
LiveIsKnown ==
  ~overlapped =>
    /\ Active = {} => Live \subseteq {monCancel}
    /\ \A k \in Calls : /\ call[k] = "swap" => Live \subseteq {monCancel}
                        /\ call[k] = "cancel" => Live \subseteq {taken[k]}
                        /\ call[k] = "install" => Live = {}

IInv == TypeOK /\ NothingUnissued /\ ContextsOfStarts /\ OneCall /\ LiveIsKnown

\* It holds before the frontend has called.
LEMMA InitIInv == Init => IInv
<1> SUFFICES ASSUME Init PROVE IInv
  OBVIOUS
<1> USE DEF Init
<1>1. TypeOK
  <2>1. 0 \in 0 .. MaxChanges /\ 0 \in 0 .. MaxCalls
    BY ONLY BoundsAssumption
  <2>2. worst \in [Calls -> Statuses \cup {"ERROR"}]
    BY StatusesAssumption
  <2> QED
    BY <2>1, <2>2 DEF TypeOK
<1>2. NothingUnissued /\ ContextsOfStarts /\ OneCall
  BY DEF NothingUnissued, ContextsOfStarts, OneCall, Active
<1>3. LiveIsKnown
  BY DEF LiveIsKnown, Live, Active
<1> QED
  BY <1>1, <1>2, <1>3 DEF IInv

\* How far calls and changes have come.
LEMMA CountersBounded == TypeOK => changes \in 0 .. MaxChanges /\ issued \in 0 .. MaxCalls
BY DEF TypeOK

\* What the monitor watches may change.
LEMMA WorldKeeps == ASSUME IInv, Change \/ SetMutedKeys PROVE IInv'
<1> USE DEF IInv, frontend, loops
<1>0. changes' \in 0 .. MaxChanges
  <2>1. changes \in 0 .. MaxChanges /\ changes < MaxChanges /\ changes' = changes + 1
    BY CountersBounded DEF Change, SetMutedKeys
  <2> QED
    BY ONLY <2>1, BoundsAssumption
<1>1. TypeOK'
  <2>1. CASE Change
    <3>1. muted' \subseteq Configs \X Targets
      BY <2>1 DEF Change, TypeOK
    <3>2. loads' \subseteq Configs
      BY <2>1 DEF Change, TypeOK
    <3>3. fleet' \in [Configs -> [Targets -> Statuses]]
      <4>1. fleet \in [Configs -> [Targets -> Statuses]]
        BY DEF TypeOK
      <4>2. CASE UNCHANGED fleet
        BY <4>1, <4>2
      <4>3. CASE \E c \in Configs, t \in Targets, s \in Statuses : fleet' = [fleet EXCEPT ![c][t] = s]
        <5>1. PICK c \in Configs, t \in Targets, s \in Statuses : fleet' = [fleet EXCEPT ![c][t] = s]
          BY <4>3
        <5>2. fleet[c] \in [Targets -> Statuses]
          BY <4>1
        <5>3. [fleet[c] EXCEPT ![t] = s] \in [Targets -> Statuses]
          BY <5>2
        <5>4. fleet' = [fleet EXCEPT ![c] = [fleet[c] EXCEPT ![t] = s]]
          BY <5>1
        <5> QED
          BY ONLY <4>1, <5>3, <5>4
      <4> QED
        BY <2>1, <4>2, <4>3 DEF Change
    <3> QED
      BY <1>0, <2>1, <3>1, <3>2, <3>3 DEF Change, TypeOK
  <2>2. CASE SetMutedKeys
    <3>1. muted' \subseteq Configs \X Targets
      BY <2>2 DEF SetMutedKeys, TypeOK
    <3> QED
      BY <1>0, <2>2, <3>1 DEF SetMutedKeys, TypeOK
  <2> QED
    BY <2>1, <2>2
<1>2. UNCHANGED <<frontend, monCancel, cancelled, loops>>
  BY DEF Change, SetMutedKeys
<1>3. NothingUnissued' /\ ContextsOfStarts' /\ OneCall' /\ LiveIsKnown'
  BY <1>2 DEF NothingUnissued, ContextsOfStarts, OneCall, LiveIsKnown, Active, Live
<1> QED
  BY <1>1, <1>3 DEF IInv

\* The frontend makes a call.
LEMMA IssueKeeps == ASSUME IInv, Issue PROVE IInv'
<1> USE DEF IInv, Issue, world, loops
<1> DEFINE n == issued + 1
<1>0. issued \in Nat /\ issued < MaxCalls /\ issued' = n
  BY CountersBounded
<1>1. n \in Calls /\ n > issued /\ n \in 0 .. MaxCalls
  BY ONLY <1>0, BoundsAssumption DEF Calls
<1>2. call[n] = "none" /\ points[n] = None /\ taken[n] = None /\ loop[n] = "none"
  BY <1>1 DEF NothingUnissued
<1>3. PICK c \in Configs \cup {None} : points' = [points EXCEPT ![n] = c]
  OBVIOUS
<1>4. /\ call' = [call EXCEPT ![n] = "swap"] /\ overlapped' = (overlapped \/ Active # {})
      /\ UNCHANGED <<world, taken, monCancel, monLast, cancelled, loops>>
  OBVIOUS
<1>5. \A k \in Calls : points[k] # None => points'[k] = points[k]
  BY <1>1, <1>2, <1>3 DEF TypeOK
<1> HIDE DEF n
<1>6. TypeOK'
  <2>1. issued' \in 0 .. MaxCalls /\ overlapped' \in BOOLEAN
    BY <1>0, <1>1, <1>4 DEF TypeOK
  <2>2. points' \in [Calls -> Configs \cup {None}]
    BY <1>1, <1>3 DEF TypeOK
  <2>3. call' \in [Calls -> {"none", "swap", "cancel", "install", "returned"}]
    BY <1>1, <1>4 DEF TypeOK
  <2>4. \A k \in Calls : loop'[k] # "none" => points'[k] # None /\ call'[k] = "returned"
    BY <1>1, <1>2, <1>4, <1>5 DEF TypeOK
  <2>5. monCancel' \in {k \in Calls : points'[k] # None} \cup {None}
        /\ cancelled' \subseteq {k \in Calls : points'[k] # None}
    BY <1>4, <1>5 DEF TypeOK
  <2>6. UNCHANGED <<fleet, loads, muted, changes, taken, monLast, loop, tick, findings, worst>>
    BY <1>4
  <2>7. /\ fleet' \in [Configs -> [Targets -> Statuses]]
        /\ loads' \subseteq Configs /\ muted' \subseteq Configs \X Targets
        /\ changes' \in 0 .. MaxChanges /\ taken' \in [Calls -> Calls \cup {None}]
    BY ONLY <2>6, TypeOK DEF TypeOK
  <2>8. /\ monLast' \in Statuses \cup {"", "ERROR"}
        /\ loop' \in [Calls -> {"none", "run", "evaluate", "record", "select", "ended"}]
        /\ tick' \in [Calls -> BOOLEAN]
        /\ findings' \in [Calls -> [Targets -> Statuses] \cup {None}]
        /\ worst' \in [Calls -> Statuses \cup {"ERROR"}]
    BY ONLY <2>6, TypeOK DEF TypeOK
  <2> QED
    BY ONLY <2>1, <2>2, <2>3, <2>4, <2>5, <2>7, <2>8 DEF TypeOK
<1>7. NothingUnissued'
  <2>1. \A k \in Calls : k > n => k > issued /\ k # n
    BY ONLY <1>0 DEF Calls, n
  <2>2. \A k \in Calls : k # n => call'[k] = call[k] /\ points'[k] = points[k] /\ taken'[k] = taken[k] /\ loop'[k] = loop[k]
    BY <1>3, <1>4 DEF TypeOK
  <2> QED
    BY <1>0, <2>1, <2>2 DEF NothingUnissued
<1>8. ContextsOfStarts'
  <2>1. \A k \in Calls : call'[k] = IF k = n THEN "swap" ELSE call[k]
    BY <1>1, <1>4 DEF TypeOK
  <2>2. \A k \in Calls : taken[k] # None => taken[k] \in Calls
    BY DEF TypeOK
  <2> QED
    BY <1>2, <1>4, <1>5, <2>1, <2>2 DEF ContextsOfStarts
<1>9. ~overlapped' => Active = {} /\ Active' = {n}
  <2>1. \A k \in Calls : call'[k] = IF k = n THEN "swap" ELSE call[k]
    BY <1>1, <1>4 DEF TypeOK
  <2> QED
    BY <1>1, <1>4, <2>1 DEF Active
<1>10. OneCall'
  BY <1>9 DEF OneCall
<1>11. LiveIsKnown'
  <2>1. Live' = Live
    BY <1>4 DEF Live
  <2>2. ~overlapped' => Live' \subseteq {monCancel'}
    BY <1>4, <1>9, <2>1 DEF LiveIsKnown
  <2>3. ~overlapped' => \A k \in Calls : call'[k] \in {"swap", "cancel", "install"} => k = n
    BY <1>9 DEF Active
  <2>4. call'[n] = "swap"
    BY <1>1, <1>4 DEF TypeOK
  <2> QED
    BY <1>9, <2>2, <2>3, <2>4 DEF LiveIsKnown
<1> QED
  BY <1>6, <1>7, <1>8, <1>10, <1>11 DEF IInv

\* StopMonitor takes the context.
LEMMA SwapKeeps == ASSUME IInv, NEW n \in Calls, Swap(n) PROVE IInv'
<1> USE DEF IInv, Swap, world, loops
<1>1. \A k \in Calls : /\ call'[k] = IF k = n THEN "cancel" ELSE call[k]
                       /\ taken'[k] = IF k = n THEN monCancel ELSE taken[k]
  BY DEF TypeOK
<1>2. monCancel \in Calls \cup {None} /\ (monCancel # None => points[monCancel] # None)
  BY DEF TypeOK
<1>3. loop[n] = "none"
  BY DEF TypeOK
<1>4. TypeOK'
  <2>1. taken' \in [Calls -> Calls \cup {None}]
    BY <1>2 DEF TypeOK
  <2>2. call' \in [Calls -> {"none", "swap", "cancel", "install", "returned"}]
    BY DEF TypeOK
  <2>3. \A k \in Calls : loop'[k] # "none" => points'[k] # None /\ call'[k] = "returned"
    BY <1>1, <1>3 DEF TypeOK
  <2> QED
    BY <2>1, <2>2, <2>3 DEF TypeOK
<1>5. NothingUnissued'
  BY <1>1 DEF NothingUnissued
<1>6. ContextsOfStarts'
  BY <1>1, <1>2 DEF ContextsOfStarts
<1>7. Active' = Active /\ Live' = Live
  BY <1>1 DEF Active, Live
<1>8. n \in Active
  BY DEF Active
<1>9. OneCall' /\ LiveIsKnown'
  <2>1. ~overlapped => Live \subseteq {monCancel} /\ Active = {n}
    BY <1>8 DEF LiveIsKnown, OneCall
  <2>2. \A k \in Calls : call'[k] \in {"swap", "cancel", "install"} => k \in Active
    BY <1>7 DEF Active
  <2> QED
    BY <1>1, <1>7, <2>1, <2>2 DEF LiveIsKnown, OneCall
<1> QED
  BY <1>4, <1>5, <1>6, <1>9 DEF IInv

\* StopMonitor cancels what it took.
LEMMA CancelKeeps == ASSUME IInv, NEW n \in Calls, CancelTaken(n) PROVE IInv'
<1> USE DEF IInv, CancelTaken, world, loops
<1>1. \A k \in Calls : /\ call'[k] = IF k = n THEN (IF points[n] # None THEN "install" ELSE "returned") ELSE call[k]
                       /\ taken'[k] = IF k = n THEN None ELSE taken[k]
  BY DEF TypeOK, Continues
<1>2. cancelled \subseteq cancelled' /\ (taken[n] # None => taken[n] \in cancelled')
  BY DEF Cancelled
<1>3. loop[n] = "none"
  BY DEF TypeOK
<1>4. TypeOK'
  <2>1. taken' \in [Calls -> Calls \cup {None}]
    BY DEF TypeOK
  <2>2. call' \in [Calls -> {"none", "swap", "cancel", "install", "returned"}]
    BY DEF TypeOK
  <2>3. cancelled' \subseteq {k \in Calls : points'[k] # None}
    <3>1. cancelled \subseteq {k \in Calls : points[k] # None} /\ taken[n] \in Calls \cup {None}
      BY DEF TypeOK
    <3>2. taken[n] # None => points[taken[n]] # None
      BY DEF ContextsOfStarts
    <3>3. points' = points
      OBVIOUS
    <3>4. cancelled' \subseteq cancelled \cup {taken[n]} /\ (taken[n] = None => cancelled' = cancelled)
      BY DEF Cancelled
    <3> QED
      BY ONLY <3>1, <3>2, <3>3, <3>4
  <2>4. \A k \in Calls : loop'[k] # "none" => points'[k] # None /\ call'[k] = "returned"
    BY <1>1, <1>3 DEF TypeOK
  <2> QED
    BY <2>1, <2>2, <2>3, <2>4 DEF TypeOK
<1>5. NothingUnissued'
  BY <1>1 DEF NothingUnissued
<1>6. ContextsOfStarts'
  BY <1>1 DEF ContextsOfStarts
<1>7. n \in Active /\ Active' \subseteq Active
  BY <1>1 DEF Active
<1>8. Live' \subseteq Live /\ (taken[n] # None => taken[n] \notin Live')
  BY <1>2 DEF Live
<1>9. OneCall' /\ LiveIsKnown'
  <2>1. ~overlapped => Live \subseteq {taken[n]} /\ Active = {n}
    BY <1>7 DEF LiveIsKnown, OneCall
  <2>2. ~overlapped => Live' = {}
    <3>1. None \notin Live'
      BY NoneAssumption DEF Live, Calls
    <3> QED
      BY <1>8, <2>1, <3>1
  <2>3. \A k \in Calls : call'[k] \in {"swap", "cancel", "install"} => k \in Active'
    BY DEF Active
  <2> QED
    BY <1>1, <1>7, <2>1, <2>2, <2>3 DEF LiveIsKnown, OneCall
<1> QED
  BY <1>4, <1>5, <1>6, <1>9 DEF IInv

\* StartMonitor leaves its context and starts its loop.
LEMMA InstallKeeps == ASSUME IInv, NEW n \in Calls, Install(n) PROVE IInv'
<1> USE DEF IInv, Install, world
<1>1. \A k \in Calls : /\ call'[k] = IF k = n THEN "returned" ELSE call[k]
                       /\ loop'[k] = IF k = n THEN "run" ELSE loop[k]
  BY DEF TypeOK
<1>2. points[n] # None
  BY DEF ContextsOfStarts
<1>3. TypeOK'
  <2>1. loop' \in [Calls -> {"none", "run", "evaluate", "record", "select", "ended"}]
    BY DEF TypeOK
  <2>2. call' \in [Calls -> {"none", "swap", "cancel", "install", "returned"}]
    BY DEF TypeOK
  <2>3. monCancel' \in {k \in Calls : points'[k] # None} \cup {None}
    BY <1>2
  <2>4. \A k \in Calls : loop'[k] # "none" => points'[k] # None /\ call'[k] = "returned"
    BY <1>1, <1>2 DEF TypeOK
  <2> QED
    BY <2>1, <2>2, <2>3, <2>4 DEF TypeOK
<1>4. NothingUnissued'
  BY <1>1 DEF NothingUnissued
<1>5. ContextsOfStarts'
  BY <1>1 DEF ContextsOfStarts
<1>6. n \in Active /\ Active' \subseteq Active /\ n \notin Active'
  BY <1>1 DEF Active
<1>7. Live' \subseteq Live \cup {n}
  BY <1>1 DEF Live
<1>8. OneCall' /\ LiveIsKnown'
  <2>1. ~overlapped => Live = {} /\ Active = {n}
    BY <1>6 DEF LiveIsKnown, OneCall
  <2>2. \A k \in Calls : call'[k] \in {"swap", "cancel", "install"} => k \in Active'
    BY DEF Active
  <2> QED
    BY <1>6, <1>7, <2>1, <2>2 DEF LiveIsKnown, OneCall
<1> QED
  BY <1>3, <1>4, <1>5, <1>8 DEF IInv

\* What a loop does by itself touches neither the calls nor monCancel, and never makes a
\* loop that is not running run.
LEMMA LoopStepKeeps ==
  ASSUME IInv, UNCHANGED <<frontend, monCancel, cancelled>>,
         \A k \in Calls : loop'[k] # loop[k] => loop[k] \notin {"none", "ended"}
  PROVE  NothingUnissued' /\ ContextsOfStarts' /\ OneCall' /\ LiveIsKnown'
<1>1. Live' \subseteq Live /\ Active' = Active
  BY DEF Live, Active, frontend
<1>2. OneCall' /\ LiveIsKnown'
  BY <1>1 DEF IInv, OneCall, LiveIsKnown, frontend
<1>3. NothingUnissued' /\ ContextsOfStarts'
  BY DEF IInv, NothingUnissued, ContextsOfStarts, frontend
<1> QED
  BY <1>2, <1>3

\* A tick, and what a loop does on one, keep the invariant.
LEMMA LoopKeeps == ASSUME IInv, NEW n \in Calls, Tick(n) \/ Woken(n) \/ Leave(n) PROVE IInv'
<1> USE DEF IInv, Tick, Woken, Leave, world
<1>1. UNCHANGED <<frontend, monCancel, cancelled>>
  OBVIOUS
<1>2. \A k \in Calls : loop'[k] # loop[k] => loop[k] \notin {"none", "ended"} /\ loop'[k] # "none"
  BY DEF TypeOK
<1>3. TypeOK'
  <2>1. loop' \in [Calls -> {"none", "run", "evaluate", "record", "select", "ended"}]
    BY DEF TypeOK
  <2>2. tick' \in [Calls -> BOOLEAN]
    BY DEF TypeOK
  <2>3. \A k \in Calls : loop'[k] # "none" => points'[k] # None /\ call'[k] = "returned"
    BY <1>2 DEF TypeOK, frontend
  <2> QED
    BY <2>1, <2>2, <2>3 DEF TypeOK, frontend
<1> QED
  BY <1>1, <1>2, <1>3, LoopStepKeeps DEF IInv

\* A sample keeps the invariant.
LEMMA SampleKeeps == ASSUME IInv, NEW n \in Calls, SampleStep(n) PROVE IInv'
<1> USE DEF IInv, SampleStep, Run, Evaluate, Record, world
<1>1. UNCHANGED <<frontend, monCancel, cancelled, tick, fleet, loads, changes, muted>>
  OBVIOUS
<1>2. \A k \in Calls : loop'[k] # loop[k] => loop[k] \notin {"none", "ended"} /\ loop'[k] # "none"
  BY DEF TypeOK
<1>3. TypeOK'
  <2>1. loop' \in [Calls -> {"none", "run", "evaluate", "record", "select", "ended"}]
    BY DEF TypeOK
  <2>2. findings' \in [Calls -> [Targets -> Statuses] \cup {None}]
    <3>1. CASE Run(n)
      <4>1. points[n] \in loads => fleet[points[n]] \in [Targets -> Statuses]
        BY DEF TypeOK
      <4> QED
        BY <3>1, <4>1 DEF TypeOK
    <3>2. CASE Evaluate(n) \/ Record(n)
      BY <3>2 DEF TypeOK
    <3> QED
      BY <3>1, <3>2
  <2>3. worst' \in [Calls -> Statuses \cup {"ERROR"}]
    <3>1. CASE Evaluate(n)
      <4>1. findings[n] # None => effectiveWorst(points[n], findings[n]) \in Statuses
        BY EffectiveWorstIsAStatus DEF TypeOK
      <4> QED
        BY <3>1, <4>1 DEF TypeOK
    <3>2. CASE Run(n)
      BY <3>2 DEF TypeOK
    <3>3. CASE Record(n)
      BY ONLY <3>3, IInv, StatusesAssumption DEF TypeOK, IInv, Record
    <3> QED
      BY <3>1, <3>2, <3>3
  <2>4. monLast' \in Statuses \cup {"", "ERROR"}
    BY DEF TypeOK, Recorded
  <2>5. \A k \in Calls : loop'[k] # "none" => points'[k] # None /\ call'[k] = "returned"
    BY <1>1, <1>2 DEF TypeOK, frontend
  <2> QED
    BY <1>1, <2>1, <2>2, <2>3, <2>4, <2>5 DEF TypeOK, frontend
<1> QED
  BY <1>1, <1>2, <1>3, LoopStepKeeps DEF IInv

\* Every step keeps the invariant.
LEMMA NextKeeps == IInv /\ [Next]_vars => IInv'
<1> SUFFICES ASSUME IInv, [Next]_vars PROVE IInv'
  OBVIOUS
<1>1. CASE Change \/ SetMutedKeys
  BY <1>1, WorldKeeps
<1>2. CASE Issue
  BY <1>2, IssueKeeps
<1>3. ASSUME NEW k \in Calls, CallStep(k) PROVE IInv'
  BY <1>3, SwapKeeps, CancelKeeps, InstallKeeps DEF CallStep
<1>4. ASSUME NEW k \in Calls, Tick(k) \/ Woken(k) \/ Leave(k) PROVE IInv'
  BY <1>4, LoopKeeps
<1>5. ASSUME NEW k \in Calls, SampleStep(k) PROVE IInv'
  BY <1>5, SampleKeeps
<1>6. CASE UNCHANGED vars
  BY <1>6 DEF vars, world, frontend, loops, IInv, TypeOK, NothingUnissued, ContextsOfStarts, OneCall,
     LiveIsKnown, Active, Live
<1> QED
  BY <1>1, <1>2, <1>3, <1>4, <1>5, <1>6 DEF Next, Idle

-----------------------------------------------------------------------------
\* The invariant holds whatever calls, loops, ticks and changes interleave.
THEOREM Invariance == Spec => []IInv
<1>1. Init => IInv
  BY InitIInv
<1>2. IInv /\ [Next]_vars => IInv'
  BY NextKeeps
<1> QED
  BY <1>1, <1>2, PTL DEF Spec

\* Every variable keeps its type, and monCancel never names the context of a stop.
THEOREM TypeCorrect == Spec => []TypeOK
<1>1. IInv => TypeOK
  BY DEF IInv
<1> QED
  BY <1>1, Invariance, PTL

\* "Any prior monitor is stopped first": while no two calls overlap, the loop monCancel
\* can stop is the only one left running, however many starts and stops there were.
THEOREM OneMonitorRuns == Spec => []OneMonitor
<1>1. IInv => OneMonitor
  BY DEF IInv, LiveIsKnown, OneMonitor
<1> QED
  BY <1>1, Invariance, PTL
=============================================================================
