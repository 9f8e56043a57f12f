------------------------------- MODULE Monitor -------------------------------
(***************************************************************************)
(* The desktop application's background monitor: StartMonitor,             *)
(* StopMonitor, monitorLoop, sample.                                       *)
(*                                                                         *)
(* The frontend calls the bound Go methods without waiting for them, and   *)
(* each call runs in a goroutine of its own.  StartMonitor number k starts *)
(* loop k under context k; the fields monCancel and monLast are each read  *)
(* and written under monMu, one critical section per step here.            *)
(*                                                                         *)
(* A run of the fleet sees every target of the loop's configuration at     *)
(* one moment; the fleet, the mutes and the configuration file may change  *)
(* before and after.  A local of a goroutine is forgotten after its last   *)
(* use.                                                                    *)
(***************************************************************************)
EXTENDS Integers, FiniteSets

CONSTANTS Configs,    \* configuration files the user may monitor
          Targets,    \* targets each of them checks
          Statuses,   \* what a target's finding may say
          MaxCalls,   \* bound: calls the frontend makes
          MaxChanges, \* bound: changes of the fleet, the files and the mutes
          None

ASSUME StatusesAssumption == Statuses \subseteq {"OK", "WARN", "BAD", "ERROR"} /\ "OK" \in Statuses
ASSUME BoundsAssumption   == MaxCalls \in Nat /\ MaxChanges \in Nat
ASSUME NoneAssumption     == None \notin Configs \cup (1 .. MaxCalls)

Calls == 1 .. MaxCalls

VARIABLES
  fleet,     \* fleet[c][t]: the status a run of c would report for t
  loads,     \* the configurations that load and configure a module
  changes,   \* changes made so far
  muted,     \* mutedKeys: pairs of a configuration and a target
  issued,    \* calls the frontend has made
  call,      \* call[k]: where call k is
  points,    \* points[k]: the configuration StartMonitor k was given; None for a stop
  taken,     \* taken[k]: the context call k took out of monCancel
  overlapped,\* some call was made while another was still running
  monCancel, \* the context monCancel cancels, or None
  monLast,   \* the last observed worst status, "" before the first
  cancelled, \* contexts that have been cancelled
  loop,      \* loop[k]: where the loop of call k is
  tick,      \* tick[k]: a tick is buffered in the channel of k's ticker
  findings,  \* findings[k]: what k's last run reported; None when it would not load
  worst      \* worst[k]: the local of sample

frontend == <<issued, call, points, taken, overlapped>>
world    == <<fleet, loads, changes, muted>>
loops    == <<loop, tick, findings, worst>>
vars     == <<world, frontend, monCancel, monLast, cancelled, loops>>

statusRank(s) == CASE s = "ERROR" -> 3 [] s = "BAD" -> 2 [] s = "WARN" -> 1 [] OTHER -> 0

Init ==
  /\ fleet \in [Configs -> [Targets -> Statuses]]
  /\ loads = Configs
  /\ changes = 0
  /\ muted = {}
  /\ issued = 0
  /\ call = [k \in Calls |-> "none"]
  /\ points = [k \in Calls |-> None]
  /\ taken = [k \in Calls |-> None]
  /\ overlapped = FALSE
  /\ monCancel = None
  /\ monLast = ""
  /\ cancelled = {}
  /\ loop = [k \in Calls |-> "none"]
  /\ tick = [k \in Calls |-> FALSE]
  /\ findings = [k \in Calls |-> None]
  /\ worst = [k \in Calls |-> "OK"]

-----------------------------------------------------------------------------
\* What the monitor watches.  The frontend's SetMutedKeys replaces the whole
\* set under a lock of its own; one mute is set or lifted at a time here.

Change ==
  /\ changes < MaxChanges
  /\ changes' = changes + 1
  /\ \/ \E c \in Configs, t \in Targets, s \in Statuses :
          /\ s # fleet[c][t]
          /\ fleet' = [fleet EXCEPT ![c][t] = s]
          /\ UNCHANGED <<loads, muted>>
     \/ \E c \in Configs :
          /\ loads' = IF c \in loads THEN loads \ {c} ELSE loads \cup {c}
          /\ UNCHANGED <<fleet, muted>>
  /\ UNCHANGED <<frontend, monCancel, monLast, cancelled, loops>>

SetMutedKeys ==
  /\ changes < MaxChanges
  /\ changes' = changes + 1
  /\ \E k \in Configs \X Targets : muted' = IF k \in muted THEN muted \ {k} ELSE muted \cup {k}
  /\ UNCHANGED <<fleet, loads, frontend, monCancel, monLast, cancelled, loops>>

-----------------------------------------------------------------------------
\* The calls.  The operators named after a slip are mutants.

Active == {k \in Calls : call[k] \notin {"none", "returned"}}

\* The frontend toggles Auto, or changes the configuration while Auto is on.
Issue ==
  /\ issued < MaxCalls
  /\ issued' = issued + 1
  /\ \E c \in Configs \cup {None} : points' = [points EXCEPT ![issued + 1] = c]
  /\ call' = [call EXCEPT ![issued + 1] = "swap"]
  /\ overlapped' = (overlapped \/ Active # {})
  /\ UNCHANGED <<world, taken, monCancel, monLast, cancelled, loops>>

\* StopMonitor, the critical section: take the context out of monCancel.
Swap(k) ==
  /\ call[k] = "swap"
  /\ taken' = [taken EXCEPT ![k] = monCancel]
  /\ monCancel' = None
  /\ call' = [call EXCEPT ![k] = "cancel"]
  /\ UNCHANGED <<world, issued, points, overlapped, monLast, cancelled, loops>>

CancelledNever(k) == cancelled
Cancelled(k) == IF taken[k] = None THEN cancelled ELSE cancelled \cup {taken[k]}

ContinuesAlways(k) == TRUE
Continues(k) == points[k] # None

\* StopMonitor: cancel what was taken.  Only StartMonitor goes on from there.
CancelTaken(k) ==
  /\ call[k] = "cancel"
  /\ cancelled' = Cancelled(k)
  /\ taken' = [taken EXCEPT ![k] = None]
  /\ call' = [call EXCEPT ![k] = IF Continues(k) THEN "install" ELSE "returned"]
  /\ UNCHANGED <<world, issued, points, overlapped, monCancel, monLast, loops>>

\* StartMonitor, the critical section, and go a.monitorLoop(...), whose first
\* sample may take any time to begin.
Install(k) ==
  /\ call[k] = "install"
  /\ monCancel' = k
  /\ monLast' = ""
  /\ loop' = [loop EXCEPT ![k] = "run"]
  /\ call' = [call EXCEPT ![k] = "returned"]
  /\ UNCHANGED <<world, issued, points, taken, overlapped, cancelled, tick, findings, worst>>

-----------------------------------------------------------------------------
\* The loops.

\* The ticker drops a tick nobody has taken yet: its channel holds one.
Tick(k) ==
  /\ loop[k] \notin {"none", "ended"}
  /\ ~tick[k]
  /\ tick' = [tick EXCEPT ![k] = TRUE]
  /\ UNCHANGED <<world, frontend, monCancel, monLast, cancelled, loop, findings, worst>>

\* RunChecks returns.  It runs under the application's context, so cancelling
\* the monitor does not cut it short.
Run(k) ==
  /\ loop[k] = "run"
  /\ findings' = [findings EXCEPT ![k] = IF points[k] \in loads THEN fleet[points[k]] ELSE None]
  /\ loop' = [loop EXCEPT ![k] = "evaluate"]
  /\ UNCHANGED <<world, frontend, monCancel, monLast, cancelled, tick, worst>>

CountedAll(c) == Targets
Counted(c) == {t \in Targets : <<c, t>> \notin muted}

\* The worst status over the findings that are not muted.
effectiveWorst(c, found) ==
  LET seen == {"OK"} \cup {found[t] : t \in Counted(c)}
  IN  CHOOSE s \in seen : \A r \in seen : statusRank(s) >= statusRank(r)

\* A report that carries an error is an ERROR whatever is muted.
Evaluate(k) ==
  /\ loop[k] = "evaluate"
  /\ worst' = [worst EXCEPT ![k] = IF findings[k] = None THEN "ERROR"
                                   ELSE effectiveWorst(points[k], findings[k])]
  /\ findings' = [findings EXCEPT ![k] = None]
  /\ loop' = [loop EXCEPT ![k] = "record"]
  /\ UNCHANGED <<world, frontend, monCancel, monLast, cancelled, tick>>

\* Whether the user is told.  With no sample before it, an OK is silent.
monitorAlert(prev, cur) ==
  /\ cur # "" /\ prev # cur
  /\ prev = "" => cur # "OK"

NotRecorded(k) == monLast
Recorded(k) == worst[k]

\* The critical section of sample: prev := monLast; monLast := worst.  The
\* notification and the monitor:sample event follow outside the lock; they
\* change nothing the code reads again.
Record(k) ==
  /\ loop[k] = "record"
  /\ monLast' = Recorded(k)
  /\ worst' = [worst EXCEPT ![k] = "OK"]
  /\ loop' = [loop EXCEPT ![k] = "select"]
  /\ UNCHANGED <<world, frontend, monCancel, cancelled, tick, findings>>

\* The select of monitorLoop: with both channels ready it picks either.
Woken(k) ==
  /\ loop[k] = "select"
  /\ tick[k]
  /\ tick' = [tick EXCEPT ![k] = FALSE]
  /\ loop' = [loop EXCEPT ![k] = "run"]
  /\ UNCHANGED <<world, frontend, monCancel, monLast, cancelled, findings, worst>>

DoneUnseen(k) == FALSE
Done(k) == k \in cancelled

Leave(k) ==
  /\ loop[k] = "select"
  /\ Done(k)
  /\ loop' = [loop EXCEPT ![k] = "ended"]
  /\ tick' = [tick EXCEPT ![k] = FALSE]
  /\ UNCHANGED <<world, frontend, monCancel, monLast, cancelled, findings, worst>>

CallStep(k) == Swap(k) \/ CancelTaken(k) \/ Install(k)
SampleStep(k) == Run(k) \/ Evaluate(k) \/ Record(k)

\* The application stays open with no loop left and the bounds used up.
Idle == issued = MaxCalls /\ changes = MaxChanges /\ UNCHANGED vars

Next ==
  \/ Change \/ SetMutedKeys \/ Issue \/ Idle
  \/ \E k \in Calls : CallStep(k) \/ Tick(k) \/ SampleStep(k) \/ Woken(k) \/ Leave(k)

\* Runnable goroutines run, timers fire, a run of the fleet ends by its
\* deadlines.  A select chooses among its ready cases at random, so a case
\* that is ready again and again is chosen in the end: strong fairness.
Fairness ==
  \A k \in Calls :
    /\ WF_vars(CallStep(k))
    /\ WF_vars(Tick(k))
    /\ WF_vars(SampleStep(k) \/ Woken(k))
    /\ SF_vars(Leave(k))

Spec == Init /\ [][Next]_vars /\ Fairness

-----------------------------------------------------------------------------
\* Every variable keeps its type; a loop exists only for a StartMonitor, and
\* monCancel never names the context of a call that was a stop.
TypeOK ==
  /\ fleet \in [Configs -> [Targets -> Statuses]]
  /\ loads \subseteq Configs /\ muted \subseteq Configs \X Targets
  /\ changes \in 0 .. MaxChanges /\ issued \in 0 .. MaxCalls
  /\ call \in [Calls -> {"none", "swap", "cancel", "install", "returned"}]
  /\ points \in [Calls -> Configs \cup {None}]
  /\ taken \in [Calls -> Calls \cup {None}]
  /\ monCancel \in {k \in Calls : points[k] # None} \cup {None}
  /\ monLast \in Statuses \cup {"", "ERROR"}
  /\ cancelled \subseteq {k \in Calls : points[k] # None}
  /\ loop \in [Calls -> {"none", "run", "evaluate", "record", "select", "ended"}]
  /\ \A k \in Calls : loop[k] # "none" => points[k] # None /\ call[k] = "returned"
  /\ tick \in [Calls -> BOOLEAN] /\ overlapped \in BOOLEAN
  /\ findings \in [Calls -> [Targets -> Statuses] \cup {None}]
  /\ worst \in [Calls -> Statuses \cup {"ERROR"}]

\* Loops nobody has told to stop.
Live == {k \in Calls : loop[k] \notin {"none", "ended"} /\ k \notin cancelled}

\* "Any prior monitor is stopped first": as long as the frontend's calls do not
\* overlap, the loop monCancel can stop is the only one left running; so
\* MonitorRunning answers FALSE only when no loop is left to sample the fleet.
OneMonitor == ~overlapped /\ Active = {} => Live \subseteq {monCancel}

\* "cancels the background loop": a cancelled loop ends, even when its runs
\* take longer than the interval and a tick is always waiting for it.
StoppedLoopsEnd == \A k \in Calls : k \in cancelled ~> loop[k] \in {"none", "ended"}

\* "A fleet that stays BAD for an hour notifies once, not sixty times": once
\* fleet, mutes and settings have come to rest, notifications stop -- unless
\* two StartMonitor calls overlapped, which may leave two loops telling each
\* other's status for ever.
Recording(k) == loop[k] = "record" /\ loop'[k] = "select"
Silent == \A k \in Calls : Recording(k) => ~monitorAlert(monLast, worst[k])
NotNagging == []~overlapped => <>[][Silent]_vars

\* s is the worst status of configuration c now, muted findings apart.
IsWorst(s, c) ==
  LET shown == {fleet[c][t] : t \in {u \in Targets : <<c, u>> \notin muted}} IN
  IF c \notin loads THEN s = "ERROR"
  ELSE s \in shown \cup {"OK"} /\ \A q \in shown : statusRank(q) <= statusRank(s)

\* "so a problem you've snoozed won't wake you": once all is at rest, the
\* status the running monitor compares the next sample with is the worst of the
\* configuration it was pointed at last, muted findings apart, whatever
\* interrupted samples of its predecessors wrote there in between.
KeepsTrack ==
  []~overlapped =>
    <>[](Active = {} /\ monCancel # None => IsWorst(monLast, points[monCancel]))

\* "Any prior monitor is stopped first, so calling this on a config/interval
\* change just re-points it": with every call returned, only a sample of the
\* current monitor notifies the user.
OnlyTheCurrentMonitorSpeaks ==
  [][\A k \in Calls :
       ~overlapped /\ Active = {} /\ Recording(k) /\ monitorAlert(monLast, worst[k])
         => k = monCancel]_vars
=============================================================================
