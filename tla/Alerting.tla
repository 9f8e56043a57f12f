------------------------------ MODULE Alerting ------------------------------
(***************************************************************************)
(* The alert command: successive `checkfleet alert` invocations (a cron    *)
(* job) against the on-call providers, over the two files that outlive     *)
(* them.  An invocation runs the checks, reads the newest record of the    *)
(* history and appends its own, plans its events, and sends them one by    *)
(* one; with alert_routes it decides each trigger against a memory of what *)
(* was sent, saved once at the end.                                        *)
(*                                                                         *)
(* An invocation may be killed between any two steps, a send may fail, and *)
(* a send may be delivered and yet reported as failed.  `check --history`  *)
(* may append to the same file in between.                                 *)
(*                                                                         *)
(* A key is check/target.  fleet[k] is the set of statuses of the findings *)
(* that carry the key: usually one, but a module may report twice on one   *)
(* target.  Two findings of one key that are both BAD tell nothing here    *)
(* that a BAD and an ERROR do not.  Only BAD and ERROR matter; OK stands   *)
(* for OK and WARN.                                                        *)
(***************************************************************************)
EXTENDS Findings, FiniteSetsExt

CONSTANTS NumKeys,   \* the keys are 1 .. NumKeys, in string order
          Providers, \* the on-call services
          Configs,   \* the invocations' flags and alert_routes, see below
          Findable,  \* Findable[k]: the sets of statuses the checks may find for k
          None

Keys == 1 .. NumKeys

\* A configuration: the routes in order (none: the provider flag is used), and
\* whether --history, --alert-state and --dry-run are given, whether a
\* `check --history` shares the file, and what may befall an invocation: "fail"
\* (a send, the state file) and "noreply" (a send), "history" (a read or an
\* append), "crash".  A route: the keys its globs cover, whether it asks for
\* labels, and its min_severity, provider, renotify_after (0: never) and
\* renotify_on_worsening.
Routes == [keys : SUBSET Keys, labelled : BOOLEAN, min : Status, provider : Providers,
           after : Nat, worsening : BOOLEAN]

\* What the memory keeps of a key that was sent: how long ago, and how bad.
Notified == [age : Nat, status : Status]

ASSUME KeysAssumption == NumKeys \in Nat
ASSUME NoneAssumption == None \notin Notified
ASSUME FindableAssumption == \A k \in Keys : Findable[k] \subseteq (SUBSET Status) \ {{}}
ASSUME ConfigsAssumption ==
  \A c \in Configs :
    /\ c.routes \in Seq(Routes)
    /\ c.provider \in Providers
    /\ {c.history, c.state, c.dry, c.shared} \subseteq BOOLEAN
    /\ c.fates \subseteq {"fail", "noreply", "history", "crash"}

VARIABLES
  cfg,      \* the configuration, the same for every invocation
  fleet,    \* fleet[k]: what the checks would find now
  record,   \* the history file: the problem entries of its newest record
  memory,   \* the state file: memory[k] is [age, status] or None
  open,     \* open[p]: the keys with an open alert at provider p
  pc,       \* where the running invocation is; "idle" between two
  dry,      \* the running invocation has --dry-run
  found,    \* the run's findings, as fleet
  prev,     \* the previous problem keys it read, in order, repeats and all
  events,   \* the events it still has to handle
  state,    \* its copy of memory
  told,     \* auxiliary: told[k] is the last trigger really delivered for k
            \* and not resolved since, as memory records it
  mishaps   \* auxiliary: "fault" after a failed send, a state file that failed
            \* or a kill; "history" after an invocation read, or left, other
            \* entries than those of the invocation before it

files == <<record, memory>>
local == <<dry, found, prev, events, state>>
vars  == <<cfg, fleet, files, open, told, pc, local, mishaps>>

routed == cfg.routes # <<>>

\* SNS keeps no alert: it is published to, and has no resolve.
Stateful == Providers \ {"sns"}

ProblemKeys(f) == {k \in Keys : f[k] \cap {"BAD", "ERROR"} # {}}

\* Plan's map keeps the last finding of a key, and findings come worst first:
\* of a key that is both BAD and ERROR the event carries BAD.
PlannedSeverity(f, k) == IF "BAD" \in f[k] THEN "BAD" ELSE "ERROR"

\* The problem entries of a record, in the report's order: the worst first.
Entries(f) ==
  LET key == [k \in Keys |-> k]
  IN  Pick(key, {k \in Keys : "ERROR" \in f[k]}) \o Pick(key, {k \in Keys : "BAD" \in f[k]})

Healthy == [k \in Keys |-> {"OK"}]
Nothing == [k \in Keys |-> None]

Init ==
  /\ cfg \in Configs
  /\ fleet = Healthy
  /\ record = <<>>
  /\ memory = Nothing
  /\ open = [p \in Providers |-> {}]
  /\ told = memory
  /\ pc = "idle" /\ dry = FALSE
  /\ found = fleet /\ prev = <<>> /\ events = <<>> /\ state = memory
  /\ mishaps = {}

-----------------------------------------------------------------------------
\* The world between two invocations.

\* What the checks find changes.
Drift(k, statuses) ==
  /\ pc = "idle"
  /\ fleet' = [fleet EXCEPT ![k] = statuses]
  /\ UNCHANGED <<cfg, files, open, told, pc, local, mishaps>>

\* The longest renotify_after: older notifications are all alike.
Horizon == Max({0} \cup {cfg.routes[i].after : i \in DOMAIN cfg.routes})

Older(notified) ==
  [k \in Keys |-> IF notified[k] = None THEN None
                  ELSE [notified[k] EXCEPT !.age = Min({@ + 1, Horizon})]]

\* Time passes.
Age ==
  /\ pc = "idle" /\ Horizon > 0
  /\ memory' = Older(memory) /\ told' = Older(told)
  /\ UNCHANGED <<cfg, fleet, record, open, pc, local, mishaps>>

\* The history is not what the invocation before left, if it differs.
Amiss(differs) == mishaps \cup IF differs THEN {"history"} ELSE {}

\* A `check --history` on the same file appends what it found.
CheckAppends ==
  /\ cfg.shared
  /\ record' = Entries(fleet)
  /\ mishaps' = Amiss(record' # record)
  /\ UNCHANGED <<cfg, fleet, memory, open, told, pc, local>>

-----------------------------------------------------------------------------
\* One invocation.

RunChecks(d) ==
  /\ pc = "idle"
  /\ d => cfg.dry
  /\ dry' = d
  /\ found' = fleet
  /\ pc' = IF cfg.history THEN "read" ELSE "plan"
  /\ prev' = <<>>
  /\ UNCHANGED <<cfg, fleet, files, open, told, events, state, mishaps>>

HistoryMayFail == "history" \in cfg.fates

\* prevProblemKeys: store.Recent(1), whose error means no previous keys, and no
\* more (a record of a newer version in the file is enough) ...
ReadPrevious ==
  /\ pc = "read"
  /\ \/ prev' = record
     \/ HistoryMayFail /\ prev' = <<>>
  /\ mishaps' = Amiss(prev' # record)
  /\ pc' = "append"
  /\ UNCHANGED <<cfg, fleet, files, open, told, dry, found, events, state>>

\* ... and the append of this run's record, made in a dry run too; its error is
\* dropped.
AppendRecord ==
  /\ pc = "append"
  /\ \/ record' = Entries(found)
     \/ HistoryMayFail /\ record' = record
  /\ mishaps' = Amiss(record' # IF dry THEN record ELSE Entries(found))
  /\ pc' = "plan"
  /\ UNCHANGED <<cfg, fleet, memory, open, told, local>>

Trigger(k) == [action |-> "trigger", key |-> k, severity |-> PlannedSeverity(found, k)]
Resolve(k) == [action |-> "resolve", key |-> k]

\* Mutant: only problems that are new since the previous record.
FailingNewly == ProblemKeys(found) \ Range(prev)

Failing == ProblemKeys(found)

\* Mutants: a key is resolved when its last finding is no problem, or always.
RecoveredByLastFinding == Pick(prev, {i \in DOMAIN prev : "OK" \in found[prev[i]]})
RecoveredAll == prev

\* The previous entries whose key is a problem no more, one for one.
Recovered == Pick(prev, {i \in DOMAIN prev : prev[i] \notin ProblemKeys(found)})

\* Plan: a trigger per problem key, then a resolve per previous entry that is a
\* problem no more.  sendRouted then loads the state file.
PlanEvents ==
  /\ pc = "plan"
  /\ events' = Pick([k \in Keys |-> Trigger(k)], Failing)
                \o [i \in DOMAIN Recovered |-> Resolve(Recovered[i])]
  /\ state' = IF routed /\ cfg.state THEN memory ELSE Nothing
  /\ pc' = "sending"
  /\ UNCHANGED <<cfg, fleet, files, open, told, dry, found, prev, mishaps>>

\* runAlert hands sendRouted the labels of a Result nobody labelled, so a route
\* that asks for any never matches.
labelsOK(r) == ~r.labelled

\* Mutant: min_severity filters resolves as well.
CoversFiltered(r, e) ==
  e.key \in r.keys /\ labelsOK(r) /\ AtLeast(IF e.action = "trigger" THEN e.severity ELSE "OK", r.min)

Covers(r, e) ==
  /\ e.key \in r.keys
  /\ labelsOK(r)
  /\ e.action = "trigger" => AtLeast(e.severity, r.min)

\* The first route that covers the event, as a set of at most one.
Match(e) ==
  {cfg.routes[i] : i \in {j \in DOMAIN cfg.routes :
     /\ Covers(cfg.routes[j], e)
     /\ \A h \in 1 .. j - 1 : ~Covers(cfg.routes[h], e)}}

\* The re-notification policy of route r on what was last sent for the key.
Decide(last, curr, r) ==
  \/ last = None
  \/ r.worsening /\ severity(curr) > severity(last.status)
  \/ r.after > 0 /\ last.age >= r.after

\* Mutant: any route's policy will do.
HeldByAll(e) ==
  routed /\ e.action = "trigger" /\ Match(e) # {}
  /\ \A i \in DOMAIN cfg.routes : ~Decide(state[e.key], e.severity, cfg.routes[i])

Held(e) == routed /\ e.action = "trigger" /\ \E r \in Match(e) : ~Decide(state[e.key], e.severity, r)

Unrouted(e) == routed /\ Match(e) = {}

ProviderOf(e) == IF routed THEN (CHOOSE r \in Match(e) : TRUE).provider ELSE cfg.provider

\* Mutant: a resolve leaves the memory alone.
ForgottenNever(e) == state

\* state.Forget, before a routed resolve is sent.
Forgotten(e) ==
  IF e.action = "resolve" /\ routed THEN [state EXCEPT ![e.key] = None] ELSE state

\* Mutant: Record is called for no trigger.
RecordedNever(e, s) == s

\* state.Record, after a routed trigger was sent.
Recorded(e, s) ==
  IF e.action = "trigger" /\ routed
  THEN [s EXCEPT ![e.key] = [age |-> 0, status |-> e.severity]]
  ELSE s

\* What reaches the provider.
Delivered(e) ==
  IF e.action = "trigger"
  THEN [open EXCEPT ![ProviderOf(e)] = @ \cup {e.key}]
  ELSE IF ProviderOf(e) \in Stateful THEN [open EXCEPT ![ProviderOf(e)] = @ \ {e.key}] ELSE open

Told(e) ==
  [told EXCEPT ![e.key] = IF e.action = "trigger" THEN [age |-> 0, status |-> e.severity] ELSE None]

\* An event that is held or matches no route is passed over.
PassOver ==
  /\ pc = "sending" /\ events # <<>>
  /\ Held(Head(events)) \/ Unrouted(Head(events))
  /\ events' = Tail(events)
  /\ UNCHANGED <<cfg, fleet, files, open, told, pc, dry, found, prev, state, mishaps>>

ToSend == pc = "sending" /\ events # <<>> /\ ~Held(Head(events)) /\ ~Unrouted(Head(events))

\* A dry run prints the event; Forget was called on its copy all the same.
PrintEvent ==
  /\ ToSend /\ dry
  /\ events' = Tail(events)
  /\ state' = Forgotten(Head(events))
  /\ UNCHANGED <<cfg, fleet, files, open, told, pc, dry, found, prev, mishaps>>

Send(k) ==
  /\ ToSend /\ ~dry /\ Head(events).key = k
  /\ open' = Delivered(Head(events)) /\ told' = Told(Head(events))
  /\ state' = Recorded(Head(events), Forgotten(Head(events)))
  /\ events' = Tail(events)
  /\ UNCHANGED <<cfg, fleet, files, pc, dry, found, prev, mishaps>>

\* The invocation is over; its memory of the run is gone.
Ends ==
  /\ pc' = "idle" /\ dry' = FALSE
  /\ found' = Healthy /\ events' = <<>> /\ prev' = <<>> /\ state' = Nothing
  /\ UNCHANGED <<cfg, fleet, record>>

\* The first error returns from the loop: nothing is saved.  With "noreply"
\* the provider took the event all the same.
SendFails(fate) ==
  /\ ToSend /\ ~dry
  /\ ProviderOf(Head(events)) = "sns" => Head(events).action = "trigger"
  /\ open' = IF fate = "noreply" THEN Delivered(Head(events)) ELSE open
  /\ told' = IF fate = "noreply" THEN Told(Head(events)) ELSE told
  /\ mishaps' = mishaps \cup {"fault"}
  /\ Ends
  /\ UNCHANGED memory

\* SaveState: a temporary file and a rename, so all of it or nothing.
Save ==
  /\ pc = "sending" /\ events = <<>>
  /\ memory' = IF routed /\ cfg.state /\ ~dry THEN state ELSE memory
  /\ Ends
  /\ UNCHANGED <<open, told, mishaps>>

\* The state file cannot be loaded, before any event, or not be saved, after all
\* of them.
StateFileFails ==
  /\ "fail" \in cfg.fates /\ routed /\ cfg.state
  /\ pc = "plan" \/ (pc = "sending" /\ events = <<>> /\ ~dry)
  /\ mishaps' = mishaps \cup {"fault"}
  /\ Ends
  /\ UNCHANGED <<memory, open, told>>

\* The process is killed.
Crash ==
  /\ pc # "idle" /\ "crash" \in cfg.fates
  /\ mishaps' = mishaps \cup {"fault"}
  /\ Ends
  /\ UNCHANGED <<memory, open, told>>

Work == ReadPrevious \/ AppendRecord \/ PlanEvents \/ PassOver \/ PrintEvent \/ Save

Next ==
  \/ \E k \in Keys : \E statuses \in Findable[k] : Drift(k, statuses)
  \/ Age \/ CheckAppends
  \/ \E d \in BOOLEAN : RunChecks(d)
  \/ Work
  \/ \E k \in Keys : Send(k)
  \/ \E fate \in cfg.fates \cap {"fail", "noreply"} : SendFails(fate)
  \/ StateFileFails \/ Crash

\* cron starts the command again and again (between dry runs, if any), an
\* invocation that is not killed runs on, no point of it is fatal every time,
\* and a provider that is asked again and again accepts sometimes.
Fairness ==
  /\ SF_vars(RunChecks(FALSE))
  /\ SF_vars(ReadPrevious) /\ SF_vars(AppendRecord) /\ SF_vars(PlanEvents)
  /\ WF_vars(Work)
  /\ \A k \in Keys : SF_vars(Send(k))

Spec == Init /\ [][Next]_vars /\ Fairness

-----------------------------------------------------------------------------
\* Every variable of the files, the providers and the invocation keeps its type,
\* and of the events of one key only resolves are repeated: no key is triggered
\* twice, and none both triggered and resolved, in one plan.
TypeOK ==
  /\ cfg \in Configs
  /\ \A f \in {fleet, found} : DOMAIN f = Keys /\ \A k \in Keys : f[k] \in (SUBSET Status) \ {{}}
  /\ record \in Seq(Keys) /\ prev \in Seq(Keys)
  /\ \A f \in {memory, state, told} : f \in [Keys -> Notified \cup {None}]
  /\ open \in [Providers -> SUBSET Keys]
  /\ pc \in {"idle", "read", "append", "plan", "sending"}
  /\ \A i \in DOMAIN events : events[i].action \in {"trigger", "resolve"} /\ events[i].key \in Keys
  /\ \A i, j \in DOMAIN events :
       i # j /\ events[i].key = events[j].key => events[i].action = "resolve"
  /\ dry \in BOOLEAN

\* An alert is closed only by an invocation that found no problem under its
\* key -- not one that found a problem beside a healthy finding, and not one
\* working from an old record.
NoFalseResolve ==
  [][\A p \in Providers : (open[p] \ open'[p]) \cap ProblemKeys(found) = {}]_vars

\* An invocation, not a dry run, has handled its last event without an error.
Ending == pc = "sending" /\ events = <<>> /\ ~dry

\* An invocation that ends well, not a dry run, leaves an alert open for every
\* problem it found that some route covers: an event before it that was held,
\* or matched no route, never keeps a later one from going out.  With a memory
\* this needs every earlier invocation to have saved it (see MemoryIsTrue).
ProblemsArePaged ==
  Ending /\ (~cfg.state \/ "fault" \notin mishaps) =>
    \A k \in ProblemKeys(found) :
      (\E p \in Providers : k \in open[p]) \/ Unrouted(Trigger(k))

\* While no send and no state file fails and no invocation is killed, the state
\* file says exactly what the providers were last told of each key, between any
\* two invocations, dry runs and whatever happens to the history notwithstanding.
MemoryIsTrue ==
  routed /\ cfg.state /\ pc = "idle" /\ "fault" \notin mishaps => memory = told

\* "a BAD that lasts three days" is not sent on every run: as long as the memory
\* is kept, a key whose last trigger reached a provider and was not resolved since
\* is sent again, with whatever status, only when the route it goes by asks for
\* it: it got worse than what the provider was told and the route has
\* renotify_on_worsening, or the route's own renotify_after has passed since.
NoEarlyRepage ==
  [][\A k \in Keys :
       routed /\ cfg.state /\ "fault" \notin mishaps
       /\ Send(k) /\ Head(events) = Trigger(k) /\ told[k] # None =>
         \E r \in Match(Trigger(k)) :
           \/ r.worsening /\ severity(PlannedSeverity(found, k)) > severity(told[k].status)
           \/ r.after \in 1 .. told[k].age]_vars

RecoveriesClosed == \A p \in Stateful : open[p] \subseteq ProblemKeys(found)

\* With --history, an invocation that ends well leaves no alert open for a key
\* that recovered -- provided every invocation so far read what the one before
\* it found.  That takes a history that nobody else and no dry run appended
\* something else to, and reads and appends that all succeeded: the command
\* ignores their errors, ends well, and the recovery is never resolved.  And
\* none may have failed to send, lost its state file or been killed.
RecoveriesResolved ==
  Ending /\ cfg.history /\ mishaps = {} => RecoveriesClosed

\* "A recovery must reach the team the trigger did": the same, with no way out
\* for what went wrong before.  Routes alone can break it.
RecoveryReachesTheTrigger == Ending /\ cfg.history => RecoveriesClosed

\* "A resolve always goes, and clears the memory so the next occurrence is a
\* first notification": a key the state file remembers has an open alert.
RememberedIsOpen ==
  pc = "idle" => \A k \in Keys : memory[k] # None => \E p \in Providers : k \in open[p]

\* A problem there is, and that the routes, if any, cover as it is.
Pageable(k) ==
  /\ k \in ProblemKeys(fleet)
  /\ routed => \E i \in DOMAIN cfg.routes :
                 Covers(cfg.routes[i],
                        [action |-> "trigger", key |-> k, severity |-> PlannedSeverity(fleet, k)])

\* Without --alert-state, with routes or without, a problem that lasts is paged,
\* whatever fails meanwhile, and the alert then stands: the next invocation
\* triggers it again, and the problems before it in the plan cannot keep it from
\* the provider for ever.  told forgets a key that was resolved, so an alert that
\* was sent when the problem came the last time does not count.
LastingProblemsArePaged ==
  \A k \in Keys :
    <>[](Pageable(k) /\ ~cfg.state /\ ~cfg.dry) => <>[](told[k] # None)
=============================================================================
