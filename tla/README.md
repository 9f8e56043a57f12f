# checkfleet in TLA+

checkfleet runs a fleet of health checks ("modules") against servers, turns
what they find into *findings* (check, target, status OK < WARN < BAD < ERROR,
message) and hands the findings on: to a report and an exit code, to a
Prometheus endpoint, to on-call providers, to an issue tracker, to a desktop
application. This directory holds a formal model of the parts where order,
concurrency, failure and time matter, the TLC runs that check it, and proofs
that TLAPS checks.

## The system: components, state, operations

| Component (source) | State it keeps | Operations | Hard behaviour | What makes it correct |
|---|---|---|---|---|
| Engine runner (`internal/engine/engine.go`) | per run: semaphore, wait group, `perCheck` | `RunJobsLimited`, `runWithRetry`, `Dedup`, `SortFindings` | one goroutine per job, a cap, retries that sleep holding a slot, cancellation | cap kept, no transient reported early, report independent of completion order, always ends |
| Scheduler (`internal/schedule`) | latest sample per module | `Due`, `RunDue`, `Result`, `Ages`, `Tick` | cadences, ticks, long runs | nobody forgotten, nothing staler than the cadence allows |
| serve, watch (`cmd/checkfleet`) | latest merged result, ready flag | the loop, `/metrics` | scrapes race the loop over two locks | pages that cover every module, with ages out by one run at most |
| alert (`cmd/checkfleet/alert.go`, `internal/alert`) | history file, alert-state file; the providers keep the open alerts | `Plan`, `Match`, `Decide`, send, `SaveState` | failing and lost sends, kills, dry runs, a shared history | every problem paged, every recovery resolved, nobody paged again before the policy says so |
| Desktop monitor (`desktop/monitor.go`) | cancel function, last worst status, mutes | `StartMonitor`, `StopMonitor`, `sample` | overlapping calls, samples that outlive their loop | one loop, silence at rest, an up-to-date status |
| History (`internal/history`) | a JSONL file | `Append`, `Recent`, `Compact`, `Flaps` | several writers, torn lines, rename over concurrent appends | no record lost that retention keeps |
| check command (`cmd/checkfleet/check.go`, `gate.go`, `emit.go`) | history and baseline files | run, record, post-process, emit, gate | one sink of several failing, order of the steps | the exit code is the verdict |
| Post-processing (`internal/engine/maintenance.go`, `depends.go`, `filter.go`, `diff.go`; `internal/baseline`) | none, the baseline file | pure functions on findings | several findings under one key, cycles, midnight | nothing worse is hidden by something milder |
| Issue sync (`internal/issuesync`) | the tracker's open issues | `Reconcile` | partial failure, two runs at once | one issue per problem |
| Configuration (`internal/engine/config.go`, `vars.go`) | the merged configuration | load, include, merge, overlay, default | include cycles, precedence | the overlay wins, whatever the order of files |
| Insight (`internal/insight`) | none | digest, recovery, flappiness, budget, forecast | sequences of statuses | agree with the history they read |
| Check modules (`internal/checks/*`), discovery | none between runs | one `Run` each | partial failures of a cluster, best-effort requests, the order of the rules | what gets worse never looks better, and what was not measured is an ERROR |

The components interact through values and files more than through calls. The
runner is called by every command (`check`, `serve`, `watch`, `alert`, `mcp`,
the desktop); `serve` and `watch` call it through the scheduler. `check
--history`, `alert --history` and the desktop append to history files, which
`alert`, `--diff` and insight read back. `alert` additionally keeps its own
memory file. The desktop monitor calls the same pipeline as the desktop's Run
button, from a goroutine of its own.

`PROJECT.json` lists every component with its status, the mapping of each
definition to source lines, and the hazards with the properties that cover
them.

## Modules

| Module | Models | Checked by | Proved in |
|---|---|---|---|
| `Findings` | statuses, `Dedup`, `SortFindings` | through `Runner` | `Lemmas` |
| `RunContract` | what a run promises its callers (abstract) | as `RunsToContract` | |
| `Runner` | `RunJobsLimited`, `runWithRetry` | `MCRunner` | `RunnerProofs` |
| `Scheduler` | `every`, `Due`, `Tick` | through `Exporter` | through `ExporterProofs` |
| `Exporter` | `serve` and `watch` over the scheduler | `MCExporter` | `ExporterProofs` |
| `Alerting` | the `alert` command across invocations | `MCAlerting` | `AlertingProofs` |
| `Monitor` | the desktop's background monitor | `MCMonitor` | `MonitorProofs` |
| `History` | the history file, its writers and its compaction | `MCHistory` | `HistoryProofs` |
| `Discovery` | the hosts of a module from several sources | through `Probing` | through `FleetProofs` |
| `Probing` | what the check modules have in common | through `Fleet` | through `FleetProofs` |
| `Endpoints`, `Certificates`, `Stores`, `Databases`, `Brokers`, `Streaming`, `Consul`, `Dns`, `Elasticsearch`, `Flow`, `Grpc`, `HAProxy`, `Patroni`, `Redis`, `Smtp` | the 32 check modules; many share a module (http, tcp, ingest, ntp, ldap, keycloak; certs, tls, pq; s3, vault, etcd, clickhouse, memcached; cassandra, mongodb, mysql, postgres; kafka, nats, rabbitmq; mediamtx, stream) | through `Fleet` | through `FleetProofs` |
| `Registry` | the table of check modules | through `Fleet` | through `FleetProofs` |
| `Fleet` | a server that gets worse and is repaired, and the verdict on it | `MCFleet` | `FleetProofs` |
| `Postprocess` | windows, dependencies, filters, comparison of runs | through `CheckCommand` | through `PipelineProofs` |
| `CheckCommand` | the `check` command across invocations, with its baseline | `MCPipeline` | `PipelineProofs` |
| `IssueSync` | the `report-issues` command across invocations | `MCPipeline` | `PipelineProofs` |
| `Pipeline` | either of the two, as a schedule runs it | `MCPipeline` | `PipelineProofs` |
| `Lemmas` | nothing: facts about numbers, sets, lists of findings and graphs that the proofs share, and what a report is | | itself |

`MC*` modules only give constants their values. The check modules keep the names
of the code's functions where they exist; where two modules use
one name it carries the module's (`HttpRun`, `RedisMemoryFinding`), as `Registry`
extends them all. Operators named after a slip
(`SlotFreeOneMore`, `RecoveredAll`, ...) are mutants: each property was shown to
fail when the definition next to the mutant is replaced by it.

### Runner

One goroutine per job is one value of `pc`; the points are those between two
operations other goroutines can observe: waiting for the semaphore, inside
`c.Run`, in the backoff `select`, about to store, and the two deferred calls
(the slot is given back before `wg.Done`, as deferred calls run last-in
first-out). `limit` is `maxConcurrency`, with any value up to zero meaning no
cap. A check is external: an attempt ends with any list in `Outcomes[j]`. The
context may be cancelled at any moment, and a `select` with both channels ready
may take either branch. `Retries[j]` may be negative, because nothing in the
configuration code rejects it: `1 + Retries` is then no attempt at all, the check
settles on no findings, and its part of the report is silently green.

`RunContract` is what the callers rely on: one verdict per job, then one report
made from all of them in job order. `Runner` refines it with
`verdict[j] = perCheck[j]` once job j has stored, and `report = output`.

### Scheduler and Exporter

Time is relative: `age[m]` is `now - samples[m].At`, so behaviours are finite
without a horizon. One unit is a fraction of a tick. `spent` is how long the
loop's `now` has been stale, `fresh[m]` (auxiliary) is how old the findings
really are. The ticker is a countdown plus a one-element channel that drops
ticks. `RunDue` is three steps, because it holds the lock only in `Due` and when
it stores; the run between them is `RunContract`: jobs settle one by one
(`Probe`), and the run returns when all it was given have. `serve` starts its
ticker and its server after the first run; `watch` sleeps a tick after every run
and has no readers. A scrape is two reads, under two locks.

### Alerting

An invocation is a sequence: run, read the newest history record, append this
run's, plan, one event at a time, save. Between two invocations the fleet
changes, time passes, and `check --history` may append to the same file. A send
may fail, or be delivered and reported as failed; the state file may not be read
or not be saved; the process may be killed between any two steps. The history may
fail too, but `prevProblemKeys` drops both errors: a read that fails means there were
no problems before, an append that fails leaves the record of the run before, and the
invocation goes on. `mishaps` (auxiliary) says whether anything has failed or been killed so far, and
whether an invocation has read, or left, another record than the one before it found. `fleet[k]` is a *set* of statuses,
because a module may report twice on one target; `Plan`'s map then keeps the mildest
problem. `record` and `prev` are lists that repeat a key for each of its problems, so
a plan triggers a key once but may resolve it several times.
`told[k]` (auxiliary) is what the team was last told, against which the state
file is compared. Payload formats and the environment variables holding keys
are left out: a missing key is a send that fails.

### Monitor

Each bound method call runs in its own goroutine; `overlapped` (auxiliary)
records that one was made while another still ran. A critical section under
`monMu` is one step. A loop is sampling (`run`, `evaluate`, `record`) or in its
`select`. A run reads its configuration's fleet at one moment; mutes are read
later, as in the code. The notification itself has no effect the code reads
back, so it belongs to `Record`.

### History

The file is a sequence of lines; `torn` says that its last line has no newline,
so that the next append continues it and neither record parses. Nothing locks
the file: opening it, writing the line, reading for a compaction and renaming
the copy are four steps, and other processes act between any two. An append
that opened the file before a rename writes into the file that was replaced
(`opened`). A kill during a compaction leaves the copy under its own name and
the history as it was. A record carries its start, an identity and whether this
version knows its schema; a complete line that lacks only its newline counts as
torn. `Apply` and `downsample` are operators; a day is `Day` units.

`exposed` (auxiliary) collects the records that no code protects: those appended
while a compaction has read and not yet renamed, or to a replaced file, or after
a torn line. `OnlyThePolicyDrops` says that these are the only losses: every
other record stays until the policy gives a reason to drop it, and one of a
newer schema stays whatever the policy. `Chronological` has the condition that no
two runs overlapped, since `Recent` reads in file order and never sorts; with
overlapping runs it fails.

### Check modules, Discovery and Fleet

A check module is an operator `Run(c, o)` from a configuration and an
observation to findings. `Scale` lists, for each thing the module observes (a
port that listens, a lag, a leader, an answer to a request beside the main one),
its values from best to worst; sizes, ages and latencies are small numbers, and
every threshold can be met, missed and passed. A behaviour of `Fleet` is one
module under one configuration: one observation after the other gets worse
(`Degrade`), whatever else is wrong already, and at any time all is put right
(`Repair`). Some modules probe their targets one after the other, others eight or
sixteen at a time, each into its own slot of a slice read after the last is done, so
a verdict is a function of the observations. Where a module takes discovered targets,
the list comes out of `Resolve` of `Discovery`, with one source that may fail and one
that does not; a host that is both given and discovered is probed twice. A report is of
one state of the servers: that the two probes, at different instants, may disagree is
left out.

The properties are about verdicts of all 32 modules at once. The tables of `Fleet`
say what is particular to one, and they are results, not assumptions: an entry too
few makes the run fail.

- `Unseen`: what a module does not see get worse, so that the report stays as it
  is or turns greener. Each is a decision of the code: a request beside the main
  one whose failure is taken for an empty answer (clickhouse's replicas, etcd's
  member list, the variants of a stream, the `jsz` of nats, a second page of
  haproxy), a body that does not decode and is one too (consul's lists of critical and
  warning checks, behind which the checks vanish), a resolver that fails after another
  answered (dns), a partition whose leader is unknown (kafka), a node that drops out of
  the list (elasticsearch, nats), a replica whose row goes away (postgres), a
  state no rule names (a `RECOVERING` member of mongodb is OK), a rule that comes
  before a worse one (patroni's `state` before its lag), an error that is
  milder than the answer it comes instead of (grpc's "not implemented").
- `SharesTargets`: the modules and configurations that may report different statuses
  under one check and target. Five modules speak of several things under one name by
  themselves. Three more do when two of their targets have no name of their own: all
  unnamed targets of mysql go by `mysql`, all unnamed flows by `flow`, and unnamed
  targets of s3 by their bucket, whichever endpoint it is on; `validate` accepts such
  configurations, and `docs/compatibility.md:154-160` identifies a finding by its check
  and target. Whoever keeps a status for each key (the baseline, the alerts, the
  history) keeps one of them.
- `Contact`, `Requests`, `Unmeasured`: the hosts and answers without which there is
  nothing to judge; the requests of a module, each of which is answered or not; and when
  something is not known. Not only silence makes an ERROR: an RTMP server of another
  version, a gRPC status the module has no verdict for, a health colour it does not
  know, a message cut short do too, and are in `Unmeasured` with their exact value.
  `ErrorIffUnmeasured` says that a host that does not answer is an ERROR, and is named
  even if another source of hosts fails (`Unreached`); and that with every answer
  intelligible there is none, however bad the news.
- `Outage`: what puts the service out of use.

One more thing the code does: `host.go:18-42` finds the host of a finding in its
target, and its comment speaks of "target/aspect"; the sub-findings of postgres are
named "target [aspect]", have no host by that rule, and no `same_host` dependency
applies to them.

### CheckCommand and Postprocess

An invocation of `check` is: run (`Collect`), one step per sink, then the
baseline and the gate, which read no state anyone changes in between, or a
failure, or a kill. Windows and dependencies are operators; a glob is the set of
names it matches, the empty one matches all. What is carried from one invocation
to the next is the baseline file, written in place, so it may be torn; a torn
one is an error until it is recorded again. The time of a run is any time.

`GreenMeansExcused` has its own idea of what is planned: a window is open when
the time since it opened is no more than its length, modulo a day. The code
compares the two ends and asks for the weekday separately. Without the proviso
for keys with several findings it fails: with `--fail-on-new` the comparison
sees only the last finding of a key, the mildest, so a new BAD next to an OK of the
same key (a server two load balancers disagree on) leaves the build green, where
`docs/ci.md:228` says a new BAD is gated. `OutageStaysRed` has its condition for
the reason the run `pipeline_silence` shows.

Three more things the code does that a reader may not expect: a window with
`weekdays` and no `daily` is open on every day; the weekday of a window that
passes midnight is that of the moment, so a window of the night of a Saturday is
open in the small hours before it too; `--diff` leaves through a gate of its
own, which knows `--exit-on-bad` and neither `--exit-on` nor the baseline.

### IssueSync

An invocation of `report-issues` measures, lists, opens what is missing in the
order of the keys, closes what is left over, and ends at the first call that
fails. A call may fail after it was carried out. Two invocations may be under way
at once; `overlapped` (auxiliary) says that they were. The tracker gives a number
no one knows yet; that numbers of closed issues that nobody remembers are used
again makes the state finite. A title holds the status the problem had when the
issue was opened, and only its key is read back.

Neither `report-issues` nor `alert` post-processes its findings: maintenance
windows and dependencies, which `depends.go:12-13` says decide "what leaves the
gate and the notifications", reach `check`, `serve`, `watch`, the MCP server and
the desktop only. Both models take raw findings for that reason. Assumed away:
targets containing " — ", which separates key and status in a title, and more than
the 500 open issues a list returns.

## Runs

| Run | Shows | Bounds, and why they are enough |
|---|---|---|
| `runner` (MCRunner) | the cap, the finality of errors, the refinement of `RunContract`, termination, and that cancelling ends the run | Three jobs under no cap, 1 and 2: with three, one waits while two hold slots, and a sleeper can block the queue. One retry: first and last attempt differ. Outcomes include ERROR, an exact duplicate and a sort tie across jobs. |
| `exporter` (MCExporter) | completeness of what is served, the ages of samples and pages, the staleness bound, `KeepsRunning` | Cadences 3, 4 and the default 6: none a multiple of another's tick. Runs of up to 2 units, latency up to 1: a run can outlast a tick minus one, and two ticks can coincide with one run. |
| `exporter_waits` | *finding*: on one cadence a tick handled late makes everyone wait for two | two modules, cadence 4 |
| `alerting` (MCAlerting) | problems are paged, recoveries resolved, nothing resolved falsely, nobody paged early, the memory is true | Two keys, so one event can fail before another; five configurations: flags with a history that may fail, flags with a shared history and dry runs, routes with two policies and SNS, routes that leave a severity and a key uncovered, with a state file and without. `renotify_after` is one age; older notifications are all alike (`Horizon`). A key may have two problems at once. |
| `alerting_routes` | *finding*: a recovery does not reach the route its trigger took | routes split by severity |
| `alerting_memory` | *finding*: a failed send keeps an earlier resolve from being forgotten | one route, two keys |
| `monitor` (MCMonitor) | one loop remains, stopped loops end, silence and an up-to-date status at rest | `MaxCalls` = 2: every pair of start and stop, overlapping or not; the loop of the first is the predecessor, that of the second the successor. `MaxChanges` = 1 over every initial fleet: a target turning bad or good, a file breaking, a mute. |
| `history` (MCHistory) | only the policy drops records, a compaction obeys it, the file stays in order | Two compacting checks, so that one compaction meets another and an append; a newer installation. Three policies: a count, an age, thinning under a count. Four appends: two old records of a day, a recent one, and one more for the count to drop. `Day` = 2 and `MaxTime` = 3 give a finished day and a current one. |
| `monitor_repoint` | *finding*: a sample under way outlives its monitor and notifies | the same model |
| `fleet` (MCFleet) | one verdict per key, ERROR for what could not be measured and nothing else, outages red, no fault makes a report greener | `MaxFaults` = 4: for a rule to be hidden by another, the first must apply, the second too, and one more fault may decide the module's way there; four steps of one scale, or one step of each of four, reach every such combination, and more faults show nothing more: `MaxFaults` = 100 for every module but consul (347,536 states, some minutes, so not a regular run; no module meets more than 19 faults), 8 for consul, whose whole space is 331,776 states. Configurations with each threshold set and not, two or three servers where a module compares them. |
| `pipeline` (MCPipeline) | what a green gate means, sinks do not decide, an outage stays red, one issue per problem, the tracker catches up | Thirteen setups of windows, rules, gates, baselines and sinks; days of four hours, two of them, so a window can pass midnight and the weekday change; up to four keys on one host, one of whose targets names no host, so rules can chain and cycle. `MaxDrifts` = 3: a problem comes, goes and comes again while an older invocation still acts on what it measured; two keys, two invocations. |
| `pipeline_silence` | *finding*: a rule for all checks silences a whole host | the same model |

Deadlock is checked in every run; where the program may stop (`Runner` returned,
the desktop left open with the bounds used up) the model stutters explicitly.
`Exporter` and `Alerting` have no bound on length. TypeOK is the one type
invariant of each module. `AgeIsHonest`, `PageIsComplete` and `MemoryIsTrue`
relate the program's state to an auxiliary record of what really happened. A stored
sample is never older than its age says (`AgeIsHonest`), but a page may understate: it
reads the findings and the ages under two locks (`serve.go:86-92`), and from the moment
a run is stored until it is merged it gives the age of that run beside the findings
before it. `PageIsComplete` says how far that goes: the findings are still
inside the staleness bound, and any age longer than a run is exact.

Properties with a condition say when the code keeps its promise, and the
condition is shown to be needed: `RecoveriesResolved` needs that nothing failed
before: a kill after the history append loses the recoveries for good, because
the next invocation compares with the record already appended, and a read or an
append of the history that fails does so without a word, in an invocation that ends
well;
`ProblemsArePaged` and `NoEarlyRepage` need a memory that was saved;
`OneMonitor`, `NotNagging` and `KeepsTrack` need calls that do not overlap,
since two overlapping `StartMonitor` calls can both get past `StopMonitor`, and
one of the two loops then has no cancel function left.

### Fairness

- `Runner`: every runnable goroutine runs (the Go scheduler), checks return by
  their deadline, so every step but two is weakly fair. Cancelling is the
  caller's choice. That backoff timers fire is assumed by `Terminates` only;
  `CancelEndsRun` does without.
- `Exporter`: the loop goroutine is scheduled and checks end; time passes
  (strong fairness of `Elapse`, since scrapes, which take no time in the model,
  would otherwise be able to stop the clock).
- `Alerting`: cron starts the command again and again; no point of an
  invocation is fatal every time, and a provider asked again and again accepts
  sometimes (strong fairness of the steps a kill may pre-empt, and of `Send`).
  Nothing is assumed about the fleet.
- `Pipeline`: cron starts `report-issues` again and again (weak), and a listing, an
  opening or a closing that is tried again and again succeeds sometimes (strong,
  since any of them may fail). Nothing is assumed of the fleet but that it comes
  to rest (`MaxDrifts`), and nothing of `check`, whose properties are safety.
- `Monitor`: goroutines run and tickers tick (weak). A `select` chooses at
  random among ready cases, so leaving, when the cancellation is ready again
  and again, is strongly fair: with runs longer than the interval a tick is
  always ready too.

## Findings

Five disagreements between the code and what its comments say, each with a run
that exhibits it and the quotation in `PROJECT.json`: with the catch-all rule
`docs/configuration.md:880-883` recommends, two failing tcp targets of one host
suppress each other, and the outage is one of warnings (`depends.go:86`); a uniform cadence can skip every other tick
(`schedule.go:71`); a recovery may miss the team that was paged
(`route.go:45`); a send error loses the memory of delivered resolves
(`cmd/checkfleet/alert.go:242`); a monitor that was stopped may still notify
(`monitor.go:161`).

## Proofs

Every invariant of every passing run is a theorem, and so is every action property
but `WorseNeverGreener`: it holds for any number of jobs, modules, keys, targets, processes,
calls, any configuration the assumptions admit, and behaviours of any length.
Each proof module about a component has an inductive invariant (`IInv`, `IssueIInv`,
`OnScale`), one lemma per action that keeps it, and short theorems that read the
properties off it. TLC
checked the invariants on the models of the runs before they were proved.

**`RunnerProofs`**: `TypeOK`, `CapRespected`, `ErrorIsFinal`, and the refinement
of `RunContract`. Neither `TypeOK` nor `CapRespected` is inductive: that `sem`
stays in its range needs it to *be* the number of jobs holding a slot
(`Cardinality(HoldingJobs)` under a cap, 0 without), and that `wg` does needs it to
be the number of jobs started and not gone. With these two equalities each step is
a fact about one element more or less in a finite set. The refinement further
needs that `perCheck[j]` is untouched before job j stores, that what it stores is
one of its outcomes (or the empty list when retries are negative), and that
`wg = 0` with every job spawned means every job stored: `Finish` is then the
contract's `Publish`, `Collect` its `Settle`, and all else a stutter. `Assembled`
enters unexpanded: what the report looks like does not matter to it.

**`ExporterProofs`**: `TypeOK`, `AgeIsHonest`, `LatestIsComplete`,
`PageIsComplete`, `StalenessBound`. What a page shows rests on an order: what is served is never younger than the samples, what a
reader has taken never younger than what is served, and a run that reads the clock
is younger than every sample it will not replace (`RunIsYounger`). The staleness
bound needs a bound for each place of the loop (`AgesAreBounded`), with the rest of
the tick, the lateness of the wake-up and the time the run has taken in it, and
`Tick` at most every positive cadence. The proof attempt found the bound as it
was first stated false for `--interval 0`, which nothing refuses: modules that follow
the interval are then due at every wake-up, but a sample is not replaced in no
time. `Cadence` says so now; the case is not among those of `MCExporter`.

**`AlertingProofs`**: `TypeOK`, `ProblemsArePaged`, `MemoryIsTrue`,
`NoFalseResolve`, `NoEarlyRepage`, `RecoveriesResolved`. A plan triggers
a key once, and never one it resolves, the triggers before the resolves (`Planned`); while the events go out the
copy of the memory, not the file, equals what was told (`MemoryAgrees`); and every
problem is paged, still to be triggered, or left out by the routes (`PagedSoFar`).
`RecoveriesResolved` has a second invariant, `OpenIsKnown`: between two invocations
no alert is open but for keys of the newest record. It is proved under
`OneServiceEach`, that the routes send all that is found of a key to one service.
The configurations of `MCAlerting` satisfy it where the property's own conditions
do; the proof attempt showed that it is needed, and the run `alerting_routes` shows
what happens to a recovery without it.

**`MonitorProofs`**: `TypeOK`, `OneMonitor`. As long as no calls overlapped, the
loops nobody has stopped are that of the context `monCancel` names or, between two
critical sections of a call, of the one that call has taken out (`LiveIsKnown`);
after it has cancelled that one there are none.

**`HistoryProofs`**: `TypeOK`, `OnlyThePolicyDrops`, `Chronological`,
`CompactionObeys`. The heart is that the copy a compaction is about to rename
would do as the file (`Copies`): every acknowledged record is in it, exposed, or
excused by the policy. Appends that come in between keep it so because they expose
what they write; two compactions may overlap because each copy would do. Lemmas say
that `Apply` keeps an ordered subset, never drops a record of a newer schema, and
drops no other without one of the policy's reasons; and that a reason stays one when
time passes and records are added. `Chronological` needs that runs that do not
overlap have one process busy at most (`OneByOne`).

**`PipelineProofs`**: the `TypeOK` of both commands. Of `check`: `CheckTypeOK`, `SinksDoNotDecide`, `GreenMeansExcused`,
`OutageStaysRed`. The invariant is small: which sinks each stage has tried, and that
the verdict is that of the findings still there. The rest is about operators. What
`ApplyMaintenance`, `ApplyDependencies` and `Filter` leave of a finding is the
finding itself or, for a window or a failing parent, a milder one under its key;
`inDailyWindow` is the same as the time since opening, modulo a day (`DailyWindow`);
`NewOrWorse` loses no finding that is alone under its key. For `OutageStaysRed`
suppose every red finding had a red parent: a finite graph in which every node
has a successor has a cycle (`SomeCycle`), and rules that validate accepts have
none. `cycleProblems` states what the code's depth-first search decides by sets
closed under the rules, as a recursive closure could not be reasoned about.

Of `report-issues`: `IssueTypeOK`, `OneIssuePerProblem`. An invocation has one title for each key (`OneTitleEach`), it is alone from its listing
to its end (`OneAtATime`), and what it still has to open was not there when it
listed and is not there now (`StillMissing`). Calls that fail with effect are why
the last is about the tracker and not about what the invocation knows. Numbers stay
unique because finitely many are known (`Numbered`).

**`FleetProofs`**: `TypeOK`, `OneVerdictPerKey`, `ErrorIffUnmeasured`,
`OutageIsRed`, for any of the 32 check modules, any of their configurations and
servers in the tables, and any number of faults at once, where the run stops at four.
That each thing about the server stays on its scale (`OnScale`) is inductive and
short; the rest is about operators. `GivenAndFound` works out what a module with a
discovery asks, and `OfTargets` what it then reports; `FirstOfTwo` to `FirstOfFour` unroll a list of rules of which the
first that applies decides. Then there is one lemma per check module on its report
(`KafkaReport`, `HAProxyReport`, ...): its findings have a status, no two of one name
differ when the targets have names of their own, which observations make one an ERROR,
and under which target (`Blames`), and which make it red. One more per
module (`KafkaVerdict`, ...) sets the report beside the places on the scales, where
`Contact`, `Unmeasured` and `Outage` speak of the worst and the best. The proofs show
what the run cannot: that no property depends on how many faults meet.
Two operators these modules use are defined by recursion: the library's `FlattenSeq`
and `readVarint`. `Recursion` proves, by a least counterexample, that a function
with given steps over the naturals exists; so the `CHOOSE` behind either definition
has a value, and `Flattened` and `ReadVarint` say what it is.

**`Lemmas`**: besides the facts the others share, what a run reports.
`SortFindings` is a permutation, worst first, ties as they came (`SortIsStable`);
`Dedup` keeps the first of each finding in order (`FirstsAreKept`); so a report has
each finding its checks returned, once (`ReportIsComplete`). With `Refinement` this
says of any run, whatever its goroutines did, what its callers read.

### Assumptions

Each module names what it assumes of its constants, and TLC evaluates it in the
runs. Most say of what kind a constant is: `NumJobs`, bounds, latencies and
cadences are naturals, retries and limits integers of any sign, `None` is no
value, the modules are finite in number, a problem has at least one status. Some
say what the code has checked before the model begins:

- `SetupsAssumption`: a threshold and a severity that parse (`gate.go`,
  `filter.go`), one sink at least (stdout, when none is given), window times within a
  day. `ClockAssumption`: times of day are finitely many.
- `RulesAssumption`: `on_check` is one name, which the code compares and does not
  match.
- `ConfigsAssumption`: the routes are a list of known routes.
- `ConditionsAssumption`: a key can be all right.
- `ProcsAssumption`, `PolicyAssumption`: policies have three natural fields, where
  zero means no limit.

### What TLC alone checks

- Liveness: `Terminates`, `CancelEndsRun`, `KeepsRunning`,
  `LastingProblemsArePaged`, `TrackerCatchesUp`, `StoppedLoopsEnd`, `NotNagging`,
  `KeepsTrack`: the prover has no rule for fairness.
- `WorseNeverGreener`, which compares the reports before and after one step down one
  scale: a statement for each of 191 scales, beside whatever else
  is wrong. The tables are finite: the regular run evaluates it up to four faults, and runs
  without that bound (for consul up to eight faults) find no violation.

The library's induction theorems take the property as an operator, which the
provers cannot instantiate. Where a proof needs induction, `Lemmas` takes a minimal
counterexample instead: the least number, or a smallest subset of a finite set
(`NthPosition`, `Ranks`, `SomeCycle`, `Recursion`).

## Not modelled

Formatting, logging and transport; wire formats of the check modules' protocols;
parsing. Includes, stacks and variables of the configuration, and the validation
of single fields. SRV records in discovery. `--diff` and flapping. `serve`'s
post-processing; overlapping `alert` invocations; the desktop's shared last run.
Insight, whose statistics are floating point. The MCP server, `doctor`, coverage
and the generators keep no state. The clock is monotonic. The length of a backoff
is open; so far out that `Backoff << a` overflows is no retry setting. Findings
have no pointer field, so that `Dedup` never drops two equal findings with a
metric (`engine.go:222`) does not show.

## Plan

In order, the most important behaviour first:

1. *(done)* `Runner` with `RunContract` and `RunnerProofs`; `Exporter`;
   `Alerting`; `Monitor`; `History`.
2. *(done)* the check modules with `Discovery` and `Fleet`; `Postprocess`,
   `CheckCommand`, `IssueSync` and `Pipeline`.
3. *(done)* `Lemmas`; proofs of every safety property of `Exporter`, `Alerting`,
   `Monitor`, `History`, `CheckCommand` and `IssueSync`.
4. *(done)* `FleetProofs`: the invariants of `Fleet`.
5. `WorseNeverGreener` as a theorem, by a lemma per check module on how its report
   grows with each scale. A contract of `Exporter`'s readers (a page per scrape, ages
   that only grow) that `Exporter` refines. `NotNagging` without its fairness: two
   samples of one loop over an unchanged fleet do not notify twice.
6. `Configuration`: includes, stacks, merging and variables; precedence and
   cycle detection against a reference.
7. Insight's digest, recovery and flappiness over status sequences.
