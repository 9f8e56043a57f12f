------------------------------- MODULE History -------------------------------
(***************************************************************************)
(* Package history: one JSONL file several processes append to (check      *)
(* --history from cron, alert, the desktop), and that a check with         *)
(* history_retention compacts after its own append.                        *)
(*                                                                         *)
(* Nothing locks the file.  An append opens it and writes one line; a      *)
(* compaction reads it, and renames a rewritten copy over it.  A process   *)
(* may be killed at any point, and a write may stop in the middle of its   *)
(* line, which the next line then continues.                               *)
(*                                                                         *)
(* A line is [t, id, sv]: when the run started, which append wrote it, and *)
(* whether this version knows its schema, a newer one does, or the line is *)
(* junk that does not parse.  The entries of a record play no part in what *)
(* is kept.                                                                *)
(***************************************************************************)
EXTENDS Findings

CONSTANTS Procs,     \* the processes that use the file
          Retaining, \* those whose configuration sets history_retention
          Upgraded,  \* those of a later version with a newer schema
          Policies,  \* the retention policies: [maxRuns, maxAge, downsampleAfter]
          Day,       \* length of a day
          MaxTime,   \* bound: the clock
          MaxAppends \* bound: appends by all processes

ASSUME ProcsAssumption  == Retaining \subseteq Procs /\ Upgraded \subseteq Procs
ASSUME PolicyAssumption == Policies \subseteq [maxRuns : Nat, maxAge : Nat, downsampleAfter : Nat]
ASSUME BoundsAssumption == Day \in Nat \ {0} /\ MaxTime \in Nat /\ MaxAppends \in Nat

VARIABLES
  policy,  \* the retention policy
  now,     \* the clock
  appends, \* runs started so far: the ids given out
  file,    \* the lines of the file the path names
  torn,    \* the last line has no newline
  pc,      \* where process p is
  run,     \* run[p]: the record of p's current run
  opened,  \* opened[p]: the file p's append has open is the one the path names
  kept,    \* kept[p]: the lines p's compaction is about to write
  acked,   \* auxiliary: records whose append returned without an error
  exposed, \* auxiliary: the acked records nobody promised to keep, see Write
  mixed    \* auxiliary: some run began before another had ended

log   == <<file, torn>>
procs == <<pc, run, opened, kept>>
vars  == <<policy, now, appends, log, procs, acked, exposed, mixed>>

Junk == [t |-> 0, id |-> 0, sv |-> "junk"]

\* Mutant: a line that does not parse reads as an empty record.
NotNewer(lines) == Pick(lines, {i \in DOMAIN lines : lines[i].sv # "newer"})

\* The records of the lines this version can read, in file order.
Readable(lines) == Pick(lines, {i \in DOMAIN lines : lines[i].sv = "known"})

HasNewer(lines) == \E i \in DOMAIN lines : lines[i].sv = "newer"

-----------------------------------------------------------------------------
\* RetentionPolicy.Apply and downsample.

\* The stable sort by start time.
ByTime(rs) ==
  LET ahead(i, j) == rs[i].t < rs[j].t \/ (rs[i].t = rs[j].t /\ i < j)
      place(j) == 1 + Cardinality({i \in DOMAIN rs : ahead(i, j)})
  IN  [k \in DOMAIN rs |-> rs[CHOOSE j \in DOMAIN rs : place(j) = k]]

day(r) == r.t \div Day

\* Mutant: the first record of a day stands for it.
FirstOfDay(rs, i, cutoff) == \A j \in 1 .. i - 1 : day(rs[j]) # day(rs[i])

\* Record i is the last of its day before the cutoff.
StandsForDay(rs, i, cutoff) ==
  \A j \in i + 1 .. Len(rs) : rs[j].t < cutoff => day(rs[j]) # day(rs[i])

\* Mutant: the day's record is not written before the recent ones.
LateFlush(rs, cutoff) ==
  Pick(rs, {i \in DOMAIN rs : rs[i].t >= cutoff})
    \o Pick(rs, {i \in DOMAIN rs : rs[i].t < cutoff /\ StandsForDay(rs, i, cutoff)})

downsample(rs, cutoff) ==
  Pick(rs, {i \in DOMAIN rs : rs[i].t >= cutoff \/ StandsForDay(rs, i, cutoff)})

\* Mutant: one run too many.
OneTooMany(rs, n) == IF n > 0 /\ Len(rs) > n THEN SubSeq(rs, Len(rs) - n, Len(rs)) ELSE rs

LastRuns(rs, n) == IF n > 0 /\ Len(rs) > n THEN SubSeq(rs, Len(rs) - n + 1, Len(rs)) ELSE rs

Set(p) == p.maxRuns > 0 \/ p.maxAge > 0 \/ p.downsampleAfter > 0

\* Thinning comes first, so that the limits apply to what will be kept.
Apply(p, rs) ==
  LET thinned == IF p.downsampleAfter > 0
                 THEN downsample(ByTime(rs), now - p.downsampleAfter) ELSE ByTime(rs)
      recent == IF p.maxAge > 0
                THEN Pick(thinned, {i \in DOMAIN thinned : thinned[i].t >= now - p.maxAge}) ELSE thinned
  IN  LastRuns(recent, p.maxRuns)

-----------------------------------------------------------------------------
NoRun == [t |-> 0, id |-> 0, sv |-> "known"]

Init ==
  /\ policy \in Policies
  /\ now = 0 /\ appends = 0
  /\ file = <<>> /\ torn = FALSE
  /\ pc = [p \in Procs |-> "idle"]
  /\ run = [p \in Procs |-> NoRun]
  /\ opened = [p \in Procs |-> FALSE]
  /\ kept = [p \in Procs |-> <<>>]
  /\ acked = {} /\ exposed = {} /\ mixed = FALSE

Pass ==
  /\ now < MaxTime
  /\ now' = now + 1
  /\ UNCHANGED <<policy, appends, log, procs, acked, exposed, mixed>>

\* A run of the fleet starts; its record will carry this instant.
Start(p) ==
  /\ pc[p] = "idle" /\ appends < MaxAppends
  /\ appends' = appends + 1
  /\ run' = [run EXCEPT ![p] = [t |-> now, id |-> appends + 1,
                                sv |-> IF p \in Upgraded THEN "newer" ELSE "known"]]
  /\ mixed' = (mixed \/ \E q \in Procs : pc[q] # "idle")
  /\ pc' = [pc EXCEPT ![p] = "open"]
  /\ UNCHANGED <<policy, now, log, opened, kept, acked, exposed>>

\* Append: os.OpenFile, which creates the file if need be.
OpenFile(p) ==
  /\ pc[p] = "open"
  /\ opened' = [opened EXCEPT ![p] = TRUE]
  /\ pc' = [pc EXCEPT ![p] = "write"]
  /\ UNCHANGED <<policy, now, appends, log, run, kept, acked, exposed, mixed>>

\* A line after a torn one ends that line, which then does not parse.
Extended(l) == IF torn THEN file ELSE Append(file, l)

\* What a process does after its append: a check compacts if it is told to.
Compacts(p) == p \in Retaining /\ Set(policy)
AfterAppend(p) == IF Compacts(p) THEN "read" ELSE "idle"

\* An idle process has no run.
Goes(p, here) ==
  /\ pc' = [pc EXCEPT ![p] = here]
  /\ run' = IF here = "idle" THEN [run EXCEPT ![p] = NoRun] ELSE run

\* Append: f.Write, and the success the process reports.  The record is exposed
\* when the path names another file by now, when it continues a torn line, or
\* when a compaction has read the file and not yet renamed its copy.
Write(p) ==
  /\ pc[p] = "write"
  /\ file' = IF opened[p] THEN Extended(run[p]) ELSE file
  /\ torn' = (torn /\ ~opened[p])
  /\ acked' = acked \cup {run[p]}
  /\ exposed' = IF ~opened[p] \/ torn \/ \E q \in Procs : pc[q] = "rename"
                THEN exposed \cup {run[p].id} ELSE exposed
  /\ opened' = [opened EXCEPT ![p] = FALSE]
  /\ Goes(p, AfterAppend(p))
  /\ UNCHANGED <<policy, now, appends, kept, mixed>>

\* The disk fills up, or the process is killed, in the middle of the line.  A
\* check that lives on reports the error and compacts all the same.
WriteTorn(p) ==
  /\ pc[p] = "write"
  /\ file' = IF opened[p] THEN Extended(Junk) ELSE file
  /\ torn' = (torn \/ opened[p])
  /\ opened' = [opened EXCEPT ![p] = FALSE]
  /\ \E here \in {AfterAppend(p), "idle"} : Goes(p, here)
  /\ UNCHANGED <<policy, now, appends, kept, acked, exposed, mixed>>

\* Append returns an error and has written nothing.
AppendFails(p) ==
  /\ pc[p] \in {"open", "write"}
  /\ opened' = [opened EXCEPT ![p] = FALSE]
  /\ Goes(p, AfterAppend(p))
  /\ UNCHANGED <<policy, now, appends, log, kept, acked, exposed, mixed>>

\* Mutant: lines of a newer schema are skipped in silence.
NeverRefuses(lines) == FALSE

\* Recent reports an error when it skipped records of a newer schema.
Refuses(lines) == HasNewer(lines)

\* Compact: read everything, and stop unless the policy drops something.
Read(p) ==
  /\ pc[p] = "read"
  /\ LET records == Readable(file)
         survivors == Apply(policy, records)
         nothing == Refuses(file) \/ Len(survivors) = Len(records)
     IN  /\ kept' = [kept EXCEPT ![p] = IF nothing THEN <<>> ELSE survivors]
         /\ Goes(p, IF nothing THEN "idle" ELSE "rename")
  /\ UNCHANGED <<policy, now, appends, log, opened, acked, exposed, mixed>>

\* Compact: the copy is complete and synced before it takes the path.
Rename(p) ==
  /\ pc[p] = "rename"
  /\ file' = kept[p] /\ torn' = FALSE
  /\ opened' = [q \in Procs |-> FALSE]
  /\ kept' = [kept EXCEPT ![p] = <<>>]
  /\ Goes(p, "idle")
  /\ UNCHANGED <<policy, now, appends, acked, exposed, mixed>>

\* The process is killed, or its compaction fails: the path still names the old
\* file, whatever of the copy was written.
Crash(p) ==
  /\ pc[p] # "idle"
  /\ kept' = [kept EXCEPT ![p] = <<>>]
  /\ opened' = [opened EXCEPT ![p] = FALSE]
  /\ Goes(p, "idle")
  /\ UNCHANGED <<policy, now, appends, log, acked, exposed, mixed>>

Rest == now = MaxTime /\ appends = MaxAppends /\ UNCHANGED vars

Next ==
  \/ Pass \/ Rest
  \/ \E p \in Procs : Start(p) \/ OpenFile(p) \/ Write(p) \/ WriteTorn(p)
                       \/ AppendFails(p) \/ Read(p) \/ Rename(p) \/ Crash(p)

Spec == Init /\ [][Next]_vars

-----------------------------------------------------------------------------
Records == [t : 0 .. MaxTime, id : 0 .. MaxAppends, sv : {"known", "newer"}]

LinesIn(lines) == {lines[i] : i \in DOMAIN lines}

\* Every variable keeps its type, and no record is in the file twice.
TypeOK ==
  /\ policy \in Policies /\ now \in 0 .. MaxTime /\ appends \in 0 .. MaxAppends
  /\ LinesIn(file) \subseteq Records \cup {Junk}
  /\ torn => file # <<>> /\ file[Len(file)] = Junk
  /\ \A i, j \in DOMAIN file : file[i] = file[j] => i = j \/ file[i] = Junk
  /\ opened \in [Procs -> BOOLEAN]
  /\ pc \in [Procs -> {"idle", "open", "write", "read", "rename"}]
  /\ run \in [Procs -> Records] /\ acked \subseteq Records
  /\ \A p \in Procs : LinesIn(kept[p]) \subseteq Records 
  /\ exposed \subseteq {r.id : r \in acked} /\ mixed \in BOOLEAN

\* The retention policy is a reason for r not to be in the file.
Excused(r) ==
  \/ policy.maxAge > 0 /\ r.t < now - policy.maxAge
  \/ policy.maxRuns > 0 /\ Cardinality({q \in acked \ {r} : q.t >= r.t}) >= policy.maxRuns
  \/ policy.downsampleAfter > 0 /\ r.t < now - policy.downsampleAfter
     /\ \E q \in acked \ {r} : q.t >= r.t /\ day(q) = day(r)

\* "losing a run to a rotation you forgot is worse than a large file": a record
\* whose append succeeded stays in the file until the policy gives a reason to
\* drop it, through any number of compactions and kills -- unless it was
\* exposed, and always if this version cannot read it.
OnlyThePolicyDrops ==
  \A r \in acked : r \in LinesIn(file) \/ r.id \in exposed \/ (r.sv = "known" /\ Excused(r))

\* A compaction leaves no more than the policy allows: at most maxRuns records,
\* none older than maxAge, one per day before the recent window, in order --
\* all measured at the latest when the compacting run started.
\* Runs that started in the meantime wait for the next one.
CompactionObeys ==
  [][\A p \in Procs : file' # file /\ pc[p] = "rename" /\ pc'[p] = "idle" =>
       /\ policy.maxRuns > 0 => Len(file') <= policy.maxRuns
       /\ policy.maxAge > 0 => \A i \in DOMAIN file' : file'[i].t >= run[p].t - policy.maxAge
       /\ \A i, j \in DOMAIN file' : i < j =>
            /\ file'[i].t <= file'[j].t
            /\ policy.downsampleAfter > 0 /\ day(file'[i]) = day(file'[j])
                 => file'[j].t >= run[p].t - policy.downsampleAfter]_vars

\* "Recent returns the last n records in chronological order", which it never
\* sorts: true as long as no two runs overlapped, whatever was compacted.
Chronological ==
  ~mixed => \A i, j \in DOMAIN Readable(file) : i < j => Readable(file)[i].t <= Readable(file)[j].t
=============================================================================
