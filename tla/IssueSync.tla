------------------------------- MODULE IssueSync -------------------------------
(***************************************************************************)
(* The command `checkfleet report-issues`: run the modules, list the open  *)
(* issues, open one for each problem that has none, close those of keys    *)
(* that are no problem.  Nothing keeps two invocations from overlapping.   *)
(*                                                                         *)
(* The findings are those of the run, neither post-processed nor filtered. *)
(* An issue is <<number, title>>, and a title says check, target, status.  *)
(* A dry run, which only lists, is left out.                               *)
(***************************************************************************)
EXTENDS Findings, FiniteSetsExt

CONSTANTS
  Keys,        \* the checks and targets there are, numbered in string order
  Conditions,  \* what may be found under a key: sets of statuses
  Crons,       \* invocations that may be under way at one time
  MaxDrifts    \* a bound: how often the fleet changes

ASSUME KeysAssumption       == Keys \subseteq Nat \X Nat
ASSUME ConditionsAssumption == {"OK"} \in Conditions
ASSUME MaxDriftsAssumption  == MaxDrifts \in Nat

VARIABLES
  fleet,       \* what would be found under each key
  drifts,
  issues,      \* the open issues of the tracker that carry the label
  at,          \* where each invocation is
  titles,      \* the issues it is still to open
  stale,       \* the issues it is still to close
  overlapped   \* auxiliary: two invocations were under way at one time

issueVars == <<fleet, drifts, issues, at, titles, stale, overlapped>>

-----------------------------------------------------------------------------
\* Mutant: what cannot be measured is no problem.
isProblemBad(status) == status = "BAD"

isProblem(status) == status \in {"BAD", "ERROR"}

\* The title of the issue for a key, and the key of a title.
title(key, status) == <<key[1], key[2], status>>
Key(t) == <<t[1], t[2]>>

\* Mutant: the title is the key.
KeyFromWholeTitle(t) == t

\* The key read back from a title.
KeyFromTitle(t) == <<t[1], t[2]>>

Problems(found) == {k \in Keys : \E s \in found[k] : isProblem(s)}

\* Mutant: the last finding names the issue, problem or not.
WantedMildest(found) ==
  LET last(k) == CHOOSE s \in found[k] : \A z \in found[k] : AtLeast(z, s)
  IN  {title(k, last(k)) : k \in Problems(found)}

\* One title for each problem; of two findings under one key, worst first, the last
\* problem names it.
Wanted(found) ==
  LET last(k) == CHOOSE s \in found[k] : isProblem(s) /\ \A z \in found[k] : isProblem(z) => AtLeast(z, s)
  IN  {title(k, last(k)) : k \in Problems(found)}

\* The issue kept for each key: of several, listed newest first, the oldest.
Open(listed) ==
  {i \in listed : \A j \in listed : KeyFromTitle(j[2]) = KeyFromTitle(i[2]) => i[1] <= j[1]}

\* The first in the order of the keys.
First(keys) == CHOOSE k \in keys : \A m \in keys : k[1] < m[1] \/ (k[1] = m[1] /\ k[2] <= m[2])

-----------------------------------------------------------------------------
IssueInit ==
  /\ fleet = [k \in Keys |-> {"OK"}]
  /\ drifts = 0
  /\ issues = {}
  /\ at = [c \in Crons |-> "idle"]
  /\ titles = [c \in Crons |-> {}] /\ stale = [c \in Crons |-> {}]
  /\ overlapped = FALSE

Drift(k) ==
  /\ drifts < MaxDrifts
  /\ drifts' = drifts + 1
  /\ \E found \in Conditions \ {fleet[k]} : fleet' = [fleet EXCEPT ![k] = found]
  /\ UNCHANGED <<issues, at, titles, stale, overlapped>>

\* RunWith: what is found now is what the invocation goes by.
Measure(c) ==
  /\ at[c] = "idle"
  /\ at' = [at EXCEPT ![c] = "list"]
  /\ titles' = [titles EXCEPT ![c] = Wanted(fleet)]
  /\ overlapped' = (overlapped \/ \E d \in Crons : at[d] # "idle")
  /\ UNCHANGED <<fleet, drifts, issues, stale>>

\* Reconcile up to its loops: what is missing, and what is left over.
List(c) ==
  LET open   == Open(issues)
      keys   == {KeyFromTitle(i[2]) : i \in open}
      wanted == {Key(t) : t \in titles[c]}
  IN  /\ at[c] = "list"
      /\ at' = [at EXCEPT ![c] = "act"]
      /\ titles' = [titles EXCEPT ![c] = {t \in @ : Key(t) \notin keys}]
      /\ stale' = [stale EXCEPT ![c] = {i \in open : KeyFromTitle(i[2]) \notin wanted}]
      /\ UNCHANGED <<fleet, drifts, issues, overlapped>>

\* A number nobody knows: the tracker never gives one twice.
NewNumber ==
  LET known == {i[1] : i \in issues \cup UNION {stale[c] : c \in Crons}}
  IN  Min((1 .. Cardinality(known) + 1) \ known)

NextTitle(c) == CHOOSE t \in titles[c] : Key(t) = First({Key(u) : u \in titles[c]})

Create(c) ==
  /\ at[c] = "act" /\ titles[c] # {}
  /\ issues' = issues \cup {<<NewNumber, NextTitle(c)>>}
  /\ titles' = [titles EXCEPT ![c] = @ \ {NextTitle(c)}]
  /\ UNCHANGED <<fleet, drifts, at, stale, overlapped>>

NextStale(c) ==
  CHOOSE i \in stale[c] : KeyFromTitle(i[2]) = First({KeyFromTitle(j[2]) : j \in stale[c]})

Close(c) ==
  /\ at[c] = "act" /\ titles[c] = {} /\ stale[c] # {}
  /\ issues' = issues \ {NextStale(c)}
  /\ stale' = [stale EXCEPT ![c] = @ \ {NextStale(c)}]
  /\ UNCHANGED <<fleet, drifts, at, titles, overlapped>>

Over(c) ==
  /\ at' = [at EXCEPT ![c] = "idle"]
  /\ titles' = [titles EXCEPT ![c] = {}]
  /\ stale' = [stale EXCEPT ![c] = {}]

Finish(c) ==
  /\ at[c] = "act" /\ titles[c] = {} /\ stale[c] = {}
  /\ Over(c)
  /\ UNCHANGED <<fleet, drifts, issues, overlapped>>

\* A call fails, with or without having been carried out, and the invocation ends; so
\* it does when it is killed.
Fail(c) ==
  /\ at[c] # "idle"
  /\ \/ UNCHANGED issues
     \/ at[c] = "act" /\ titles[c] # {} /\ issues' = issues \cup {<<NewNumber, NextTitle(c)>>}
     \/ at[c] = "act" /\ titles[c] = {} /\ stale[c] # {} /\ issues' = issues \ {NextStale(c)}
  /\ Over(c)
  /\ UNCHANGED <<fleet, drifts, overlapped>>

IssueNext ==
  \/ \E k \in Keys : Drift(k)
  \/ \E c \in Crons : Measure(c) \/ List(c) \/ Create(c) \/ Close(c) \/ Finish(c) \/ Fail(c)

-----------------------------------------------------------------------------
IssueTypeOK ==
  /\ fleet \in [Keys -> Conditions] /\ drifts \in 0 .. MaxDrifts
  /\ \A i \in issues : /\ i[1] \in Nat \ {0} /\ Key(i[2]) \in Keys /\ isProblem(i[2][3])
                       /\ \A j \in issues : i[1] = j[1] => i = j
  /\ at \in [Crons -> {"idle", "list", "act"}]
  /\ \A c \in Crons : at[c] = "idle" => titles[c] = {} /\ stale[c] = {}
  /\ \A c \in Crons : at[c] # "act" => stale[c] = {}
  /\ overlapped \in BOOLEAN

\* While no two invocations overlap, a key never has two open issues, whatever failed.
OneIssuePerProblem ==
  ~overlapped => \A i, j \in issues : Key(i[2]) = Key(j[2]) => i = j

\* Once the fleet rests, the keys with an open issue come to be the problems, and stay so,
\* even if invocations overlapped or failed half-way.
TrackerCatchesUp ==
  <>[]({Key(i[2]) : i \in issues} = {k \in Keys : fleet[k] \cap {"BAD", "ERROR"} # {}})
=============================================================================
