------------------------------ MODULE Findings ------------------------------
(***************************************************************************)
(* The finding: the one value every part of checkfleet exchanges, and the  *)
(* pure functions package engine defines on lists of findings.             *)
(*                                                                         *)
(* A finding is a record [check, target, status, msg].  A check or target  *)
(* name is a natural number ordered the way its string is; msg stands for  *)
(* every other field (message, value, unit), of which the code only ever   *)
(* tests equality.                                                         *)
(***************************************************************************)
EXTENDS Integers, Sequences, FiniteSets

Status == {"OK", "WARN", "BAD", "ERROR"}

\* The order OK < WARN < BAD < ERROR.
severity(s) == CASE s = "OK"    -> 0
                 [] s = "WARN"  -> 1
                 [] s = "BAD"   -> 2
                 [] s = "ERROR" -> 3

AtLeast(s, threshold) == severity(s) >= severity(threshold)

hasError(fs) == \E i \in DOMAIN fs : fs[i].status = "ERROR"

\* What stands for an empty string, a name or a part that is not there.
Absent == "absent"

-----------------------------------------------------------------------------
\* Keep the positions in P of fs, in order.
Pick(fs, P) ==
  LET nth(k) == CHOOSE i \in P : Cardinality({j \in P : j <= i}) = k
  IN  [k \in 1 .. Cardinality(P) |-> fs[nth(k)]]

\* The elements that are kept, in order.
Only(xs, keeps(_)) == Pick(xs, {i \in DOMAIN xs : keeps(xs[i])})

\* Drops exact duplicates, keeping the first occurrence.
Dedup(fs) == Pick(fs, {i \in DOMAIN fs : \A j \in 1 .. i - 1 : fs[j] # fs[i]})

\* The less function of the sort: worst first, then check, then target.
Before(f, g) ==
  \/ severity(f.status) > severity(g.status)
  \/ f.status = g.status /\ f.check < g.check
  \/ f.status = g.status /\ f.check = g.check /\ f.target < g.target

\* A stable sort: an element's place is the number of elements that go before
\* it, ties in input order.
SortFindings(fs) ==
  LET ahead(i, j) == Before(fs[i], fs[j]) \/ (~Before(fs[j], fs[i]) /\ i < j)
      place(j) == 1 + Cardinality({i \in DOMAIN fs : ahead(i, j)})
  IN  [k \in DOMAIN fs |-> fs[CHOOSE j \in DOMAIN fs : place(j) = k]]

\* What a run reports of the lists its jobs returned, flattened in job order.
Report(flat) == SortFindings(Dedup(flat))
=============================================================================
