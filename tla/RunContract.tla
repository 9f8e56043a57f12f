---------------------------- MODULE RunContract ----------------------------
(***************************************************************************)
(* What a run of the fleet promises its callers, whatever the concurrency: *)
(* every job gets exactly one verdict, one of the lists its check could    *)
(* return, and the report is made once, from all the verdicts in job       *)
(* order.  Nothing else of the run -- slots, attempts, completion order -- *)
(* shows in the report.                                                    *)
(***************************************************************************)
EXTENDS Naturals

CONSTANTS NumJobs,      \* how many jobs the caller passes
          Outcomes,     \* Outcomes[j]: the lists of findings job j may settle on
          Assemble(_),  \* the report of a sequence of lists, one per job
          None          \* "nothing yet"

Jobs == 1 .. NumJobs

VARIABLES verdict,   \* the list job j settled on, or None
          report     \* Result.Findings, or None

vars == <<verdict, report>>

Init == verdict = [j \in Jobs |-> None] /\ report = None

Settle(j) ==
  /\ verdict[j] = None
  /\ \E r \in Outcomes[j] : verdict' = [verdict EXCEPT ![j] = r]
  /\ UNCHANGED report

Publish ==
  /\ report = None
  /\ \A j \in Jobs : verdict[j] # None
  /\ report' = Assemble(verdict)
  /\ UNCHANGED verdict

Next == Publish \/ \E j \in Jobs : Settle(j)

Spec == Init /\ [][Next]_vars
=============================================================================
