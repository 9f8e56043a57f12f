------------------------------- MODULE Pipeline -------------------------------
(***************************************************************************)
(* The two commands a schedule runs on a fleet besides `alert`: either     *)
(* `check`, again and again, or `report-issues`.  They share nothing but   *)
(* what they are told by the modules.                                      *)
(***************************************************************************)
EXTENDS CheckCommand, IssueSync

VARIABLE job

vars == <<job, checkVars, issueVars>>

Init ==
  /\ job \in {"check", "report-issues"}
  /\ CheckInit /\ IssueInit
  /\ job = "report-issues" => setup = CHOOSE s \in Setups : TRUE

Sync(step) == job = "report-issues" /\ step /\ UNCHANGED <<job, checkVars>>

Next == \/ job = "check" /\ CheckNext /\ UNCHANGED <<job, issueVars>>
        \/ Sync(IssueNext)

\* Cron starts the command again and again, and calls that are made again and again are
\* answered sometimes.  Nothing is assumed of the fleet.
Fairness ==
  \A c \in Crons : /\ WF_vars(Sync(Measure(c))) /\ SF_vars(Sync(List(c)))
                   /\ SF_vars(Sync(Create(c))) /\ SF_vars(Sync(Close(c))) /\ SF_vars(Sync(Finish(c)))

Spec == Init /\ [][Next]_vars /\ Fairness

\* The bounds of the state of both commands.
TypeOK == CheckTypeOK /\ IssueTypeOK
=============================================================================
