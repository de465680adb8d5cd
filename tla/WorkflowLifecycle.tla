-------------------------- MODULE WorkflowLifecycle --------------------------
(***************************************************************************)
(* What a workflow promises its operator, whatever happens inside a node:  *)
(* a status that moves along the state machine of the design, a numbered   *)
(* attempt within the budget, and a candidate that is cleared for          *)
(* promotion before the workflow completes.                                *)
(***************************************************************************)
EXTENDS Naturals

CONSTANTS Budget,    \* attempts the workflow may use
          Review     \* a human clears the candidate, otherwise the verifier

VARIABLES status, attempt, cleared
lifecycle == <<status, attempt, cleared>>

Init == status = "ABSENT" /\ attempt = 0 /\ cleared = FALSE

Move(from, to) == status = from /\ status' = to

Create == Move("ABSENT", "RUNNING") /\ UNCHANGED <<attempt, cleared>>

\* Work on a new attempt withdraws nothing that was cleared: there is none.  The
\* first attempt is made whatever the budget.
NextAttempt ==
  /\ status = "RUNNING" /\ ~cleared
  /\ attempt = 0 \/ attempt < Budget
  /\ attempt' = attempt + 1
  /\ UNCHANGED <<status, cleared>>

ClearUnreviewed ==
  /\ ~Review /\ status = "RUNNING" /\ ~cleared /\ attempt > 0
  /\ cleared' = TRUE
  /\ UNCHANGED <<status, attempt>>

\* Stop for a pause, an unknown outcome or a human decision.
Stop ==
  /\ status = "RUNNING"
  /\ status' \in IF cleared THEN {"PAUSED"} ELSE {"PAUSED", "UNCERTAIN", "WAITING_HITL"}
  /\ UNCHANGED <<attempt, cleared>>

Resume == Move("PAUSED", "RUNNING") /\ UNCHANGED <<attempt, cleared>>

Approve ==
  /\ Move("WAITING_HITL", "RUNNING")
  /\ attempt > 0 /\ cleared' = TRUE
  /\ UNCHANGED attempt

Retry ==
  /\ Move("WAITING_HITL", "RUNNING")
  /\ attempt < Budget
  /\ UNCHANGED <<attempt, cleared>>

Recover == Move("UNCERTAIN", "RUNNING") /\ UNCHANGED <<attempt, cleared>>

Abandon ==
  /\ Move("WAITING_HITL", "FAILED") \/ Move("UNCERTAIN", "FAILED")
  /\ UNCHANGED <<attempt, cleared>>

Complete ==
  /\ Move("RUNNING", "COMPLETED") /\ cleared
  /\ UNCHANGED <<attempt, cleared>>

Next == \/ Create \/ NextAttempt \/ ClearUnreviewed \/ Stop \/ Resume \/ Approve
        \/ Retry \/ Recover \/ Abandon \/ Complete

Spec == Init /\ [][Next]_lifecycle
==============================================================================
