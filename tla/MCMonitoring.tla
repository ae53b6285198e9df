----------------------------- MODULE MCMonitoring -----------------------------
(***************************************************************************)
(* What watches over the executions: the audit log and the watchdog share  *)
(* no state, so that one run checks each by itself.                        *)
(***************************************************************************)
EXTENDS AuditLog, ExecutionTracker, TLC

CONSTANTS e1, e2, e3, e4, p1, p2

\* Enough events for two full batches and an overflow ...
MCEvents == {e1, e2, e3, e4}
\* ... and two rounds: of one plan, or of two.
MCPlan == {p1, p2}

VARIABLE part

MCInit == Init /\ TrackerInit /\ part \in {"audit", "watchdog"}

MCNext ==
    /\ UNCHANGED part
    /\ \/ part = "audit" /\ Next /\ UNCHANGED trackerVars
       \/ part = "watchdog" /\ TrackerNext /\ UNCHANGED vars

\* The fairness of AuditLog and of ExecutionTracker, for the part that runs.
MCFairness ==
    /\ WF_vars(part = "audit" /\ Start) /\ WF_vars(part = "audit" /\ WakeUp)
    /\ \A e \in Events :
          SF_vars(part = "audit" /\ \E w \in writing : e \in ToSet(w.batch) /\ Written(w))
    /\ \A i \in Row : WF_trackerVars(part = "watchdog" /\ GrowOld(i))
    /\ WF_trackerVars(part = "watchdog" /\ Poll) /\ SF_trackerVars(part = "watchdog" /\ Mark)
    /\ WF_trackerVars(part = "watchdog" /\ Tell) /\ WF_trackerVars(part = "watchdog" /\ Flag)

MCSpec == MCInit /\ [][MCNext]_<<vars, trackerVars, part>> /\ MCFairness
=============================================================================
