-------------------------- MODULE ExecutionTracker --------------------------
(***************************************************************************)
(* The execution_tracker table between execute_plan, which registers a row *)
(* for every round of a plan, and the watchdog of MonitorService, which    *)
(* polls for rows without progress or over the time budget, ends them and  *)
(* tells the user.  Rows are found by plan_id, never by tracker_id: what   *)
(* is done to one running row is done to every running row of its plan.    *)
(*                                                                         *)
(* Every database command of the watchdog is an action: execute_plan goes  *)
(* on between two of them.  Rows are numbered in the order of started_at.  *)
(***************************************************************************)
EXTENDS Naturals, FiniteSets, FiniteSetsExt

CONSTANTS Plan,
          MaxRows,       \* bound: rounds that register a row
          PollLimit,     \* limit of get_active_executions (100 in the code)
          MaxCrashes,    \* bound: deaths of the server process
          DatabaseFails, \* may a database command raise?
          NoPlan

ASSUME TrackerParameters ==
    /\ MaxRows \in Nat /\ PollLimit \in Nat \ {0} /\ MaxCrashes \in Nat
    /\ DatabaseFails \in BOOLEAN /\ NoPlan \notin Plan

Row == 1 .. MaxRows
Flagged == {"stuck", "timeout"}
Ended == Flagged \cup {"finished"}  \* "completed" and "failed" in the code

VARIABLES
    active,   \* the plans with a round inside execute_plan
    planOf,   \* plan_id of a row, NoPlan while it does not exist
    status,
    age,      \* "silent": last_progress_at is more than five minutes ago;
              \* "old": started_at is more than sixty minutes ago, which is
              \* looked at first; else "fresh"
    notified, \* notification_sent
    due,      \* the overdue records of the poll that are left: their verdict,
              \* and notification_sent as the poll has read it
    watch,    \* "asleep", or the next command for the first of due
    told,     \* history: how often the user was notified of a row
    crashes,
    cut       \* history: the plans whose notification a crash or a lost
              \* answer has prevented

roundVars == <<active, planOf>>
watchVars == <<due, watch, told, cut>>
trackerVars == <<active, planOf, status, age, notified, due, watch, told, crashes, cut>>

TrackerInit ==
    /\ active = {}
    /\ planOf = [i \in Row |-> NoPlan]
    /\ status = [i \in Row |-> "absent"]
    /\ age = [i \in Row |-> "fresh"]
    /\ notified = [i \in Row |-> FALSE]
    /\ due = <<>> /\ watch = "asleep"
    /\ told = [i \in Row |-> 0]
    /\ crashes = 0 /\ cut = {}

-----------------------------------------------------------------------------
(* TrackerService, as execute_plan calls it *)

Running == {i \in Row : status[i] = "running"}
RunningOf(p) == {i \in Running : planOf[i] = p}

\* create_tracker.  Errors are swallowed: the round goes on without a row.
\* The front end sends a plan again only when its last round has answered.
Register(p) ==
    /\ p \notin active
    /\ active' = active \cup {p}
    /\ \/ \E i \in Row :
             /\ status[i] = "absent" /\ \A j \in Row : j < i => status[j] # "absent"
             /\ planOf' = [planOf EXCEPT ![i] = p]
             /\ status' = [status EXCEPT ![i] = "running"]
       \/ DatabaseFails /\ UNCHANGED <<planOf, status>>
    /\ UNCHANGED <<age, notified, crashes, watchVars>>

\* update_progress, after each level.  A failed update changes nothing.
ReportProgress(p) ==
    /\ p \in active
    /\ age' = [i \in Row |-> IF i \in RunningOf(p) /\ age[i] = "silent" THEN "fresh" ELSE age[i]]
    /\ UNCHANGED <<roundVars, status, notified, crashes, watchVars>>

\* GateApprovalRequired leaves execute_plan without a word to the tracker.
Pause(p) ==
    /\ p \in active
    /\ active' = active \ {p}
    /\ UNCHANGED <<planOf, status, age, notified, crashes, watchVars>>

\* UPDATE ... WHERE plan_id = p AND status = 'running'
mark_terminal(p, ending) ==
    status' = [i \in Row |-> IF i \in RunningOf(p) THEN ending ELSE status[i]]

\* The end of execute_plan.
Complete(p) ==
    /\ p \in active
    /\ active' = active \ {p}
    /\ \/ mark_terminal(p, "finished")
       \/ DatabaseFails /\ UNCHANGED status
    /\ UNCHANGED <<planOf, age, notified, crashes, watchVars>>

-----------------------------------------------------------------------------
(* MonitorService: one poll *)

\* Mutant: rows whose plan has been notified of are not selected.
BatchUnnotified ==
    {i \in Running : ~notified[i] /\ Cardinality({j \in Running : j < i}) < PollLimit}

\* get_active_executions: the running rows that began first.
Batch == {i \in Running : Cardinality({j \in Running : j < i}) < PollLimit}

Verdict(i) == IF age[i] = "old" THEN "timeout" ELSE "stuck"

\* _check_active_executions reads the rows and judges all of them at once.
Poll ==
    LET overdue == {i \in Batch : age[i] # "fresh"} IN
    /\ watch = "asleep" /\ overdue # {}
    /\ due' = [i \in overdue |-> [verdict |-> Verdict(i), notified |-> notified[i]]]
    /\ watch' = "marking"
    /\ UNCHANGED <<roundVars, status, age, notified, told, crashes, cut>>

First == Min(DOMAIN due)

\* Mutant: the first record is not taken off.
NextRecordAgain == UNCHANGED due /\ watch' = "marking"

\* On to the next record, or back to sleep.
NextRecord ==
    LET rest == DOMAIN due \ {First} IN
    /\ due' = [i \in rest |-> due[i]]
    /\ watch' = IF rest = {} THEN "asleep" ELSE "marking"

\* _handle_stuck and _handle_timeout.  What mark_terminal returns is not
\* looked at: the user is told although the row has ended meanwhile.
Mark ==
    /\ watch = "marking"
    /\ mark_terminal(planOf[First], due[First].verdict)
    /\ IF due[First].notified
       THEN NextRecord
       ELSE watch' = "telling" /\ UNCHANGED due
    /\ UNCHANGED <<roundVars, age, notified, told, crashes, cut>>

\* An error of mark_terminal ends the poll: the records left wait for the next.
\* It may have been committed all the same, and then nobody tells the user.
MarkFails ==
    /\ DatabaseFails /\ watch = "marking"
    /\ \/ UNCHANGED <<status, cut>>
       \/ /\ mark_terminal(planOf[First], due[First].verdict)
          /\ cut' = cut \cup {planOf[First]}
    /\ due' = <<>> /\ watch' = "asleep"
    /\ UNCHANGED <<roundVars, age, notified, told, crashes>>

\* Mutant: the notification is not sent.
TellNobody ==
    /\ watch = "telling"
    /\ watch' = "flagging"
    /\ UNCHANGED <<roundVars, status, age, notified, due, told, crashes, cut>>

Tell ==
    /\ watch = "telling"
    /\ told' = [told EXCEPT ![First] = @ + 1]
    /\ watch' = "flagging"
    /\ UNCHANGED <<roundVars, status, age, notified, due, crashes, cut>>

\* mark_notified sets the flag of every row of the plan; its error is caught.
Flag ==
    /\ watch = "flagging"
    /\ \/ notified' = [i \in Row |-> notified[i] \/ planOf[i] = planOf[First]]
       \/ DatabaseFails /\ UNCHANGED notified
    /\ NextRecord
    /\ UNCHANGED <<roundVars, status, age, told, crashes, cut>>

-----------------------------------------------------------------------------
(* Time and the server process *)

GoSilent(i) ==
    /\ status[i] = "running" /\ age[i] = "fresh"
    /\ age' = [age EXCEPT ![i] = "silent"]
    /\ UNCHANGED <<roundVars, status, notified, crashes, watchVars>>

GrowOld(i) ==
    /\ status[i] = "running" /\ age[i] # "old"
    /\ age' = [age EXCEPT ![i] = "old"]
    /\ UNCHANGED <<roundVars, status, notified, crashes, watchVars>>

\* The process dies, or is stopped, with the rounds it runs; a new one starts a
\* watchdog.
Crash ==
    /\ crashes < MaxCrashes
    /\ crashes' = crashes + 1
    /\ active' = {}
    /\ due' = <<>> /\ watch' = "asleep"
    /\ cut' = IF watch = "telling" THEN cut \cup {planOf[First]} ELSE cut
    /\ UNCHANGED <<planOf, status, age, notified, told>>

-----------------------------------------------------------------------------
TrackerNext ==
    \/ \E p \in Plan : Register(p) \/ ReportProgress(p) \/ Pause(p) \/ Complete(p)
    \/ Poll \/ Mark \/ MarkFails \/ Tell \/ Flag
    \/ \E i \in Row : GoSilent(i) \/ GrowOld(i)
    \/ Crash

TrackerSpec == TrackerInit /\ [][TrackerNext]_trackerVars

\* Time passes and the watchdog is scheduled; a database that is tried again
\* and again answers at last.  Nothing is assumed of the executions.
FairTrackerSpec ==
    /\ TrackerSpec
    /\ \A i \in Row : WF_trackerVars(GrowOld(i))
    /\ WF_trackerVars(Poll) /\ SF_trackerVars(Mark) /\ WF_trackerVars(Tell) /\ WF_trackerVars(Flag)

-----------------------------------------------------------------------------
(* Properties *)

TrackerTypeOK ==
    /\ active \subseteq Plan
    /\ planOf \in [Row -> Plan \cup {NoPlan}]
    /\ status \in [Row -> {"absent", "running"} \cup Ended]
    /\ age \in [Row -> {"fresh", "silent", "old"}] /\ notified \in [Row -> BOOLEAN]
    /\ DOMAIN due \subseteq Row
    /\ \A i \in DOMAIN due : due[i] \in [verdict : Flagged, notified : BOOLEAN]
    /\ watch \in {"asleep", "marking", "telling", "flagging"}
    /\ watch = "asleep" <=> DOMAIN due = {}
    /\ told \in [Row -> Nat]
    /\ crashes \in 0 .. MaxCrashes /\ cut \subseteq Plan

\* A late complete() and the watchdog race for a row: the first one decides,
\* and no later write changes how the row has ended.
EndingIsFinal ==
    [][\A i \in Row : status[i] \in Ended => status'[i] = status[i]]_trackerVars

\* The user is told of a row once at most, and only after it has ended.  No
\* flag is needed for it: notification_sent is false in a record that a poll
\* returns a second time, but a poll returns running rows only.
ToldOnce == \A i \in Row : told[i] <= (IF status[i] \in Ended THEN 1 ELSE 0)

Told(p) == \E i \in Row : planOf[i] = p /\ told[i] > 0

\* When the watchdog has ended a row, the user has been told of its plan, is
\* about to be, or a crash or a lost answer came in between.  That mark_notified also sets
\* the flag of rows that are still running may cost later rounds a
\* notification of their own, but never the only one of the plan.
FlaggedPlanIsTold ==
    \A i \in Row : status[i] \in Flagged =>
        \/ Told(planOf[i]) \/ planOf[i] \in cut
        \/ watch = "telling" /\ planOf[i] = planOf[First]

\* Whatever becomes of an execution -- it hangs, waits for an approval, dies
\* with its process, or its last update fails -- its row does not stay running.
NoRowRunsForever == \A i \in Row : status[i] = "running" ~> status[i] \in Ended
=============================================================================
