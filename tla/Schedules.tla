----------------------------- MODULE Schedules -----------------------------
(***************************************************************************)
(* A scheduled plan of SchedulerService: its row in scheduled_plans, its   *)
(* APScheduler job (in memory, at most one running instance), the run that *)
(* executes it, and the requests of its user.  Schedules share nothing, so *)
(* the module is about one of them.                                        *)
(*                                                                         *)
(* Every database command is an action together with the code up to the    *)
(* next one; whatever else runs on the event loop comes between two of     *)
(* them.  A command may fail, before it took effect or after (its answer   *)
(* is lost).  Time is kept as far as the trigger tells it apart.           *)
(***************************************************************************)
EXTENDS Integers, FiniteSets

CONSTANTS Client,       \* requests of the user that may be open at once
          Limits,       \* values of max_runs, 0 for none
          MaxRequests,  \* bound: requests in all
          MaxStarts,    \* bound: executions
          MaxFaults     \* bound: failing database commands and deaths of the process

ASSUME ScheduleParameters ==
    /\ Limits \subseteq Nat /\ MaxRequests \in Nat /\ MaxStarts \in Nat
    /\ MaxFaults \in Nat

Status == {"active", "paused", "cancelled", "completed", "failed"}
Kind == {"once", "recurring"}
\* A trigger that APScheduler takes, or one that makes _register_job raise.
Config == {"good", "bad"}
RunPc == {"idle", "loading", "unserved", "planning", "approving", "executing", "retrying",
          "succeeding", "renewing", "failing", "gated", "pausing", "dropping"}

VARIABLES
    row,      \* status ("absent" without a row), kind, config, limit and runs
    job,      \* is a job registered?
    trigger,  \* "future"; "now", up to misfire_grace_time after the time of a
              \* one-time schedule; "past" later, or after the end date of a
              \* recurring one
    run,      \* the running instance: where it is, the kind it has loaded
    req,      \* the open requests: where they are, what they write, and the
              \* config they have read
    wish,     \* history: the status the user has asked for last, or "deleted"
    since,    \* history: executions begun since then
    started,  \* history: executions begun, and
    excused,  \* how many of them the limit does not stand for
    unrecorded, \* history: 1 from the beginning of an execution to its record
    unjobbed, \* history: how an active schedule may have lost its job
    requests, faults

rowVars == <<row, trigger>>
counts == <<since, started, excused, unrecorded>>
history == <<wish, counts, unjobbed, requests, faults>>
vars == <<row, job, trigger, run, req, history>>

NotGiven == -1   \* a max_runs that a request does not set
NoRow == [status |-> "absent", kind |-> "once", config |-> "good", limit |-> 0, runs |-> 0]
NoRun == [pc |-> "idle", kind |-> "once"]
NoRequest == [pc |-> "idle", write |-> "none", limit |-> NotGiven, edit |-> "none", config |-> "good"]

Init ==
    /\ row = NoRow /\ job = FALSE /\ trigger = "future"
    /\ run = NoRun /\ req = [c \in Client |-> NoRequest]
    /\ wish = "none" /\ since = 0 /\ started = 0 /\ excused = 0 /\ unrecorded = 0
    /\ unjobbed = {} /\ requests = 0 /\ faults = 0

\* How a database command ends: "error" without its effect, "lost" with it.
Answer == {"ok", "lost", "error"}
TakesEffect(a) == a # "error"
Answers(a) ==
    /\ faults' = IF a = "ok" THEN faults ELSE faults + 1
    /\ faults' <= MaxFaults

Exists == row.status # "absent"

\* The statements of the database adapter.
create_scheduled_plan(kind, config, limit) ==
    row' = [status |-> "active", kind |-> kind, config |-> config, limit |-> limit, runs |-> 0]

\* The fields that are given.
update_scheduled_plan(status, limit, edit) ==
    row' = IF ~Exists THEN row
           ELSE [row EXCEPT !.status = IF status = "none" THEN @ ELSE status,
                            !.limit  = IF limit = NotGiven THEN @ ELSE limit,
                            !.config = IF edit = "none" THEN @ ELSE edit]

delete_scheduled_plan == row' = NoRow

get_active_schedules == {r \in {row} : r.status = "active"}

\* add_job, replacing the job of the same id, or an exception before it; and
\* remove_job, if there is one.
register_job(config, before) == job' = IF config = "good" THEN TRUE ELSE before
remove_job == job' = FALSE
NotRegistered(config) == IF config = "good" THEN {} ELSE {"trigger"}

-----------------------------------------------------------------------------
(* The requests of the user *)

Idle(c) == req[c].pc = "idle" /\ requests < MaxRequests
Opened == requests' = requests + 1

\* create: the row, whose trigger only its registration validates.  (A one-time
\* schedule runs once whatever its max_runs is; that of a recurrence is not read.)
Create(c, a) ==
    /\ Idle(c) /\ wish = "none" /\ Opened
    /\ \E kind \in Kind, config \in Config, limit \in Limits :
          /\ kind = "once" => limit = 0
          /\ IF TakesEffect(a)
             THEN create_scheduled_plan(kind, config, limit) /\ wish' = "active"
             ELSE UNCHANGED <<row, wish>>
          /\ req' = IF a # "ok" THEN req
                    ELSE [req EXCEPT ![c] = [NoRequest EXCEPT !.pc = "creating", !.config = config]]
    /\ unjobbed' = IF a = "lost" THEN unjobbed \cup {"database"} ELSE unjobbed
    /\ UNCHANGED <<job, trigger, run, counts>> /\ Answers(a)

\* The beginning of update: the schedule is read, its job removed if the
\* request pauses or cancels it.  An edit that recurrence_to_display cannot
\* show ends the request here, the job being removed.
BeginUpdate(c, new, limit, edit) ==
    /\ Idle(c) /\ Exists /\ Opened
    /\ row.kind = "once" => limit = NotGiven
    /\ job' = (job /\ ~(new = "cancelled" \/ (new = "paused" /\ row.status = "active")))
    /\ \/ /\ req' = [req EXCEPT ![c] = [pc |-> "writing", write |-> new, limit |-> limit,
                                       edit |-> edit, config |-> "good"]]
          /\ UNCHANGED unjobbed
       \/ /\ edit = "bad" /\ row.kind = "recurring" /\ UNCHANGED req
          /\ unjobbed' = unjobbed \cup {"trigger"}
    /\ UNCHANGED <<rowVars, run, wish, counts, faults>>

\* What the limit does not stand for: the execution a user asks for again, and,
\* if a limit is set below what was done, that and the one that finds it exceeded.
Excuse(write, limit) ==
    LET again == IF write = "active" /\ row.status # "active" THEN excused + 1 ELSE excused
        lowered == started + 1 - unrecorded - limit
    IN  excused' = IF limit > 0 /\ lowered > again THEN lowered ELSE again

\* UPDATE with the fields of the request: a status, a limit, and an edit of the
\* trigger (its time, its recurrence or its timezone).  If the command fails the
\* job stays removed.
WriteUpdate(c, a) ==
    LET r == req[c] IN
    /\ r.pc = "writing"
    /\ IF TakesEffect(a) /\ Exists
       THEN /\ update_scheduled_plan(r.write, r.limit, r.edit)
            /\ trigger' \in IF r.edit = "none" THEN {trigger} ELSE {trigger, "future"}
            /\ wish' = IF r.write = "none" THEN wish ELSE r.write
            /\ since' = IF r.write = "none" THEN since ELSE 0
            /\ Excuse(r.write, r.limit)
       ELSE UNCHANGED <<row, trigger, wish, since, excused>>
    /\ req' = [req EXCEPT ![c] = IF a = "ok" THEN [NoRequest EXCEPT !.pc = "rereading"] ELSE NoRequest]
    /\ unjobbed' = IF a = "ok" THEN unjobbed ELSE unjobbed \cup {"database"}
    /\ UNCHANGED <<job, run, started, unrecorded, requests>> /\ Answers(a)

\* The schedule is read again, its job registered if it is active by now.
Reread(c, a) ==
    /\ req[c].pc = "rereading"
    /\ req' = [req EXCEPT ![c] =
           IF a = "ok" /\ row.status = "active"
           THEN [NoRequest EXCEPT !.pc = "registering", !.config = row.config] ELSE NoRequest]
    /\ unjobbed' = IF a = "ok" THEN unjobbed ELSE unjobbed \cup {"database"}
    /\ UNCHANGED <<rowVars, job, run, wish, counts, requests>> /\ Answers(a)

\* Mutant: an update does not register the job again.
RegisterNothing(c) ==
    /\ req[c].pc \in {"creating", "registering"}
    /\ job' = (job \/ (req[c].pc = "creating" /\ req[c].config = "good"))
    /\ unjobbed' = NotRegistered(req[c].config)
    /\ req' = [req EXCEPT ![c] = NoRequest]
    /\ UNCHANGED <<rowVars, run, wish, counts, requests, faults>>

\* _register_job for what has been written or read, after _remove_job if this is
\* an update.  If it raises, the row stays as it was committed.
Register(c) ==
    /\ req[c].pc \in {"creating", "registering"}
    /\ register_job(req[c].config, job /\ req[c].pc = "creating")
    /\ unjobbed' = NotRegistered(req[c].config)
    /\ req' = [req EXCEPT ![c] = NoRequest]
    /\ UNCHANGED <<rowVars, run, wish, counts, requests, faults>>

\* delete: the job, then the row.
Delete(c, a) ==
    /\ Idle(c) /\ Exists /\ Opened
    /\ remove_job
    /\ IF TakesEffect(a)
       THEN delete_scheduled_plan /\ wish' = "deleted" /\ since' = 0
       ELSE UNCHANGED <<row, wish, since>>
    /\ unjobbed' = IF a = "ok" THEN unjobbed ELSE unjobbed \cup {"database"}
    /\ UNCHANGED <<trigger, run, req, started, excused, unrecorded>> /\ Answers(a)

-----------------------------------------------------------------------------
(* The job and its runs *)

Goto(pc) == run' = [run EXCEPT !.pc = pc]

\* APScheduler runs the job: a one-time job is gone with that.  While an
\* instance runs, no second one is started (max_instances).
Fire ==
    /\ job /\ IF row.kind = "once" THEN trigger = "now" ELSE trigger # "past"
    /\ job' = (row.kind = "recurring")
    /\ \/ run.pc = "idle" /\ run' = [NoRun EXCEPT !.pc = "loading"]
       \/ run.pc # "idle" /\ row.kind = "once" /\ UNCHANGED run
    /\ UNCHANGED <<rowVars, req, history>>

\* A job whose time is over is dropped.
Misfire ==
    /\ job /\ trigger = "past"
    /\ job' = FALSE
    /\ UNCHANGED <<rowVars, run, req, history>>

\* Mutant: whatever its status, the schedule is executed.
LoadAnyStatus(a) ==
    /\ run.pc = "loading"
    /\ run' = IF Exists /\ a = "ok" THEN [pc |-> "planning", kind |-> row.kind] ELSE NoRun
    /\ UNCHANGED <<rowVars, job, req, wish, counts, unjobbed, requests>> /\ Answers(a)

\* get_active_schedules: a schedule that is not active is not executed.  The
\* status is not read again.
Load(a) ==
    /\ run.pc = "loading"
    /\ IF a # "ok" THEN Goto("failing")
       ELSE IF get_active_schedules = {} THEN run' = NoRun
       ELSE \E pc \in {"planning", "unserved"} : run' = [pc |-> pc, kind |-> row.kind]
    /\ UNCHANGED <<rowVars, job, req, wish, counts, unjobbed, requests>> /\ Answers(a)

RunOnly == UNCHANGED <<rowVars, job, req, history>>

\* generate_plan.
Plan ==
    /\ run.pc = "planning"
    /\ Goto("approving") \/ Goto("failing")
    /\ RunOnly

\* approve returns, and execute_plan begins.
Approve ==
    /\ run.pc = "approving"
    /\ \/ /\ Goto("executing") /\ started < MaxStarts
          /\ started' = started + 1 /\ since' = since + 1 /\ unrecorded' = 1
       \/ Goto("failing") /\ UNCHANGED <<started, since, unrecorded>>
    /\ UNCHANGED <<rowVars, job, req, wish, excused, unjobbed, requests, faults>>

\* execute_plan returns an outcome, which is not looked at, or meets a gate; the
\* approval_mode read before, which an update may set, decides what follows.
Execute ==
    /\ run.pc = "executing"
    /\ \E pc \in {"succeeding", "failing", "retrying", "gated"} : Goto(pc)
    /\ RunOnly

\* The keys of the preview state under which the scheduler puts an approval,
\* and under which execute_plan looks for it.
ApprovalKey(gate) == <<"gate_", gate, "_approved">>
GateKey(gate) == <<gate>>

\* The plan is executed again from its first step: its results go under keys
\* that execute_plan does not read, as the approval does.
Retry(gate) ==
    /\ run.pc = "retrying"
    /\ \/ GateKey(gate) # ApprovalKey(gate) /\ Goto("failing")
       \/ Goto("failing")
       \/ Goto("succeeding")    \* a step before the gate has failed this time
    /\ RunOnly

\* Mutant: a success leaves the status alone when the limit is reached.
record_unlimited(success) ==
    row' = IF ~Exists THEN row
           ELSE [row EXCEPT !.runs = @ + 1,
                            !.status = IF ~success THEN "failed"
                                       ELSE IF @ = "active" /\ row.kind = "once" THEN "completed" ELSE @]

\* record_execution, in one transaction.  The status the row has is not looked
\* at: the end of a run also overwrites "paused" and "cancelled".
record_execution(success) ==
    LET runs == row.runs + 1 IN
    row' = IF ~Exists THEN row
           ELSE [row EXCEPT !.runs = runs,
                            !.status = IF ~success THEN "failed"
                                       ELSE IF row.kind = "once" \/ (row.limit > 0 /\ runs >= row.limit)
                                       THEN "completed" ELSE @]

\* The record of an outcome, and where the run goes if it is answered.  An
\* execution that ends without a record does not count for the limit.
Record(success, a, next) ==
    /\ IF TakesEffect(a) THEN record_execution(success) ELSE UNCHANGED row
    /\ IF (a = "ok" /\ next = "idle") \/ (a # "ok" /\ run.pc = "failing") THEN run' = NoRun
       ELSE IF a = "ok" THEN Goto(next) ELSE Goto("failing")
    /\ unrecorded' = IF TakesEffect(a) \/ run.pc = "failing" THEN 0 ELSE unrecorded
    /\ excused' = IF TakesEffect(a) \/ run.pc # "failing" THEN excused ELSE excused + unrecorded
    /\ UNCHANGED <<job, trigger, req, wish, since, started, unjobbed, requests>> /\ Answers(a)

RecordSuccess(a) ==
    /\ run.pc = "succeeding"
    /\ Record(TRUE, a, IF run.kind = "recurring" THEN "renewing" ELSE "idle")

\* The handler of an exception, and services that are missing.
RecordFailure(a) ==
    /\ run.pc \in {"failing", "unserved"}
    /\ Record(FALSE, a, "idle")

\* next_run_at, which nothing but the list of schedules reads.
Renew(a) ==
    /\ run.pc = "renewing"
    /\ IF a = "ok" THEN run' = NoRun ELSE Goto("failing")
    /\ UNCHANGED <<rowVars, job, req, wish, counts, unjobbed, requests>> /\ Answers(a)

\* notify_and_wait: the failure is recorded, the schedule paused, its job removed.
RecordGate(a) ==
    /\ run.pc = "gated"
    /\ Record(FALSE, a, "pausing")

PauseAtGate(a) ==
    /\ run.pc = "pausing"
    /\ IF TakesEffect(a) THEN update_scheduled_plan("paused", NotGiven, "none") ELSE UNCHANGED row
    /\ IF a = "ok" THEN Goto("dropping") ELSE Goto("failing")
    /\ UNCHANGED <<job, trigger, req, wish, counts, unjobbed, requests>> /\ Answers(a)

\* The user may have resumed the schedule by now, or be about to.
DropJob ==
    /\ run.pc = "dropping"
    /\ remove_job /\ run' = NoRun
    /\ unjobbed' = IF row.status = "active" THEN unjobbed \cup {"gate"} ELSE unjobbed
    /\ UNCHANGED <<rowVars, req, wish, counts, requests, faults>>

-----------------------------------------------------------------------------
(* Time and the server process *)

Tick ==
    /\ Exists
    /\ \/ row.kind = "once" /\ trigger = "future" /\ trigger' = "now"
       \/ row.kind = "once" /\ trigger = "now" /\ ~job /\ trigger' = "past"
       \/ row.kind = "recurring" /\ trigger = "future" /\ trigger' = "past"
    /\ UNCHANGED <<row, job, run, req, history>>

\* The process dies; start() registers the jobs of the active schedules before
\* requests are served again, some time later.
Restart(a) ==
    /\ Exists /\ faults < MaxFaults /\ faults' = faults + 1
    /\ IF a = "ok" /\ get_active_schedules # {} THEN register_job(row.config, FALSE) ELSE job' = FALSE
    /\ unjobbed' = IF a = "ok" THEN NotRegistered(row.config) ELSE {"database"}
    /\ excused' = excused + unrecorded /\ unrecorded' = 0
    /\ run' = NoRun /\ req' = [c \in Client |-> NoRequest]
    /\ trigger' \in IF trigger = "now" THEN {"now", "past"} ELSE {trigger}
    /\ UNCHANGED <<row, wish, since, started, requests>>

-----------------------------------------------------------------------------
Update(c) ==
    \/ \E new \in {"none", "active", "paused", "cancelled"},
          limit \in Limits \cup {NotGiven}, edit \in Config \cup {"none"} :
             BeginUpdate(c, new, limit, edit)
    \/ \E a \in Answer : WriteUpdate(c, a) \/ Reread(c, a)
    \/ Register(c)

RunStep ==
    \/ \E a \in Answer : \/ Load(a) \/ RecordSuccess(a) \/ RecordFailure(a) \/ Renew(a)
                         \/ RecordGate(a) \/ PauseAtGate(a)
    \/ Plan \/ Approve \/ Execute \/ Retry("gate-B") \/ DropJob

Next ==
    \/ \E c \in Client : Update(c) \/ \E a \in Answer : Create(c, a) \/ Delete(c, a)
    \/ Fire \/ Misfire \/ RunStep \/ Tick
    \/ \E a \in Answer : Restart(a)

Spec == Init /\ [][Next]_vars

-----------------------------------------------------------------------------
(* Properties *)

\* Runs overwrite the status the user has asked for when they end, and a run
\* reads the status long before its plan is made, approved and executed.  Yet
\* after its user has paused, cancelled or deleted a schedule, one execution of
\* it may begin, of a run that had read the status before, and never a second.
NoRunAgainstWish == [][started' > started => wish = "active" \/ since = 0]_vars

\* max_runs, and the one run of a one-time schedule, is exceeded only by as many
\* executions as the user has asked for again, as were cut off before they were
\* recorded, or as came before a limit was lowered, and by the one that finds it
\* lowered.  A failed run counts, a restart repeats what it cut off.
LimitKept ==
    /\ Exists /\ row.kind = "once" => started <= 1 + excused
    /\ row.limit > 0 => started <= row.limit + excused

\* Unless a request is about to register it, an active schedule has a job until
\* its time is over, also while it runs.  It can lose it only when a command of
\* a request or of the start failed half way, when its trigger was refused after
\* it had been stored, or to a run that pauses at a gate just when the user resumes.
ActiveHasJob ==
    (row.status = "active" /\ \A c \in Client : req[c].pc = "idle")
        => job \/ trigger = "past" \/ unjobbed # {} \/ (row.kind = "once" /\ trigger = "now")

=============================================================================
