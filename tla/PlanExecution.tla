--------------------------- MODULE PlanExecution ---------------------------
(***************************************************************************)
(* A user's execution of one plan, from the first /orchestrate/execute to  *)
(* the answer that ends it: the rounds of ExecuteService.execute_plan and, *)
(* between them, the front end, which collects approvals and results and   *)
(* sends the whole plan again.                                             *)
(*                                                                         *)
(* A level runs its steps concurrently (asyncio.gather): each has a task,  *)
(* and an action of a task is what runs between two awaits.  Task 0 is the *)
(* Reasoner that _handle_step_failure runs for a failed step.  What a tool *)
(* or the LLM answers is chosen nondeterministically; the inside of a      *)
(* Booker call is the module BookerStep.                                   *)
(*                                                                         *)
(* A step of a plan is a record: step (its number), after, role, gate,     *)
(* previewOnly, canSpawn, trusted (trust_level = "trusted") and limit      *)
(* (max_spawned_steps or 3).                                               *)
(***************************************************************************)
EXTENDS PlanGraph, Integers

CONSTANTS Plans,         \* the plans that may be executed
          Gates, NoGate, \* gate identifiers, and the gate_id of an ungated step
          Asks,          \* the lists of roles a Reasoner may ask to spawn
          RecoveryLimit, \* _MAX_RECOVERY_ACTIONS (5 in the code)
          PlanLimit      \* steps of a plan with its spawned ones (100 in the code)

VARIABLES
    plan,       \* the graph of the plan
    phase,      \* "new", "verify", "level", "running", "recovering", "paused", "done"
    levelNo,    \* the level being executed
    task,       \* the tasks of the level, and task 0
    todo,       \* places in the level whose outcome is still to be handled
    results,    \* ctx.step_results: step number to status
    spawned,    \* ctx.spawned_steps
    revision,   \* ctx.plan_revision
    attested,   \* ctx.attestations: revision and step number of each
    recoveries, \* ctx.recovery_action_count
    granted,    \* gates approved in the front end's gateState
    carried,    \* completed_step_N of gateState
    asked,      \* the gate of the last 202 answer, with its partial_results
    outcome,    \* the PlanOutcome
    completed   \* history: plan steps whose own task completed, in any round

context == <<results, spawned, revision, attested, recoveries>>
client == <<granted, carried, asked>>
vars == <<plan, phase, levelNo, task, todo, context, client, outcome, completed>>

\* shared/schemas/plan.py, as far as the execution depends on it.
PlanStep == [step : Nat \ {0}, after : Seq(Int), role : STRING,
             gate : Gates \cup {NoGate}, previewOnly : BOOLEAN,
             canSpawn : BOOLEAN, trusted : BOOLEAN, limit : Nat]

ASSUME ExecutionParameters ==
    /\ Plans \subseteq Seq(PlanStep)
    /\ NoGate \notin Gates
    /\ Asks \subseteq Seq({"Booker", "Fetcher"})
    /\ RecoveryLimit \in Nat
    /\ PlanLimit \in Nat

Recovery == 0

StepOf(n) == plan[CHOOSE i \in DOMAIN plan : plan[i].step = n]

ResolvablePlans == {p \in Plans : Resolvable(p)}
LevelsFor == [p \in ResolvablePlans |-> LevelsOf(p)]
Levels == LevelsFor[plan]
Level == Levels[levelNo]

\* The first Reasoner of the graph that may spawn.
CanRecover == \E i \in DOMAIN plan : plan[i].role = "Reasoner" /\ plan[i].canSpawn
RecoveryReasoner ==
    plan[CHOOSE i \in DOMAIN plan :
            /\ plan[i].role = "Reasoner" /\ plan[i].canSpawn
            /\ \A j \in 1 .. i - 1 : ~(plan[j].role = "Reasoner" /\ plan[j].canSpawn)]

Subject(s) == IF s = Recovery THEN RecoveryReasoner ELSE StepOf(s)

Pc == {"idle", "gate", "calling", "policy", "attesting", "child",
       "ok", "failed", "notConnected"}
Ended == {"gate", "ok", "failed", "notConnected"}
Idle == [pc |-> "idle", asks |-> <<>>, seen |-> 0, offer |-> {}]
NoTasks == [s \in Ids(plan) \cup {Recovery} |-> Idle]
At(s, pc) == task[s].pc = pc
Becomes(s, pc) == task' = [task EXCEPT ![s].pc = pc]

Completed == {n \in DOMAIN results : results[n] = "completed"}
WithResult(n, status) ==
    [k \in DOMAIN results \cup {n} |-> IF k = n THEN status ELSE results[k]]

NoAsk == [gate |-> NoGate, offer |-> {}]
Errors == {"none", "token_expired", "plan_expired", "cycle_detected", "internal_error",
           "integration_not_connected", "step_failure", "recovery_exhausted"}
NoOutcome == [ended |-> FALSE, success |-> FALSE, error |-> "none"]

Init ==
    /\ plan \in Plans
    /\ phase = "new"
    /\ levelNo = 0
    /\ task = NoTasks
    /\ todo = {}
    /\ results = <<>> /\ spawned = <<>> /\ attested = {}
    /\ revision = 0 /\ recoveries = 0
    /\ granted = {} /\ carried = {} /\ asked = NoAsk
    /\ outcome = NoOutcome
    /\ completed = {}

\* execute_plan returns an outcome.  Before a final failure _run_compensation
\* goes through ctx.compensation_stack, to which nothing is ever added.
Finish(success, error) ==
    /\ phase' = "done"
    /\ outcome' = [ended |-> TRUE, success |-> success, error |-> error]
    /\ task' = NoTasks
    /\ todo' = {}

-----------------------------------------------------------------------------
(* Before the levels *)

\* The front end sends the plan: executePlan.
Submit ==
    /\ phase = "new"
    /\ phase' = "verify"
    /\ UNCHANGED <<plan, levelNo, task, todo, context, client, outcome, completed>>

\* The token is invalid or the plan older than its TTL.
Refuse ==
    /\ phase = "verify"
    /\ \E error \in {"token_expired", "plan_expired"} : Finish(FALSE, error)
    /\ UNCHANGED <<plan, levelNo, context, client, completed>>

RejectGraph ==
    /\ phase = "verify"
    /\ plan \notin ResolvablePlans
    /\ Finish(FALSE, IF plan = <<>> THEN "internal_error" ELSE "cycle_detected")
    /\ UNCHANGED <<plan, levelNo, context, client, completed>>

BeginLevels ==
    /\ phase = "verify"
    /\ plan \in ResolvablePlans
    /\ phase' = "level"
    /\ levelNo' = 1
    /\ UNCHANGED <<plan, task, todo, context, client, outcome, completed>>

-----------------------------------------------------------------------------
(* One level *)

Skipped(n) == StepOf(n).previewOnly
Replayed(n) == ~Skipped(n) /\ n \in carried

\* Mutant: a preview-only step is skipped without a result.
SkipResultsSilently(level) ==
    LET skip == {n \in ToSet(level) : Replayed(n)}
    IN  [k \in DOMAIN results \cup skip |-> IF k \in skip THEN "completed" ELSE results[k]]

\* The results of the steps that _should_skip skips.
SkipResults(level) ==
    LET skip == {n \in ToSet(level) : Skipped(n) \/ Replayed(n)}
    IN  [k \in DOMAIN results \cup skip |->
            IF k \notin skip THEN results[k]
            ELSE IF Skipped(k) THEN "skipped" ELSE "completed"]

\* Mutant: only the gates of Bookers are enforced.
DispatchUngated(n, done) ==
    LET step == Subject(n) IN
    IF step.gate \in Gates \ granted /\ step.role = "Booker"
    THEN [Idle EXCEPT !.pc = "gate", !.offer = done]
    ELSE [Idle EXCEPT !.pc = "calling"]

\* _execute_step up to its first await: an unapproved gate raises with the
\* results so far, everything else calls a tool or the LLM.
Dispatch(n, done) ==
    LET step == Subject(n) IN
    IF step.gate \in Gates \ granted
    THEN [Idle EXCEPT !.pc = "gate", !.offer = done]
    ELSE [Idle EXCEPT !.pc = "calling"]

\* Mutant: the steps carried over from an earlier round run again.
EnterLevelReplaying ==
    LET run == {i \in DOMAIN Level : ~Skipped(Level[i])}
        known == SkipResults(Level)
        done == {n \in DOMAIN known : known[n] = "completed"}
    IN
    /\ phase = "level"
    /\ levelNo <= Len(Levels)
    /\ results' = known
    /\ todo' = run
    /\ task' = [s \in DOMAIN task |-> IF \E i \in run : s = Level[i]
                                  THEN Dispatch(s, done) ELSE Idle]
    /\ phase' = "running"
    /\ UNCHANGED <<plan, levelNo, spawned, revision, attested, recoveries,
                   client, outcome, completed>>

EnterLevel ==
    LET run == {i \in DOMAIN Level : ~Skipped(Level[i]) /\ ~Replayed(Level[i])}
        known == SkipResults(Level)
        done == {n \in DOMAIN known : known[n] = "completed"}
    IN
    /\ phase = "level"
    /\ levelNo <= Len(Levels)
    /\ results' = known
    /\ todo' = run
    /\ task' = [s \in DOMAIN task |-> IF \E i \in run : s = Level[i]
                                  THEN Dispatch(s, done) ELSE Idle]
    /\ phase' = "running"
    /\ UNCHANGED <<plan, levelNo, spawned, revision, attested, recoveries,
                   client, outcome, completed>>

Reasons(s) == Subject(s).role = "Reasoner"
MaySpawn(s) == Reasons(s) /\ Subject(s).trusted /\ Subject(s).canSpawn

Succeed(s) ==
    /\ Becomes(s, "ok")
    /\ completed' = IF s = Recovery THEN completed ELSE completed \cup {s}

\* A tool call, a reasoning without spawn requests, a policy check or a
\* sanitizer ends well.
CallSucceeds(s) ==
    /\ At(s, "calling")
    /\ Succeed(s)
    /\ UNCHANGED <<plan, phase, levelNo, todo, context, client, outcome>>

CallFails(s) ==
    /\ At(s, "calling")
    /\ \E pc \in {"failed", "notConnected"} : Becomes(s, pc)
    /\ UNCHANGED <<plan, phase, levelNo, todo, context, client, outcome, completed>>

-----------------------------------------------------------------------------
(* _handle_spawn *)

SpawnedBy(n) == Cardinality({i \in DOMAIN spawned : spawned[i].parent = n})

\* The plan's steps, and those spawned when a request looked at them.
Total(seen) == Len(plan) + seen
NewNumber(seen) == Max(Ids(plan)) + seen + 1

\* Mutant: the parent may spawn one step more than its limit.
ProposeOneMore(s, asks) ==
    IF asks = <<>> THEN Succeed(s)
    ELSE /\ task' = [task EXCEPT ![s] =
                [@ EXCEPT !.asks = asks, !.seen = Len(spawned),
                          !.pc = IF \/ SpawnedBy(Subject(s).step) > Subject(s).limit
                                    \/ Total(Len(spawned)) >= PlanLimit
                                 THEN "failed" ELSE "policy"]]
         /\ UNCHANGED completed

\* The loop over spawn_requests: the next request meets the limits of its
\* parent and of the plan, then waits for the PolicyEngine.
Propose(s, asks) ==
    IF asks = <<>> THEN Succeed(s)
    ELSE /\ task' = [task EXCEPT ![s] =
                [@ EXCEPT !.asks = asks, !.seen = Len(spawned),
                          !.pc = IF \/ SpawnedBy(Subject(s).step) >= Subject(s).limit
                                    \/ Total(Len(spawned)) >= PlanLimit
                                 THEN "failed" ELSE "policy"]]
         /\ UNCHANGED completed

ReasonerAsks(s) ==
    /\ At(s, "calling")
    /\ MaySpawn(s)
    /\ \E asks \in Asks : Propose(s, asks)
    /\ UNCHANGED <<plan, phase, levelNo, todo, context, client, outcome>>

\* Mutant: a denied request is put to the PolicyEngine again.
PolicyDeniesInVain(s) ==
    /\ At(s, "policy")
    /\ Becomes(s, "calling")
    /\ UNCHANGED <<plan, phase, levelNo, todo, context, client, outcome, completed>>

PolicyDenies(s) ==
    /\ At(s, "policy")
    /\ Becomes(s, "failed")
    /\ UNCHANGED <<plan, phase, levelNo, todo, context, client, outcome, completed>>

\* Mutant: the revision is the number of requests seen, not of spawns.
PolicyAllowsStale(s) ==
    LET number == NewNumber(task[s].seen)
        role == Head(task[s].asks)
    IN
    /\ At(s, "policy")
    /\ revision' = task[s].seen + 1
    /\ attested' = attested \cup {<<revision', number>>}
    /\ spawned' = Append(spawned, [step |-> number, parent |-> Subject(s).step, role |-> role])
    /\ \E approval \in BOOLEAN :
          /\ approval \/ Total(task[s].seen) + 2 <= PlanLimit
          /\ Becomes(s, IF approval \/ role = "Booker" THEN "attesting" ELSE "child")
    /\ UNCHANGED <<plan, phase, levelNo, todo, results, recoveries, client, outcome, completed>>

\* evaluate_spawn allows: a matching policy if the plan is not full (it
\* counts the new step twice), no matching policy always, but then subject
\* to approval.  A step subject to approval, and every Booker, is recorded
\* and not executed.
PolicyAllows(s) ==
    LET number == NewNumber(task[s].seen)
        role == Head(task[s].asks)
    IN
    /\ At(s, "policy")
    /\ revision' = revision + 1
    /\ attested' = attested \cup {<<revision', number>>}
    /\ spawned' = Append(spawned, [step |-> number, parent |-> Subject(s).step, role |-> role])
    /\ \E approval \in BOOLEAN :
          /\ approval \/ Total(task[s].seen) + 2 <= PlanLimit
          /\ Becomes(s, IF approval \/ role = "Booker" THEN "attesting" ELSE "child")
    /\ UNCHANGED <<plan, phase, levelNo, todo, results, recoveries, client, outcome, completed>>

\* The audit of the attestation is written; the next request is looked at.
NextRequest(s) ==
    /\ At(s, "attesting")
    /\ Propose(s, Tail(task[s].asks))
    /\ UNCHANGED <<plan, phase, levelNo, todo, context, client, outcome>>

\* The spawned step itself ends: its result is stored under its number.
ChildSucceeds(s) ==
    /\ At(s, "child")
    /\ results' = WithResult(NewNumber(task[s].seen), "completed")
    /\ Propose(s, Tail(task[s].asks))
    /\ UNCHANGED <<plan, phase, levelNo, todo, spawned, revision, attested,
                   recoveries, client, outcome>>

ChildFails(s) ==
    /\ At(s, "child")
    /\ \E pc \in {"failed", "notConnected"} : Becomes(s, pc)
    /\ UNCHANGED <<plan, phase, levelNo, todo, context, client, outcome, completed>>

-----------------------------------------------------------------------------
(* When all tasks of the level have ended, their outcomes are handled one  *)
(* by one, in the order of the level.                                      *)

Handling(s) == /\ phase = "running"
               /\ todo # {} /\ s = Level[Min(todo)]
               /\ \A t \in DOMAIN task : task[t].pc \in Ended \cup {"idle"}

StoreResult(s) ==
    /\ Handling(s)
    /\ At(s, "ok")
    /\ results' = WithResult(s, "completed")
    /\ todo' = todo \ {Min(todo)}
    /\ UNCHANGED <<plan, phase, levelNo, task, spawned, revision, attested,
                   recoveries, client, outcome, completed>>

\* GateApprovalRequired leaves execute_plan: the route answers 202 with the
\* gate and the results known when the gate was met.  The front end adds
\* the completed ones to its gateState.
Pause(s) ==
    /\ Handling(s)
    /\ At(s, "gate")
    /\ phase' = "paused"
    /\ asked' = [gate |-> StepOf(s).gate, offer |-> task[s].offer]
    /\ carried' = carried \cup task[s].offer
    /\ task' = NoTasks
    /\ todo' = {}
    /\ UNCHANGED <<plan, levelNo, context, granted, outcome, completed>>

NotConnected(s) ==
    /\ Handling(s)
    /\ At(s, "notConnected")
    /\ Finish(FALSE, "integration_not_connected")
    /\ UNCHANGED <<plan, levelNo, context, client, completed>>

\* No Reasoner can help, or they helped often enough.
GiveUp(s) ==
    /\ Handling(s)
    /\ At(s, "failed")
    /\ ~CanRecover \/ recoveries >= RecoveryLimit
    /\ Finish(FALSE, IF CanRecover THEN "recovery_exhausted" ELSE "step_failure")
    /\ UNCHANGED <<plan, levelNo, context, client, completed>>

\* The failure is recorded and the Reasoner runs, in place, for this step.
Recover(s) ==
    /\ Handling(s)
    /\ At(s, "failed")
    /\ CanRecover /\ recoveries < RecoveryLimit
    /\ results' = WithResult(s, "failed")
    /\ recoveries' = recoveries + 1
    /\ task' = [task EXCEPT ![Recovery] = Dispatch(Recovery, Completed)]
    /\ phase' = "recovering"
    /\ UNCHANGED <<plan, levelNo, todo, spawned, revision, attested,
                   client, outcome, completed>>

\* What the Reasoner answered is dropped; the step stays failed.
Recovered ==
    /\ phase = "recovering"
    /\ At(Recovery, "ok")
    /\ phase' = "running"
    /\ task' = [task EXCEPT ![Recovery] = Idle]
    /\ todo' = todo \ {Min(todo)}
    /\ UNCHANGED <<plan, levelNo, context, client, outcome, completed>>

\* Anything the Reasoner raises, a missing approval too, ends the plan.
NotRecovered ==
    /\ phase = "recovering"
    /\ task[Recovery].pc \in Ended \ {"ok"}
    /\ Finish(FALSE, "step_failure")
    /\ UNCHANGED <<plan, levelNo, context, client, completed>>

LeaveLevel ==
    /\ phase = "running"
    /\ todo = {}
    /\ phase' = "level"
    /\ levelNo' = levelNo + 1
    /\ task' = NoTasks
    /\ UNCHANGED <<plan, todo, context, client, outcome, completed>>

\* Mutant: the last level is forgotten.
CompleteTooEarly ==
    /\ phase = "level"
    /\ levelNo >= Len(Levels)
    /\ Finish(TRUE, "none")
    /\ UNCHANGED <<plan, levelNo, context, client, completed>>

Complete ==
    /\ phase = "level"
    /\ levelNo > Len(Levels)
    /\ Finish(TRUE, "none")
    /\ UNCHANGED <<plan, levelNo, context, client, completed>>

-----------------------------------------------------------------------------
(* The front end between two rounds *)

\* Mutant: only the newest approval is sent along.
ApproveForgetting ==
    /\ phase = "paused"
    /\ granted' = {asked.gate}
    /\ phase' = "verify"
    /\ levelNo' = 0
    /\ results' = <<>> /\ spawned' = <<>> /\ attested' = {}
    /\ revision' = 0 /\ recoveries' = 0
    /\ asked' = NoAsk
    /\ UNCHANGED <<plan, task, todo, carried, outcome, completed>>

\* resolveGate: the same plan is executed again, with the new approval and
\* what was collected so far, in a new ExecutionContext.
Approve ==
    /\ phase = "paused"
    /\ granted' = granted \cup {asked.gate}
    /\ phase' = "verify"
    /\ levelNo' = 0
    /\ results' = <<>> /\ spawned' = <<>> /\ attested' = {}
    /\ revision' = 0 /\ recoveries' = 0
    /\ asked' = NoAsk
    /\ UNCHANGED <<plan, task, todo, carried, outcome, completed>>

\* cancelExecution: the front end forgets the plan.
Cancel ==
    /\ phase = "paused"
    /\ phase' = "done"
    /\ UNCHANGED <<plan, levelNo, task, todo, context, client, outcome, completed>>

-----------------------------------------------------------------------------
TaskStep(s) ==
    \/ CallSucceeds(s) \/ CallFails(s)
    \/ ReasonerAsks(s) \/ PolicyDenies(s) \/ PolicyAllows(s) \/ NextRequest(s)
    \/ ChildSucceeds(s) \/ ChildFails(s)

Handle(s) ==
    StoreResult(s) \/ Pause(s) \/ NotConnected(s) \/ GiveUp(s) \/ Recover(s)

RoundStep ==
    \/ Refuse \/ RejectGraph \/ BeginLevels \/ EnterLevel
    \/ Recovered \/ NotRecovered \/ LeaveLevel \/ Complete

ServerStep ==
    \/ RoundStep
    \/ \E s \in Ids(plan) : Handle(s)
    \/ \E s \in DOMAIN task : TaskStep(s)

Next == Submit \/ Approve \/ Cancel \/ ServerStep

Spec == Init /\ [][Next]_vars

\* The event loop runs what is ready, and every call has a timeout.
FairSpec == Spec /\ WF_vars(ServerStep)

-----------------------------------------------------------------------------
(* Properties *)

Task == [pc : Pc, asks : Seq({"Booker", "Fetcher"}), seen : Nat, offer : SUBSET Nat]

Types ==
    /\ plan \in Plans
    /\ phase \in {"new", "verify", "level", "running", "recovering", "paused", "done"}
    /\ levelNo \in Nat
    /\ task \in [Ids(plan) \cup {Recovery} -> Task]
    /\ todo \subseteq Nat
    /\ DOMAIN results \subseteq Nat
    /\ results \in [DOMAIN results -> {"completed", "skipped", "failed"}]
    /\ spawned \in Seq([step : Nat, parent : Nat, role : {"Booker", "Fetcher"}])
    /\ revision \in Nat
    /\ attested \in SUBSET (Nat \X Nat)
    /\ recoveries \in Nat
    /\ granted \subseteq Gates
    /\ carried \subseteq Nat
    /\ asked \in [gate : Gates \cup {NoGate}, offer : SUBSET Nat]
    /\ outcome \in [ended : BOOLEAN, success : BOOLEAN, error : Errors]
    /\ completed \subseteq Ids(plan)

Running(s) == task[s].pc \in {"calling", "policy", "attesting", "child", "ok"}

\* Whatever route leads to it (its level, a replay in a later round, a
\* recovery), a step behind a gate runs only after the user approved that
\* gate (execute_service.py:395-421), and a spawned Booker never runs at all
\* (1189-1191).
GatedNeedsApproval ==
    \A s \in DOMAIN task :
        /\ Running(s) => Subject(s).gate \notin Gates \ granted
        /\ At(s, "child") => Head(task[s].asks) # "Booker"

\* A step starts only when every step of the plan it comes after has a
\* result (execute_service.py:207-208, 312-334).
DependenciesFirst ==
    \A s \in Ids(plan) :
        task[s].pc # "idle" =>
            (ToSet(StepOf(s).after) \cap Ids(plan)) \subseteq DOMAIN results

\* Over the rounds a completed step runs again only if its result was lost:
\* it was not carried over, and its level held the gate just approved
\* (execute_service.py:353-362, 399-404).
OnlySiblingsRepeat ==
    [][\A s \in completed :
         (task[s].pc = "idle" /\ task'[s].pc # "idle") =>
             /\ s \notin carried
             /\ \E t \in ToSet(Levels[levelNo]) : StepOf(t).gate \in granted]_vars

\* Concurrent Reasoners keep the revision, the attestations and the spawned
\* steps in step: one attestation for every revision, naming the step that
\* was spawned in it (execute_service.py:1161-1164).
RevisionsAttested ==
    /\ revision = Len(spawned)
    /\ attested = {<<i, spawned[i].step>> : i \in DOMAIN spawned}

\* Reasoners that may be spawning at the same time, in one level.
Concurrent == Max({0} \cup {Cardinality({s \in ToSet(Levels[n]) : MaySpawn(s)}) : n \in DOMAIN Levels})

\* No parent spawns more than its limit, also when it runs again to recover
\* others; and the plan outgrows its limit at most by one step for each
\* further Reasoner of a level (execute_service.py:1095-1104).
SpawnBudget ==
    /\ \A n \in Ids(plan) : SpawnedBy(n) <= StepOf(n).limit
    /\ spawned # <<>> => Total(Len(spawned)) <= PlanLimit + Concurrent - 1

\* An execution reported as a success has a result for every step of the
\* plan, over all rounds, and every one but the recovered and the
\* preview-only ones completed (execute_service.py:219, 1341-1386).
SuccessCoversPlan ==
    outcome.success =>
        /\ Ids(plan) \subseteq DOMAIN results
        /\ \A s \in Ids(plan) :
              (results[s] = "completed" <=> s \in completed /\ results[s] # "failed")

\* Once sent, every round ends, with a question to the user or an outcome.
RoundsEnd == (phase = "verify") ~> (phase \in {"paused", "done"})

\* The gate protocol the user sees.
WorkState ==
    CASE phase = "new" -> "new"
      [] phase = "paused" -> "asking"
      [] phase = "done" -> "ended"
      [] OTHER -> "working"
Work == INSTANCE ApprovedWork
    WITH state <- WorkState,
         active <- Gates \cap {Subject(s).gate : s \in {t \in DOMAIN task : Running(t)}}

\* An execution, with all its rounds, implements ApprovedWork.
WorkSpec == Work!WorkSpec

-----------------------------------------------------------------------------
(* What the documents say and the code does not do *)

\* "Check if step should be skipped (preview_only or already completed in a
\* prior gate round)" (execute_service.py:342): a step that completed in a
\* round is not run again by its level in a later one.
CompletedRunsOnce ==
    [][\A s \in completed : task[s].pc = "idle" => task'[s].pc = "idle"]_vars

=============================================================================
