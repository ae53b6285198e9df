# Aexor: verification project

TLA+ models of Aexor, checked with TLC and proved about with TLAPS. Aexor is a
self-hosted agent runtime: a user's message becomes an intent, the intent a plan
(a DAG of steps), the plan a preview, the preview an approval, and the approved
plan is executed against external tools, with further approvals on the way, and
remembered. Paths below are relative to the repository.

1. [The system](#1-the-system)
2. [Modules](#2-modules)
3. [Runs: what is checked, on which instances](#3-runs)
4. [Fairness](#4-fairness)
5. [Theorems](#5-theorems)
6. [Where the code differs from what is said of it](#6-where-the-code-differs-from-what-is-said-of-it)
7. [What is not modelled](#7-what-is-not-modelled)
8. [Plan](#8-plan)

To repeat everything, in this directory: `tlc -config <cfg> <module>` for each
entry of `runs` in `PROJECT.json`, and `tlapm <module>` for each `*_proofs`.

## 1. The system

One FastAPI process (the image starts one; the Redis locks and records are made for
several) runs everything on one asyncio event loop; PostgreSQL and Redis are shared.
Concurrency is therefore of two kinds: tasks of one process interleave at each `await`,
and processes interleave at each database or Redis command. Nothing spans PostgreSQL and
Redis atomically, and a process may die anywhere. Services are wired in `shared/app.py`
(lifespan) and called by `shared/api/orchestrate_routes.py`.

| Component | State | Operations | Interacts with | Hard behaviour | What makes it correct |
|---|---|---|---|---|---|
| ExecuteOrchestrator: resource lock (`adapters/resource_lock.py`) | Redis keys with a TTL; `_held_locks` of each process | `acquire`, `release` | Booker steps | expiry under a holder, GET-then-DELETE, process death, Redis errors | a lease: mutual exclusion and release by the owner until it runs out; a lock comes free |
| ExecuteOrchestrator: idempotency (`adapters/idempotency.py`) | a Redis hash per step: IN_FLIGHT, SUCCEEDED, FAILED, absent | `check_and_claim`, `mark_succeeded`, `mark_failed` | Booker steps | HGETALL and HSET are apart; stale claims are taken over; 24 h TTL | repeats do not book twice |
| ExecuteOrchestrator: Booker step (`_execute_api_step`, `retry.py`, `mcp_client.py`) | progress of a call | claim, lock, invoke with retries, mark, release | the two above, the tool server | an answer may be lost after the effect; each command may fail | success means booked; a failure can be repeated |
| ExecuteOrchestrator: DAG resolver | none (pure) | `resolve` | execution | repeated, dangling, circular dependencies | rejects exactly what cannot be ordered; earliest levels |
| ExecuteOrchestrator: plan execution (`execute_service.py`) | `ExecuteContext`: results, spawned steps, revision, attestations, recoveries | levels, skips, gates, Reasoner spawns, recovery, outcome | PolicyEngine, tools, LLM, front end | steps of a level run concurrently; one plan is executed in several rounds | nothing gated runs unapproved; no lost or repeated work; rounds end |
| Front end (`static/index.html`) | `gateState`: grants and partial results | execute, approve a gate, cancel | execution | state between rounds lives in the browser | what completed is sent back |
| Audit | in-memory buffer, `audit_events` table | `record`, flush by threshold, loop, `stop` | every service | overlapping flushes, failed and ambiguous writes, cancellation, overflow | no event vanishes or is doubled; the buffer is bounded |
| Scheduler | `scheduled_plans` rows, APScheduler jobs | create, update, pause, delete, run | Planner, ApprovalGate, execution | a job runs while its schedule is edited; a trigger is refused after its row is stored; max_runs; misfires | at most one execution after a pause or a cancellation; a limit is kept; an active schedule has a job |
| ExecutionMonitor | `execution_tracker` rows | register, progress, complete; watchdog: stuck, timeout, notify | execution | completion races the watchdog; resumed rounds have rows of their own | an execution ends once; who is ended is told, and told once |
| ApprovalGate | gate entries and consumed tokens in Redis, JWTs | `approve`, `validate_token` | front end, Scheduler, execution | concurrent approvals, TTL edges, Redis failing open | one approval per gate; a token is used once |
| PreviewOrchestrator | preview cache in Redis | `preview` | front end, ApprovalGate | calls are made before anything is approved; a level fails in part | nothing with a gate or a verb for writing in its name is called, nor what is behind a deferred step |
| Planner | two circuit breakers, skeleton cache; a registry of 32 workflows | `build_skeleton`, `generate_plan`, the deterministic planner, the validator | LLMs, front end, ContextRAG | fallback chain, breaker races, composition by renumbering | an open breaker is not called; composed plans read what they were written to read; what an LLM step declares to read passes a sanitizer |
| PolicyEngine | policies in PostgreSQL | `evaluate_spawn`, rule editing, learning | execution | rules change between two lookups | the plan's rule goes before what was learned; writes need approval |
| PlanWriter, PlanLibrary, History, VectorIndex | plans, facts, patterns, embeddings | `persist_outcome`, `bulk_persist`, `store_plan`, `store_fact`, `store_embedding`, clean-up | execution, front end | one fatal and two best-effort stores, replays, lost increments | nothing is remembered that did not happen; a result `ok` is true |
| Intake | sessions in Redis | `process_message`, `reset_session` | Planner | read, LLM call, write back | an answered message stays; a session says what its turns say |
| IntegrationManager | `user_connections`, a cached set in Redis, accounts at Composio | list with sync, connect, disconnect, tool lists | Composio | remote and local state changed in steps; cache filled from old reads | a listing is true and repairs what went wrong |
| TrustFilter | verdicts of a plan | `scan` of a sanitizer step | execution | two stages, one of them may be unreachable | the stricter verdict wins; grave fields are stripped |
| ContextRAG, ProfileStore | reads; preferences | gather; get and set | Planner, Intake | - | - |
| MCP infrastructure (`shared/mcp`) | sessions per key, tool catalog, the MCP config at Composio | `get_session`, `invalidate`, listing of a user's tools, healing | tool calls, front end | one call invalidates what another just set up; healing takes four remote calls | one session per key; only what counts as a refusal is repeated; a listing brings the tools |
| API, authentication, encryption, database adapter, migrations | - | HTTP, JWT, Fernet, SQL | all | - | I/O |

`PROJECT.json` lists the hazards of the code, each at its line, with the properties
that cover it; a hazard without one says why.

## 2. Modules

| Module | What it is |
|---|---|
| `AbstractMutex` | what the lock promises: a lease, at most one inside until it lapses |
| `ResourceLock` | `ResourceLockAdapter`: one action per Redis command |
| `Idempotency` | `IdempotencyAdapter`: the record of a key, read and written in separate steps |
| `BookerStep` | the Booker path; INSTANCEs `ResourceLock` and `Idempotency`, whose calls it drives |
| `PlanGraph` | `DAGResolver.resolve` as operators: queue, in-degrees, levels |
| `DagResolver` | the same loop as a transition system, against a reference definition |
| `WorkflowRegistry`, `Workflows` | the registry, and the plans made of it without an LLM |
| `PlanRules` | `PlanValidator`: the three layers of checks of a plan an LLM wrote |
| `PreviewRun` | `PreviewService.preview`, level by level, and the check of tool names |
| `Scan` | `FilterService.scan` and the sanitizer steps of a level |
| `SpawnPolicy` | `PolicyService.evaluate_spawn` while rules are stored and learned |
| `Planning` | `PlannerService`: breakers, fallbacks, skeletons |
| `Conversation` | `IntakeService`: messages and sessions |
| `ApprovalGate` | `ApprovalService`, `GateStore` and the cached preview |
| `ApprovedWork` | what a user may expect of an execution with approvals |
| `PlanExecution` | `execute_plan` with all its rounds, and the front end between them |
| `EventLog` | what an audit log promises |
| `AuditLog` | `AuditService` and its batches |
| `ExecutionTracker` | the tracker rows of `execute_plan` and the watchdog of `MonitorService` |
| `Schedules` | `SchedulerService`: a schedule, its job, its runs, the requests of its user |
| `Outcomes` | PlanWriter, PlanLibrary, History and VectorIndex |
| `Connections` | `IntegrationManager`: listing, sync and disconnecting |
| `Sessions` | MCP sessions, the listing of a user's tools, the healing of the MCP config |
| `MC...` | constants for TLC; `MCServices`, `MCMonitoring`, `MCRequests` and `MCDecisions` put modules that share no state into one run, of which each behaviour shows one (`part`) |
| `..._proofs` | theorems and proofs |

### ResourceLock, Idempotency, BookerStep

A *call* is one execution of a Booker step. `acquire` polls `SET NX EX`
(`PollGranted`, `PollRefused`), stores its owner value in `_held_locks`
(`RememberOwner`) or gives up (`GiveUp`); `release` pops the value, reads the key
and deletes it (`BeginRelease`, `CompareOwner`, `DeleteLock`), which are three
steps because there is no script. `ExpireLock` is the TTL. The TTL is 30 s, is never
renewed, and a step may take longer (its own default timeout is 30 s, and it is tried up
to four times), so a key may expire at any time, under its holder too. The history
`lapsed` says for which keys that has happened while the calls that were inside have not
all left: from the expiry to that moment nothing is promised of the key, and then all of
it again, although `_held_locks` may still hold the value of a call that is long gone.
`AbstractMutex` says the same without Redis: `Enter`, `Leave`, `Lapse`, `Heal`.

`check_and_claim` is `ReadRecord` and then `Claim` or the deletion of a FAILED
record; `AgeClaim` makes a claim stale and `ExpireRecord` is the 24 h TTL.

`BookerStep` is the path of `_execute_api_step`: `stage` says where a call is. The
integration is external: an invocation may take effect and still report a failure
(a client timeout, an unreadable response). `effects` counts what it really did,
`doubt` the events after which the code cannot know: a claim that raced or took
over another, an empty cached result (falsy, so the code calls again), a lost
answer, a mark that failed, an expired record. *Bookings are accounted for* when
the first never exceeds the second by more than one: idempotency holds exactly up
to these events, and the list of events is the result.

Time is a matter of order only: stale or not, expired or not. A process that dies
(`CrashProcess`) loses its `_held_locks`, and its calls end.

### PlanGraph, DagResolver

A graph is a sequence of steps with a number and the numbers it comes after, as in
`PlanStep` of `shared/schemas/plan.py`; numbers may repeat, dependencies may be repeated,
dangling or on the step itself. The operators follow the code's counting: a *mention* is a
place `<<i, k>>`, the k-th dependency of the i-th step, so that a repeated one counts
twice in `InDegree` and is decremented twice; a round makes the queue a level and frees
the steps whose last mention it meets (`LoopBody`), in the order the code appends them.
`DagResolver` runs the loop as a transition system; the reference definition (the earliest
level that puts every step after those it depends on) does not mention queues or counters.
`PlanExecution`, `PreviewRun`, `Workflows` and `PlanRules` call the same operators
(`LevelsOf`, `Resolvable`).

### ApprovedWork, PlanExecution

An execution is: `Submit` (the front end sends the plan), `Refuse` /
`RejectGraph` / `BeginLevels`, then for each level `EnterLevel` (skips and replays
are decided, a task is started for every other step), the tasks' actions in any
order, and `StoreResult`, `Pause`, `GiveUp` or `Recover` for each
step in the order of the level (the loop after `asyncio.gather`); `LeaveLevel`
and `Complete`. A task is between two awaits in each state: `calling` (a tool or
the LLM), `policy` (`evaluate_spawn`), `attesting`, `child` (a spawned step that
runs). `NewNumber` is computed before the await of the policy and used after it,
as in the code. Task 0 is the Reasoner that recovers for a failed step
(`_handle_step_failure`); it runs with the step's own dispatch, gates included.

`Pause` ends the round with 202; the front end keeps the partial results
(`_accumulatePartialResults`) and either grants the gate and sends the whole plan
again (`Approve`), with a fresh `ExecuteContext` and its `gateState`, or cancels.
That the partial results are those known *when the gate was met* and not when the
level ended is in the model (`offer` of a task).

What a tool or an LLM answers, what the policy says, whether a token or the plan
is refused: nondeterministic. Compensation does nothing in the code
(`compensation_stack` is never filled), and nothing in the model.

### EventLog, AuditLog

`record` appends, and the caller whose event fills the buffer takes it and writes
it; the loop and `stop` do the same. The lock is never held across an await, so
appending and taking is one action. A write is `Written`, `WriteFails` (batch back
to the front, what exceeds the bound is cut off at the front) or `AnswerLost`
(committed, but raised). `event_id` is the primary key: a batch with a stored
event can never be written (`Writable`). `stop` cancels the loop; CancelledError
is not an Exception, so the loop's batch is not put back (`LoopEnds`). `Managed`
says whether the application calls `start` and `stop` at all; `shared/app.py` does
not.

### ExecutionTracker

Every round of a plan registers a row (`Register`), reports progress after each
level and ends the row (`Complete`), unless it pauses at a gate: then
`execute_plan` leaves without a word to the tracker, and the next round has a row
of its own. The tracker swallows its errors, so each of these may also do nothing.
`MonitorService` polls (`Poll`: reads the running rows and judges all of them by
one clock), then for each overdue record, oldest first, ends the rows of its plan
(`Mark`), notifies (`Tell`, a log record that cannot fail) and sets
`notification_sent` (`Flag`). These are three awaits, between which executions go
on; what the poll has read (`due`) is not read again. Rows are found by `plan_id`:
a watchdog that ends the row of a paused round also ends the fresh row of the
round that resumed it.

The age of a row is fresh, silent (five minutes without progress) or old (sixty
minutes); the thresholds themselves are not in the model. There is one watchdog:
the image runs one server process. With several, each would run its own and a
user could be told by each.

### Schedules

A schedule is its row, its APScheduler job (in memory), the instance that runs
(`run`, at most one: `max_instances`) and the open requests of its user. `create` is
`Create` (the row, committed as active) and `Register` (`_register_job`, which raises for
a trigger APScheduler does not take and leaves the row as it is); a PATCH is
`BeginUpdate`, `WriteUpdate` (status, max_runs, trigger), `Reread` and `Register`. `Fire`
is the scheduler calling `_execute_scheduled_plan`, which goes through `Load` (the status
is read here and not again), `Plan`, `Approve` (the execution begins when `approve` has
returned), `Execute`, possibly `Retry`, and the records of its end; `record_execution`
looks at the limit but not at the status the row has. Every database command may fail
before or after it took effect. `Restart` is a death of the process with the `start()`
after it. The histories: `wish` is the user's last word and `since` counts the executions
begun after it; `excused` counts executions that max_runs does not stand for (asked for
again, cut off before their record, or begun before the limit was lowered); `unjobbed`
says how an active schedule may have lost its job.

What is left out: `max_runs` of `RecurrenceConfig` (`domain/models.py:38`), which no code
reads; the warning of `_register_job` about missing trigger data
(`scheduler_service.py:279-281`), which no schedule of the API meets, since `create`
refuses it and no PATCH takes data away; and that the PATCH of a recurrence with an end
date hands a `datetime` to a JSON column (`model_dump()` at line 229), which is one of the
failures of `WriteUpdate`.

### ApprovalGate, Conversation, Planning

`ApprovalGate` is one plan at its gate: `Begin`, `Bind`, `Store` are the Redis
commands of `approve` (stored state, bound preview, new state), `Verify` and `Mark`
those of `validate_token`; `Execute` is the route that only checks the signature. All
keys and tokens expire; a failing command is skipped, as in the code. Tokens are
numbered in the order they are signed, which is the order in which they die.

`Conversation` reads a session, asks the local and, where it must, the remote LLM,
merges and saves (`StartsParse`, `AskLocal`, `AskRemote`, `save`). A parse is an
intent or none, and an entity by name, by alias or not at all; its value is the
number of the message, so that it can be told which turn a value comes from.

`Planning` has the two breakers with the state a call read when it began
(`Calls`, `Completes`), the skeletons (`build_skeleton`, `PopSkeleton`) and the
fallbacks of `generate_plan`.

### Outcomes

`persist_outcome` is `StorePlan`, `StoreFact`, `ReadPattern`, `WritePattern` and
`StoreEmbedding`, each a database command that may fail before or after its effect;
`bulk_persist` is a sequence of these; `Die` ends a request between any two. A fact is
identified by its text and day, as the hash of the table does; a text says type,
entities and outcome.

### Connections, Sessions

`Connections`: a listing asks Composio (`ListRemote`), writes the rows that differ
(`SetActive`, `SetInactive`), drops and fills the cached set (`Invalidate`,
`ReadRows`, `Warm`) and shows the rows; a disconnect revokes the first account. Rows
may be stored under other spellings of the app's name.

`Sessions`: per key a session under a lock with a second check (`DoubleCheck`). A
refusal (401 or 403) drops whatever session the key has, and the request is sent once
more (`SendRefused`). Whether a call is repeated is decided by the text of its error, in
which "HTTP 401" or "HTTP 403" is looked for, and that text may be the server's answer: a
call that was carried out may count as refused (`SendMisread`).
A listing that fails for an auth config that does not work reads the MCP config,
validates its entries, patches it and lists again (`ReadConfig`, `Validate`, `Patch`).

### WorkflowRegistry, Workflows, PlanRules, PreviewRun, Scan, SpawnPolicy

`WorkflowRegistry` is the registry of `workflow_registry.py`, all of it, as far as
steps depend on and mention each other: numbers, roles, tools, dependencies, context,
gates, the entities and the steps named in the arguments, the entities required and
optional. `Workflows` takes an intent (its words, and any sub-intents an LLM may have
found in it) through skeleton, form and plan: `decompose_intent`, `compose_workflows`,
`merge_entity_requirements`, `_build_entity_args`. The route of the skeleton passes no
sub-intents on, that of the plan does. An intent may also become a plan without a
skeleton of the registry (`AnswerWithoutSkeleton`). A workflow is a chain (`IsChain`): the
composed plan depends on that.

`PlanRules` is the validator on a draft; sizes in bytes and the limit on spawned steps are
left out. Parallel steps are those whose sorted dependencies agree, repetitions included.
`GivenTo` is what the executor gives an LLM step to read: the steps of its `context_from`
or, if that is empty, every step with a result. The order of `context_from` is left out,
although a sanitizer scans only the first step of its own that has a result
(`execute_service.py:1065-1069`), so that "a sanitizer has met the result" is the most the
model can say.

`PreviewRun` classifies a level as a whole, then makes its calls together, and defers what
follows a deferred step. A name is the set of its tokens, and counts as that of a write if
one of them is one of the 18 verbs of `_WRITE_VERBS`; whether a tool *does* write
(`writes`) is a fact of the world that no code knows. `Scan` has several sanitizer steps
of one level, whose verdicts and flag go into one context. `SpawnPolicy` is one evaluation
after the other, with its two lookups apart, against a table that an administrator and
approvals change.

## 3. Runs

| Run | Instance | Shows |
|---|---|---|
| `resource_lock_expiry` | the lock of `services`, without Redis errors | **violated**: a release acts on another call's value |
| `booker` | 2 repeats of a step in 2 processes, 1 retry, 2 polls; every fault | bookings accounted for; two writes to a resource overlap only after an expiry under one of the calls inside |
| `booker_progress` | the same without stale claims and lost answers | every call ends |
| `plan_execution` | 7 plans (below), 2 gates, requests of 1 or 2 steps, 2 recoveries, 5 steps in all | eight properties of an execution over its rounds |
| `plan_replay` | the same | **violated**: a completed sibling of a gated step runs again |
| `monitoring` | 4 events, threshold 2, bound 3, loop, lost answers, stop; and 2 rounds of one or two plans, both may be overdue in one poll, 1 crash, failing and unanswered database commands | events accounted for and settled, implements `EventLog`; who ended is told, once and at the end only, and no row runs for ever |
| `schedules` | 2 concurrent requests, 3 in all, 2 executions, limits 0 and 1, triggers good and bad, 1 failing command or death | limits are kept; an active schedule has a job; after the user's last word at most one execution begins |
| `outcomes` | 2 requests, 2 plans, 3 rounds, 2 days, 1 failing command or death | what is remembered happened; `ok` is true; patterns count each fact once |
| `services` | *lock*: 3 calls, 2 processes, 1 key, 2 polls, crashes, Redis errors, expiry at any time; *connections*: 2 requests on an app with 2 accounts and 2 spellings, 2 failures; *sessions*: 2 requests, 2 auth configs of which one works, 3 sessions, 1 failure; *planning*: 3 requests on 2 breakers (thresholds 2), 2 intents, 2 skeletons, 4 LLM calls | release by the owner only, until the key expires under it, and the lease `AbstractMutex` is implemented; listings are true; only a refusal makes a session anew, and only a refusal or a text once taken for one repeats a call; an undisturbed listing brings the tools; an open circuit is left alone; a skeleton shapes one plan |
| `requests` | *conversation*: 2 requests in 2 sessions, 3 messages, 2 turns, 1 failure; *approval*: 2 requests, 2 scopes, 3 tokens, 1 failure; *decisions*: every graph of up to 3 steps with repeats, dangling and repeated dependencies, and of 4 ordered steps; every intent of 1 or 2 words, known or not, with no sub-intents or 1 or 2 of the 32 workflows or others, in the words or beyond them; drafts of up to 4 steps; previews of 3 steps of 5 kinds or 4 of 2; 2 scans; 5 rules, 8 requests | answered messages stay; a token is accepted once, and a second one signed only for a reason; seven algorithms against what they are for |
| `trust` | the drafts of `requests` | **violated**: an accepted plan gives an LLM step what no sanitizer has met |
| `preview_writes` | the previews of `requests` | **violated**: a tool that writes is called in a preview |

Why the bounds are enough:

- *Lock and Booker.* Every race here is between two calls; the third call of
  the lock in `services` is needed for a call of the *same* process beside one of another (the
  shared `_held_locks`). Two polls separate "waited" from "gave up"; more polls repeat the
  same state. One retry separates a retried failure from a last one. Repeats of one step
  compete for its record and, once a claim is stale, for the lock as well. Whether calls
  end is checked in a run of its own without stale claims and lost answers, which add no
  wait to a call and would make the behaviours too many: in it repeats still race for the
  claim and the lock. The safety properties of the lock are proved for all numbers
  (section 5).
- *Execution.* The plans: two gates in one level beside an ungated step, with a
  gate further down that was granted before (`TwoGates`); a gated Reasoner that
  is also the one to recover (`GatedReasoner`); a gate on a step other than a Booker
  (`GatedResolver`); two concurrent Reasoners that reach their limits
  (`TwoReasoners`); more failures in a level than may be recovered
  (`ManyFailures`); a circular and the empty plan. `RecoveryLimit` 2 and
  `PlanLimit` 5 (5 and 100 in the code) are reached, so are the spawn limits.
- *Audit.* Two full batches under way whose failure exceeds the bound take four
  events; threshold and bound are 10 and 1000 in the code.
- *Tracker.* What one row can do to another (by the shared `plan_id`, or by being
  handled before it) takes two rows. `PollLimit` 2 is not below the number of rows, so
  that a row never waits for its turn in a batch; the safety properties are proved
  for every limit and number of rows. Three rows do not finish in reasonable time.
- *Schedules.* One request may race the run or the other request; the third is the one
  that resumes, or lowers a limit. Two executions are one more than the limit 1 and than
  the one run of a one-time schedule.
- *Outcomes.* Two requests race for one pattern or one plan; the third round replays
  an outcome; the second day lets a fact expire, and gives the same text a new hash.
- *Connections, sessions, planning, conversation, approval.* Each race is between two requests; a late success or
  failure of a breaker is a third one's. Three messages overflow a session of two
  turns. One failing command at a time, two where a listing is repaired by a later one
  (connections): further independent failures excuse more than they show.
- *Decisions.* The inputs are the case: the registry is whole; three steps with two
  mentions each hold every mix of repeated, dangling, self and mutual dependencies,
  four steps the diamonds; a path over two steps between tool and LLM step, with
  sanitizers anywhere on or beside it, takes four steps; two sub-intents are enough for
  one inside the words of the intent and one outside; rules and requests differ in
  one thing each, so that each check of `RuleAdmits` decides alone for some pair.

- *Symmetry.* `services`, `requests` and `schedules` take requests, accounts and scopes that only differ by name
  for the same; their properties are invariants and action properties, not liveness, and
  the parts of a run give their requests the same names, so that one permutation acts on
  all of them.

`CHECK_DEADLOCK FALSE` in every configuration: calls, executions and logs end.

Each property of a passing run has a *mutant* in `PROJECT.json`: a definition
changed as a plausible bug would change it, for which TLC finds the property
violated in the same configuration. The mutants stand beside the definitions they
change, under "Mutant:". Type invariants, and invariants that the properties above
imply or rest on, are stated in the modules and proved (section 5).

## 4. Fairness

- `BookerStep`: weak fairness of every call of a live process
  (the event loop runs what is ready; every Redis and HTTP call has a timeout) and
  of the expiry of keys. Nothing is assumed of success: an invocation may fail
  each time, Redis may raise each time.
- `PlanExecution`: weak fairness of the server's steps. None of the user's: a user
  may never approve, and `RoundsEnd` only says that a round ends.
- `AuditLog`: weak fairness of starting the loop and of its wake-ups; strong
  fairness of writing a batch that contains a given event and can be written: the
  database may fail any number of times, but not every time. Without it nothing
  could be said of a database that is down for ever.
- `ExecutionTracker`: time passes (a row grows old), the watchdog is scheduled, and
  strong fairness of `Mark`: a poll whose command fails is repeated, and does not
  fail each time. Nothing is assumed of the executions: they may hang or never
  come back from an approval.
- The other modules state safety only. `MCMonitoring` states the fairness of `AuditLog` and of
  `ExecutionTracker` again, each for the behaviours that show that module: in the others
  its actions cannot happen.

## 5. Theorems

All proofs are checked by TLAPS, for all values of the constants that satisfy the named
assumptions of the modules. These state what kind of values the constants are
(`LockParameters`, `BookerParameters`, `ExecutionParameters`, `TrackerParameters`,
`GraphParameters`, `ScheduleParameters`, `OutcomeParameters`, `PlanningParameters`,
`ConversationParameters`, `GateParameters`, `SessionParameters`, `ConnectionParameters`,
`ScanParameters`, `SpawnParameters`, `PreviewParameters`, `DraftParameters`), and three
things more: in `AuditParameters`, that the threshold is not above the bound of the
buffer; in `SpawnParameters`, that no plan refers to a rule by the name of a learned one;
in `RegistryParameters`, that the registry consists of chains (each step comes after the
one before it and reads earlier ones, which every run over the registry confirms of all 32
workflows) and requires no entity `action`. No theorem assumes more: keys may expire under
their holders, and sub-intents may be anything.

The theorems of one part of the system share a module.

**`ResourceLock_proofs`.** `LockTyping`, `LockExcludes`, `LockReleasedByOwner` and
`LockImplementsMutex`. Mutual exclusion is not inductive by itself: a call between
`CompareOwner` and `DeleteLock` is outside, but is about to delete. The invariant is that
Redis names the call as the owner of its key from the grant until its DELETE, unless the
key has lapsed (`OwnerIsInside`); a key is lapsed only while some call is still inside with
it (`LapsesAreHeld`). So the lock is sound again as soon as those have left: a stale entry
of `_held_locks` meets a value that is not its own. The run `resource_lock_expiry` shows
what happens in between.

**`ToolCalls_proofs`** is about what reaches the integrations.

- *BookerStep*: `Typing`, `SuccessMeansBooked`, `FailureLeavesNoClaim`,
  `RepeatsDoNotBook` and `WritersExclude`, under every fault, expiring locks included. For
  the last one the invariant of the lock is reused: each step of the system is one of the
  lock or leaves it alone (`StepsDriveLock`). The
  invariant says where the lock and the record of a call are for each stage of it
  (`LockFollowsStage` and its companions). `RepeatsDoNotBook` (`BookingsAccountedFor`)
  counts: the bookings made and those that calls or the record still permit are at most
  one and the events that made the record unreliable (`Budget`), and what a call does next
  was decided by what it has read (`ReadDecides`).
- *Sessions*: `CallsAreSentOnce` and `UndisturbedListingsAnswer`. A request that holds the
  lock is the only one that initializes (`HolderInitializes`); every session made has a
  reason, the first use or one refusal each (`MadeForReason`); a call has run its tool once
  more than its answers were misread at most, and before its last attempt not even that
  (`RunsFit`); a listing that met nobody
  is alone as long as it runs (`AloneIfClean`), so the config it reads is the one it has
  healed.
- *Connections*: `ListingsAreTrue`. While a listing repairs the rows nobody disturbs, what
  it has left to do is exactly what the rows are wrong by (`TrueSoFar`).

**`DagResolver_proofs`.** `LevelsKeepOrder`, for every graph that `resolve` accepts, and
`ResolverIsRight`: it ends, raises exactly for circular graphs and repeated numbers, and
else returns the earliest levels, for graphs of any length. The loop invariant (`LoopInv`)
is that `in_degree` counts the mentions of steps in no level yet, and the queue is the
steps in no level that have none. A round's decrements are counted through a bijection
with the mentions it meets (`DecrementsCounted`), and a step is freed once because its
last mention is (`LastDecrementTells`). The library's induction theorems cannot be
instantiated, so everything that goes by induction takes a least counterexample, from
`LeastNatural`, which rests on the
well-foundedness of the order of natural numbers. The recursive function
`Loop` is defined by a CHOOSE: `LoopIsRun` shows that its rule has a solution and all
solutions agree. A round fills a level of at least one step, so there are at most as many
as steps (`LoopEnds`). That steps left over are circular, and circular steps left over
(`LeftOutIsCyclic`, `CyclicIsLeftOut`), are both about sets of steps, not paths.
`PlanExecution_proofs` and `Requests_proofs` cite these theorems wherever the code calls
`resolve`.

**`PlanExecution_proofs`** is about an execution and what decides in it.

- `PlanTyping`, `GatesAreKept`, `RevisionsStayAttested`, `PlanImplementsWork`. The
  inductive invariant `GateInv` adds to "nothing gated runs unapproved": tasks exist only
  while a level runs, so an approval finds none (otherwise a refused task could pass); a
  task that stopped at a gate, and a pause, stopped at one that is *not* granted (so the
  user is never asked twice, which the refinement needs); and a Reasoner that waits for
  the policy still has the request it waits for. The refinement maps `phase` to the four
  states of `ApprovedWork` and the running tasks to the gates they are behind.
- `DependenciesComeFirst` and `SuccessIsComplete`: every step of the levels that are over
  has a result unless a gate stopped it (`LevelInv`), with the order of the levels from
  `LevelsKeepOrder`; what is said to be completed was, and what is said to be skipped
  never ran (`ResultsTrue`).
- `SpawnsAreBounded`: the steps of the plan, the added ones included, and the Reasoners
  waiting for the policy are together at most `PlanLimit - 1` and the width of a level
  (`BudgetInv`); one task is alive per parent, and a recovery runs alone.
- `OthersRunOnce`: the result of a completed step is handed over or known in this round,
  unless the step is beside a gate at which the plan stops or stopped (`ReplayInv`,
  `Collected`).
- `ScansAreConservative` (`Scan`): the verdicts of a scan and the fields taken out of its
  payload follow from what its stages found at each stage of the scan, and no scan touches
  what another one keeps (`ScanInv`).
- `TheRuleGoesFirst` (`SpawnPolicy`): learned rules come from approvals
  (`LearnedByApproval`), and what a lookup has found is what the plan's rule was at some
  time since the evaluation began, or was learned (`LookupsAreSeen`).

**`Monitoring_proofs`** is about what is recorded and watched.

- *AuditLog*: `AuditTyping`, `EventsStayAccounted`, `EventsStayInOnePlace`,
  `BufferStaysBounded`, `DropsForWantOfRoom`, `AuditImplementsLog`. The four invariants
  are inductive only together: that cutting the queue loses nothing unnoticed needs that
  no event is in it twice; that needs a new event to be nowhere yet; and that needs all
  events to be accounted for. The refinement also needs the bound: a cut never reaches
  past the batch that came back, otherwise one step could store some events and give up
  others. The lemmas about concatenation, cutting and injectivity are stated once
  (`ConcatElements`, `CutElements`, ...).
- *ExecutionTracker*: `TrackerTypes`, `NobodyIsToldTwice`, `FlaggedPlansAreTold`,
  `EndingsAreFinal`. That nobody is told twice does not rest on `notification_sent` but on
  the WHERE clause of the poll: a row of which the user was told has ended. To be
  inductive this needs what is known of the records still to handle (`Handled`): their
  rows exist, none of them but the one being flagged was told of, and whoever is flagged
  belongs to a plan whose user was told. The latter is why a suppressed notice is never
  the only one of its plan.

**`Schedules_proofs`.** `NothingRunsAgainstTheWish`, `LimitsAreKept`,
`ActiveSchedulesHaveJobs`. A row that says `active` says what its user asked for last
(`ActiveIsWished`), so a run that reads it afterwards begins nothing, and one that has read
it before is the only one and has begun nothing since (`ReadyIsFirst`); an active row has a
job, or whoever has taken the job away registers it again, has been cut off or refused, or
has left after the time of the schedule (`JobIsCaredFor`); and every execution is recorded
by the row, under way or excused, with one to spare for a run that is ready
(`RunsAreCounted`).

**`Outcomes_proofs`.** `NothingIsMadeUp`, `ResultsAreTrue`, `PatternsAreCounted`. Library,
History and index hold only what was reported of a stored plan, and each request at each
stage carries what it has stored so far (`Grounded`); a fact that has not expired stays
(`FreshFactsStay`); and a pattern's count and the requests about to raise it are never
more than its facts, and as many unless an update of it failed, died or overlapped
(`Counted`).

**`Requests_proofs`** is about the way from a message to an approved plan.

- *ApprovalGate*: `TokensAreUsedOnce`, `OneTokenIsSigned`. A living token that an approval
  has stored is guarded by the key of the gate (`KeyOutlives`), so no approval that begins
  then gets to sign another (`NoRivals`), and an accepted token is marked until nobody can
  ask for it any more (`UseIsMarked`). Both rest on the order in which keys of one TTL
  die.
- *Planning*: `OpenCircuitsAreLeftAlone`, `SkeletonsShapeOnePlan`: a closed circuit counts
  at least the failures since its last success (`CircuitsFit`), and the skeleton in the store
  is the last one shown for its intent, of which no plan was made (`SkeletonIsLast`).
- *Conversation*: `MessagesStay`: a session that was read has what is kept, room for one
  turn, and says what its turns say (`TurnsSay`); a request that met no other one is the
  only one of its session (`AloneIsAlone`); an id not given yet has no messages
  (`UnusedIsEmpty`).
- *PreviewRun*: `PreviewsStopAtGates`: the levels left hold the steps not reached, each after
  what it mentions (`LeftInOrder`), and what was called is ungated and named like a read, and
  had all that it mentions and whatever that had (`CallsInOrder`). That a name like a read is
  a read is not assumed, and not so: `preview_writes`.
- *PlanRules*: `AcceptedAreSound`, about what the steps declare to read (for what they are
  given without declaring it see `trust`). Rule F walks over `context_from` with a recursive
  function; `MetIsInReach` shows that after n rounds it has met what is at most n steps
  away, by ways (`IsWay`). Paths that read earlier steps descend, so none is longer than
  the plan (`ReadingIsShort`), and what a step may learn past no sanitizer is met
  (`UnsanitizedIsMet`).
- *Workflows*: `PartsStayTogether`, `AnswersArrive`, for any sub-intents. The composed
  steps and where they are from are two recursive functions over the list of workflows;
  their rules have solutions (`RecursionIsSolved`), and one more workflow preserves what
  is known of both together (`Composed`, `ComposesOneMore`): the steps are numbered by
  their places, each comes after the one before it, and each reads the places of the steps
  of its own workflow that it was written to read. Such a chain is resolvable, with a
  level for each step (`ChainLevels`).

Only model-checked: everything temporal under fairness (`EveryCallEnds`, `RoundsEnd`,
`EventuallySettled`, `NoRowRunsForever`), which is out of TLAPS's reach, since its proof
rules for liveness rest on ENABLED. Every other property of a passing run is stated by a
theorem, `MutexSpec`, `WorkSpec` and `LogSpec` included.

## 6. Where the code differs from what is said of it

With a run that ends in a violation (`findings` quotes the sentence):

- *Expired lock* (`resource_lock_expiry`): `_held_locks` has one entry per key and
  process; after an expiry the first release pops and deletes the value of the
  second holder.
- *Replay* (`plan_replay`): the partial results of a pause lack the siblings that
  completed after the gate was met; they run again. For a Booker the idempotency
  record catches it, for other steps nothing does. `OnlySiblingsRepeat` shows that
  nothing else repeats.
- *Context that is not declared* (`trust`): an LLM step with an empty `context_from` is given
  all earlier results, which rule F does not look at; a plan of a tool and such a step is
  accepted. `AcceptedPlansAreSound` says what rule F does ensure.
- *Previewed writes* (`preview_writes`): a tool is a write if a token of its name equals one of
  18 verbs, which SENDS, UPLOAD and APPEND do not. `PreviewStopsAtGates` says what the
  check does ensure.

Seen in the models, without a run of their own. The first five are what the properties of
the passing runs must leave room for, and each of those says how much:

- *Poisoned batch.* A batch that was committed but raised is put back
  (`audit_service.py:270`), and the primary key refuses every batch that begins with it,
  until an overflow drops it (`components/Audit/LLD.md:274`: "next flush succeeds").
  `EventuallySettled` (`Blocked`) shows that nothing else stops the writes.
- *Missed notice.* A row is ended before its user is told (`monitor_service.py:197`), and later
  polls read running rows only (`specs/031` SC-004: "no duplicates, no misses").
  `FlaggedPlanIsTold` (`cut`) shows that only a death or an unanswered command costs a plan
  its notice.
- *Refused trigger.* `create` commits the row as active, then validates its trigger
  (`scheduler_service.py:145`, `164`): the request fails, the schedule stays without a job.
  `ActiveHasJob` (`unjobbed`) shows how else an active schedule may lose its job.
- *Misread answer.* An error text that quotes "HTTP 401" or "HTTP 403" makes the client repeat
  a call the server has carried out (`mcp_client.py:176`; line 170: "On session expiry").
  `OnlyRefusalsRepeat` (`misread`) shows that this happens once at most, and that nothing
  else repeats a call.
- *Form of a compound intent.* The route of the skeleton passes no sub-intents on
  (`orchestrate_routes.py:376`), so the form covers only the workflows in the name
  (`components/Planner/LLD.md:171` says those of the sub-intents). `AnswersReachTheirSteps`
  says what holds of what was asked.

*Execution.* `acquire` raises outside the try block, so that after a lock timeout the
claim stays IN_FLIGHT and repeats are refused for five minutes
(`docs/architecture/Project_HLD.md:1138`: "`FAILED`: Execution failed, available for
retry"). `_build_outcome` says success although a recovered step stays failed
(`shared/schemas/outcome.py:35`: "Whether the plan executed successfully"). A spawned
Booker gets a `gate_id`, but is neither asked about nor run (`execute_service.py:1189`;
`specs/021-executeorchestrator-pure-agentic/spec.md:100` says that execution pauses).
Two first claims of one key race and both invoke the tool (`doubt` counts it); an empty
cached result is falsy and the step is called again (`execute_service.py:535`);
concurrent Reasoners each check the plan limit before either spawns and exceed it by up
to one step each (`SpawnBudget` states the exact excess); two concurrent spawns can give
one number to two steps; compensation has nothing to undo (`compensation_stack` is
read, never filled). The policy counts a new step twice at the limit: 99 steps with a
rule, 100 without.

*Tracker and audit.* A round that waits for an approval is reported as stuck after five
minutes, and its resumed round is then ended with it; the watchdog ignores what
`mark_terminal` returns and tells the user that an execution is stuck which has
completed meanwhile; a notice lost between `mark_terminal` and `notify`, or a failed
`mark_notified`, is not made good by a later poll, which looks at running rows only
(the monitor's specification, `specs/031`, expects a retry). The application creates
`AuditService` but calls neither `start()` nor `stop()` (`shared/app.py:487`), so fewer
than `flush_threshold` events stay in memory (`components/Audit/LLD.md:375`: "Every 100ms
or 10 events (whichever first)"). Overlapping flushes that fail in the opposite order put
their batches back in the wrong order, so an overflow need not drop the *oldest* events
(`components/Audit/LLD.md:69`).

*Scheduler.* With `auto_approve` the approval of a gate is passed under a key that
`execute_plan` does not read: the retry runs the plan from its first step and meets the
gate again (`components/Scheduler/LLD.md:163`: "Gates are automatically approved; plan
runs unattended"; `GateKey` and `ApprovalKey`). A schedule that is paused, cancelled or
deleted while its plan is made or approved is executed all the same (`NoRunAgainstWish`
bounds that by one execution). A run that ends overwrites a status the user set meanwhile,
and one that failed after its record is recorded a second time. A limit set below the runs
there were takes effect after the next one. `RecurrenceConfig.max_runs` is never read.

*Approval.* `validate_token` has no caller under `src/` but its tests: the routes check
the signature only. The cached preview is asked for by an attribute the service does not
have (`orchestrate_routes.py:718`), so it is never merged. A gate record can outlive its
token, and an approval with other scopes returns the stored one.

*Memory.* The library keeps the first outcome of a plan id for ever; a success whose text
is refused as personal data is `partial`; a pattern that fails after its fact was inserted
makes `store_fact` raise, and no repeat counts it.

*Tools and messages.* The catalog's session of a user is not dropped on a refusal by its
own code path; a late refusal drops a newer session (`OnlyRefusalsRepeat` bounds what
follows); connecting and disconnecting leave the cached tools; a disconnect revokes the
first of several accounts; two changes of `allowed_tools` can lose one. Overlapping
messages of one session lose turns, and a save after a reset brings the session back.

*Planner.* With several probes in a half-open circuit a late success closes a circuit that
another probe has opened again (`circuit_breaker.py:96`; line 4: "CLOSED -> OPEN ->
HALF_OPEN -> CLOSED"). A skeleton is popped before its plan is known to be usable. To
infer entities the fallback model is called through the breaker of the primary one
(`planner_service.py:315-317`), so "an LLM" in `OpenCircuitIsLeftAlone` is a breaker with
the models behind it. Generic names are found inside specific ones, so an intent of two
words can make a plan of more workflows. Answers are keyed by tool and reach every
workflow with that tool. Composed plans repeat gate ids
(`docs/architecture/MODULAR_ARCHITECTURE.md:871`: "Each gate gets unique token"). A
generic intent has a step without a tool and is no plan (503) where the list of tools is
empty. Plans of the registry do not pass the validator (`components/Planner/LLD.md:373`:
"All plans pass the existing `PlanValidator`."), and rule F accepts an LLM step that reads
a tool's result directly if a sanitizer it also reads covers it (`AcceptedPlansAreSound`
states exactly that; `specs/037` FR-018 asks for every path).

*Trust filter and policy.* Only the first context step with a result is scanned; an answer
of the judge that is JSON but no object raises past the step's handlers; a failing rule is
swallowed, so `S1InternalError` is never raised. A learned policy holds for all users; a
stored rule without tools allows all tools.

## 7. What is not modelled

- *Inside modelled components*: template resolution, credential decryption, the
  parsing of LLM answers, prompts, the ranking of tools and evidence, audit events of an
  execution, HTTP codes and JWT contents, the PII filter of audit events, the patterns of
  the trust filter, the arguments of a preview, wording.
- *The walk through a payload*: `_build_payload` of `Scan` takes out exactly the fields that
  are listed. The code finds them by a path, and a key with a dot in it is missed
  (`apply_strips`, `_tokenize_path` of `tree_walker.py`): such a field is listed as stripped
  and passed on all the same.
- *Seconds*: a token and the record of its gate die in the order in which they were made
  (`DropGate`). The `exp` of a token is in whole seconds, so a record can go up to one second
  before its token.
- *Never reached*: the plan cache (always misses), the agentic expansion of skeletons,
  `cleanup_expired` of the audit log, `evaluate_trust_verdicts` with verdicts,
  `create_attestation`, `handle_callback`, `mark_connected`, `delete_embedding`.
- *ContextRAG*: one gather over up to four read-only sources, each with a timeout of its
  own; the answers are deduplicated, ranked and cut. It keeps no state and never raises.
- *ProfileStore*: one statement per operation on one row.
- *Left out for good*: embeddings, encryption, migrations, rendering, authentication, HTTP
  plumbing: data or I/O without a protocol.
- *Environment*: Redis executes one command at a time and loses nothing but what
  expires; PostgreSQL transactions are atomic; one user, one plan or one schedule where
  the keys of different ones are disjoint.

## 8. Plan

Every component that has a protocol has a module, and every safety property of a run is
proved. What is left, in this order:

1. Type correctness as a theorem of its own where it is now part of a larger invariant:
   `Schedules`, `Outcomes`, `Sessions`, `Connections`, `Planning`, `Conversation`,
   `ApprovalGate`, `Scan`, `SpawnPolicy`.
2. Abstract specifications that a component implements: one token per gate for
   `ApprovalGate`, as `AbstractMutex` is for the lock.
3. What the registry's chains are: `IsChain` of the 32 workflows is evaluated by TLC, as an
   assumption of `Workflows`, not proved.
4. The hazards without a property (`hazards` in `PROJECT.json` says why).
