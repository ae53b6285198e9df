------------------------ MODULE PlanExecution_proofs ------------------------
(***************************************************************************)
(* Proofs about PlanExecution, for any plans, gates, spawn requests and    *)
(* limits.                                                                 *)
(*                                                                         *)
(* GateInv: a gated step waits for its approval.  This is inductive        *)
(* together with three facts: tasks exist only while a level runs, so that *)
(* an approval finds none; a task that stopped at a gate stopped at one    *)
(* that is not granted, and so does the pause that follows; and a Reasoner *)
(* that waits for the PolicyEngine still has the request it waits for.     *)
(*                                                                         *)
(* LevelInv: which steps have tasks and which have results follows from    *)
(* the level at hand.  ResultsTrue: what is said to be completed was.      *)
(* BudgetInv: a task that waits has room below both limits.  ReplayInv:    *)
(* why a completed step would run again.  Each is inductive beside GateInv *)
(* and the ones before it that its lemmas name.                            *)
(*                                                                         *)
(* And about two decisions made for a running plan: Scan judges what its   *)
(* sanitizer steps have to pass on (ScanInv: of each scan what is to be    *)
(* shown, and its types), SpawnPolicy whether a Reasoner's step is added   *)
(* (LookupsAreSeen: what the lookups so far say of the rules met since).   *)
(***************************************************************************)
EXTENDS PlanExecution, Scan, SpawnPolicy, DagResolver_proofs

TasksInLevel ==
    \A s \in DOMAIN task : task[s].pc # "idle" => phase \in {"running", "recovering"}

StopsAtOpenGate ==
    /\ \A s \in DOMAIN task : At(s, "gate") => Subject(s).gate \in Gates \ granted
    /\ phase = "paused" => asked.gate \in Gates \ granted

RequestAtHand ==
    \A s \in DOMAIN task :
        task[s].pc \in {"policy", "attesting", "child"} => task[s].asks # <<>>

PlanHasLevels ==
    phase \in {"level", "running", "recovering", "paused"} => plan \in ResolvablePlans /\ levelNo # 0

RecovererExists == task[Recovery].pc # "idle" => CanRecover

GateInv ==
    /\ RecovererExists
    /\ Types /\ TasksInLevel /\ StopsAtOpenGate /\ RequestAtHand /\ PlanHasLevels
    /\ GatedNeedsApproval

-----------------------------------------------------------------------------
(* What a round has done: the levels, their tasks and their results.       *)

Busy == phase \in {"running", "recovering"}

\* Places of the level whose step has no result yet: the step for which the
\* Reasoner runs has one already.
Open == IF phase = "recovering" THEN todo \ {Min(todo)} ELSE todo

\* The level at hand is one of the plan's, and what is to be handled is in it.
InLevels ==
    /\ Busy \/ phase = "paused" => levelNo \in DOMAIN Levels
    /\ Busy => todo \subseteq DOMAIN Level
    /\ phase = "recovering" => todo # {}

\* Only steps of the level at hand have tasks; one that has not ended is still
\* to be handled, and the Reasoner of a recovery runs when all have ended.
TasksToDo ==
    /\ \A s \in Ids(plan) :
          /\ task[s].pc # "idle" => s \in ToSet(Level)
          /\ task[s].pc \notin Ended \cup {"idle"} =>
                phase = "running" /\ \E i \in todo : s = Level[i]
    /\ task[Recovery].pc # "idle" => phase = "recovering"

\* The steps that have a result are those of the levels passed and, of the
\* level at hand, those skipped or handled.
ResultsByLevel ==
    /\ phase \in {"new", "verify"} => \A n \in Ids(plan) : n \notin DOMAIN results
    /\ phase = "level" \/ Busy =>
          \A k \in DOMAIN Levels : \A n \in ToSet(Levels[k]) :
             phase = "level" \/ k # levelNo => (n \in DOMAIN results <=> k < levelNo)
    /\ Busy => \A i \in DOMAIN Level : Level[i] \in DOMAIN results <=> i \notin Open

LevelInv == InLevels /\ TasksToDo /\ ResultsByLevel

\* What is said to be completed was, and what is said to be skipped never ran.
ResultsTrue ==
    /\ \A s \in Ids(plan) \cap DOMAIN results :
          /\ results[s] = "completed" => s \in completed
          /\ results[s] = "skipped" => Skipped(s)
    /\ carried \cap Ids(plan) \subseteq completed
    /\ \A t \in DOMAIN task : task[t].offer \cap Ids(plan) \subseteq completed
    /\ \A s \in Ids(plan) : /\ At(s, "ok") => s \in completed
                            /\ task[s].pc # "idle" => ~Skipped(s)
    /\ \A s \in completed : ~Skipped(s)
    /\ outcome.success => phase = "done" /\ Ids(plan) \subseteq DOMAIN results

\* Tasks that wait for the PolicyEngine.
Waiting == {s \in DOMAIN task : At(s, "policy")}

\* A task that waits has looked at the limits; its parent is below its own
\* since then, and the plan may only outgrow its limit by those that wait.
BudgetInv ==
    /\ \A n \in Ids(plan) : SpawnedBy(n) <= StepOf(n).limit
    /\ \A s \in Waiting : SpawnedBy(Subject(s).step) < Subject(s).limit
    /\ \A s \in DOMAIN task : task[s].pc \in {"policy", "attesting", "child"} => MaySpawn(s)
    /\ spawned # <<>> => plan \in ResolvablePlans
    /\ spawned # <<>> \/ Waiting # {} =>
          Total(Len(spawned)) + Cardinality(Waiting) <= PlanLimit + Concurrent - 1

\* The gate of one of the steps of a level is approved.
HasGranted(level) == \E t \in ToSet(level) : StepOf(t).gate \in granted

\* Why a completed step need not run again, or may: its result is carried
\* over or known in this round, or it was beside a gate at which the plan
\* stops or stopped.
Collected(s) ==
    \/ s \in carried
    \/ \E k \in DOMAIN Levels : s \in ToSet(Levels[k]) /\ HasGranted(Levels[k])
    \/ (phase = "level" \/ Busy) /\ s \in DOMAIN results /\ results[s] = "completed"
    \/ Busy /\ s \notin DOMAIN results /\ At(s, "ok")
    \/ phase = "paused" /\ s \in ToSet(Level) /\ \E t \in ToSet(Level) : StepOf(t).gate = asked.gate

ReplayInv ==
    /\ phase # "done" => \A s \in completed : Collected(s)
    /\ Busy => \A s \in Ids(plan) : At(s, "gate") =>
          \A n \in Ids(plan) \ ToSet(Level) :
             n \in DOMAIN results /\ results[n] = "completed" => n \in task[s].offer

-----------------------------------------------------------------------------
(* Facts about step numbers that hold for plan graphs of every length.     *)
(* They are inductions, written with a least counterexample: the set of    *)
(* natural numbers for which a claim fails has a least element.            *)

\* The largest step number of a graph that has steps is a step number
\* (execute_service.py:1107).
LEMMA MaxId ==
  ASSUME NEW S, NEW g \in Seq(S), g # <<>>, \A s \in S : s.step \in Nat
  PROVE  Max(Ids(g)) \in Ids(g) /\ \A x \in Ids(g) : x <= Max(Ids(g))
  <1>. DEFINE f == [i \in 1 .. Len(g) |-> g[i].step]
  <1>1. Len(g) \in Nat /\ DOMAIN g = 1 .. Len(g) /\ 1 \in DOMAIN g
    OBVIOUS
  <1>2. f \in [1 .. Len(g) -> Nat]
    OBVIOUS
  <1>3. PICK b \in Nat : \A i \in 1 .. Len(g) : f[i] <= b
    <2>. HIDE DEF f
    <2>. QED BY <1>1, <1>2, ValuesBounded
  <1>4. \A x \in Ids(g) : x \in Nat /\ x <= b
    BY <1>1, <1>2, <1>3 DEF Ids
  <1>5. Ids(g) # {}
    BY <1>1 DEF Ids
  <1>. QED BY <1>4, <1>5, MaxOfBounded

-----------------------------------------------------------------------------
\* The number of a spawned step is a step number (execute_service.py:1106-1108).
LEMMA NewNumberType ==
  ASSUME plan \in Plans, plan # <<>>, NEW k \in Nat
  PROVE  NewNumber(k) \in Nat
  <1>1. plan \in Seq(PlanStep)
    BY ExecutionParameters
  <1>2. \A s \in PlanStep : s.step \in Nat
    BY DEF PlanStep
  <1>3. Max(Ids(plan)) \in Ids(plan)
    BY <1>1, <1>2, MaxId
  <1>4. Ids(plan) \subseteq Nat
    BY <1>1, <1>2 DEF Ids
  <1>. QED BY <1>3, <1>4 DEF NewNumber

\* The step of every slot has a number of the plan (execute_service.py:1295-1300).
LEMMA IdsAreNumbers ==
  ASSUME plan \in Plans
  PROVE  Ids(plan) \subseteq Nat \ {0}
  <1>1. plan \in Seq(PlanStep)
    BY ExecutionParameters
  <1>2. \A s \in PlanStep : s.step \in Nat \ {0}
    BY DEF PlanStep
  <1>. QED BY <1>1, <1>2 DEF Ids

\* The number of a spawned step is not one of the plan's (execute_service.py:1106-1108).
LEMMA NewNumberIsNew ==
  ASSUME plan \in Plans, plan # <<>>, NEW k \in Nat
  PROVE  NewNumber(k) \notin Ids(plan)
  <1>1. plan \in Seq(PlanStep)
    BY ExecutionParameters
  <1>2. \A s \in PlanStep : s.step \in Nat
    BY DEF PlanStep
  <1>3. Max(Ids(plan)) \in Ids(plan) /\ \A x \in Ids(plan) : x <= Max(Ids(plan))
    BY <1>1, <1>2, MaxId
  <1>4. Ids(plan) \subseteq Nat
    BY IdsAreNumbers
  <1>. QED BY <1>3, <1>4 DEF NewNumber

\* What the resolver promises of the plan at hand (dag_resolver.py:38-71).
LEMMA LevelsOfPlan ==
  ASSUME plan \in ResolvablePlans
  PROVE  /\ plan \in Plans /\ plan # <<>>
         /\ \A i, j \in DOMAIN plan : plan[i].step = plan[j].step => i = j
         /\ Levels \in Seq(Seq(Ids(plan)))
         /\ \A n \in Ids(plan) : \E k \in DOMAIN Levels : n \in ToSet(Levels[k])
         /\ \A j, k \in DOMAIN Levels : \A x \in DOMAIN Levels[j], y \in DOMAIN Levels[k] :
               Levels[j][x] = Levels[k][y] => j = k /\ x = y
         /\ \A i \in DOMAIN plan, k \in DOMAIN Levels :
               plan[i].step \in ToSet(Levels[k]) =>
                   \A d \in ToSet(plan[i].after) \cap Ids(plan) :
                       \E j \in 1 .. k - 1 : d \in ToSet(Levels[j])
  <1>1. plan \in Plans /\ Resolvable(plan) /\ Levels = LevelsOf(plan)
    BY DEF ResolvablePlans, LevelsFor, Levels
  <1>2. IsGraph(plan)
    <2>1. plan \in Seq(PlanStep)
      BY <1>1, ExecutionParameters
    <2>2. \A i \in DOMAIN plan : plan[i] \in PlanStep
      BY <2>1
    <2>. QED BY <2>1, <2>2 DEF IsGraph, PlanStep
  <1>3. KeepsOrder(plan, Levels)
    BY <1>1, <1>2, LevelsKeepOrder
  <1>. QED BY <1>1, <1>3 DEF KeepsOrder

\* A level holds steps of the plan (execute_service.py:206-208).
LEMMA LevelSteps ==
  ASSUME plan \in ResolvablePlans, levelNo \in DOMAIN Levels
  PROVE  /\ Level \in Seq(Ids(plan)) /\ DOMAIN Level = 1 .. Len(Level)
         /\ \A i \in DOMAIN Level : Level[i] \in Ids(plan)
         /\ ToSet(Level) = {Level[i] : i \in DOMAIN Level}
  <1>1. Level \in Seq(Ids(plan))
    BY LevelsOfPlan DEF Level
  <1>. QED BY <1>1 DEF ToSet

\* A step is dispatched to its gate or to its call (execute_service.py:395-431).
LEMMA DispatchCases ==
  ASSUME NEW n, NEW done \in SUBSET Nat
  PROVE  /\ Dispatch(n, done) \in Task
         /\ \/ /\ Dispatch(n, done).pc = "gate"
               /\ Subject(n).gate \in Gates \ granted
            \/ /\ Dispatch(n, done).pc = "calling"
               /\ Subject(n).gate \notin Gates \ granted
  <1>. DEFINE closed == Subject(n).gate \in Gates \ granted
  <1>1. Idle \in Task
    BY DEF Idle, Task, Pc
  <1>2. [Idle EXCEPT !.pc = "gate", !.offer = done] \in Task
    BY <1>1 DEF Task, Pc
  <1>3. [Idle EXCEPT !.pc = "calling"] \in Task
    BY <1>1 DEF Task, Pc
  <1>4. [Idle EXCEPT !.pc = "gate", !.offer = done].pc = "gate"
    BY DEF Idle
  <1>5. [Idle EXCEPT !.pc = "calling"].pc = "calling"
    BY DEF Idle
  <1>6. Dispatch(n, done) = IF closed THEN [Idle EXCEPT !.pc = "gate", !.offer = done]
                                      ELSE [Idle EXCEPT !.pc = "calling"]
    BY DEF Dispatch
  <1>7. closed <=> Subject(n).gate \in Gates \ granted
    OBVIOUS
  <1>. HIDE DEF closed
  <1>8. CASE closed  BY <1>2, <1>4, <1>6, <1>7, <1>8
  <1>9. CASE ~closed  BY <1>3, <1>5, <1>6, <1>7, <1>9
  <1>. QED BY <1>8, <1>9

\* What one request of a Reasoner can lead to (execute_service.py:849-852, 1095-1136).
LEMMA ProposeCases ==
  ASSUME NEW s \in DOMAIN task, task \in [DOMAIN task -> Task],
         NEW asks \in Seq({"Booker", "Fetcher"}), Propose(s, asks),
         spawned \in Seq([step : Nat, parent : Nat, role : {"Booker", "Fetcher"}])
  PROVE  /\ task' \in [DOMAIN task -> Task]
         /\ \A t \in DOMAIN task : t # s => task'[t] = task[t]
         /\ \/ task'[s].pc \in {"ok", "failed"}
            \/ task'[s].pc = "policy" /\ task'[s].asks # <<>>
  <1>1. CASE asks = <<>>
    <2>1. task' = [task EXCEPT ![s].pc = "ok"]
      BY <1>1 DEF Propose, Succeed, Becomes
    <2>. QED BY <2>1 DEF Task, Pc
  <1>2. CASE asks # <<>>
    <2>1. Len(spawned) \in Nat  OBVIOUS
    <2>. DEFINE pc == IF \/ SpawnedBy(Subject(s).step) >= Subject(s).limit
                         \/ Total(Len(spawned)) >= PlanLimit
                      THEN "failed" ELSE "policy"
    <2>2. task' = [task EXCEPT ![s] =
                     [@ EXCEPT !.asks = asks, !.seen = Len(spawned), !.pc = pc]]
      BY <1>2 DEF Propose
    <2>3. pc \in {"failed", "policy"}  OBVIOUS
    <2>. HIDE DEF pc
    <2>. QED BY <1>2, <2>1, <2>2, <2>3 DEF Task, Pc
  <1>. QED BY <1>1, <1>2

\* Every task works on a step of the plan, the recovery on the first Reasoner
\* that may spawn (execute_service.py:1295-1300).
LEMMA SubjectIsStep ==
  ASSUME Types, RecovererExists, NEW s \in DOMAIN task, task[s].pc # "idle"
  PROVE  \E i \in DOMAIN plan : Subject(s) = plan[i]
  <1>1. CASE s # Recovery
    <2>1. \E i \in DOMAIN plan : plan[i].step = s
      BY <1>1 DEF Types, Ids
    <2>. QED BY <1>1, <2>1 DEF Subject, StepOf
  <1>2. CASE s = Recovery
    <2>. DEFINE Able(i) == plan[i].role = "Reasoner" /\ plan[i].canSpawn
                Capable == {i \in DOMAIN plan : Able(i)}
    <2>1. DOMAIN plan = 1 .. Len(plan) /\ Len(plan) \in Nat
      BY ExecutionParameters DEF Types
    <2>2. Capable # {} /\ Capable \in SUBSET Nat
      BY <1>2, <2>1 DEF RecovererExists, CanRecover
    <2>3. PICK n \in Capable : \A k \in Capable : n <= k
      <3>. HIDE DEF Capable
      <3>. QED BY <2>2, LeastNatural
    <2>4. n \in DOMAIN plan /\ Able(n)
      BY <2>3
    <2>5. ASSUME NEW j \in 1 .. n - 1 PROVE ~Able(j)
      <3>1. j \in DOMAIN plan /\ ~(n <= j)  BY <2>1, <2>4
      <3>2. j \notin Capable
        <4>. HIDE DEF Capable
        <4>. QED BY <2>3, <3>1
      <3>. QED BY <3>1, <3>2
    <2>6. \E i \in DOMAIN plan : Able(i) /\ \A j \in 1 .. i - 1 : ~Able(j)
      BY <2>4, <2>5
    <2>. QED BY <1>2, <2>6 DEF Subject, RecoveryReasoner
  <1>. QED BY <1>1, <1>2

\* ... so its number is a step number (execute_service.py:1115).
LEMMA SubjectNumber ==
  ASSUME Types, RecovererExists, NEW s \in DOMAIN task, task[s].pc # "idle"
  PROVE  Subject(s).step \in Nat
  <1>1. plan \in Seq(PlanStep)
    BY ExecutionParameters DEF Types
  <1>2. \A t \in PlanStep : t.step \in Nat
    BY DEF PlanStep
  <1>. QED BY <1>1, <1>2, SubjectIsStep

\* A result is stored under a step number (execute_service.py:334, 1191, 1276).
LEMMA WithResultType ==
  ASSUME Types, NEW n \in Nat, NEW status \in {"completed", "failed"}
  PROVE  /\ DOMAIN WithResult(n, status) \subseteq Nat
         /\ WithResult(n, status)
              \in [DOMAIN WithResult(n, status) -> {"completed", "skipped", "failed"}]
  BY DEF Types, WithResult

\* Before and after a level there are no tasks (execute_service.py:323-326).
LEMMA NoTasksType == NoTasks \in [Ids(plan) \cup {Recovery} -> Task]
  BY DEF NoTasks, Idle, Task, Pc

\* What a task does keeps the types of its state (execute_service.py:369-464,
\* 1075-1191).
LEMMA TaskStepTypes ==
  ASSUME GateInv, NEW s \in DOMAIN task, TaskStep(s)
  PROVE  Types'
  <1>. USE DEF GateInv
  <1>1. DOMAIN task = Ids(plan) \cup {Recovery} /\ task \in [DOMAIN task -> Task]
    BY DEF Types
  <1>2. task[s] \in Task /\ task[s].asks \in Seq({"Booker", "Fetcher"}) /\ task[s].seen \in Nat
    BY <1>1 DEF Task
  <1>3. s # Recovery => s \in Ids(plan)
    BY <1>1
  <1>4. ASSUME NEW pc \in Pc, Becomes(s, pc) PROVE task' \in [Ids(plan) \cup {Recovery} -> Task]
    BY <1>1, <1>4 DEF Becomes, Task
  <1>5. task[s].pc # "idle" => plan # <<>>
    BY LevelsOfPlan DEF TasksInLevel, PlanHasLevels
  <1>6. ASSUME NEW asks \in Seq({"Booker", "Fetcher"}), Propose(s, asks)
        PROVE  /\ task' \in [Ids(plan) \cup {Recovery} -> Task]
               /\ completed' \subseteq Ids(plan)
    <2>1. task' \in [Ids(plan) \cup {Recovery} -> Task]
      BY <1>1, <1>6, ProposeCases DEF Types
    <2>2. completed' \subseteq Ids(plan)
      BY <1>3, <1>6 DEF Propose, Succeed, Types
    <2>. QED BY <2>1, <2>2
  <1>. USE DEF context, client
  <1>7. CASE CallSucceeds(s)
    BY <1>3, <1>4, <1>7 DEF CallSucceeds, Succeed, Types, Pc
  <1>8. CASE CallFails(s)
    BY <1>4, <1>8 DEF CallFails, Types, Pc
  <1>9. CASE ReasonerAsks(s)
    BY <1>6, <1>9, ExecutionParameters DEF ReasonerAsks, Types
  <1>10. CASE PolicyDenies(s)
    BY <1>4, <1>10 DEF PolicyDenies, Types, Pc
  <1>11. CASE PolicyAllows(s)
    <2>. DEFINE number == NewNumber(task[s].seen)
                role == Head(task[s].asks)
                new == [step |-> number, parent |-> Subject(s).step, role |-> role]
    <2>1. number \in Nat
      BY <1>2, <1>5, <1>11, NewNumberType DEF PolicyAllows, At, Types
    <2>2. role \in {"Booker", "Fetcher"}
      BY <1>2, <1>11 DEF PolicyAllows, At, RequestAtHand
    <2>3. Subject(s).step \in Nat
      BY <1>11, SubjectNumber DEF PolicyAllows, At
    <2>4. revision' \in Nat /\ attested' \in SUBSET (Nat \X Nat)
      BY <1>11, <2>1 DEF PolicyAllows, Types
    <2>5. spawned' \in Seq([step : Nat, parent : Nat, role : {"Booker", "Fetcher"}])
      <3>1. new \in [step : Nat, parent : Nat, role : {"Booker", "Fetcher"}]
        BY <2>1, <2>2, <2>3
      <3>2. spawned' = Append(spawned, new)
        BY <1>11 DEF PolicyAllows
      <3>. HIDE DEF new
      <3>. QED BY <3>1, <3>2 DEF Types
    <2>6. task' \in [Ids(plan) \cup {Recovery} -> Task]
      BY <1>4, <1>11 DEF PolicyAllows, Pc
    <2>. HIDE DEF number, role, new
    <2>. QED BY <1>11, <2>4, <2>5, <2>6 DEF PolicyAllows, Types
  <1>12. CASE NextRequest(s)
    <2>1. Tail(task[s].asks) \in Seq({"Booker", "Fetcher"})
      BY <1>2, <1>12 DEF NextRequest, At, RequestAtHand
    <2>. QED BY <1>6, <1>12, <2>1 DEF NextRequest, Types
  <1>13. CASE ChildSucceeds(s)
    <2>1. Tail(task[s].asks) \in Seq({"Booker", "Fetcher"})
      BY <1>2, <1>13 DEF ChildSucceeds, At, RequestAtHand
    <2>2. NewNumber(task[s].seen) \in Nat
      BY <1>2, <1>5, <1>13, NewNumberType DEF ChildSucceeds, At, Types
    <2>3. DOMAIN results' \subseteq Nat /\ results' \in [DOMAIN results' -> {"completed", "skipped", "failed"}]
      BY <1>13, <2>2, WithResultType DEF ChildSucceeds
    <2>. QED BY <1>6, <1>13, <2>1, <2>3 DEF ChildSucceeds, Types
  <1>14. CASE ChildFails(s)
    BY <1>4, <1>14 DEF ChildFails, Types, Pc
  <1>. QED BY <1>7, <1>8, <1>9, <1>10, <1>11, <1>12, <1>13, <1>14 DEF TaskStep

Ending ==
    /\ phase' = "done" /\ task' = NoTasks /\ todo' = {}
    /\ outcome' \in [ended : BOOLEAN, success : BOOLEAN, error : Errors]
    /\ UNCHANGED <<plan, levelNo, context, client, completed>>

\* The ways an execution ends (execute_service.py:133-160, 219-235, 1281-1326).
LEMMA WaysToEnd ==
  ASSUME \/ Refuse \/ RejectGraph \/ NotRecovered \/ Complete
         \/ \E s \in Ids(plan) : NotConnected(s) \/ GiveUp(s)
  PROVE  Ending
  <1>. USE DEF Finish, Ending, Errors
  <1>1. Refuse => Ending
    BY DEF Refuse
  <1>2. RejectGraph => Ending
    BY DEF RejectGraph
  <1>3. NotRecovered => Ending
    BY DEF NotRecovered
  <1>4. Complete => Ending
    BY DEF Complete
  <1>5. \A s : NotConnected(s) => Ending
    BY DEF NotConnected
  <1>6. \A s : GiveUp(s) => Ending
    BY DEF GiveUp
  <1>. HIDE DEF Ending
  <1>. QED BY <1>1, <1>2, <1>3, <1>4, <1>5, <1>6

\* Ending the execution keeps the types (execute_service.py:219-235).
LEMMA FinishTypes ==
  ASSUME Types, Ending
  PROVE  Types'
  <1>1. task' \in [Ids(plan) \cup {Recovery} -> Task]
    BY NoTasksType DEF Ending
  <1>. QED BY <1>1 DEF Ending, Types, context, client

\* The results of the skipped steps have step numbers (execute_service.py:314-321).
LEMMA SkipResultsType ==
  ASSUME Types, NEW level, ToSet(level) \subseteq Ids(plan)
  PROVE  /\ DOMAIN SkipResults(level) \subseteq Nat
         /\ SkipResults(level)
              \in [DOMAIN SkipResults(level) -> {"completed", "skipped", "failed"}]
  <1>. DEFINE skip == {n \in ToSet(level) : Skipped(n) \/ Replayed(n)}
  <1>1. skip \subseteq Nat
    BY IdsAreNumbers DEF Types
  <1>2. SkipResults(level) = [k \in DOMAIN results \cup skip |->
                                IF k \notin skip THEN results[k]
                                ELSE IF Skipped(k) THEN "skipped" ELSE "completed"]
    BY DEF SkipResults
  <1>. HIDE DEF skip
  <1>. QED BY <1>1, <1>2 DEF Types

\* The loop of execute_plan keeps the types of its state
\* (execute_service.py:128-219, 305-362, 1271-1332).
LEMMA RoundTypes ==
  ASSUME GateInv, RoundStep
  PROVE  Types'
  <1>. USE DEF GateInv
  <1>1. Ids(plan) \subseteq Nat \ {0} /\ task \in [Ids(plan) \cup {Recovery} -> Task]
    BY IdsAreNumbers DEF Types
  <1>2. CASE Refuse
    BY <1>2, FinishTypes, WaysToEnd
  <1>3. CASE RejectGraph
    BY <1>3, FinishTypes, WaysToEnd
  <1>4. CASE BeginLevels
    BY <1>4 DEF BeginLevels, Types, context, client
  <1>5. CASE EnterLevel
    <2>. DEFINE known == SkipResults(Level)
                done == {n \in DOMAIN known : known[n] = "completed"}
                run == {i \in DOMAIN Level : ~Skipped(Level[i]) /\ ~Replayed(Level[i])}
    <2>0. Level \in Seq(Ids(plan)) /\ ToSet(Level) \subseteq Ids(plan) /\ run \subseteq Nat
      <3>1. levelNo \in DOMAIN Levels
        BY <1>5, LevelsOfPlan DEF EnterLevel, PlanHasLevels, Types
      <3>. QED BY <1>5, <3>1, LevelSteps DEF EnterLevel, PlanHasLevels
    <2>1. DOMAIN known \subseteq Nat /\ known \in [DOMAIN known -> {"completed", "skipped", "failed"}]
      BY <2>0, SkipResultsType
    <2>2. done \in SUBSET Nat
      BY <2>1
    <2>3. /\ results' = known /\ todo' = run
          /\ task' = [s \in DOMAIN task |-> IF \E i \in run : s = Level[i]
                                              THEN Dispatch(s, done) ELSE Idle]
          /\ phase' = "running"
          /\ UNCHANGED <<plan, levelNo, spawned, revision, attested, recoveries,
                         client, outcome, completed>>
      BY <1>5 DEF EnterLevel
    <2>. HIDE DEF known, done, run
    <2>4. Idle \in Task
      BY DEF Idle, Task, Pc
    <2>5. \A s : Dispatch(s, done) \in Task
      BY <2>2, DispatchCases
    <2>6. task' \in [Ids(plan) \cup {Recovery} -> Task]
      BY <1>1, <2>3, <2>4, <2>5
    <2>. QED BY <2>0, <2>1, <2>3, <2>6 DEF Types, client
  <1>6. CASE Recovered
    <2>1. Idle \in Task
      BY DEF Idle, Task, Pc
    <2>. QED BY <1>1, <1>6, <2>1 DEF Recovered, Types, context, client
  <1>7. CASE NotRecovered
    BY <1>7, FinishTypes, WaysToEnd
  <1>8. CASE LeaveLevel
    BY <1>8, NoTasksType DEF LeaveLevel, Types, context, client
  <1>9. CASE Complete
    BY <1>9, FinishTypes, WaysToEnd
  <1>. QED BY <1>2, <1>3, <1>4, <1>5, <1>6, <1>7, <1>8, <1>9 DEF RoundStep

\* ... and so does the handling of an outcome (execute_service.py:328-351, 1257-1332).
LEMMA HandleTypes ==
  ASSUME GateInv, NEW s \in Ids(plan), Handle(s)
  PROVE  Types'
  <1>. USE DEF GateInv
  <1>1. s \in Nat \ {0} /\ s \in DOMAIN task /\ task \in [Ids(plan) \cup {Recovery} -> Task]
    BY IdsAreNumbers DEF Types
  <1>2. CASE StoreResult(s)
    BY <1>1, <1>2, WithResultType DEF StoreResult, Types, client
  <1>3. CASE Pause(s)
    <2>1. task[s].offer \in SUBSET Nat
      BY <1>1 DEF Task
    <2>2. StepOf(s).gate \in Gates
      BY <1>1, <1>3 DEF Pause, StopsAtOpenGate, Subject, Recovery
    <2>. QED BY <1>3, <2>1, <2>2, NoTasksType DEF Pause, Types, context
  <1>4. CASE NotConnected(s)
    BY <1>4, FinishTypes, WaysToEnd
  <1>5. CASE GiveUp(s)
    BY <1>5, FinishTypes, WaysToEnd
  <1>6. CASE Recover(s)
    <2>1. Completed \in SUBSET Nat
      BY DEF Completed, Types
    <2>2. task' \in [Ids(plan) \cup {Recovery} -> Task]
      BY <1>1, <1>6, <2>1, DispatchCases DEF Recover
    <2>. QED BY <1>1, <1>6, <2>2, WithResultType DEF Recover, Types, client
  <1>. QED BY <1>2, <1>3, <1>4, <1>5, <1>6 DEF Handle

\* Every step keeps the types.
LEMMA TypesInductive == GateInv /\ [Next]_vars => Types'
  <1>. SUFFICES ASSUME GateInv, [Next]_vars PROVE Types'
    OBVIOUS
  <1>. USE DEF GateInv
  <1>1. CASE Submit
    BY <1>1 DEF Submit, Types, context, client
  <1>2. CASE Approve
    <2>1. <<>> \in [DOMAIN <<>> -> {"completed", "skipped", "failed"}] /\ DOMAIN <<>> \subseteq Nat
      OBVIOUS
    <2>2. DOMAIN results' \subseteq Nat /\ results' \in [DOMAIN results' -> {"completed", "skipped", "failed"}]
      BY <1>2, <2>1 DEF Approve
    <2>3. granted' \subseteq Gates
      BY <1>2 DEF Approve, Types, StopsAtOpenGate
    <2>4. NoAsk \in [gate : Gates \cup {NoGate}, offer : SUBSET Nat]
      BY DEF NoAsk
    <2>. QED BY <1>2, <2>2, <2>3, <2>4 DEF Approve, Types
  <1>3. CASE Cancel
    BY <1>3 DEF Cancel, Types, context, client
  <1>4. CASE RoundStep
    BY <1>4, RoundTypes
  <1>5. ASSUME NEW s \in Ids(plan), Handle(s) PROVE Types'
    BY <1>5, HandleTypes
  <1>6. ASSUME NEW s \in DOMAIN task, TaskStep(s) PROVE Types'
    BY <1>6, TaskStepTypes
  <1>7. CASE UNCHANGED vars
    BY <1>7 DEF vars, context, client, Types
  <1>. QED BY <1>1, <1>2, <1>3, <1>4, <1>5, <1>6, <1>7 DEF Next, ServerStep

-----------------------------------------------------------------------------
\* The steps that tasks work on never change (execute_service.py:207).
LEMMA SubjectsStay ==
  ASSUME plan' = plan, NEW s
  PROVE  Subject(s)' = Subject(s)
  BY DEF Subject, StepOf, RecoveryReasoner

\* An action of a task touches no other task, and leads to a request that is
\* at hand, never to a spawned Booker (execute_service.py:369-464, 1075-1191).
LEMMA TaskStepShape ==
  ASSUME GateInv, NEW s \in DOMAIN task, TaskStep(s)
  PROVE  /\ UNCHANGED <<plan, phase, levelNo, granted, asked>>
         /\ DOMAIN task' = DOMAIN task
         /\ \A t \in DOMAIN task : t # s => task'[t] = task[t]
         /\ task[s].pc \in {"calling", "policy", "attesting", "child"}
         /\ task'[s].pc \in {"ok", "failed", "notConnected", "policy", "attesting", "child"}
         /\ task'[s].pc \in {"policy", "attesting", "child"} => task'[s].asks # <<>>
         /\ task'[s].pc = "child" => Head(task'[s].asks) # "Booker"
  <1>. DEFINE Shape ==
         /\ UNCHANGED <<plan, phase, levelNo, granted, asked>>
         /\ DOMAIN task' = DOMAIN task
         /\ \A t \in DOMAIN task : t # s => task'[t] = task[t]
         /\ task[s].pc \in {"calling", "policy", "attesting", "child"}
         /\ task'[s].pc \in {"ok", "failed", "notConnected", "policy", "attesting", "child"}
         /\ task'[s].pc \in {"policy", "attesting", "child"} => task'[s].asks # <<>>
         /\ task'[s].pc = "child" => Head(task'[s].asks) # "Booker"
  <1>. USE DEF client
  <1>1. task \in [DOMAIN task -> Task] /\ task[s].asks \in Seq({"Booker", "Fetcher"})
    BY DEF GateInv, Types, Task
  <1>2. ASSUME NEW pc, Becomes(s, pc)
        PROVE  /\ DOMAIN task' = DOMAIN task
               /\ \A t \in DOMAIN task : t # s => task'[t] = task[t]
               /\ task'[s].pc = pc /\ task'[s].asks = task[s].asks
    BY <1>1, <1>2 DEF Becomes, Task
  <1>3. ASSUME NEW asks \in Seq({"Booker", "Fetcher"}), Propose(s, asks)
        PROVE  /\ DOMAIN task' = DOMAIN task
               /\ \A t \in DOMAIN task : t # s => task'[t] = task[t]
               /\ \/ task'[s].pc \in {"ok", "failed"}
                  \/ task'[s].pc = "policy" /\ task'[s].asks # <<>>
    BY <1>1, <1>3, ProposeCases DEF GateInv, Types
  <1>4. task[s].pc \in {"policy", "attesting", "child"} => task[s].asks # <<>>
    BY DEF GateInv, RequestAtHand
  <1>5. CASE CallSucceeds(s)
    BY <1>2, <1>5 DEF CallSucceeds, Succeed, At
  <1>6. CASE CallFails(s)
    BY <1>2, <1>6 DEF CallFails, At
  <1>7. CASE ReasonerAsks(s)
    BY <1>3, <1>7, ExecutionParameters DEF ReasonerAsks, At
  <1>8. CASE PolicyDenies(s)
    BY <1>2, <1>8 DEF PolicyDenies, At
  <1>9. CASE PolicyAllows(s)
    <2>1. PICK approval \in BOOLEAN :
            Becomes(s, IF approval \/ Head(task[s].asks) = "Booker" THEN "attesting" ELSE "child")
      BY <1>9 DEF PolicyAllows
    <2>2. \/ Becomes(s, "attesting")
          \/ Becomes(s, "child") /\ Head(task[s].asks) # "Booker"
      BY <2>1
    <2>3. CASE Becomes(s, "attesting")
      BY <1>2, <1>4, <1>9, <2>3 DEF PolicyAllows, At
    <2>4. CASE Becomes(s, "child") /\ Head(task[s].asks) # "Booker"
      BY <1>2, <1>4, <1>9, <2>4 DEF PolicyAllows, At
    <2>. QED BY <2>2, <2>3, <2>4
  <1>10. CASE NextRequest(s)
    <2>1. Tail(task[s].asks) \in Seq({"Booker", "Fetcher"})
      BY <1>1, <1>4, <1>10 DEF NextRequest, At
    <2>. QED BY <1>3, <1>10, <2>1 DEF NextRequest, At
  <1>11. CASE ChildSucceeds(s)
    <2>1. Tail(task[s].asks) \in Seq({"Booker", "Fetcher"})
      BY <1>1, <1>4, <1>11 DEF ChildSucceeds, At
    <2>. QED BY <1>3, <1>11, <2>1 DEF ChildSucceeds, At
  <1>12. CASE ChildFails(s)
    BY <1>2, <1>12 DEF ChildFails, At
  <1>. QED BY <1>5, <1>6, <1>7, <1>8, <1>9, <1>10, <1>11, <1>12 DEF TaskStep

\* A state in which no task exists satisfies all that GateInv says of tasks.
LEMMA QuietAfter ==
  ASSUME Types', \A s \in DOMAIN task' : task'[s].pc = "idle",
         phase' = "paused" => asked'.gate \in Gates \ granted', PlanHasLevels'
  PROVE  GateInv'
  <1>1. Recovery \in DOMAIN task'
    BY DEF Types
  <1>. QED BY <1>1 DEF GateInv, RecovererExists, TasksInLevel, StopsAtOpenGate, At,
                      RequestAtHand, GatedNeedsApproval, Running

\* An action of a task keeps GateInv: its step was allowed to run before, and
\* no other task is touched.
LEMMA TaskStepKeepsGates ==
  ASSUME GateInv, NEW s \in DOMAIN task, TaskStep(s)
  PROVE  GateInv'
  <1>1. /\ UNCHANGED <<plan, phase, levelNo, granted, asked>>
        /\ DOMAIN task' = DOMAIN task
        /\ \A t \in DOMAIN task : t # s => task'[t] = task[t]
        /\ task[s].pc \in {"calling", "policy", "attesting", "child"}
        /\ task'[s].pc \in {"ok", "failed", "notConnected", "policy", "attesting", "child"}
        /\ task'[s].pc \in {"policy", "attesting", "child"} => task'[s].asks # <<>>
        /\ task'[s].pc = "child" => Head(task'[s].asks) # "Booker"
    BY TaskStepShape
  <1>2. Types'
    BY TaskStepTypes
  <1>3. \A t : Subject(t)' = Subject(t)
    BY <1>1, SubjectsStay
  <1>4. RecovererExists'
    <2>1. CanRecover' = CanRecover
      BY <1>1 DEF CanRecover
    <2>2. Recovery \in DOMAIN task
      BY DEF GateInv, Types
    <2>. QED BY <1>1, <2>1, <2>2 DEF GateInv, RecovererExists
  <1>5. TasksInLevel' /\ RequestAtHand' /\ PlanHasLevels'
    BY <1>1 DEF GateInv, TasksInLevel, RequestAtHand, PlanHasLevels
  <1>6. StopsAtOpenGate'
    BY <1>1, <1>3 DEF GateInv, StopsAtOpenGate, At
  <1>7. GatedNeedsApproval'
    BY <1>1, <1>3 DEF GateInv, GatedNeedsApproval, Running, At
  <1>. QED BY <1>2, <1>4, <1>5, <1>6, <1>7 DEF GateInv

\* ... and so does every step of the loop of execute_plan: a step enters its
\* level past its gate or stops there (execute_service.py:128-219, 305-334).
LEMMA RoundStepKeepsGates ==
  ASSUME GateInv, RoundStep
  PROVE  GateInv'
  <1>. USE DEF GateInv
  <1>1. Types'
    BY RoundTypes
  <1>2. ASSUME Ending PROVE GateInv'
    BY <1>1, <1>2, QuietAfter DEF Ending, NoTasks, Idle, PlanHasLevels
  <1>3. CASE BeginLevels
    <2>1. \A s \in DOMAIN task' : task'[s].pc = "idle"
      BY <1>3 DEF BeginLevels, TasksInLevel
    <2>. QED BY <1>1, <1>3, <2>1, QuietAfter DEF BeginLevels, PlanHasLevels
  <1>4. CASE EnterLevel
    <2>. DEFINE known == SkipResults(Level)
                done == {n \in DOMAIN known : known[n] = "completed"}
                run == {i \in DOMAIN Level : ~Skipped(Level[i]) /\ ~Replayed(Level[i])}
    <2>0. ToSet(Level) \subseteq Ids(plan) /\ \A i \in run : Level[i] \in Ids(plan)
      <3>1. levelNo \in DOMAIN Levels
        BY <1>4, LevelsOfPlan DEF EnterLevel, PlanHasLevels, Types
      <3>. QED BY <1>4, <3>1, LevelSteps DEF EnterLevel, PlanHasLevels
    <2>1. done \in SUBSET Nat
      BY <2>0, SkipResultsType
    <2>2. /\ task' = [s \in DOMAIN task |-> IF \E i \in run : s = Level[i]
                                              THEN Dispatch(s, done) ELSE Idle]
          /\ phase = "level" /\ phase' = "running"
          /\ UNCHANGED <<plan, levelNo, granted, asked>>
      BY <1>4 DEF EnterLevel, client
    <2>. HIDE DEF known, done, run
    <2>3. \A s : \/ Dispatch(s, done).pc = "gate" /\ Subject(s).gate \in Gates \ granted
                 \/ Dispatch(s, done).pc = "calling" /\ Subject(s).gate \notin Gates \ granted
      BY <2>1, DispatchCases
    <2>4. \A s \in DOMAIN task' :
             \/ task'[s].pc = "idle"
             \/ /\ s \in Ids(plan)
                /\ \/ task'[s].pc = "gate" /\ Subject(s).gate \in Gates \ granted
                   \/ task'[s].pc = "calling" /\ Subject(s).gate \notin Gates \ granted
      BY <2>0, <2>2, <2>3 DEF Idle
    <2>5. \A s : Subject(s)' = Subject(s)
      BY <2>2, SubjectsStay
    <2>6. RecovererExists'
      <3>1. Recovery \notin Ids(plan) /\ Recovery \in DOMAIN task'
        BY <1>1, IdsAreNumbers DEF Types, Recovery
      <3>. QED BY <2>4, <3>1 DEF RecovererExists
    <2>7. TasksInLevel' /\ RequestAtHand' /\ PlanHasLevels'
      BY <2>2, <2>4 DEF TasksInLevel, RequestAtHand, PlanHasLevels
    <2>8. StopsAtOpenGate' /\ GatedNeedsApproval'
      BY <2>2, <2>4, <2>5 DEF StopsAtOpenGate, GatedNeedsApproval, Running, At
    <2>. QED BY <1>1, <2>6, <2>7, <2>8
  <1>5. CASE Recovered
    <2>1. \A t : Subject(t)' = Subject(t)
      BY <1>5, SubjectsStay DEF Recovered
    <2>2. /\ UNCHANGED <<plan, levelNo, granted, asked>>
          /\ phase = "recovering" /\ phase' = "running"
          /\ DOMAIN task' = DOMAIN task /\ Recovery \in DOMAIN task
          /\ task'[Recovery].pc = "idle"
          /\ \A t \in DOMAIN task : t # Recovery => task'[t] = task[t]
      BY <1>5 DEF Recovered, Types, client, Idle, PlanHasLevels
    <2>3. RecovererExists'
      BY <2>2 DEF RecovererExists
    <2>4. TasksInLevel' /\ RequestAtHand' /\ PlanHasLevels'
      BY <2>2 DEF TasksInLevel, RequestAtHand, PlanHasLevels
    <2>5. StopsAtOpenGate' /\ GatedNeedsApproval'
      BY <2>1, <2>2 DEF StopsAtOpenGate, GatedNeedsApproval, Running, At
    <2>. QED BY <1>1, <2>3, <2>4, <2>5
  <1>6. CASE LeaveLevel
    <2>1. PlanHasLevels'
      BY <1>6 DEF LeaveLevel, PlanHasLevels, Types
    <2>. QED BY <1>1, <1>6, <2>1, QuietAfter DEF LeaveLevel, NoTasks, Idle
  <1>7. CASE Refuse \/ RejectGraph \/ NotRecovered \/ Complete
    BY <1>2, <1>7, WaysToEnd
  <1>. QED BY <1>3, <1>4, <1>5, <1>6, <1>7 DEF RoundStep

\* ... and the handling of an outcome: a pause asks for the gate its task
\* stopped at (execute_service.py:328-351, 1257-1332).
LEMMA HandleKeepsGates ==
  ASSUME GateInv, NEW s \in Ids(plan), Handle(s)
  PROVE  GateInv'
  <1>. USE DEF GateInv
  <1>1. Types'
    BY HandleTypes
  <1>2. s \in DOMAIN task /\ s # Recovery /\ Recovery \in DOMAIN task
    BY IdsAreNumbers DEF Types, Recovery
  <1>3. CASE StoreResult(s)
    <2>1. UNCHANGED <<plan, phase, levelNo, task, granted, asked>>
      BY <1>3 DEF StoreResult, client
    <2>2. \A t : Subject(t)' = Subject(t)
      BY <2>1, SubjectsStay
    <2>3. RecovererExists' /\ TasksInLevel' /\ RequestAtHand' /\ PlanHasLevels'
      BY <2>1 DEF RecovererExists, CanRecover, TasksInLevel, RequestAtHand, PlanHasLevels
    <2>4. StopsAtOpenGate' /\ GatedNeedsApproval'
      BY <2>1, <2>2 DEF StopsAtOpenGate, GatedNeedsApproval, Running, At
    <2>. QED BY <1>1, <2>3, <2>4
  <1>4. CASE Pause(s)
    <2>1. StepOf(s).gate \in Gates \ granted
      BY <1>2, <1>4 DEF Pause, StopsAtOpenGate, Subject
    <2>. QED BY <1>1, <1>4, <2>1, QuietAfter
             DEF Pause, NoTasks, Idle, Handling, PlanHasLevels
  <1>5. CASE NotConnected(s) \/ GiveUp(s)
    <2>1. Ending
      BY <1>5, WaysToEnd
    <2>. QED BY <1>1, <2>1, QuietAfter DEF Ending, NoTasks, Idle, PlanHasLevels
  <1>6. CASE Recover(s)
    <2>1. Completed \in SUBSET Nat
      BY DEF Completed, Types
    <2>2. /\ UNCHANGED <<plan, levelNo, granted, asked>> /\ CanRecover
          /\ phase = "running" /\ phase' = "recovering"
          /\ DOMAIN task' = DOMAIN task
          /\ task'[Recovery] = Dispatch(Recovery, Completed)
          /\ \A t \in DOMAIN task : t # Recovery => task'[t] = task[t]
      BY <1>2, <1>6 DEF Recover, Types, client, Handling, PlanHasLevels
    <2>3. \/ task'[Recovery].pc = "gate" /\ Subject(Recovery).gate \in Gates \ granted
          \/ task'[Recovery].pc = "calling" /\ Subject(Recovery).gate \notin Gates \ granted
      BY <2>1, <2>2, DispatchCases
    <2>4. \A t : Subject(t)' = Subject(t)
      BY <2>2, SubjectsStay
    <2>5. RecovererExists'
      BY <2>2 DEF RecovererExists, CanRecover
    <2>6. TasksInLevel' /\ RequestAtHand' /\ PlanHasLevels'
      BY <2>2, <2>3 DEF TasksInLevel, RequestAtHand, PlanHasLevels
    <2>7. StopsAtOpenGate' /\ GatedNeedsApproval'
      BY <2>2, <2>3, <2>4 DEF StopsAtOpenGate, GatedNeedsApproval, Running, At
    <2>. QED BY <1>1, <2>5, <2>6, <2>7
  <1>. QED BY <1>3, <1>4, <1>5, <1>6 DEF Handle

\* GateInv is inductive.
LEMMA GateInductive == GateInv /\ [Next]_vars => GateInv'
  <1>. SUFFICES ASSUME GateInv, [Next]_vars PROVE GateInv'
    OBVIOUS
  <1>0. Types'
    BY TypesInductive
  <1>1. CASE Submit
    <2>1. \A s \in DOMAIN task' : task'[s].pc = "idle"
      BY <1>1 DEF Submit, GateInv, TasksInLevel
    <2>. QED BY <1>0, <1>1, <2>1, QuietAfter DEF Submit, PlanHasLevels
  <1>2. CASE Approve
    <2>1. \A s \in DOMAIN task' : task'[s].pc = "idle"
      BY <1>2 DEF Approve, GateInv, TasksInLevel
    <2>. QED BY <1>0, <1>2, <2>1, QuietAfter DEF Approve, PlanHasLevels
  <1>3. CASE Cancel
    <2>1. \A s \in DOMAIN task' : task'[s].pc = "idle"
      BY <1>3 DEF Cancel, GateInv, TasksInLevel
    <2>. QED BY <1>0, <1>3, <2>1, QuietAfter DEF Cancel, PlanHasLevels
  <1>4. CASE RoundStep
    BY <1>4, RoundStepKeepsGates
  <1>5. ASSUME NEW s \in Ids(plan), Handle(s) PROVE GateInv'
    BY <1>5, HandleKeepsGates
  <1>6. ASSUME NEW s \in DOMAIN task, TaskStep(s) PROVE GateInv'
    BY <1>6, TaskStepKeepsGates
  <1>7. CASE UNCHANGED vars
    <2>1. UNCHANGED <<plan, phase, levelNo, task, granted, asked>>
      BY <1>7 DEF vars, client
    <2>2. \A t : Subject(t)' = Subject(t)
      BY <2>1, SubjectsStay
    <2>3. RecovererExists' /\ TasksInLevel' /\ RequestAtHand' /\ PlanHasLevels'
      BY <2>1 DEF GateInv, RecovererExists, CanRecover, TasksInLevel, RequestAtHand, PlanHasLevels
    <2>4. StopsAtOpenGate' /\ GatedNeedsApproval'
      BY <2>1, <2>2 DEF GateInv, StopsAtOpenGate, GatedNeedsApproval, Running, At
    <2>. QED BY <1>0, <2>3, <2>4 DEF GateInv
  <1>. QED BY <1>1, <1>2, <1>3, <1>4, <1>5, <1>6, <1>7 DEF Next, ServerStep

\* It holds when the front end has a plan to send.
LEMMA GateInitially == Init => GateInv
  <1>. SUFFICES ASSUME Init PROVE GateInv
    OBVIOUS
  <1>1. \A s \in DOMAIN task : task[s].pc = "idle"
    BY DEF Init, NoTasks, Idle
  <1>2. Types
    <2>1. task \in [Ids(plan) \cup {Recovery} -> Task]
      BY NoTasksType DEF Init
    <2>2. <<>> \in [DOMAIN <<>> -> {"completed", "skipped", "failed"}] /\ DOMAIN <<>> \subseteq Nat
      OBVIOUS
    <2>3. results \in [DOMAIN results -> {"completed", "skipped", "failed"}] /\ DOMAIN results \subseteq Nat
      BY <2>2 DEF Init
    <2>4. asked \in [gate : Gates \cup {NoGate}, offer : SUBSET Nat]
      BY DEF Init, NoAsk
    <2>5. outcome \in [ended : BOOLEAN, success : BOOLEAN, error : Errors]
      BY DEF Init, NoOutcome, Errors
    <2>. QED BY <2>1, <2>3, <2>4, <2>5 DEF Init, Types
  <1>3. Recovery \in DOMAIN task
    BY <1>2 DEF Types
  <1>. QED BY <1>1, <1>2, <1>3
           DEF GateInv, Init, RecovererExists, TasksInLevel, StopsAtOpenGate, At,
               RequestAtHand, PlanHasLevels, GatedNeedsApproval, Running

\* GateInv holds throughout an execution.
THEOREM GateInvariance == Spec => []GateInv
  BY GateInitially, GateInductive, PTL DEF Spec

\* The state keeps its types (execute_service.py:128-235).
THEOREM PlanTyping == Spec => []Types
  <1>1. GateInv => Types
    BY DEF GateInv
  <1>. QED BY <1>1, GateInvariance, PTL

\* No step behind a gate runs before the user approved that gate, whatever
\* route leads to it, and no spawned Booker runs (execute_service.py:395-421,
\* 1189-1191).
THEOREM GatesAreKept == Spec => []GatedNeedsApproval
  <1>1. GateInv => GatedNeedsApproval
    BY DEF GateInv
  <1>. QED BY <1>1, GateInvariance, PTL

-----------------------------------------------------------------------------
\* Revisions, attestations and spawned steps change together, in PolicyAllows
\* and when a new round begins (execute_service.py:1155-1187).
LEMMA RevisionsInductive ==
  GateInv /\ RevisionsAttested /\ [Next]_vars => RevisionsAttested'
  <1>. SUFFICES ASSUME GateInv, RevisionsAttested, [Next]_vars PROVE RevisionsAttested'
    OBVIOUS
  <1>. DEFINE Same == UNCHANGED <<revision, attested, spawned>>
  <1>1. Same => RevisionsAttested'
    BY DEF RevisionsAttested
  <1>2. ASSUME NEW s \in DOMAIN task, PolicyAllows(s) PROVE RevisionsAttested'
    <2>. DEFINE number == NewNumber(task[s].seen)
                new == [step |-> number, parent |-> Subject(s).step, role |-> Head(task[s].asks)]
    <2>1. spawned \in Seq([step : Nat, parent : Nat, role : {"Booker", "Fetcher"}])
      BY DEF GateInv, Types
    <2>2. /\ revision' = revision + 1
          /\ attested' = attested \cup {<<revision', new.step>>}
          /\ spawned' = Append(spawned, new)
      BY <1>2 DEF PolicyAllows
    <2>. HIDE DEF number, new
    <2>3. /\ Len(spawned') = Len(spawned) + 1
          /\ DOMAIN spawned' = DOMAIN spawned \cup {Len(spawned) + 1}
          /\ Len(spawned) + 1 \notin DOMAIN spawned
          /\ spawned'[Len(spawned) + 1] = new
          /\ \A i \in DOMAIN spawned : spawned'[i] = spawned[i]
      BY <2>1, <2>2
    <2>4. revision' = Len(spawned) + 1
      BY <2>2 DEF RevisionsAttested
    <2>5. {<<i, spawned'[i].step>> : i \in DOMAIN spawned'}
            = {<<i, spawned[i].step>> : i \in DOMAIN spawned} \cup {<<Len(spawned) + 1, new.step>>}
      BY <2>3
    <2>. QED BY <2>2, <2>3, <2>4, <2>5 DEF RevisionsAttested
  <1>3. ASSUME NEW s \in DOMAIN task, TaskStep(s), ~PolicyAllows(s) PROVE Same
    BY <1>3 DEF TaskStep, CallSucceeds, CallFails, ReasonerAsks, PolicyDenies, NextRequest,
                ChildSucceeds, ChildFails, context
  <1>4. ASSUME NEW s, Handle(s) PROVE Same
    BY <1>4 DEF Handle, StoreResult, Pause, NotConnected, GiveUp, Recover, context
  <1>5. CASE RoundStep
    BY <1>1, <1>5 DEF RoundStep, Refuse, RejectGraph, BeginLevels, EnterLevel, Recovered,
                      NotRecovered, LeaveLevel, Complete, context
  <1>6. CASE Submit \/ Cancel \/ UNCHANGED vars
    BY <1>1, <1>6 DEF Submit, Cancel, vars, context
  <1>7. CASE Approve
    BY <1>7 DEF Approve, RevisionsAttested
  <1>. QED BY <1>1, <1>2, <1>3, <1>4, <1>5, <1>6, <1>7 DEF Next, ServerStep

\* The revision counts the spawned steps, and each revision is attested with
\* the step spawned in it, however the Reasoners of a level interleave
\* (execute_service.py:1155-1187).
THEOREM RevisionsStayAttested == Spec => []RevisionsAttested
  <1>1. Init => RevisionsAttested
    BY DEF Init, RevisionsAttested
  <1>. QED BY <1>1, GateInvariance, RevisionsInductive, PTL DEF Spec

-----------------------------------------------------------------------------
\* The gates behind which work is in progress: the refinement mapping.
ActiveGates == Gates \cap {Subject(s).gate : s \in {t \in DOMAIN task : Running(t)}}

\* Without tasks no work is in progress.
LEMMA QuietHasNoWork ==
  ASSUME \A s \in DOMAIN task : task[s].pc = "idle"
  PROVE  ActiveGates = {}
  BY DEF ActiveGates, Running

\* The same after a step.
LEMMA QuietAfterHasNoWork ==
  ASSUME \A s \in DOMAIN task' : task'[s].pc = "idle"
  PROVE  ActiveGates' = {}
  BY DEF ActiveGates, Running

\* The phase, as the user sees it.
LEMMA WorkStateOf ==
  /\ phase = "new" => WorkState = "new"
  /\ phase = "paused" => WorkState = "asking"
  /\ phase = "done" => WorkState = "ended"
  /\ phase \notin {"new", "paused", "done"} => WorkState = "working"
  BY DEF WorkState

\* ... and after a step.
LEMMA WorkStateAfter ==
  /\ phase' = "new" => WorkState' = "new"
  /\ phase' = "paused" => WorkState' = "asking"
  /\ phase' = "done" => WorkState' = "ended"
  /\ phase' \notin {"new", "paused", "done"} => WorkState' = "working"
  BY DEF WorkState

\* Every step is a step of ApprovedWork or changes nothing the user sees.
LEMMA StepsAreWork ==
  GateInv /\ GateInv' /\ [Next]_vars
    => [Work!WorkNext]_<<WorkState, granted, ActiveGates>>
  <1>. SUFFICES ASSUME GateInv, GateInv', [Next]_vars
                PROVE  \/ Work!WorkNext
                       \/ UNCHANGED <<WorkState, granted, ActiveGates>>
    OBVIOUS
  <1>1. ActiveGates = Gates \cap {Subject(s).gate : s \in {t \in DOMAIN task : Running(t)}}
    BY DEF ActiveGates
  <1>2. ActiveGates' \subseteq granted'
    BY DEF GateInv, GatedNeedsApproval, ActiveGates
  <1>3. phase \in {"new", "paused"} => ActiveGates = {}
    BY QuietHasNoWork DEF GateInv, TasksInLevel
  <1>4. phase' \notin {"running", "recovering"} => ActiveGates' = {}
    BY QuietAfterHasNoWork DEF GateInv, TasksInLevel
  <1>5. ASSUME phase \notin {"new", "paused", "done"}, phase' \notin {"new", "paused", "done"},
               granted' = granted
        PROVE  Work!WorkNext
    BY <1>1, <1>2, <1>5, WorkStateOf, WorkStateAfter DEF Work!WorkNext, Work!Work, ActiveGates
  <1>6. ASSUME phase \notin {"new", "done"}, phase' = "done", granted' = granted
        PROVE  Work!WorkNext
    BY <1>4, <1>6, WorkStateOf, WorkStateAfter DEF Work!WorkNext, Work!End, ActiveGates
  <1>7. CASE Submit
    <2>1. phase = "new" /\ phase' = "verify" /\ granted' = granted
      BY <1>7 DEF Submit, client
    <2>2. ActiveGates = {} /\ ActiveGates' = {}
      BY <1>3, <1>4, <2>1
    <2>. QED BY <2>1, <2>2, WorkStateOf, WorkStateAfter DEF Work!WorkNext, Work!Begin, ActiveGates
  <1>8. CASE Approve
    <2>1. /\ phase = "paused" /\ phase' = "verify"
          /\ asked.gate \in Gates \ granted /\ granted' = granted \cup {asked.gate}
      BY <1>8 DEF Approve, GateInv, StopsAtOpenGate
    <2>2. ActiveGates = {} /\ ActiveGates' = {}
      BY <1>3, <1>4, <2>1
    <2>. QED BY <2>1, <2>2, WorkStateOf, WorkStateAfter DEF Work!WorkNext, Work!Grant, ActiveGates
  <1>9. CASE Cancel
    BY <1>6, <1>9 DEF Cancel, client
  <1>10. CASE RoundStep
    <2>1. CASE Ending
      <3>1. phase \notin {"new", "done"}
        BY <1>10 DEF RoundStep, Refuse, RejectGraph, BeginLevels, EnterLevel, Recovered,
                     NotRecovered, LeaveLevel, Complete
      <3>. QED BY <1>6, <2>1, <3>1 DEF Ending, client
    <2>2. CASE BeginLevels \/ EnterLevel \/ Recovered \/ LeaveLevel
      BY <1>5, <2>2 DEF BeginLevels, EnterLevel, Recovered, LeaveLevel, client
    <2>. QED BY <1>10, <2>1, <2>2, WaysToEnd DEF RoundStep
  <1>11. ASSUME NEW s \in Ids(plan), Handle(s) PROVE Work!WorkNext
    <2>1. CASE Pause(s)
      <3>1. phase = "running" /\ phase' = "paused" /\ granted' = granted
        BY <2>1 DEF Pause, Handling
      <3>2. s \in DOMAIN task /\ s # Recovery
        BY IdsAreNumbers DEF GateInv, Types, Recovery
      <3>3. Gates \ granted # {}
        BY <2>1, <3>2 DEF Pause, GateInv, StopsAtOpenGate
      <3>4. ActiveGates' = {}
        BY <1>4, <3>1
      <3>. QED BY <3>1, <3>3, <3>4, WorkStateOf, WorkStateAfter DEF Work!WorkNext, Work!Ask, ActiveGates
    <2>2. CASE NotConnected(s) \/ GiveUp(s)
      <3>1. Ending
        BY <2>2, WaysToEnd
      <3>2. phase = "running"
        BY <2>2 DEF NotConnected, GiveUp, Handling
      <3>. QED BY <1>6, <3>1, <3>2 DEF Ending, client
    <2>3. CASE StoreResult(s) \/ Recover(s)
      BY <1>5, <2>3 DEF StoreResult, Recover, Handling, client
    <2>. QED BY <1>11, <2>1, <2>2, <2>3 DEF Handle
  <1>12. ASSUME NEW s \in DOMAIN task, TaskStep(s) PROVE Work!WorkNext
    <2>1. phase' = phase /\ granted' = granted /\ task[s].pc # "idle"
      BY <1>12, TaskStepShape
    <2>2. phase \in {"running", "recovering"}
      BY <2>1 DEF GateInv, TasksInLevel
    <2>. QED BY <1>5, <2>1, <2>2
  <1>13. CASE UNCHANGED vars
    <2>1. plan' = plan /\ phase' = phase /\ granted' = granted /\ task' = task
      BY <1>13 DEF vars, client
    <2>2. \A t : Subject(t)' = Subject(t)
      BY <2>1, SubjectsStay
    <2>3. WorkState' = WorkState
      BY <2>1 DEF WorkState
    <2>4. ActiveGates' = ActiveGates
      BY <2>1, <2>2 DEF ActiveGates, Running
    <2>. QED BY <2>1, <2>3, <2>4
  <1>. QED BY <1>7, <1>8, <1>9, <1>10, <1>11, <1>12, <1>13 DEF Next, ServerStep

\* An execution with all its rounds keeps the protocol the user sees: Submit
\* begins, Pause asks, Approve grants the gate
\* asked about, Cancel and the ends of execute_plan end
\* (execute_service.py:128-235, 395-421).
THEOREM PlanImplementsWork == Spec => WorkSpec
  <1>1. Init => Work!WorkInit
    <2>. SUFFICES ASSUME Init PROVE Work!WorkInit
      OBVIOUS
    <2>1. \A s \in DOMAIN task : task[s].pc = "idle"
      BY DEF Init, NoTasks, Idle
    <2>2. ActiveGates = {}
      BY <2>1, QuietHasNoWork
    <2>. QED BY <2>2, WorkStateOf DEF Init, Work!WorkInit, ActiveGates
  <1>2. GateInv /\ GateInv' /\ [Next]_vars => [Work!WorkNext]_(Work!workVars)
    BY StepsAreWork DEF Work!workVars, ActiveGates
  <1>. QED BY <1>1, <1>2, GateInvariance, PTL DEF Spec, WorkSpec, Work!WorkSpec

\* A step is in one level, at one place (dag_resolver.py:55-71).
LEMMA LevelsApart ==
  ASSUME plan \in ResolvablePlans
  PROVE  /\ DOMAIN Levels = 1 .. Len(Levels) /\ Len(Levels) \in Nat
         /\ \A k \in DOMAIN Levels : ToSet(Levels[k]) \subseteq Ids(plan)
         /\ \A j, k \in DOMAIN Levels :
               j # k => \A n \in ToSet(Levels[j]) : n \notin ToSet(Levels[k])
         /\ levelNo \in DOMAIN Levels =>
               /\ Level = Levels[levelNo]
               /\ \A i \in DOMAIN Level : Level[i] \in ToSet(Level)
               /\ \A n \in ToSet(Level) : \E i \in DOMAIN Level : n = Level[i]
               /\ \A i, j \in DOMAIN Level : Level[i] = Level[j] => i = j
               /\ DOMAIN Level \subseteq Nat
  <1>1. Levels \in Seq(Seq(Ids(plan)))
    BY LevelsOfPlan
  <1>2. \A j, k \in DOMAIN Levels : \A x \in DOMAIN Levels[j], y \in DOMAIN Levels[k] :
           Levels[j][x] = Levels[k][y] => j = k /\ x = y
    BY LevelsOfPlan
  <1>3. \A k \in DOMAIN Levels : Levels[k] \in Seq(Ids(plan))
    BY <1>1
  <1>. QED BY <1>1, <1>2, <1>3 DEF ToSet, Level

\* What an action of a task does outside of its task: the results of the
\* plan's own steps stay, a step that ends well is noted, nothing else is
\* (execute_service.py:369-464, 1075-1191).
LEMMA TaskStepEffect ==
  ASSUME GateInv, NEW s \in DOMAIN task, TaskStep(s)
  PROVE  /\ UNCHANGED <<todo, carried, outcome>>
         /\ \A t \in DOMAIN task : task'[t].offer = task[t].offer
         /\ \A n \in Ids(plan) :
               /\ n \in DOMAIN results' <=> n \in DOMAIN results
               /\ n \in DOMAIN results => results'[n] = results[n]
         /\ completed \subseteq completed'
         /\ \A n \in completed' : n \in completed \/ (n = s /\ s # Recovery /\ task'[s].pc = "ok")
         /\ task'[s].pc = "ok" /\ s # Recovery => s \in completed'
  <1>. USE DEF client, context
  <1>1. task \in [DOMAIN task -> Task] /\ completed \subseteq Ids(plan)
    BY DEF GateInv, Types
  <1>2. ASSUME NEW pc, Becomes(s, pc)
        PROVE  task'[s].pc = pc /\ \A t \in DOMAIN task : task'[t].offer = task[t].offer
    BY <1>1, <1>2 DEF Becomes, Task
  <1>. DEFINE Effect ==
         /\ \A t \in DOMAIN task : task'[t].offer = task[t].offer
         /\ completed \subseteq completed'
         /\ \A n \in completed' : n \in completed \/ (n = s /\ s # Recovery /\ task'[s].pc = "ok")
         /\ task'[s].pc = "ok" /\ s # Recovery => s \in completed'
  <1>3. ASSUME Succeed(s) PROVE Effect
    BY <1>2, <1>3 DEF Succeed
  <1>4. ASSUME NEW asks, Propose(s, asks) PROVE Effect
    <2>1. CASE asks = <<>>
      BY <1>3, <1>4, <2>1 DEF Propose
    <2>2. CASE asks # <<>>
      <3>. DEFINE pc == IF \/ SpawnedBy(Subject(s).step) >= Subject(s).limit
                           \/ Total(Len(spawned)) >= PlanLimit
                        THEN "failed" ELSE "policy"
      <3>1. /\ task' = [task EXCEPT ![s] =
                       [@ EXCEPT !.asks = asks, !.seen = Len(spawned), !.pc = pc]]
            /\ completed' = completed
        BY <1>4, <2>2 DEF Propose
      <3>2. pc # "ok"  OBVIOUS
      <3>. HIDE DEF pc
      <3>3. task'[s].pc = pc /\ \A t \in DOMAIN task : task'[t].offer = task[t].offer
        BY <1>1, <3>1 DEF Task
      <3>. QED BY <3>1, <3>2, <3>3
    <2>. QED BY <2>1, <2>2
  <1>5. ASSUME NEW pc, pc # "ok", Becomes(s, pc), completed' = completed PROVE Effect
    BY <1>2, <1>5
  <1>. HIDE DEF Effect
  <1>6. Effect
    <2>1. CASE CallSucceeds(s)
      BY <1>3, <2>1 DEF CallSucceeds
    <2>2. CASE CallFails(s) \/ ChildFails(s)
      BY <1>5, <2>2 DEF CallFails, ChildFails
    <2>3. CASE ReasonerAsks(s) \/ NextRequest(s) \/ ChildSucceeds(s)
      BY <1>4, <2>3 DEF ReasonerAsks, NextRequest, ChildSucceeds
    <2>4. CASE PolicyDenies(s)
      BY <1>5, <2>4 DEF PolicyDenies
    <2>5. CASE PolicyAllows(s)
      <3>1. \E pc \in {"attesting", "child"} : Becomes(s, pc)
        BY <2>5 DEF PolicyAllows
      <3>2. completed' = completed
        BY <2>5 DEF PolicyAllows
      <3>. QED BY <1>5, <3>1, <3>2
    <2>. QED BY <2>1, <2>2, <2>3, <2>4, <2>5 DEF TaskStep
  <1>7. UNCHANGED <<todo, carried, outcome>>
    BY DEF TaskStep, CallSucceeds, CallFails, ReasonerAsks, PolicyDenies, PolicyAllows,
           NextRequest, ChildSucceeds, ChildFails
  <1>8. \A n \in Ids(plan) : /\ n \in DOMAIN results' <=> n \in DOMAIN results
                             /\ n \in DOMAIN results => results'[n] = results[n]
    <2>1. CASE ChildSucceeds(s)
      <3>1. task[s].pc # "idle" /\ task[s].seen \in Nat
        BY <1>1, <2>1 DEF ChildSucceeds, At, Task
      <3>2. plan \in Plans /\ plan # <<>>
        BY <3>1, LevelsOfPlan DEF GateInv, TasksInLevel, PlanHasLevels
      <3>3. NewNumber(task[s].seen) \notin Ids(plan)
        BY <3>1, <3>2, NewNumberIsNew
      <3>. QED BY <2>1, <3>3 DEF ChildSucceeds, WithResult
    <2>2. CASE ~ChildSucceeds(s)
      <3>1. results' = results
        BY <2>2 DEF TaskStep, CallSucceeds, CallFails, ReasonerAsks, PolicyDenies, PolicyAllows,
               NextRequest, ChildFails
      <3>. QED BY <3>1
    <2>. QED BY <2>1, <2>2
  <1>. QED BY <1>6, <1>7, <1>8 DEF Effect

\* A state without tasks in which no level is at hand satisfies LevelInv.
LEMMA LevelsAtRest ==
  ASSUME Types', \A s \in DOMAIN task' : task'[s].pc = "idle",
         phase' = "done" \/ (phase' = "verify" /\ DOMAIN results' = {})
  PROVE  LevelInv'
  <1>1. DOMAIN task' = Ids(plan)' \cup {Recovery}
    BY DEF Types, Recovery
  <1>. QED BY <1>1 DEF LevelInv, InLevels, TasksToDo, ResultsByLevel, Busy

\* What is known while a level runs (execute_service.py:206-219).
LEMMA AtLevel ==
  ASSUME GateInv, LevelInv, Busy
  PROVE  /\ plan \in ResolvablePlans /\ levelNo \in DOMAIN Levels
         /\ todo \subseteq DOMAIN Level /\ todo \subseteq Nat /\ DOMAIN Level \subseteq Nat
         /\ todo # {} => Min(todo) \in todo
         /\ \A i \in DOMAIN Level : Level[i] \in ToSet(Level) /\ Level[i] \in Ids(plan)
         /\ \A n \in ToSet(Level) : \E i \in DOMAIN Level : n = Level[i]
         /\ \A i, j \in DOMAIN Level : Level[i] = Level[j] => i = j
         /\ \A k \in DOMAIN Levels : ToSet(Levels[k]) \subseteq Ids(plan)
         /\ \A k \in DOMAIN Levels \ {levelNo} : \A n \in ToSet(Levels[k]) : n \notin ToSet(Level)
  <1>1. plan \in ResolvablePlans /\ levelNo \in DOMAIN Levels /\ todo \subseteq DOMAIN Level
    BY DEF GateInv, PlanHasLevels, LevelInv, InLevels, Busy
  <1>2. todo \subseteq Nat
    BY DEF GateInv, Types
  <1>. QED BY <1>1, <1>2, LevelsApart, MinOfNaturals

\* A task does not change which steps have results, nor what is to be handled.
LEMMA TaskStepKeepsLevels ==
  ASSUME GateInv, LevelInv, NEW s \in DOMAIN task, TaskStep(s)
  PROVE  LevelInv'
  <1>1. /\ UNCHANGED <<plan, phase, levelNo, todo>>
        /\ DOMAIN task' = DOMAIN task
        /\ \A t \in DOMAIN task : t # s => task'[t] = task[t]
        /\ task[s].pc \in {"calling", "policy", "attesting", "child"}
        /\ \A n \in Ids(plan) : n \in DOMAIN results' <=> n \in DOMAIN results
    BY TaskStepShape, TaskStepEffect
  <1>2. Busy /\ DOMAIN task = Ids(plan) \cup {Recovery}
    BY <1>1 DEF GateInv, TasksInLevel, Types, Busy
  <1>3. UNCHANGED <<Level, Levels, Open, Busy>>
    BY <1>1 DEF Level, Levels, Open, Busy
  <1>4. InLevels'
    BY <1>1, <1>3 DEF LevelInv, InLevels
  <1>5. TasksToDo'
    <2>1. task[s].pc \notin Ended \cup {"idle"}
      BY <1>1 DEF Ended
    <2>. QED BY <1>1, <1>2, <1>3, <2>1 DEF LevelInv, TasksToDo
  <1>6. ResultsByLevel'
    <2>1. /\ \A i \in DOMAIN Level : Level[i] \in Ids(plan)
          /\ \A k \in DOMAIN Levels : ToSet(Levels[k]) \subseteq Ids(plan)
      BY <1>2, AtLevel
    <2>. QED BY <1>1, <1>2, <1>3, <2>1 DEF LevelInv, ResultsByLevel, Busy
  <1>. QED BY <1>4, <1>5, <1>6 DEF LevelInv

\* A level begins: its skipped steps have results, the others are to be
\* handled (execute_service.py:206-219, 305-334).
LEMMA EnterLevelKeepsLevels ==
  ASSUME GateInv, LevelInv, EnterLevel
  PROVE  LevelInv'
  <1>. DEFINE skip == {n \in ToSet(Level) : Skipped(n) \/ Replayed(n)}
              known == SkipResults(Level)
              done == {n \in DOMAIN known : known[n] = "completed"}
              run == {i \in DOMAIN Level : ~Skipped(Level[i]) /\ ~Replayed(Level[i])}
  <1>1. /\ phase = "level" /\ levelNo <= Len(Levels) /\ levelNo \in Nat /\ levelNo # 0
        /\ plan \in ResolvablePlans
    BY DEF EnterLevel, GateInv, PlanHasLevels, Types
  <1>2. levelNo \in DOMAIN Levels
    BY <1>1, LevelsOfPlan
  <1>3. /\ results' = known /\ todo' = run /\ phase' = "running"
        /\ task' = [s \in DOMAIN task |-> IF \E i \in run : s = Level[i]
                                            THEN Dispatch(s, done) ELSE Idle]
        /\ UNCHANGED <<plan, levelNo>>
    BY DEF EnterLevel
  <1>4. UNCHANGED <<Level, Levels>>
    BY <1>3 DEF Level, Levels
  <1>5. DOMAIN known = DOMAIN results \cup skip
    BY DEF SkipResults
  <1>6. \A i \in DOMAIN Level : Level[i] \in skip <=> i \notin run
    BY <1>1, <1>2, LevelsApart
  <1>7. run \subseteq DOMAIN Level /\ skip \subseteq ToSet(Level)
    OBVIOUS
  <1>8. Open' = run /\ Busy'
    BY <1>3 DEF Open, Busy
  <1>9. DOMAIN task' = Ids(plan) \cup {Recovery} /\ Recovery \notin Ids(plan)
    BY <1>1, <1>3, LevelsOfPlan, IdsAreNumbers DEF GateInv, Types, Recovery
  <1>10. Idle.pc = "idle"
    BY DEF Idle
  <1>. HIDE DEF skip, known, done, run
  <1>11. InLevels'
    BY <1>2, <1>3, <1>4, <1>7 DEF InLevels
  <1>12. TasksToDo'
    <2>1. \A s \in DOMAIN task' : task'[s].pc # "idle" => \E i \in run : s = Level[i]
      BY <1>3, <1>10
    <2>2. \A i \in run : Level[i] \in ToSet(Level) /\ Level[i] \in Ids(plan)
      BY <1>1, <1>2, <1>7, LevelsApart
    <2>. QED BY <1>3, <1>4, <1>9, <2>1, <2>2 DEF TasksToDo
  <1>13. ResultsByLevel'
    <2>1. \A k \in DOMAIN Levels : \A n \in ToSet(Levels[k]) : n \in DOMAIN results <=> k < levelNo
      BY <1>1 DEF LevelInv, ResultsByLevel
    <2>2. \A i \in DOMAIN Level : Level[i] \notin DOMAIN results
      BY <1>1, <1>2, <2>1, LevelsApart
    <2>3. \A k \in DOMAIN Levels \ {levelNo} : \A n \in ToSet(Levels[k]) : n \notin ToSet(Level)
      BY <1>1, <1>2, LevelsApart
    <2>4. \A k \in DOMAIN Levels \ {levelNo} : \A n \in ToSet(Levels[k]) :
             n \in DOMAIN results' <=> k < levelNo
      BY <1>3, <1>5, <1>7, <2>1, <2>3
    <2>5. \A i \in DOMAIN Level : Level[i] \in DOMAIN results' <=> i \notin run
      BY <1>3, <1>5, <1>6, <2>2
    <2>. QED BY <1>3, <1>4, <1>8, <2>4, <2>5 DEF ResultsByLevel
  <1>. QED BY <1>11, <1>12, <1>13 DEF LevelInv

\* The loop over the levels (execute_service.py:205-219).
LEMMA RoundStepKeepsLevels ==
  ASSUME GateInv, LevelInv, RoundStep
  PROVE  LevelInv'
  <1>1. Types'
    BY RoundTypes
  <1>2. CASE BeginLevels
    <2>1. /\ phase = "verify" /\ phase' = "level" /\ levelNo' = 1 /\ plan \in ResolvablePlans
          /\ UNCHANGED <<plan, task, todo, results>>
      BY <1>2 DEF BeginLevels, context
    <2>2. ~Busy' /\ Levels' = Levels
      BY <2>1 DEF Busy, Levels
    <2>3. \A s \in DOMAIN task : task[s].pc = "idle"
      BY <2>1 DEF GateInv, TasksInLevel
    <2>4. DOMAIN task = Ids(plan) \cup {Recovery}
      BY DEF GateInv, Types
    <2>5. TasksToDo'
      BY <2>1, <2>3, <2>4 DEF TasksToDo
    <2>6. \A n \in Ids(plan) : n \notin DOMAIN results
      BY <2>1 DEF LevelInv, ResultsByLevel
    <2>7. \A k \in DOMAIN Levels : ~(k < 1) /\ ToSet(Levels[k]) \subseteq Ids(plan)
      BY <2>1, LevelsApart
    <2>. QED BY <2>1, <2>2, <2>5, <2>6, <2>7 DEF LevelInv, InLevels, ResultsByLevel
  <1>3. CASE EnterLevel
    BY <1>3, EnterLevelKeepsLevels
  <1>4. CASE Recovered
    <2>1. /\ phase = "recovering" /\ phase' = "running" /\ todo' = todo \ {Min(todo)}
          /\ UNCHANGED <<plan, levelNo, results>>
          /\ task' = [task EXCEPT ![Recovery] = Idle]
      BY <1>4 DEF Recovered, context
    <2>2. UNCHANGED <<Level, Levels, Busy, Open>> /\ Busy
      BY <2>1 DEF Level, Levels, Busy, Open
    <2>3. InLevels'
      BY <2>1, <2>2 DEF LevelInv, InLevels, Busy
    <2>4. Recovery \notin Ids(plan) /\ DOMAIN task = Ids(plan) \cup {Recovery}
      BY IdsAreNumbers DEF GateInv, Types, Recovery
    <2>5. TasksToDo'
      BY <2>1, <2>2, <2>4 DEF LevelInv, TasksToDo, Idle
    <2>6. ResultsByLevel'
      BY <2>1, <2>2 DEF LevelInv, ResultsByLevel
    <2>. QED BY <2>3, <2>5, <2>6 DEF LevelInv
  <1>5. CASE LeaveLevel
    <2>1. /\ phase = "running" /\ phase' = "level" /\ levelNo' = levelNo + 1 /\ todo = {}
          /\ UNCHANGED <<plan, results>> /\ task' = NoTasks
      BY <1>5 DEF LeaveLevel, context
    <2>2. ~Busy' /\ Levels' = Levels /\ Busy /\ Open = {}
      BY <2>1 DEF Levels, Busy, Open
    <2>3. levelNo \in Nat /\ plan \in ResolvablePlans /\ levelNo \in DOMAIN Levels
      BY <2>2, AtLevel DEF GateInv, Types
    <2>4. TasksToDo'
      BY <2>1 DEF TasksToDo, NoTasks, Idle
    <2>5. \A n \in ToSet(Level) : n \in DOMAIN results
      BY <2>2, AtLevel DEF LevelInv, ResultsByLevel
    <2>6. ASSUME NEW k \in DOMAIN Levels, NEW n \in ToSet(Levels[k])
          PROVE  n \in DOMAIN results <=> k < levelNo + 1
      <3>1. k \in Nat
        BY <2>3, LevelsApart
      <3>2. CASE k = levelNo
        BY <2>3, <2>5, <2>6, <3>2 DEF Level
      <3>3. CASE k # levelNo
        <4>1. n \in DOMAIN results <=> k < levelNo
          BY <2>2, <3>3 DEF LevelInv, ResultsByLevel
        <4>. QED BY <2>3, <3>1, <3>3, <4>1
      <3>. QED BY <3>2, <3>3
    <2>. QED BY <2>1, <2>2, <2>4, <2>6 DEF LevelInv, InLevels, ResultsByLevel
  <1>6. CASE Refuse \/ RejectGraph \/ NotRecovered \/ Complete
    <2>1. phase' = "done" /\ task' = NoTasks
      BY <1>6, WaysToEnd DEF Ending
    <2>. QED BY <1>1, <2>1, LevelsAtRest DEF NoTasks, Idle
  <1>. QED BY <1>2, <1>3, <1>4, <1>5, <1>6 DEF RoundStep

\* The step whose outcome is handled is the first without a result
\* (execute_service.py:328-334).
LEMMA HandledStep ==
  ASSUME GateInv, LevelInv, NEW s, Handling(s)
  PROVE  /\ Busy /\ phase = "running" /\ todo # {}
         /\ Min(todo) \in todo /\ s = Level[Min(todo)] /\ s \in ToSet(Level)
         /\ s \in Ids(plan) /\ s \notin DOMAIN results /\ Open = todo
         /\ \A t \in DOMAIN task : task[t].pc \in Ended \cup {"idle"}
         /\ \A i \in DOMAIN Level : i # Min(todo) => Level[i] # s
  <1>1. phase = "running" /\ Busy /\ todo # {} /\ s = Level[Min(todo)] /\ Open = todo
    BY DEF Handling, Busy, Open
  <1>2. Min(todo) \in todo
    BY <1>1, AtLevel
  <1>3. s \in ToSet(Level) /\ s \in Ids(plan) /\ \A i \in DOMAIN Level : i # Min(todo) => Level[i] # s
    BY <1>1, <1>2, AtLevel
  <1>4. s \notin DOMAIN results
    <2>1. Min(todo) \in DOMAIN Level
      BY <1>1, <1>2, AtLevel
    <2>. QED BY <1>1, <1>2, <2>1 DEF LevelInv, ResultsByLevel
  <1>. QED BY <1>1, <1>2, <1>3, <1>4 DEF Handling

\* The handling of an outcome, which gives the step its result
\* (execute_service.py:328-351, 1257-1332).
LEMMA HandleKeepsLevels ==
  ASSUME GateInv, LevelInv, NEW s \in Ids(plan), Handle(s)
  PROVE  LevelInv'
  <1>1. Types'
    BY HandleTypes
  <1>2. Handling(s)
    BY DEF Handle, StoreResult, Pause, NotConnected, GiveUp, Recover
  <1>3. /\ Busy /\ phase = "running" /\ todo # {} /\ Open = todo
        /\ Min(todo) \in todo /\ s = Level[Min(todo)] /\ s \in ToSet(Level)
        /\ \A t \in DOMAIN task : task[t].pc \in Ended \cup {"idle"}
        /\ \A i \in DOMAIN Level : i # Min(todo) => Level[i] # s
        /\ levelNo \in DOMAIN Levels /\ todo \subseteq DOMAIN Level
        /\ \A k \in DOMAIN Levels \ {levelNo} : s \notin ToSet(Levels[k])
    BY <1>2, HandledStep, AtLevel
  <1>4. DOMAIN task = Ids(plan) \cup {Recovery} /\ Recovery \notin Ids(plan)
    BY IdsAreNumbers DEF GateInv, Types, Recovery
  <1>5. ASSUME UNCHANGED <<plan, levelNo>>, DOMAIN results' = DOMAIN results \cup {s},
               Busy', Open' = todo \ {Min(todo)}
        PROVE  ResultsByLevel'
    <2>1. UNCHANGED <<Level, Levels>>
      BY <1>5 DEF Level, Levels
    <2>2. \A k \in DOMAIN Levels \ {levelNo} : \A n \in ToSet(Levels[k]) :
             n \in DOMAIN results' <=> k < levelNo
      BY <1>3, <1>5 DEF LevelInv, ResultsByLevel
    <2>3. \A i \in DOMAIN Level : Level[i] \in DOMAIN results' <=> i \notin todo \ {Min(todo)}
      BY <1>3, <1>5 DEF LevelInv, ResultsByLevel
    <2>4. phase' \notin {"new", "verify", "level"}
      BY <1>5 DEF Busy
    <2>. QED BY <1>5, <2>1, <2>2, <2>3, <2>4 DEF ResultsByLevel
  <1>6. CASE StoreResult(s)
    <2>1. /\ UNCHANGED <<plan, phase, levelNo, task>> /\ todo' = todo \ {Min(todo)}
          /\ results' = WithResult(s, "completed")
      BY <1>6 DEF StoreResult
    <2>2. UNCHANGED <<Level, Levels, Busy>> /\ Open' = todo \ {Min(todo)}
      BY <1>3, <2>1 DEF Level, Levels, Busy, Open
    <2>3. ResultsByLevel'
      BY <1>3, <1>5, <2>1, <2>2 DEF WithResult
    <2>4. InLevels'
      BY <1>3, <2>1, <2>2 DEF LevelInv, InLevels
    <2>5. TasksToDo'
      BY <1>3, <1>4, <2>1, <2>2 DEF LevelInv, TasksToDo
    <2>. QED BY <2>3, <2>4, <2>5 DEF LevelInv
  <1>7. CASE Pause(s)
    <2>1. phase' = "paused" /\ task' = NoTasks /\ UNCHANGED <<plan, levelNo>>
      BY <1>7 DEF Pause
    <2>2. Levels' = Levels /\ ~Busy'
      BY <2>1 DEF Levels, Busy
    <2>. QED BY <1>3, <2>1, <2>2 DEF LevelInv, InLevels, TasksToDo, ResultsByLevel, NoTasks, Idle
  <1>8. CASE NotConnected(s) \/ GiveUp(s)
    <2>1. phase' = "done" /\ task' = NoTasks
      BY <1>8, WaysToEnd DEF Ending
    <2>. QED BY <1>1, <2>1, LevelsAtRest DEF NoTasks, Idle
  <1>9. CASE Recover(s)
    <2>1. /\ UNCHANGED <<plan, levelNo, todo>> /\ phase' = "recovering"
          /\ results' = WithResult(s, "failed")
          /\ \A t \in DOMAIN task : t # Recovery => task'[t] = task[t]
      BY <1>4, <1>9 DEF Recover
    <2>2. UNCHANGED <<Level, Levels, Busy>> /\ Open' = todo \ {Min(todo)}
      BY <1>3, <2>1 DEF Level, Levels, Busy, Open
    <2>3. ResultsByLevel'
      BY <1>3, <1>5, <2>1, <2>2 DEF WithResult
    <2>4. InLevels'
      BY <1>3, <2>1, <2>2 DEF LevelInv, InLevels
    <2>5. TasksToDo'
      BY <1>3, <1>4, <2>1, <2>2 DEF LevelInv, TasksToDo
    <2>. QED BY <2>3, <2>4, <2>5 DEF LevelInv
  <1>. QED BY <1>6, <1>7, <1>8, <1>9 DEF Handle

\* LevelInv is inductive beside GateInv.
LEMMA LevelInductive == GateInv /\ LevelInv /\ [Next]_vars => LevelInv'
  <1>. SUFFICES ASSUME GateInv, LevelInv, [Next]_vars PROVE LevelInv'
    OBVIOUS
  <1>0. Types'
    BY TypesInductive
  <1>1. CASE Submit
    <2>1. /\ phase = "new" /\ phase' = "verify"
          /\ UNCHANGED <<plan, levelNo, task, todo, results>>
      BY <1>1 DEF Submit, context
    <2>. QED BY <2>1 DEF LevelInv, InLevels, TasksToDo, ResultsByLevel, Busy,
                         GateInv, TasksInLevel, Types, Recovery
  <1>2. CASE Approve
    <2>1. phase = "paused" /\ phase' = "verify" /\ task' = task /\ results' = <<>>
      BY <1>2 DEF Approve
    <2>2. DOMAIN results' = {}
      BY <2>1
    <2>. QED BY <1>0, <2>1, <2>2, LevelsAtRest DEF GateInv, TasksInLevel
  <1>3. CASE Cancel
    BY <1>0, <1>3, LevelsAtRest DEF Cancel, GateInv, TasksInLevel
  <1>4. CASE RoundStep
    BY <1>4, RoundStepKeepsLevels
  <1>5. ASSUME NEW s \in Ids(plan), Handle(s) PROVE LevelInv'
    BY <1>5, HandleKeepsLevels
  <1>6. ASSUME NEW s \in DOMAIN task, TaskStep(s) PROVE LevelInv'
    BY <1>6, TaskStepKeepsLevels
  <1>7. CASE UNCHANGED vars
    BY <1>7 DEF vars, context, LevelInv, InLevels, TasksToDo, ResultsByLevel, Busy, Open,
                Level, Levels, At
  <1>. QED BY <1>1, <1>2, <1>3, <1>4, <1>5, <1>6, <1>7 DEF Next, ServerStep

\* LevelInv holds throughout an execution.
THEOREM LevelInvariance == Spec => []LevelInv
  <1>1. Init => LevelInv
    <2>. SUFFICES ASSUME Init PROVE LevelInv
      OBVIOUS
    <2>1. phase = "new" /\ DOMAIN results = {}
      BY DEF Init
    <2>2. \A s \in Ids(plan) \cup {Recovery} : task[s].pc = "idle"
      BY DEF Init, NoTasks, Idle
    <2>. QED BY <2>1, <2>2 DEF LevelInv, InLevels, TasksToDo, ResultsByLevel, Busy
  <1>. QED BY <1>1, GateInvariance, LevelInductive, PTL DEF Spec

\* A step is started only when every step it comes after has a result of
\* this round (execute_service.py:207-208, 312-334).
THEOREM DependenciesComeFirst == Spec => []DependenciesFirst
  <1>1. GateInv /\ LevelInv => DependenciesFirst
    <2>. SUFFICES ASSUME GateInv, LevelInv, NEW s \in Ids(plan), task[s].pc # "idle",
                         NEW d \in ToSet(StepOf(s).after) \cap Ids(plan)
                  PROVE  d \in DOMAIN results
      BY DEF DependenciesFirst
    <2>1. Busy /\ s \in ToSet(Level)
      BY DEF GateInv, TasksInLevel, Types, Busy, LevelInv, TasksToDo
    <2>2. plan \in ResolvablePlans /\ levelNo \in DOMAIN Levels /\ Level = Levels[levelNo]
      BY <2>1, AtLevel DEF Level
    <2>3. PICK i \in DOMAIN plan : plan[i].step = s /\ StepOf(s) = plan[i]
      <3>1. \E i \in DOMAIN plan : plan[i].step = s
        BY DEF Ids
      <3>. QED BY <3>1 DEF StepOf
    <2>4. PICK j \in 1 .. levelNo - 1 : d \in ToSet(Levels[j])
      BY <2>1, <2>2, <2>3, LevelsOfPlan
    <2>5. j \in DOMAIN Levels /\ j < levelNo
      BY <2>2, LevelsApart
    <2>. QED BY <2>1, <2>4, <2>5 DEF LevelInv, ResultsByLevel
  <1>. QED BY <1>1, GateInvariance, LevelInvariance, PTL

-----------------------------------------------------------------------------
\* The results a task meets its gate with are of completed steps, and a task
\* that begins has no other (execute_service.py:395-421).
LEMMA DispatchOffer ==
  ASSUME NEW n, NEW done
  PROVE  /\ Dispatch(n, done).pc \in {"gate", "calling"}
         /\ Dispatch(n, done).offer \subseteq done
         /\ Dispatch(n, done).pc = "gate" => Dispatch(n, done).offer = done
  <1>. DEFINE closed == Subject(n).gate \in Gates \ granted
  <1>1. Dispatch(n, done) = IF closed THEN [Idle EXCEPT !.pc = "gate", !.offer = done]
                                      ELSE [Idle EXCEPT !.pc = "calling"]
    BY DEF Dispatch
  <1>2. /\ [Idle EXCEPT !.pc = "gate", !.offer = done].pc = "gate"
        /\ [Idle EXCEPT !.pc = "gate", !.offer = done].offer = done
        /\ [Idle EXCEPT !.pc = "calling"].pc = "calling"
        /\ [Idle EXCEPT !.pc = "calling"].offer = {}
    BY DEF Idle
  <1>. HIDE DEF closed
  <1>. QED BY <1>1, <1>2

\* Without tasks, ResultsTrue speaks of the results and of what was carried.
LEMMA ResultsAtRest ==
  ASSUME ResultsTrue, UNCHANGED <<plan, completed>>, DOMAIN task' = Ids(plan) \cup {Recovery},
         \A t \in DOMAIN task' : task'[t].pc = "idle" /\ task'[t].offer \cap Ids(plan) \subseteq completed,
         \A n \in Ids(plan) \cap DOMAIN results' : n \in DOMAIN results /\ results'[n] = results[n],
         carried' \cap Ids(plan) \subseteq completed,
         outcome'.success => phase' = "done" /\ Ids(plan) \subseteq DOMAIN results'
  PROVE  ResultsTrue'
  <1>1. \A n : Skipped(n)' = Skipped(n)
    BY DEF Skipped, StepOf
  <1>. QED BY <1>1 DEF ResultsTrue, At

\* A task ends well for its own step only (execute_service.py:369-464).
LEMMA TaskStepKeepsResults ==
  ASSUME GateInv, ResultsTrue, NEW s \in DOMAIN task, TaskStep(s)
  PROVE  ResultsTrue'
  <1>1. /\ UNCHANGED <<plan, phase, todo, carried, outcome>>
        /\ DOMAIN task' = DOMAIN task
        /\ \A t \in DOMAIN task : t # s => task'[t] = task[t]
        /\ task[s].pc \in {"calling", "policy", "attesting", "child"}
        /\ \A t \in DOMAIN task : task'[t].offer = task[t].offer
        /\ \A n \in Ids(plan) :
              /\ n \in DOMAIN results' <=> n \in DOMAIN results
              /\ n \in DOMAIN results => results'[n] = results[n]
        /\ completed \subseteq completed'
        /\ \A n \in completed' : n \in completed \/ (n = s /\ s # Recovery)
        /\ task'[s].pc = "ok" /\ s # Recovery => s \in completed'
    BY TaskStepShape, TaskStepEffect
  <1>2. DOMAIN task = Ids(plan) \cup {Recovery} /\ Recovery \notin Ids(plan)
    BY IdsAreNumbers DEF GateInv, Types, Recovery
  <1>3. \A n : Skipped(n)' = Skipped(n)
    BY <1>1 DEF Skipped, StepOf
  <1>4. s # Recovery => ~Skipped(s)
    BY <1>1, <1>2 DEF ResultsTrue
  <1>. DEFINE Old(n) == results[n]
  <1>5. \A n \in Ids(plan) \cap DOMAIN results' :
           /\ results'[n] = "completed" => n \in completed'
           /\ results'[n] = "skipped" => Skipped(n)
    BY <1>1 DEF ResultsTrue
  <1>6. carried \cap Ids(plan) \subseteq completed'
    BY <1>1 DEF ResultsTrue
  <1>7. \A t \in DOMAIN task : task'[t].offer \cap Ids(plan) \subseteq completed'
    BY <1>1 DEF ResultsTrue
  <1>8. \A t \in Ids(plan) : /\ task'[t].pc = "ok" => t \in completed'
                             /\ task'[t].pc # "idle" => ~Skipped(t)
    BY <1>1, <1>2, <1>4 DEF ResultsTrue, At
  <1>9. \A t \in completed' : ~Skipped(t)
    BY <1>1, <1>4 DEF ResultsTrue
  <1>10. outcome.success => phase = "done" /\ Ids(plan) \subseteq DOMAIN results'
    BY <1>1 DEF ResultsTrue
  <1>. QED BY <1>1, <1>3, <1>5, <1>6, <1>7, <1>8, <1>9, <1>10 DEF ResultsTrue, At

\* A level begins: what is skipped is a preview or was carried over
\* (execute_service.py:305-334, 342-362).
LEMMA EnterLevelKeepsResults ==
  ASSUME GateInv, ResultsTrue, EnterLevel
  PROVE  ResultsTrue'
  <1>. DEFINE skip == {n \in ToSet(Level) : Skipped(n) \/ Replayed(n)}
              known == SkipResults(Level)
              done == {n \in DOMAIN known : known[n] = "completed"}
              run == {i \in DOMAIN Level : ~Skipped(Level[i]) /\ ~Replayed(Level[i])}
  <1>1. /\ phase = "level" /\ results' = known /\ phase' = "running"
        /\ task' = [s \in DOMAIN task |-> IF \E i \in run : s = Level[i]
                                            THEN Dispatch(s, done) ELSE Idle]
        /\ UNCHANGED <<plan, levelNo, carried, outcome, completed>>
    BY DEF EnterLevel, client
  <1>2. \A n : Skipped(n)' = Skipped(n)
    BY <1>1 DEF Skipped, StepOf
  <1>3. /\ DOMAIN known = DOMAIN results \cup skip
        /\ \A n \in DOMAIN known :
              known[n] = IF n \notin skip THEN results[n]
                         ELSE IF Skipped(n) THEN "skipped" ELSE "completed"
    BY DEF SkipResults
  <1>4. \A n \in skip : Skipped(n) \/ n \in carried
    BY DEF Replayed
  <1>5. \A i \in run : ~Skipped(Level[i])
    OBVIOUS
  <1>6. \A n \in done : n \in DOMAIN known /\ known[n] = "completed"
    OBVIOUS
  <1>7. DOMAIN task = Ids(plan) \cup {Recovery}
    BY DEF GateInv, Types
  <1>. HIDE DEF skip, known, done, run
  <1>8. \A n \in Ids(plan) \cap DOMAIN known :
           /\ known[n] = "completed" => n \in completed
           /\ known[n] = "skipped" => Skipped(n)
    <2>. SUFFICES ASSUME NEW n \in Ids(plan) \cap DOMAIN known
                  PROVE  /\ known[n] = "completed" => n \in completed
                         /\ known[n] = "skipped" => Skipped(n)
      OBVIOUS
    <2>1. CASE n \in skip
      BY <1>3, <1>4, <2>1 DEF ResultsTrue
    <2>2. CASE n \notin skip
      BY <1>3, <2>2 DEF ResultsTrue
    <2>. QED BY <2>1, <2>2
  <1>9. \A s \in DOMAIN task : /\ task'[s].offer \cap Ids(plan) \subseteq completed
                               /\ task'[s].pc \in {"idle", "gate", "calling"}
                               /\ task'[s].pc # "idle" => ~Skipped(s)
    <2>1. done \cap Ids(plan) \subseteq completed
      BY <1>6, <1>8
    <2>2. \A s : Dispatch(s, done).offer \subseteq done /\ Dispatch(s, done).pc \in {"gate", "calling"}
      BY DispatchOffer
    <2>3. Idle.offer = {} /\ Idle.pc = "idle"
      BY DEF Idle
    <2>. QED BY <1>1, <1>5, <2>1, <2>2, <2>3
  <1>10. ~outcome.success
    BY <1>1 DEF ResultsTrue
  <1>. QED BY <1>1, <1>2, <1>7, <1>8, <1>9, <1>10 DEF ResultsTrue, At

\* The loop over the levels: when it is through, every step has a result
\* (execute_service.py:205-235).
LEMMA RoundStepKeepsResults ==
  ASSUME GateInv, LevelInv, ResultsTrue, RoundStep
  PROVE  ResultsTrue'
  <1>1. /\ \A t \in DOMAIN NoTasks : NoTasks[t].pc = "idle" /\ NoTasks[t].offer = {}
        /\ DOMAIN NoTasks = Ids(plan) \cup {Recovery} /\ Idle.pc = "idle" /\ Idle.offer = {}
    BY DEF NoTasks, Idle
  <1>2. DOMAIN task = Ids(plan) \cup {Recovery} /\ Recovery \notin Ids(plan)
    BY IdsAreNumbers DEF GateInv, Types, Recovery
  <1>3. CASE BeginLevels
    <2>1. /\ UNCHANGED <<plan, task, results, carried, outcome, completed>> /\ phase = "verify"
      BY <1>3 DEF BeginLevels, context, client
    <2>2. \A n : Skipped(n)' = Skipped(n)
      BY <2>1 DEF Skipped, StepOf
    <2>. QED BY <2>1, <2>2 DEF ResultsTrue, At
  <1>4. CASE EnterLevel
    BY <1>4, EnterLevelKeepsResults
  <1>5. CASE Recovered
    <2>1. /\ UNCHANGED <<plan, results, carried, outcome, completed>> /\ phase = "recovering"
          /\ task' = [task EXCEPT ![Recovery] = Idle]
      BY <1>5 DEF Recovered, context, client
    <2>2. \A n : Skipped(n)' = Skipped(n)
      BY <2>1 DEF Skipped, StepOf
    <2>3. \A t \in DOMAIN task' : task'[t].offer \cap Ids(plan) \subseteq completed
      BY <1>1, <2>1 DEF ResultsTrue
    <2>4. \A s \in Ids(plan) : task'[s] = task[s]
      BY <1>2, <2>1
    <2>. QED BY <2>1, <2>2, <2>3, <2>4 DEF ResultsTrue, At
  <1>6. CASE LeaveLevel
    <2>1. /\ UNCHANGED <<plan, results, carried, outcome, completed>> /\ task' = NoTasks
          /\ phase = "running"
      BY <1>6 DEF LeaveLevel, context, client
    <2>2. ~outcome.success /\ carried \cap Ids(plan) \subseteq completed
      BY <2>1 DEF ResultsTrue
    <2>. QED BY <1>1, <2>1, <2>2, ResultsAtRest
  <1>7. CASE Complete
    <2>1. /\ UNCHANGED <<plan, results, carried, completed>> /\ task' = NoTasks
          /\ phase = "level" /\ phase' = "done" /\ levelNo > Len(Levels)
      BY <1>7 DEF Complete, Finish, context, client
    <2>2. plan \in ResolvablePlans /\ levelNo \in Nat
      BY <2>1 DEF GateInv, PlanHasLevels, Types
    <2>3. ASSUME NEW n \in Ids(plan) PROVE n \in DOMAIN results
      <3>1. PICK k \in DOMAIN Levels : n \in ToSet(Levels[k])
        BY <2>2, LevelsOfPlan
      <3>2. k < levelNo
        BY <2>1, <2>2, LevelsApart
      <3>. QED BY <2>1, <3>1, <3>2 DEF LevelInv, ResultsByLevel
    <2>. QED BY <1>1, <2>1, <2>3, ResultsAtRest DEF ResultsTrue
  <1>8. CASE Refuse \/ RejectGraph \/ NotRecovered
    <2>1. Ending /\ ~outcome'.success
      BY <1>8, WaysToEnd DEF Refuse, RejectGraph, NotRecovered, Finish
    <2>2. UNCHANGED <<plan, results, carried, completed>> /\ task' = NoTasks
      BY <2>1 DEF Ending, context, client
    <2>. QED BY <1>1, <2>1, <2>2, ResultsAtRest DEF ResultsTrue
  <1>. QED BY <1>3, <1>4, <1>5, <1>6, <1>7, <1>8 DEF RoundStep

\* The handling of an outcome: only the result of a completed step is stored
\* as one (execute_service.py:328-334, 1271-1280).
LEMMA HandleKeepsResults ==
  ASSUME GateInv, LevelInv, ResultsTrue, NEW s \in Ids(plan), Handle(s)
  PROVE  ResultsTrue'
  <1>1. /\ \A t \in DOMAIN NoTasks : NoTasks[t].pc = "idle" /\ NoTasks[t].offer = {}
        /\ DOMAIN NoTasks = Ids(plan) \cup {Recovery}
    BY DEF NoTasks, Idle
  <1>2. /\ DOMAIN task = Ids(plan) \cup {Recovery} /\ Recovery \notin Ids(plan)
        /\ s \in DOMAIN task
    BY IdsAreNumbers DEF GateInv, Types, Recovery
  <1>3. CASE StoreResult(s)
    <2>1. /\ UNCHANGED <<plan, phase, task, carried, outcome, completed>> /\ At(s, "ok")
          /\ results' = WithResult(s, "completed")
      BY <1>3 DEF StoreResult, client
    <2>2. \A n : Skipped(n)' = Skipped(n)
      BY <2>1 DEF Skipped, StepOf
    <2>3. \A n \in Ids(plan) \cap DOMAIN results' :
             /\ results'[n] = "completed" => n \in completed
             /\ results'[n] = "skipped" => Skipped(n)
      BY <2>1 DEF WithResult, ResultsTrue
    <2>4. DOMAIN results \subseteq DOMAIN results'
      BY <2>1 DEF WithResult
    <2>. QED BY <2>1, <2>2, <2>3, <2>4 DEF ResultsTrue, At
  <1>4. CASE Pause(s)
    <2>1. /\ UNCHANGED <<plan, results, outcome, completed>> /\ task' = NoTasks /\ phase = "running"
          /\ carried' = carried \cup task[s].offer
      BY <1>4 DEF Pause, Handling, context
    <2>2. ~outcome.success /\ carried' \cap Ids(plan) \subseteq completed
      BY <1>2, <2>1 DEF ResultsTrue
    <2>. QED BY <1>1, <2>1, <2>2, ResultsAtRest
  <1>5. CASE NotConnected(s) \/ GiveUp(s)
    <2>1. Ending /\ ~outcome'.success
      BY <1>5, WaysToEnd DEF NotConnected, GiveUp, Finish
    <2>2. UNCHANGED <<plan, results, carried, completed>> /\ task' = NoTasks
      BY <2>1 DEF Ending, context, client
    <2>. QED BY <1>1, <2>1, <2>2, ResultsAtRest DEF ResultsTrue
  <1>6. CASE Recover(s)
    <2>1. /\ UNCHANGED <<plan, carried, outcome, completed>> /\ phase = "running"
          /\ results' = WithResult(s, "failed")
          /\ task' = [task EXCEPT ![Recovery] = Dispatch(Recovery, Completed)]
      BY <1>6 DEF Recover, Handling, client
    <2>2. \A n : Skipped(n)' = Skipped(n)
      BY <2>1 DEF Skipped, StepOf
    <2>3. \A n \in Ids(plan) \cap DOMAIN results' :
             /\ results'[n] = "completed" => n \in completed
             /\ results'[n] = "skipped" => Skipped(n)
      BY <2>1 DEF WithResult, ResultsTrue
    <2>4. Completed \cap Ids(plan) \subseteq completed
      BY DEF ResultsTrue, Completed
    <2>5. \A t \in DOMAIN task : task'[t].offer \cap Ids(plan) \subseteq completed
      BY <1>2, <2>1, <2>4, DispatchOffer DEF ResultsTrue
    <2>6. \A t \in Ids(plan) : task'[t] = task[t]
      BY <1>2, <2>1
    <2>7. ~outcome.success
      BY <2>1 DEF ResultsTrue
    <2>8. DOMAIN task' = DOMAIN task
      BY <2>1
    <2>. QED BY <2>1, <2>2, <2>3, <2>5, <2>6, <2>7, <2>8 DEF ResultsTrue, At
  <1>. QED BY <1>3, <1>4, <1>5, <1>6 DEF Handle

\* ResultsTrue is inductive beside GateInv and LevelInv.
LEMMA ResultsInductive ==
  GateInv /\ LevelInv /\ ResultsTrue /\ [Next]_vars => ResultsTrue'
  <1>. SUFFICES ASSUME GateInv, LevelInv, ResultsTrue, [Next]_vars PROVE ResultsTrue'
    OBVIOUS
  <1>1. CASE Submit \/ UNCHANGED vars
    <2>1. /\ UNCHANGED <<plan, task, results, carried, outcome, completed>>
          /\ phase = "new" \/ phase' = phase
      BY <1>1 DEF Submit, vars, context, client
    <2>2. \A n : Skipped(n)' = Skipped(n)
      BY <2>1 DEF Skipped, StepOf
    <2>. QED BY <2>1, <2>2 DEF ResultsTrue, At
  <1>2. CASE Approve \/ Cancel
    <2>1. /\ UNCHANGED <<plan, task, carried, outcome, completed>> /\ phase = "paused"
          /\ DOMAIN results' = {} \/ results' = results
      BY <1>2 DEF Approve, Cancel, context, client
    <2>2. DOMAIN task = Ids(plan) \cup {Recovery}
      BY DEF GateInv, Types
    <2>3. \A t \in DOMAIN task : task[t].pc = "idle"
      BY <2>1 DEF GateInv, TasksInLevel
    <2>4. ~outcome.success
      BY <2>1 DEF ResultsTrue
    <2>. QED BY <2>1, <2>2, <2>3, <2>4, ResultsAtRest DEF ResultsTrue
  <1>3. CASE RoundStep
    BY <1>3, RoundStepKeepsResults
  <1>4. ASSUME NEW s \in Ids(plan), Handle(s) PROVE ResultsTrue'
    BY <1>4, HandleKeepsResults
  <1>5. ASSUME NEW s \in DOMAIN task, TaskStep(s) PROVE ResultsTrue'
    BY <1>5, TaskStepKeepsResults
  <1>. QED BY <1>1, <1>2, <1>3, <1>4, <1>5 DEF Next, ServerStep

\* ResultsTrue holds throughout an execution.
THEOREM ResultsInvariance == Spec => []ResultsTrue
  <1>1. Init => ResultsTrue
    <2>. SUFFICES ASSUME Init PROVE ResultsTrue
      OBVIOUS
    <2>1. /\ DOMAIN results = {} /\ completed = {} /\ carried = {} /\ ~outcome.success
          /\ task = NoTasks
      BY DEF Init, NoOutcome
    <2>2. \A t \in DOMAIN NoTasks : NoTasks[t].pc = "idle" /\ NoTasks[t].offer = {}
      BY DEF NoTasks, Idle
    <2>3. \A t \in Ids(plan) : t \in DOMAIN NoTasks
      BY DEF NoTasks
    <2>. QED BY <2>1, <2>2, <2>3 DEF ResultsTrue, At
  <1>. QED BY <1>1, GateInvariance, LevelInvariance, ResultsInductive, PTL DEF Spec

\* A success has a result for every step of the plan, and those not skipped
\* or recovered did complete (execute_service.py:219, 1341-1386).
THEOREM SuccessIsComplete == Spec => []SuccessCoversPlan
  <1>1. GateInv /\ ResultsTrue => SuccessCoversPlan
    <2>. SUFFICES ASSUME GateInv, ResultsTrue, outcome.success,  NEW s \in Ids(plan)
                  PROVE  /\ s \in DOMAIN results
                         /\ results[s] = "completed" <=> s \in completed /\ results[s] # "failed"
      BY DEF SuccessCoversPlan
    <2>1. s \in DOMAIN results
      BY DEF ResultsTrue
    <2>2. results[s] \in {"completed", "skipped", "failed"}
      BY <2>1 DEF GateInv, Types
    <2>. QED BY <2>1, <2>2 DEF ResultsTrue
  <1>. QED BY <1>1, GateInvariance, ResultsInvariance, PTL

-----------------------------------------------------------------------------
\* A plan has finitely many steps (execute_service.py:1107).
LEMMA FiniteIds ==
  ASSUME plan \in Plans
  PROVE  IsFiniteSet(Ids(plan))
  <1>1. plan \in Seq(PlanStep) /\ \A s \in PlanStep : s.step \in Nat
    BY ExecutionParameters DEF PlanStep
  <1>2. CASE plan = <<>>
    <2>1. Ids(plan) = {}
      BY <1>2 DEF Ids
    <2>. QED BY <2>1, FS_EmptySet
  <1>3. CASE plan # <<>>
    <2>1. Max(Ids(plan)) \in Ids(plan) /\ \A x \in Ids(plan) : x <= Max(Ids(plan))
      BY <1>1, <1>3, MaxId
    <2>2. Ids(plan) \in SUBSET Nat
      BY IdsAreNumbers
    <2>. QED BY <2>1, <2>2, FS_BoundedSetOfNaturals
  <1>. QED BY <1>2, <1>3

\* ... so few tasks wait at a time (execute_service.py:1095-1104).
LEMMA FiniteWaiting ==
  ASSUME Types
  PROVE  IsFiniteSet(Waiting) /\ Cardinality(Waiting) \in Nat
  <1>1. plan \in Plans
    BY DEF Types
  <1>2. IsFiniteSet(Ids(plan) \cup {Recovery})
    BY <1>1, FiniteIds, FS_AddElement
  <1>3. Waiting \in SUBSET (Ids(plan) \cup {Recovery})
    BY DEF Waiting, Types
  <1>. QED BY <1>2, <1>3, FS_Subset, FS_CardinalityType

\* A step's limit on spawns is a number (execute_service.py:1097).
LEMMA LimitType ==
  ASSUME Types, NEW n \in Ids(plan)
  PROVE  StepOf(n).limit \in Nat
  <1>1. plan \in Seq(PlanStep)
    BY ExecutionParameters DEF Types
  <1>2. \E i \in DOMAIN plan : plan[i].step = n
    BY DEF Ids
  <1>3. PICK i \in DOMAIN plan : StepOf(n) = plan[i]
    BY <1>2 DEF StepOf
  <1>4. plan[i] \in PlanStep
    BY <1>1
  <1>. QED BY <1>3, <1>4 DEF PlanStep

\* As many steps of any one level may spawn as Concurrent says, and as many
\* tasks as may spawn there may wait (execute_service.py:207, 1095-1104).
LEMMA ConcurrentBounds ==
  ASSUME plan \in ResolvablePlans
  PROVE  /\ Concurrent \in Nat
         /\ \A k \in DOMAIN Levels :
               /\ IsFiniteSet({s \in ToSet(Levels[k]) : MaySpawn(s)})
               /\ Cardinality({s \in ToSet(Levels[k]) : MaySpawn(s)}) <= Concurrent
  <1>. DEFINE Spawners(k) == {s \in ToSet(Levels[k]) : MaySpawn(s)}
              sizes == {Cardinality(Spawners(k)) : k \in DOMAIN Levels}
              b == Cardinality(Ids(plan))
  <1>1. IsFiniteSet(Ids(plan)) /\ b \in Nat
    BY LevelsOfPlan, FiniteIds, FS_CardinalityType
  <1>2. ASSUME NEW k \in DOMAIN Levels
        PROVE  /\ IsFiniteSet(Spawners(k)) /\ Cardinality(Spawners(k)) \in Nat
               /\ Cardinality(Spawners(k)) <= b
    <2>1. Spawners(k) \in SUBSET Ids(plan)
      BY LevelsApart
    <2>. HIDE DEF Spawners
    <2>. QED BY <1>1, <2>1, FS_Subset, FS_CardinalityType
  <1>3. Concurrent = Max({0} \cup sizes)
    BY DEF Concurrent
  <1>. HIDE DEF Spawners, b
  <1>4. {0} \cup sizes \in SUBSET Nat /\ {0} \cup sizes # {} /\ \A x \in {0} \cup sizes : x <= b
    BY <1>1, <1>2
  <1>5. \A k \in DOMAIN Levels : Cardinality(Spawners(k)) \in {0} \cup sizes
    OBVIOUS
  <1>. HIDE DEF sizes
  <1>6. Concurrent \in Nat /\ \A x \in {0} \cup sizes : x <= Concurrent
    BY <1>1, <1>3, <1>4, MaxOfBounded
  <1>7. \A k \in DOMAIN Levels : IsFiniteSet(Spawners(k)) /\ Cardinality(Spawners(k)) <= Concurrent
    BY <1>2, <1>5, <1>6
  <1>. QED BY <1>6, <1>7 DEF Spawners

\* The step a task works on is the plan's step with that number, its own
\* unless the task is the recovery (execute_service.py:1295-1300).
LEMMA SubjectByNumber ==
  ASSUME GateInv, plan \in ResolvablePlans, NEW s \in DOMAIN task, task[s].pc # "idle"
  PROVE  /\ Subject(s).step \in Ids(plan)
         /\ StepOf(Subject(s).step) = Subject(s)
         /\ s # Recovery => Subject(s).step = s
         /\ Subject(s).limit \in Nat
  <1>1. PICK i \in DOMAIN plan : Subject(s) = plan[i]
    BY SubjectIsStep DEF GateInv
  <1>2. \A j \in DOMAIN plan : plan[j].step = plan[i].step => j = i
    BY LevelsOfPlan
  <1>3. StepOf(plan[i].step) = plan[i]
    BY <1>2 DEF StepOf
  <1>4. s # Recovery => Subject(s).step = s
    <2>1. s # Recovery => \E j \in DOMAIN plan : plan[j].step = s
      BY DEF GateInv, Types, Ids
    <2>. QED BY <2>1 DEF Subject, StepOf
  <1>5. plan[i] \in PlanStep
    BY ExecutionParameters DEF GateInv, Types
  <1>. QED BY <1>1, <1>3, <1>4, <1>5 DEF Ids, PlanStep

\* The number of steps a parent spawned (execute_service.py:1095-1098).
LEMMA SpawnedByType ==
  ASSUME Types, NEW n
  PROVE  SpawnedBy(n) \in Nat /\ IsFiniteSet({i \in DOMAIN spawned : spawned[i].parent = n})
  <1>1. DOMAIN spawned = 1 .. Len(spawned) /\ Len(spawned) \in Nat
    BY DEF Types
  <1>2. IsFiniteSet(DOMAIN spawned)
    BY <1>1, FS_Interval
  <1>3. {i \in DOMAIN spawned : spawned[i].parent = n} \in SUBSET DOMAIN spawned
    OBVIOUS
  <1>. QED BY <1>2, <1>3, FS_Subset, FS_CardinalityType DEF SpawnedBy

\* A spawned step counts for its parent and for no other (execute_service.py:1164-1170).
LEMMA SpawnCounts ==
  ASSUME Types, NEW new, spawned' = Append(spawned, new), NEW n
  PROVE  SpawnedBy(n)' = IF new.parent = n THEN SpawnedBy(n) + 1 ELSE SpawnedBy(n)
  <1>. DEFINE mine == {i \in DOMAIN spawned : spawned[i].parent = n}
              l == Len(spawned) + 1
  <1>1. /\ DOMAIN spawned = 1 .. Len(spawned) /\ Len(spawned) \in Nat
        /\ DOMAIN spawned' = DOMAIN spawned \cup {l} /\ l \notin DOMAIN spawned
        /\ spawned'[l] = new /\ \A i \in DOMAIN spawned : spawned'[i] = spawned[i]
    BY DEF Types
  <1>2. IsFiniteSet(mine)
    BY SpawnedByType
  <1>3. {i \in DOMAIN spawned' : spawned'[i].parent = n} = IF new.parent = n THEN mine \cup {l} ELSE mine
    BY <1>1
  <1>4. l \notin mine
    BY <1>1
  <1>5. SpawnedBy(n) = Cardinality(mine)
    BY DEF SpawnedBy
  <1>6. SpawnedBy(n)' = Cardinality(IF new.parent = n THEN mine \cup {l} ELSE mine)
    BY <1>3 DEF SpawnedBy
  <1>. HIDE DEF mine, l
  <1>. QED BY <1>2, <1>4, <1>5, <1>6, FS_AddElement

\* A request is passed on to the PolicyEngine below both limits only
\* (execute_service.py:1095-1104).
LEMMA ProposeLimits ==
  ASSUME GateInv, plan \in ResolvablePlans, NEW s \in DOMAIN task, task[s].pc # "idle",
         NEW asks, Propose(s, asks)
  PROVE  /\ DOMAIN task' = DOMAIN task
         /\ \A t \in DOMAIN task : t # s => task'[t] = task[t]
         /\ \/ task'[s].pc \in {"ok", "failed"}
            \/ /\ task'[s].pc = "policy"
               /\ SpawnedBy(Subject(s).step) < Subject(s).limit
               /\ Total(Len(spawned)) < PlanLimit
  <1>1. task \in [DOMAIN task -> Task]
    BY DEF GateInv, Types
  <1>2. CASE asks = <<>>
    <2>1. task' = [task EXCEPT ![s].pc = "ok"]
      BY <1>2 DEF Propose, Succeed, Becomes
    <2>. QED BY <1>1, <2>1 DEF Task
  <1>3. CASE asks # <<>>
    <2>. DEFINE full == \/ SpawnedBy(Subject(s).step) >= Subject(s).limit
                        \/ Total(Len(spawned)) >= PlanLimit
                pc == IF full THEN "failed" ELSE "policy"
    <2>1. task' = [task EXCEPT ![s] =
                     [@ EXCEPT !.asks = asks, !.seen = Len(spawned), !.pc = pc]]
      BY <1>3 DEF Propose
    <2>2. pc = "failed" \/ (pc = "policy" /\ ~full)
      OBVIOUS
    <2>3. ~full => /\ SpawnedBy(Subject(s).step) < Subject(s).limit
                   /\ Total(Len(spawned)) < PlanLimit
      <3>1. SpawnedBy(Subject(s).step) \in Nat /\ Subject(s).limit \in Nat
        BY SpawnedByType, SubjectByNumber DEF GateInv
      <3>2. Total(Len(spawned)) \in Nat /\ PlanLimit \in Nat
        BY ExecutionParameters DEF GateInv, Types, Total
      <3>. QED BY <3>1, <3>2
    <2>. HIDE DEF pc, full
    <2>4. /\ DOMAIN task' = DOMAIN task
          /\ \A t \in DOMAIN task : t # s => task'[t] = task[t]
          /\ task'[s].pc = pc
      BY <1>1, <2>1 DEF Task
    <2>. QED BY <2>2, <2>3, <2>4
  <1>. QED BY <1>2, <1>3

\* The tasks that wait are steps of one level, or the recovery alone: there
\* are at most Concurrent of them, one more included (execute_service.py:207, 1302).
LEMMA RoomToWait ==
  ASSUME GateInv, LevelInv, BudgetInv, NEW s \in DOMAIN task, MaySpawn(s),
         task[s].pc \in {"calling", "policy", "attesting", "child"}
  PROVE  /\ IsFiniteSet(Waiting) /\ Concurrent \in Nat
         /\ Cardinality(Waiting \cup {s}) <= Concurrent
  <1>1. Busy /\ DOMAIN task = Ids(plan) \cup {Recovery}
    BY DEF GateInv, TasksInLevel, Types, Busy
  <1>2. plan \in ResolvablePlans /\ levelNo \in DOMAIN Levels /\ Level = Levels[levelNo]
    BY <1>1, AtLevel DEF Level
  <1>3. IsFiniteSet(Waiting)
    BY FiniteWaiting DEF GateInv
  <1>4. /\ Concurrent \in Nat
        /\ \A k \in DOMAIN Levels : Cardinality({t \in ToSet(Levels[k]) : MaySpawn(t)}) <= Concurrent
        /\ \A k \in DOMAIN Levels : IsFiniteSet({t \in ToSet(Levels[k]) : MaySpawn(t)})
    BY <1>2, ConcurrentBounds
  <1>5. \A t \in Waiting \cup {s} : /\ t \in DOMAIN task /\ MaySpawn(t)
                                    /\ task[t].pc \notin Ended \cup {"idle"}
    BY DEF BudgetInv, Waiting, At, Ended
  <1>6. CASE phase = "running"
    <2>1. Waiting \cup {s} \in SUBSET {t \in ToSet(Level) : MaySpawn(t)}
      BY <1>1, <1>5, <1>6 DEF LevelInv, TasksToDo
    <2>2. Cardinality(Waiting \cup {s}) <= Cardinality({t \in ToSet(Level) : MaySpawn(t)})
      BY <1>2, <1>4, <2>1, FS_Subset
    <2>3. Cardinality(Waiting \cup {s}) \in Nat /\ Cardinality({t \in ToSet(Level) : MaySpawn(t)}) \in Nat
      BY <1>2, <1>3, <1>4, FS_AddElement, FS_CardinalityType
    <2>. QED BY <1>2, <1>3, <1>4, <2>2, <2>3
  <1>7. CASE phase = "recovering"
    <2>1. Waiting \cup {s} = {Recovery} /\ s = Recovery
      BY <1>1, <1>5, <1>7 DEF LevelInv, TasksToDo
    <2>2. PICK n \in Ids(plan) : n = Subject(s).step /\ StepOf(n) = Subject(s)
      BY <1>2, SubjectByNumber
    <2>3. n # Recovery
      BY <1>2, LevelsOfPlan, IdsAreNumbers DEF Recovery
    <2>4. MaySpawn(n)
      BY <2>2, <2>3 DEF MaySpawn, Reasons, Subject
    <2>5. PICK k \in DOMAIN Levels : n \in ToSet(Levels[k])
      BY <1>2, LevelsOfPlan
    <2>. DEFINE able == {t \in ToSet(Levels[k]) : MaySpawn(t)}
    <2>6. IsFiniteSet(able) /\ able # {} /\ Cardinality(able) <= Concurrent
      BY <1>4, <2>4, <2>5
    <2>. HIDE DEF able
    <2>7. Cardinality(able) \in Nat /\ Cardinality(able) # 0
      BY <2>6, FS_EmptySet, FS_CardinalityType
    <2>8. Cardinality(Waiting \cup {s}) = 1
      BY <2>1, FS_Singleton
    <2>. QED BY <1>3, <1>4, <2>6, <2>7, <2>8
  <1>. QED BY <1>1, <1>6, <1>7 DEF Busy

\* What the limits are compared with depends on the plan alone.
LEMMA LimitsStay ==
  ASSUME plan' = plan
  PROVE  /\ Concurrent' = Concurrent
         /\ \A n : StepOf(n)' = StepOf(n) /\ Subject(n)' = Subject(n) /\ (MaySpawn(n)' <=> MaySpawn(n))
  <1>1. \A n : StepOf(n)' = StepOf(n) /\ Subject(n)' = Subject(n)
    BY DEF StepOf, Subject, RecoveryReasoner
  <1>2. \A n : MaySpawn(n)' <=> MaySpawn(n)
    BY <1>1 DEF MaySpawn, Reasons
  <1>3. Levels' = Levels
    BY DEF Levels
  <1>4. \A k : {s \in ToSet(Levels[k]) : MaySpawn(s)}' = {s \in ToSet(Levels[k]) : MaySpawn(s)}
    BY <1>2, <1>3
  <1>5. Concurrent' = Concurrent
    BY <1>3, <1>4 DEF Concurrent
  <1>. QED BY <1>1, <1>2, <1>5

\* Nothing spawned and no task that waits anew: the budget is kept.
LEMMA BudgetKept ==
  ASSUME GateInv, GateInv', LevelInv, BudgetInv, UNCHANGED <<plan, spawned>>,
         DOMAIN task' = DOMAIN task,
         \A t \in DOMAIN task : task'[t].pc \in {"policy", "attesting", "child"} =>
            /\ task[t].pc \in {"policy", "attesting", "child"}
            /\ task'[t].pc = "policy" => task[t].pc = "policy"
  PROVE  BudgetInv'
  <1>1. /\ Concurrent' = Concurrent
        /\ \A n : StepOf(n)' = StepOf(n) /\ Subject(n)' = Subject(n) /\ (MaySpawn(n)' <=> MaySpawn(n))
    BY LimitsStay
  <1>2. \A n : SpawnedBy(n)' = SpawnedBy(n)
    BY DEF SpawnedBy
  <1>3. Waiting' \in SUBSET Waiting
    BY DEF Waiting, At
  <1>4. Waiting # {} => plan \in ResolvablePlans
    BY DEF Waiting, At, GateInv, TasksInLevel, PlanHasLevels
  <1>5. IsFiniteSet(Waiting)
    BY FiniteWaiting DEF GateInv
  <1>6. Cardinality(Waiting') \in Nat /\ Cardinality(Waiting) \in Nat
        /\ Cardinality(Waiting') <= Cardinality(Waiting)
    BY <1>3, <1>5, FS_Subset, FS_CardinalityType
  <1>7. spawned # <<>> \/ Waiting' # {} =>
           Total(Len(spawned)) + Cardinality(Waiting') <= PlanLimit + Concurrent - 1
    <2>. SUFFICES ASSUME spawned # <<>> \/ Waiting' # {}
                  PROVE  Total(Len(spawned)) + Cardinality(Waiting') <= PlanLimit + Concurrent - 1
      OBVIOUS
    <2>1. Total(Len(spawned)) + Cardinality(Waiting) <= PlanLimit + Concurrent - 1
      BY <1>3 DEF BudgetInv
    <2>2. Concurrent \in Nat
      BY <1>3, <1>4, ConcurrentBounds DEF BudgetInv
    <2>3. Total(Len(spawned)) \in Nat /\ PlanLimit \in Nat
      BY ExecutionParameters DEF Total, GateInv, Types
    <2>. QED BY <1>6, <2>1, <2>2, <2>3
  <1>8. \A n \in Ids(plan) : SpawnedBy(n) <= StepOf(n).limit
    BY DEF BudgetInv
  <1>9. \A s \in Waiting' : SpawnedBy(Subject(s).step) < Subject(s).limit
    BY <1>3 DEF BudgetInv
  <1>10. \A s \in DOMAIN task : task'[s].pc \in {"policy", "attesting", "child"} => MaySpawn(s)
    BY DEF BudgetInv
  <1>11. Total(Len(spawned))' = Total(Len(spawned))
    BY DEF Total
  <1>12. spawned # <<>> => plan \in ResolvablePlans
    BY DEF BudgetInv
  <1>. QED BY <1>1, <1>2, <1>7, <1>8, <1>9, <1>10, <1>11, <1>12 DEF BudgetInv

\* The step is spawned: its parent was below its limit, no other waiting task
\* has that parent, and the task no longer waits (execute_service.py:1106-1170).
LEMMA AllowKeepsBudget ==
  ASSUME GateInv, LevelInv, BudgetInv, NEW s \in DOMAIN task, PolicyAllows(s)
  PROVE  BudgetInv'
  <1>. DEFINE new == [step |-> NewNumber(task[s].seen), parent |-> Subject(s).step,
                      role |-> Head(task[s].asks)]
              total == Total(Len(spawned))
  <1>1. /\ task[s].pc = "policy" /\ UNCHANGED plan /\ spawned' = Append(spawned, new)
        /\ \E pc \in {"attesting", "child"} : Becomes(s, pc)
    BY DEF PolicyAllows, At
  <1>2. new.parent = Subject(s).step
    OBVIOUS
  <1>. HIDE DEF new
  <1>3. /\ DOMAIN task' = DOMAIN task /\ task'[s].pc \in {"attesting", "child"}
        /\ \A t \in DOMAIN task : t # s => task'[t] = task[t]
    <2>1. task \in [DOMAIN task -> Task]
      BY DEF GateInv, Types
    <2>. QED BY <1>1, <2>1 DEF Becomes, Task
  <1>4. Busy /\ plan \in ResolvablePlans /\ DOMAIN task = Ids(plan) \cup {Recovery}
    <2>1. Busy
      BY <1>1 DEF GateInv, TasksInLevel, Busy
    <2>. QED BY <2>1, AtLevel DEF GateInv, Types
  <1>5. /\ Concurrent' = Concurrent
        /\ \A n : StepOf(n)' = StepOf(n) /\ Subject(n)' = Subject(n) /\ (MaySpawn(n)' <=> MaySpawn(n))
    BY <1>1, LimitsStay
  <1>6. \A n : SpawnedBy(n)' = IF Subject(s).step = n THEN SpawnedBy(n) + 1 ELSE SpawnedBy(n)
    <2>1. Types
      BY DEF GateInv
    <2>. QED BY <1>1, <1>2, <2>1, SpawnCounts
  <1>7. s \in Waiting /\ Waiting' = Waiting \ {s}
    BY <1>1, <1>3 DEF Waiting, At
  <1>8. MaySpawn(s)
    BY <1>1 DEF BudgetInv
  <1>9. /\ IsFiniteSet(Waiting) /\ Concurrent \in Nat
        /\ Cardinality(Waiting) \in Nat /\ Cardinality(Waiting') = Cardinality(Waiting) - 1
    BY <1>1, <1>7, <1>8, RoomToWait, FS_RemoveElement, FS_CardinalityType
  <1>10. ASSUME NEW n \in Ids(plan) PROVE SpawnedBy(n)' <= StepOf(n).limit
    <2>1. SpawnedBy(n) \in Nat
      BY SpawnedByType DEF GateInv
    <2>2. CASE n = Subject(s).step
      <3>1. SpawnedBy(n) < Subject(s).limit /\ Subject(s).limit \in Nat /\ StepOf(n) = Subject(s)
        BY <1>1, <1>4, <1>7, <2>2, SubjectByNumber DEF BudgetInv
      <3>. QED BY <1>6, <2>1, <2>2, <3>1
    <2>3. CASE n # Subject(s).step
      BY <1>6, <2>3 DEF BudgetInv
    <2>. QED BY <2>2, <2>3
  <1>11. ASSUME NEW t \in Waiting' PROVE SpawnedBy(Subject(t).step)' < Subject(t).limit
    <2>1. t \in Waiting /\ t # s /\ t \in DOMAIN task /\ task[t].pc = "policy"
      BY <1>7 DEF Waiting, At
    <2>2. Subject(t).step # Subject(s).step
      <3>1. s # Recovery /\ t # Recovery
        <4>1. \A u \in {s, t} : u # Recovery => phase = "running"
          BY <1>1, <1>4, <2>1 DEF LevelInv, TasksToDo, Ended
        <4>2. \A u \in {s, t} : u = Recovery => phase = "recovering"
          BY <1>1, <2>1 DEF LevelInv, TasksToDo
        <4>. QED BY <2>1, <4>1, <4>2
      <3>. QED BY <1>1, <1>4, <2>1, <3>1, SubjectByNumber
    <2>3. SpawnedBy(Subject(t).step) < Subject(t).limit
      BY <2>1 DEF BudgetInv
    <2>. QED BY <1>5, <1>6, <2>2, <2>3
  <1>12. Total(Len(spawned))' + Cardinality(Waiting') <= PlanLimit + Concurrent - 1
    <2>1. total + Cardinality(Waiting) <= PlanLimit + Concurrent - 1
      BY <1>7 DEF BudgetInv
    <2>2. Len(spawned) \in Nat /\ Len(spawned') = Len(spawned) + 1
      BY <1>1 DEF GateInv, Types
    <2>3. Len(plan) \in Nat /\ PlanLimit \in Nat
      BY ExecutionParameters DEF GateInv, Types
    <2>4. Total(Len(spawned))' = total + 1 /\ total \in Nat
      BY <1>1, <2>2, <2>3 DEF Total
    <2>. HIDE DEF total
    <2>. QED BY <1>9, <2>1, <2>3, <2>4
  <1>13. \A t \in DOMAIN task' : task'[t].pc \in {"policy", "attesting", "child"} => MaySpawn(t)
    BY <1>3, <1>8 DEF BudgetInv
  <1>14. plan' \in ResolvablePlans
    BY <1>1, <1>4
  <1>. QED BY <1>1, <1>5, <1>10, <1>11, <1>12, <1>13, <1>14 DEF BudgetInv

\* A Reasoner looks at its next request: it waits for the PolicyEngine only
\* below both limits (execute_service.py:1095-1104).
LEMMA ProposeKeepsBudget ==
  ASSUME GateInv, GateInv', LevelInv, BudgetInv, NEW s \in DOMAIN task, MaySpawn(s),
         task[s].pc \in {"calling", "attesting", "child"},
         NEW asks, Propose(s, asks), UNCHANGED <<plan, spawned>>
  PROVE  BudgetInv'
  <1>1. Busy /\ plan \in ResolvablePlans
    <2>1. Busy
      BY DEF GateInv, TasksInLevel, Busy
    <2>. QED BY <2>1, AtLevel
  <1>2. /\ DOMAIN task' = DOMAIN task
        /\ \A t \in DOMAIN task : t # s => task'[t] = task[t]
        /\ \/ task'[s].pc \in {"ok", "failed"}
           \/ /\ task'[s].pc = "policy"
              /\ SpawnedBy(Subject(s).step) < Subject(s).limit
              /\ Total(Len(spawned)) < PlanLimit
    BY <1>1, ProposeLimits
  <1>3. CASE task'[s].pc \in {"ok", "failed"}
    BY <1>2, <1>3, BudgetKept
  <1>4. CASE /\ task'[s].pc = "policy"
             /\ SpawnedBy(Subject(s).step) < Subject(s).limit
             /\ Total(Len(spawned)) < PlanLimit
    <2>1. Waiting' = Waiting \cup {s}
      BY <1>2, <1>4 DEF Waiting, At
    <2>2. /\ IsFiniteSet(Waiting) /\ Concurrent \in Nat
          /\ Cardinality(Waiting \cup {s}) <= Concurrent
      BY RoomToWait
    <2>3. Cardinality(Waiting \cup {s}) \in Nat
      BY <2>2, FS_AddElement, FS_CardinalityType
    <2>4. Total(Len(spawned)) \in Nat /\ PlanLimit \in Nat
      BY ExecutionParameters DEF Total, GateInv, Types
    <2>5. /\ Concurrent' = Concurrent
          /\ \A n : StepOf(n)' = StepOf(n) /\ Subject(n)' = Subject(n) /\ (MaySpawn(n)' <=> MaySpawn(n))
      BY LimitsStay
    <2>6. (\A n : SpawnedBy(n)' = SpawnedBy(n)) /\ Total(Len(spawned))' = Total(Len(spawned))
      BY DEF SpawnedBy, Total
    <2>7. Total(Len(spawned)) + Cardinality(Waiting') <= PlanLimit + Concurrent - 1
      BY <1>4, <2>1, <2>2, <2>3, <2>4
    <2>8. \A n \in Ids(plan) : SpawnedBy(n) <= StepOf(n).limit
      BY DEF BudgetInv
    <2>9. \A t \in Waiting' : SpawnedBy(Subject(t).step) < Subject(t).limit
      BY <1>4, <2>1 DEF BudgetInv
    <2>10. \A t \in DOMAIN task' : task'[t].pc \in {"policy", "attesting", "child"} => MaySpawn(t)
      BY <1>2 DEF BudgetInv
    <2>. QED BY <1>1, <2>5, <2>6, <2>7, <2>8, <2>9, <2>10 DEF BudgetInv
  <1>. QED BY <1>2, <1>3, <1>4

\* BudgetInv is inductive beside GateInv and LevelInv.
LEMMA BudgetInductive ==
  GateInv /\ GateInv' /\ LevelInv /\ BudgetInv /\ [Next]_vars => BudgetInv'
  <1>. SUFFICES ASSUME GateInv, GateInv', LevelInv, BudgetInv, [Next]_vars PROVE BudgetInv'
    OBVIOUS
  <1>1. ASSUME UNCHANGED <<plan, spawned>>, DOMAIN task' = DOMAIN task,
               \A t \in DOMAIN task : task'[t].pc \in {"policy", "attesting", "child"} =>
                  /\ task[t].pc \in {"policy", "attesting", "child"}
                  /\ task'[t].pc = "policy" => task[t].pc = "policy"
        PROVE  BudgetInv'
    BY <1>1, BudgetKept
  <1>2. DOMAIN task = Ids(plan) \cup {Recovery} /\ task \in [DOMAIN task -> Task]
    BY DEF GateInv, Types
  <1>3. DOMAIN NoTasks = Ids(plan) \cup {Recovery} /\ \A t \in DOMAIN NoTasks : NoTasks[t].pc = "idle"
    BY DEF NoTasks, Idle
  <1>4. ASSUME UNCHANGED <<plan, spawned>>, task' = task PROVE BudgetInv'
    BY <1>1, <1>4
  <1>5. ASSUME UNCHANGED <<plan, spawned>>, task' = NoTasks PROVE BudgetInv'
    BY <1>1, <1>2, <1>3, <1>5
  <1>6. CASE Submit \/ Cancel \/ UNCHANGED vars
    BY <1>4, <1>6 DEF Submit, Cancel, vars, context
  <1>7. CASE Approve
    <2>1. /\ spawned' = <<>> /\ UNCHANGED <<plan, task>> /\ phase = "paused"
      BY <1>7 DEF Approve
    <2>2. Waiting' = {}
      BY <2>1 DEF Waiting, At, GateInv, TasksInLevel
    <2>3. \A t \in DOMAIN task' : task'[t].pc = "idle"
      BY <2>1 DEF GateInv, TasksInLevel
    <2>4. \A n : SpawnedBy(n)' = 0
      <3>1. \A n : {i \in DOMAIN spawned' : spawned'[i].parent = n} = {}
        BY <2>1
      <3>. QED BY <3>1, FS_EmptySet DEF SpawnedBy
    <2>5. \A n \in Ids(plan) : StepOf(n).limit \in Nat
      BY LimitType DEF GateInv
    <2>6. \A n : StepOf(n)' = StepOf(n)
      BY <2>1, LimitsStay
    <2>. QED BY <2>1, <2>2, <2>3, <2>4, <2>5, <2>6 DEF BudgetInv
  <1>8. CASE RoundStep
    <2>1. CASE BeginLevels
      BY <1>4, <2>1 DEF BeginLevels, context
    <2>2. CASE EnterLevel
      <3>. DEFINE known == SkipResults(Level)
                  done == {n \in DOMAIN known : known[n] = "completed"}
                  run == {i \in DOMAIN Level : ~Skipped(Level[i]) /\ ~Replayed(Level[i])}
      <3>1. /\ task' = [s \in DOMAIN task |-> IF \E i \in run : s = Level[i]
                                                THEN Dispatch(s, done) ELSE Idle]
            /\ UNCHANGED <<plan, spawned>>
        BY <2>2 DEF EnterLevel
      <3>. HIDE DEF known, done, run
      <3>2. \A t \in DOMAIN task : task'[t].pc \in {"idle", "gate", "calling"}
        BY <3>1, DispatchOffer DEF Idle
      <3>. QED BY <1>1, <3>1, <3>2
    <2>3. CASE Recovered
      <3>1. task' = [task EXCEPT ![Recovery] = Idle] /\ UNCHANGED <<plan, spawned>>
        BY <2>3 DEF Recovered, context
      <3>. QED BY <1>1, <1>2, <3>1 DEF Idle
    <2>4. CASE LeaveLevel
      BY <1>5, <2>4 DEF LeaveLevel, context
    <2>5. CASE Refuse \/ RejectGraph \/ NotRecovered \/ Complete
      BY <1>5, <2>5, WaysToEnd DEF Ending, context
    <2>. QED BY <1>8, <2>1, <2>2, <2>3, <2>4, <2>5 DEF RoundStep
  <1>9. ASSUME NEW s \in Ids(plan), Handle(s) PROVE BudgetInv'
    <2>1. CASE StoreResult(s)
      BY <1>4, <2>1 DEF StoreResult
    <2>2. CASE Pause(s)
      BY <1>5, <2>2 DEF Pause, context
    <2>3. CASE NotConnected(s) \/ GiveUp(s)
      BY <1>5, <2>3, WaysToEnd DEF Ending, context
    <2>4. CASE Recover(s)
      <3>1. /\ task' = [task EXCEPT ![Recovery] = Dispatch(Recovery, Completed)]
            /\ UNCHANGED <<plan, spawned>>
        BY <2>4 DEF Recover
      <3>2. Dispatch(Recovery, Completed).pc \in {"gate", "calling"}
        BY DispatchOffer
      <3>. QED BY <1>1, <1>2, <3>1, <3>2
    <2>. QED BY <1>9, <2>1, <2>2, <2>3, <2>4 DEF Handle
  <1>10. ASSUME NEW s \in DOMAIN task, TaskStep(s) PROVE BudgetInv'
    <2>1. ASSUME NEW pc \in {"ok", "failed", "notConnected"}, Becomes(s, pc), UNCHANGED <<plan, spawned>>
          PROVE  BudgetInv'
      <3>1. /\ DOMAIN task' = DOMAIN task /\ task'[s].pc = pc
            /\ \A t \in DOMAIN task : t # s => task'[t] = task[t]
        BY <1>2, <2>1 DEF Becomes, Task
      <3>. QED BY <1>1, <2>1, <3>1
    <2>2. CASE CallSucceeds(s) \/ CallFails(s) \/ PolicyDenies(s) \/ ChildFails(s)
      BY <2>1, <2>2 DEF CallSucceeds, Succeed, CallFails, PolicyDenies, ChildFails, context
    <2>3. CASE PolicyAllows(s)
      BY <2>3, AllowKeepsBudget
    <2>4. CASE ReasonerAsks(s)
      <3>1. /\ task[s].pc = "calling" /\ MaySpawn(s) /\ UNCHANGED <<plan, spawned>>
            /\ \E asks \in Asks : Propose(s, asks)
        BY <2>4 DEF ReasonerAsks, At, context
      <3>. QED BY <3>1, ProposeKeepsBudget
    <2>5. CASE NextRequest(s) \/ ChildSucceeds(s)
      <3>1. /\ task[s].pc \in {"attesting", "child"} /\ UNCHANGED <<plan, spawned>>
            /\ Propose(s, Tail(task[s].asks))
        BY <2>5 DEF NextRequest, ChildSucceeds, At, context
      <3>2. MaySpawn(s)
        BY <3>1 DEF BudgetInv
      <3>. QED BY <3>1, <3>2, ProposeKeepsBudget
    <2>. QED BY <1>10, <2>2, <2>3, <2>4, <2>5 DEF TaskStep
  <1>. QED BY <1>6, <1>7, <1>8, <1>9, <1>10 DEF Next, ServerStep

\* BudgetInv holds throughout an execution.
THEOREM BudgetInvariance == Spec => []BudgetInv
  <1>1. Init => BudgetInv
    <2>. SUFFICES ASSUME Init PROVE BudgetInv
      OBVIOUS
    <2>1. GateInv
      BY GateInitially
    <2>2. spawned = <<>> /\ \A t \in DOMAIN task : task[t].pc = "idle"
      BY DEF Init, NoTasks, Idle
    <2>3. \A n : SpawnedBy(n) = 0
      <3>1. \A n : {i \in DOMAIN spawned : spawned[i].parent = n} = {}
        BY <2>2
      <3>. QED BY <3>1, FS_EmptySet DEF SpawnedBy
    <2>4. \A n \in Ids(plan) : StepOf(n).limit \in Nat
      BY <2>1, LimitType DEF GateInv
    <2>. QED BY <2>2, <2>3, <2>4 DEF BudgetInv, Waiting, At
  <1>. QED BY <1>1, GateInvariance, LevelInvariance, BudgetInductive, PTL DEF Spec

\* No parent spawns more than its limit, and the plan outgrows its own by at
\* most one step for each further Reasoner of a level (execute_service.py:1095-1104).
THEOREM SpawnsAreBounded == Spec => []SpawnBudget
  <1>1. GateInv /\ BudgetInv => SpawnBudget
    <2>. SUFFICES ASSUME GateInv, BudgetInv, spawned # <<>>
                  PROVE  Total(Len(spawned)) <= PlanLimit + Concurrent - 1
      BY DEF SpawnBudget, BudgetInv
    <2>1. plan \in ResolvablePlans
      BY DEF BudgetInv
    <2>2. Concurrent \in Nat
      BY <2>1, ConcurrentBounds
    <2>3. Cardinality(Waiting) \in Nat
      BY FiniteWaiting DEF GateInv
    <2>4. Total(Len(spawned)) \in Nat /\ PlanLimit \in Nat
      BY ExecutionParameters DEF Total, GateInv, Types
    <2>5. Total(Len(spawned)) + Cardinality(Waiting) <= PlanLimit + Concurrent - 1
      BY DEF BudgetInv
    <2>. QED BY <2>2, <2>3, <2>4, <2>5
  <1>. QED BY <1>1, GateInvariance, BudgetInvariance, PTL

-----------------------------------------------------------------------------
\* What was carried over and what was approved stays so: over the rounds a
\* completed step remains collected.
LEMMA CollectedStays ==
  ASSUME plan' = plan, carried \subseteq carried', granted \subseteq granted', NEW s,
         \/ s \in carried
         \/ \E k \in DOMAIN Levels : s \in ToSet(Levels[k]) /\ HasGranted(Levels[k])
  PROVE  Collected(s)'
  <1>1. Levels' = Levels /\ \A n : StepOf(n)' = StepOf(n)
    BY DEF Levels, StepOf
  <1>. QED BY <1>1 DEF Collected, HasGranted

\* A task leaves the results of the plan's steps alone, and the step that
\* completes in it has none yet (execute_service.py:369-464).
LEMMA TaskStepKeepsReplay ==
  ASSUME GateInv, LevelInv, ReplayInv, NEW s \in DOMAIN task, TaskStep(s)
  PROVE  ReplayInv'
  <1>1. /\ UNCHANGED <<plan, phase, levelNo, todo, carried, granted, asked>>
        /\ DOMAIN task' = DOMAIN task
        /\ \A t \in DOMAIN task : t # s => task'[t] = task[t]
        /\ task[s].pc \in {"calling", "policy", "attesting", "child"}
        /\ task'[s].pc \in {"ok", "failed", "notConnected", "policy", "attesting", "child"}
        /\ \A t \in DOMAIN task : task'[t].offer = task[t].offer
        /\ \A n \in Ids(plan) :
              /\ n \in DOMAIN results' <=> n \in DOMAIN results
              /\ n \in DOMAIN results => results'[n] = results[n]
        /\ \A n \in completed' : n \in completed \/ (n = s /\ s # Recovery /\ task'[s].pc = "ok")
    BY TaskStepShape, TaskStepEffect
  <1>2. Busy /\ Busy' /\ phase # "done" /\ phase' # "done" /\ phase' # "paused"
    BY <1>1 DEF GateInv, TasksInLevel, Busy
  <1>3. UNCHANGED <<Level, Levels>> /\ \A n : StepOf(n)' = StepOf(n)
    BY <1>1 DEF Level, Levels, StepOf
  <1>4. completed \subseteq Ids(plan) /\ DOMAIN task = Ids(plan) \cup {Recovery}
    BY DEF GateInv, Types
  <1>5. ASSUME NEW n \in completed PROVE Collected(n)'
    <2>1. Collected(n)
      BY <1>2, <1>5 DEF ReplayInv
    <2>2. CASE n \in DOMAIN results /\ results[n] = "completed"
      BY <1>1, <1>2, <1>4, <1>5, <2>2 DEF Collected
    <2>3. CASE n \notin DOMAIN results /\ At(n, "ok")
      <3>1. n # s /\ task'[n].pc = "ok" /\ n \notin DOMAIN results'
        BY <1>1, <1>4, <1>5, <2>3 DEF At
      <3>. QED BY <1>2, <3>1 DEF Collected, At
    <2>4. CASE n \in carried \/ \E k \in DOMAIN Levels : n \in ToSet(Levels[k]) /\ HasGranted(Levels[k])
      BY <1>1, <2>4, CollectedStays
    <2>. QED BY <1>1, <1>2, <2>1, <2>2, <2>3, <2>4 DEF Collected
  <1>6. ASSUME s # Recovery, task'[s].pc = "ok" PROVE Collected(s)'
    <2>1. s \in Ids(plan) /\ task[s].pc \notin Ended \cup {"idle"}
      BY <1>1, <1>4, <1>6 DEF Ended
    <2>2. phase = "running" /\ \E i \in todo : s = Level[i]
      BY <2>1 DEF LevelInv, TasksToDo
    <2>3. s \notin DOMAIN results
      BY <1>2, <2>2, AtLevel DEF LevelInv, ResultsByLevel, Open
    <2>. QED BY <1>1, <1>2, <1>6, <2>1, <2>3 DEF Collected, At
  <1>7. \A t \in Ids(plan) : task'[t].pc = "gate" => task[t].pc = "gate"
    BY <1>1, <1>4
  <1>8. ASSUME NEW t \in Ids(plan), task'[t].pc = "gate", NEW n \in Ids(plan) \ ToSet(Level),
               n \in DOMAIN results', results'[n] = "completed"
        PROVE  n \in task'[t].offer
    <2>1. At(t, "gate") /\ n \in DOMAIN results /\ results[n] = "completed"
      BY <1>1, <1>7, <1>8 DEF At
    <2>2. n \in task[t].offer
      BY <1>2, <2>1 DEF ReplayInv
    <2>. QED BY <1>1, <1>4, <2>2
  <1>. QED BY <1>1, <1>3, <1>5, <1>6, <1>8 DEF ReplayInv, At

\* A level begins: the results so far are of the levels before it, and a task
\* that stops at its gate offers all of them (execute_service.py:312-334, 399-404).
LEMMA EnterLevelKeepsReplay ==
  ASSUME GateInv, LevelInv, ReplayInv, EnterLevel
  PROVE  ReplayInv'
  <1>. DEFINE skip == {n \in ToSet(Level) : Skipped(n) \/ Replayed(n)}
              known == SkipResults(Level)
              done == {n \in DOMAIN known : known[n] = "completed"}
              run == {i \in DOMAIN Level : ~Skipped(Level[i]) /\ ~Replayed(Level[i])}
  <1>1. /\ phase = "level" /\ results' = known /\ phase' = "running" /\ levelNo <= Len(Levels)
        /\ task' = [s \in DOMAIN task |-> IF \E i \in run : s = Level[i]
                                            THEN Dispatch(s, done) ELSE Idle]
        /\ UNCHANGED <<plan, levelNo, carried, granted, asked, completed>>
    BY DEF EnterLevel, client
  <1>2. /\ DOMAIN known = DOMAIN results \cup skip /\ skip \subseteq ToSet(Level)
        /\ \A n \in DOMAIN known : n \notin skip => known[n] = results[n]
    BY DEF SkipResults
  <1>3. \A n : n \in DOMAIN known /\ known[n] = "completed" => n \in done
    OBVIOUS
  <1>. HIDE DEF skip, known, done, run
  <1>4. Busy' /\ ~Busy /\ Level' = Level /\ Levels' = Levels
    BY <1>1 DEF Busy, Level, Levels
  <1>5. levelNo \in DOMAIN Levels /\ Level = Levels[levelNo] /\ levelNo \in Nat
    BY <1>1, LevelsOfPlan DEF GateInv, PlanHasLevels, Types, Level
  <1>6. \A n \in DOMAIN results : n \notin ToSet(Level)
    BY <1>1, <1>5 DEF LevelInv, ResultsByLevel
  <1>7. ASSUME NEW n \in completed PROVE Collected(n)'
    <2>1. Collected(n)
      BY <1>1, <1>7 DEF ReplayInv
    <2>2. CASE n \in DOMAIN results /\ results[n] = "completed"
      BY <1>1, <1>2, <1>4, <1>6, <2>2 DEF Collected
    <2>3. CASE n \in carried \/ \E k \in DOMAIN Levels : n \in ToSet(Levels[k]) /\ HasGranted(Levels[k])
      BY <1>1, <2>3, CollectedStays
    <2>. QED BY <1>1, <1>4, <2>1, <2>2, <2>3 DEF Collected
  <1>8. DOMAIN task = Ids(plan) \cup {Recovery}
    BY DEF GateInv, Types
  <1>9. ASSUME NEW t \in Ids(plan), task'[t].pc = "gate" PROVE task'[t].offer = done
    <2>1. Idle.pc # "gate"
      BY DEF Idle
    <2>2. task'[t] = Dispatch(t, done)
      BY <1>1, <1>8, <1>9, <2>1
    <2>. QED BY <1>9, <2>2, DispatchOffer
  <1>. QED BY <1>1, <1>3, <1>4, <1>7, <1>9 DEF ReplayInv, At

\* The loop over the levels (execute_service.py:205-235).
LEMMA RoundStepKeepsReplay ==
  ASSUME GateInv, LevelInv, ReplayInv, RoundStep
  PROVE  ReplayInv'
  <1>1. CASE Ending
    BY <1>1 DEF Ending, ReplayInv, Busy
  <1>2. CASE BeginLevels
    <2>1. /\ phase = "verify" /\ phase' = "level"
          /\ UNCHANGED <<plan, carried, granted, completed>>
      BY <1>2 DEF BeginLevels, client
    <2>2. ASSUME NEW n \in completed PROVE Collected(n)'
      <3>1. Collected(n)
        BY <2>1, <2>2 DEF ReplayInv
      <3>2. n \in carried \/ \E k \in DOMAIN Levels : n \in ToSet(Levels[k]) /\ HasGranted(Levels[k])
        BY <2>1, <3>1 DEF Collected, Busy
      <3>. QED BY <2>1, <3>2, CollectedStays
    <2>. QED BY <2>1, <2>2 DEF ReplayInv, Busy
  <1>3. CASE EnterLevel
    BY <1>3, EnterLevelKeepsReplay
  <1>4. CASE Recovered
    <2>1. /\ phase = "recovering" /\ phase' = "running"
          /\ UNCHANGED <<plan, levelNo, results, carried, granted, asked, completed>>
          /\ task' = [task EXCEPT ![Recovery] = Idle]
      BY <1>4 DEF Recovered, context, client
    <2>2. Busy /\ Busy' /\ Level' = Level
      BY <2>1 DEF Busy, Level, Levels
    <2>3. Recovery \notin Ids(plan) /\ DOMAIN task = Ids(plan) \cup {Recovery} /\ completed \subseteq Ids(plan)
      BY IdsAreNumbers DEF GateInv, Types, Recovery
    <2>4. \A t \in Ids(plan) : task'[t] = task[t]
      BY <2>1, <2>3
    <2>5. ASSUME NEW n \in completed PROVE Collected(n)'
      <3>1. Collected(n)
        BY <2>1, <2>5 DEF ReplayInv
      <3>2. CASE n \in carried \/ \E k \in DOMAIN Levels : n \in ToSet(Levels[k]) /\ HasGranted(Levels[k])
        BY <2>1, <3>2, CollectedStays
      <3>. QED BY <2>1, <2>2, <2>3, <2>4, <2>5, <3>1, <3>2 DEF Collected, At
    <2>. QED BY <2>1, <2>2, <2>4, <2>5 DEF ReplayInv, At
  <1>5. CASE LeaveLevel
    <2>1. /\ phase = "running" /\ phase' = "level" /\ todo = {}
          /\ UNCHANGED <<plan, results, carried, granted, completed>>
      BY <1>5 DEF LeaveLevel, context, client
    <2>2. Busy /\ ~Busy' /\ Open = {}
      BY <2>1 DEF Busy, Open
    <2>3. ASSUME NEW n \in completed PROVE Collected(n)'
      <3>1. Collected(n)
        BY <2>1, <2>3 DEF ReplayInv
      <3>2. CASE n \in carried \/ \E k \in DOMAIN Levels : n \in ToSet(Levels[k]) /\ HasGranted(Levels[k])
        BY <2>1, <3>2, CollectedStays
      <3>3. CASE At(n, "ok")
        <4>1. n \in ToSet(Level)
          BY <2>3, <3>3 DEF GateInv, Types, At, LevelInv, TasksToDo
        <4>2. n \in DOMAIN results
          BY <2>2, <4>1, AtLevel DEF LevelInv, ResultsByLevel
        <4>. QED BY <2>1, <2>2, <3>1, <3>2, <4>2 DEF Collected
      <3>. QED BY <2>1, <2>2, <3>1, <3>2, <3>3 DEF Collected
    <2>. QED BY <2>1, <2>2, <2>3 DEF ReplayInv
  <1>6. CASE Refuse \/ RejectGraph \/ NotRecovered \/ Complete
    BY <1>1, <1>6, WaysToEnd
  <1>. QED BY <1>2, <1>3, <1>4, <1>5, <1>6 DEF RoundStep

\* The handling of an outcome: a pause carries over what the task at the gate
\* offers; the rest of what is known is beside that gate
\* (execute_service.py:328-351, 399-404).
LEMMA HandleKeepsReplay ==
  ASSUME GateInv, LevelInv, ReplayInv, NEW s \in Ids(plan), Handle(s)
  PROVE  ReplayInv'
  <1>1. Handling(s)
    BY DEF Handle, StoreResult, Pause, NotConnected, GiveUp, Recover
  <1>2. /\ Busy /\ phase = "running" /\ s \in ToSet(Level) /\ s \notin DOMAIN results
        /\ \A n \in ToSet(Level) : n \in Ids(plan)
    BY <1>1, HandledStep, AtLevel
  <1>3. /\ DOMAIN task = Ids(plan) \cup {Recovery} /\ Recovery \notin Ids(plan)
        /\ completed \subseteq Ids(plan)
    BY IdsAreNumbers DEF GateInv, Types, Recovery
  <1>4. ASSUME NEW status \in {"completed", "failed"},
               results' = WithResult(s, status), status = "failed" => At(s, "failed"),
               UNCHANGED <<plan, levelNo, carried, granted, asked, completed>>, Busy',
               \A t \in Ids(plan) : task'[t] = task[t]
        PROVE  ReplayInv'
    <2>1. Level' = Level
      BY <1>4 DEF Level, Levels
    <2>2. /\ DOMAIN results' = DOMAIN results \cup {s} /\ results'[s] = status
          /\ \A n \in DOMAIN results : results'[n] = results[n]
      BY <1>2, <1>4 DEF WithResult
    <2>3. ASSUME NEW n \in completed PROVE Collected(n)'
      <3>1. Collected(n)
        BY <1>2, <2>3 DEF ReplayInv
      <3>2. CASE n \in carried \/ \E k \in DOMAIN Levels : n \in ToSet(Levels[k]) /\ HasGranted(Levels[k])
        BY <1>4, <3>2, CollectedStays
      <3>3. CASE n \in DOMAIN results /\ results[n] = "completed"
        BY <1>4, <2>2, <3>3 DEF Collected
      <3>4. CASE n \notin DOMAIN results /\ At(n, "ok")
        <4>1. CASE n = s
          <5>1. status = "completed"
            BY <1>4, <3>4, <4>1 DEF At
          <5>. QED BY <1>4, <2>2, <4>1, <5>1 DEF Collected
        <4>2. CASE n # s
          <5>1. n \notin DOMAIN results' /\ task'[n].pc = "ok"
            BY <1>3, <1>4, <2>2, <2>3, <3>4, <4>2 DEF At
          <5>. QED BY <1>4, <5>1 DEF Collected, At
        <4>. QED BY <4>1, <4>2
      <3>. QED BY <1>2, <3>1, <3>2, <3>3, <3>4 DEF Collected
    <2>4. ASSUME NEW t \in Ids(plan), task'[t].pc = "gate", NEW n \in Ids(plan) \ ToSet(Level),
                 n \in DOMAIN results', results'[n] = "completed"
          PROVE  n \in task'[t].offer
      <3>1. n # s
        BY <1>2
      <3>2. At(t, "gate") /\ n \in DOMAIN results /\ results[n] = "completed"
        BY <1>4, <2>2, <2>4, <3>1 DEF At
      <3>. QED BY <1>2, <1>4, <3>2 DEF ReplayInv
    <2>. QED BY <1>4, <2>1, <2>3, <2>4 DEF ReplayInv, At
  <1>5. CASE StoreResult(s)
    <2>1. /\ UNCHANGED <<plan, phase, levelNo, task, carried, granted, asked, completed>>
          /\ results' = WithResult(s, "completed")
      BY <1>5 DEF StoreResult, client
    <2>2. Busy'
      BY <1>2, <2>1 DEF Busy
    <2>. QED BY <1>4, <2>1, <2>2
  <1>6. CASE Pause(s)
    <2>1. /\ phase' = "paused" /\ asked'.gate = StepOf(s).gate /\ At(s, "gate")
          /\ carried' = carried \cup task[s].offer
          /\ UNCHANGED <<plan, levelNo, granted, completed>>
      BY <1>6 DEF Pause
    <2>2. Level' = Level /\ StepOf(s)' = StepOf(s) /\ ~Busy'
      BY <2>1 DEF Level, Levels, StepOf, Busy
    <2>3. ASSUME NEW n \in completed PROVE Collected(n)'
      <3>1. Collected(n) /\ n \in Ids(plan)
        BY <1>2, <1>3, <2>3 DEF ReplayInv
      <3>2. CASE n \in carried \/ \E k \in DOMAIN Levels : n \in ToSet(Levels[k]) /\ HasGranted(Levels[k])
        BY <2>1, <3>2, CollectedStays
      <3>3. CASE n \in ToSet(Level)
        BY <1>2, <2>1, <2>2, <3>3 DEF Collected
      <3>4. CASE n \notin ToSet(Level) /\ n \in DOMAIN results /\ results[n] = "completed"
        <4>1. n \in task[s].offer
          BY <1>2, <2>1, <3>1, <3>4 DEF ReplayInv
        <4>. QED BY <2>1, <4>1 DEF Collected
      <3>5. CASE At(n, "ok")
        <4>1. n \in ToSet(Level)
          BY <3>1, <3>5 DEF At, LevelInv, TasksToDo
        <4>. QED BY <3>3, <4>1
      <3>. QED BY <1>2, <3>1, <3>2, <3>3, <3>4, <3>5 DEF Collected
    <2>. QED BY <2>1, <2>2, <2>3 DEF ReplayInv
  <1>7. CASE NotConnected(s) \/ GiveUp(s)
    BY <1>7, WaysToEnd DEF Ending, ReplayInv, Busy
  <1>8. CASE Recover(s)
    <2>1. /\ UNCHANGED <<plan, levelNo, carried, granted, asked, completed>>
          /\ phase' = "recovering" /\ results' = WithResult(s, "failed") /\ At(s, "failed")
          /\ task' = [task EXCEPT ![Recovery] = Dispatch(Recovery, Completed)]
      BY <1>8 DEF Recover, client
    <2>2. Busy' /\ \A t \in Ids(plan) : task'[t] = task[t]
      BY <1>3, <2>1 DEF Busy
    <2>. QED BY <1>4, <2>1, <2>2
  <1>. QED BY <1>5, <1>6, <1>7, <1>8 DEF Handle

\* ReplayInv is inductive beside GateInv and LevelInv.
LEMMA ReplayInductive ==
  GateInv /\ LevelInv /\ ReplayInv /\ [Next]_vars => ReplayInv'
  <1>. SUFFICES ASSUME GateInv, LevelInv, ReplayInv, [Next]_vars PROVE ReplayInv'
    OBVIOUS
  <1>1. CASE Submit
    <2>1. /\ phase = "new" /\ phase' = "verify"
          /\ UNCHANGED <<plan, carried, granted, completed>>
      BY <1>1 DEF Submit, client
    <2>2. ASSUME NEW n \in completed PROVE Collected(n)'
      <3>1. n \in carried \/ \E k \in DOMAIN Levels : n \in ToSet(Levels[k]) /\ HasGranted(Levels[k])
        BY <2>1, <2>2 DEF ReplayInv, Collected, Busy
      <3>. QED BY <2>1, <3>1, CollectedStays
    <2>. QED BY <2>1, <2>2 DEF ReplayInv, Busy
  <1>2. CASE Approve
    <2>1. /\ phase = "paused" /\ phase' = "verify" /\ granted' = granted \cup {asked.gate}
          /\ UNCHANGED <<plan, carried, completed>>
      BY <1>2 DEF Approve
    <2>2. ~Busy /\ ~Busy' /\ Levels' = Levels /\ \A n : StepOf(n)' = StepOf(n)
      BY <2>1 DEF Busy, Levels, StepOf
    <2>3. levelNo \in DOMAIN Levels
      BY <2>1 DEF LevelInv, InLevels
    <2>4. ASSUME NEW n \in completed PROVE Collected(n)'
      <3>1. Collected(n)
        BY <2>1, <2>4 DEF ReplayInv
      <3>2. CASE n \in carried \/ \E k \in DOMAIN Levels : n \in ToSet(Levels[k]) /\ HasGranted(Levels[k])
        BY <2>1, <3>2, CollectedStays
      <3>3. CASE n \in ToSet(Level) /\ \E t \in ToSet(Level) : StepOf(t).gate = asked.gate
        BY <2>1, <2>2, <2>3, <3>3 DEF Collected, HasGranted, Level
      <3>. QED BY <2>1, <2>2, <3>1, <3>2, <3>3 DEF Collected
    <2>. QED BY <2>1, <2>2, <2>4 DEF ReplayInv
  <1>3. CASE Cancel
    BY <1>3 DEF Cancel, ReplayInv, Busy
  <1>4. CASE RoundStep
    BY <1>4, RoundStepKeepsReplay
  <1>5. ASSUME NEW s \in Ids(plan), Handle(s) PROVE ReplayInv'
    BY <1>5, HandleKeepsReplay
  <1>6. ASSUME NEW s \in DOMAIN task, TaskStep(s) PROVE ReplayInv'
    BY <1>6, TaskStepKeepsReplay
  <1>7. CASE UNCHANGED vars
    BY <1>7 DEF vars, context, client, ReplayInv, Collected, HasGranted, Busy, Level, Levels,
                StepOf, At
  <1>. QED BY <1>1, <1>2, <1>3, <1>4, <1>5, <1>6, <1>7 DEF Next, ServerStep

\* ReplayInv holds throughout an execution.
THEOREM ReplayInvariance == Spec => []ReplayInv
  <1>1. Init => ReplayInv
    BY DEF Init, ReplayInv, Busy
  <1>. QED BY <1>1, GateInvariance, LevelInvariance, ReplayInductive, PTL DEF Spec

\* A completed step runs again only if it was not carried over and its level
\* held a gate that was approved since (execute_service.py:353-362, 399-404).
THEOREM OthersRunOnce == Spec => OnlySiblingsRepeat
  <1>. DEFINE Again(s) == task[s].pc = "idle" /\ task'[s].pc # "idle"
              Beside(s) == /\ s \notin carried
                           /\ \E t \in ToSet(Levels[levelNo]) : StepOf(t).gate \in granted
  <1>1. GateInv /\ LevelInv /\ ReplayInv /\ [Next]_vars => \A s \in completed : Again(s) => Beside(s)
    <2>. SUFFICES ASSUME GateInv, LevelInv, ReplayInv, [Next]_vars,
                         NEW s \in completed, Again(s)
                  PROVE  Beside(s)
      OBVIOUS
    <2>1. /\ DOMAIN task = Ids(plan) \cup {Recovery} /\ Recovery \notin Ids(plan)
          /\ s \in Ids(plan) /\ s \in DOMAIN task /\ s # Recovery
      BY IdsAreNumbers DEF GateInv, Types, Recovery
    <2>2. task' # task /\ task' # NoTasks
      BY <2>1 DEF NoTasks, Idle
    <2>3. \A t \in DOMAIN task : ~TaskStep(t)
      BY <2>1, TaskStepShape
    <2>4. \A t \in Ids(plan) : ~Handle(t)
      <3>. SUFFICES ASSUME NEW t \in Ids(plan), Handle(t) PROVE FALSE
        OBVIOUS
      <3>1. CASE StoreResult(t) \/ Pause(t)
        BY <2>2, <3>1 DEF StoreResult, Pause
      <3>2. CASE NotConnected(t) \/ GiveUp(t)
        BY <2>2, <3>2, WaysToEnd DEF Ending
      <3>3. CASE Recover(t)
        BY <2>1, <3>3 DEF Recover
      <3>. QED BY <3>1, <3>2, <3>3 DEF Handle
    <2>5. ~(Submit \/ Approve \/ Cancel \/ UNCHANGED vars)
      BY <2>2 DEF Submit, Approve, Cancel, vars
    <2>6. ~(Refuse \/ RejectGraph \/ NotRecovered \/ Complete)
      BY <2>2, WaysToEnd DEF Ending
    <2>7. ~(BeginLevels \/ Recovered \/ LeaveLevel)
      BY <2>1, <2>2 DEF BeginLevels, Recovered, LeaveLevel
    <2>8. EnterLevel
      BY <2>3, <2>4, <2>5, <2>6, <2>7 DEF Next, ServerStep, RoundStep
    <2>9. /\ phase = "level" /\ plan \in ResolvablePlans /\ levelNo \in DOMAIN Levels
          /\ Level = Levels[levelNo] /\ ~Busy
      BY <2>8, LevelsOfPlan DEF EnterLevel, GateInv, PlanHasLevels, Types, Level, Busy
    <2>10. \E i \in DOMAIN Level : s = Level[i] /\ ~Replayed(s) /\ ~Skipped(s)
      <3>. DEFINE known == SkipResults(Level)
                  done == {n \in DOMAIN known : known[n] = "completed"}
                  run == {i \in DOMAIN Level : ~Skipped(Level[i]) /\ ~Replayed(Level[i])}
      <3>1. task' = [t \in DOMAIN task |-> IF \E i \in run : t = Level[i]
                                             THEN Dispatch(t, done) ELSE Idle]
        BY <2>8 DEF EnterLevel
      <3>2. \A i \in run : i \in DOMAIN Level /\ ~Skipped(Level[i]) /\ ~Replayed(Level[i])
        OBVIOUS
      <3>. HIDE DEF known, done, run
      <3>3. \E i \in run : s = Level[i]
        BY <2>1, <3>1 DEF Idle
      <3>. QED BY <3>2, <3>3
    <2>11. s \notin carried /\ s \in ToSet(Level)
      BY <2>9, <2>10, LevelsApart DEF Replayed
    <2>12. s \notin DOMAIN results
      BY <2>9, <2>11 DEF LevelInv, ResultsByLevel, GateInv, Types
    <2>13. Collected(s)
      BY <2>9 DEF ReplayInv
    <2>14. PICK k \in DOMAIN Levels : s \in ToSet(Levels[k]) /\ HasGranted(Levels[k])
      BY <2>9, <2>11, <2>12, <2>13 DEF Collected
    <2>15. k = levelNo
      BY <2>9, <2>11, <2>14, LevelsApart
    <2>. QED BY <2>11, <2>14, <2>15 DEF HasGranted
  <1>2. GateInv /\ LevelInv /\ ReplayInv /\ [Next]_vars
          => [\A s \in completed :
                (task[s].pc = "idle" /\ task'[s].pc # "idle") =>
                   /\ s \notin carried
                   /\ \E t \in ToSet(Levels[levelNo]) : StepOf(t).gate \in granted]_vars
    BY <1>1
  <1>. HIDE DEF Again, Beside
  <1>. QED BY <1>2, GateInvariance, LevelInvariance, ReplayInvariance, PTL DEF Spec, OnlySiblingsRepeat

-----------------------------------------------------------------------------
(* Scan *)

\* A scan as ScanParameters has it, at any stage and with any answer.
ScanTypes ==
    /\ DOMAIN scan = DOMAIN Scans /\ DOMAIN stripped = DOMAIN Scans
    /\ DOMAIN verdicts \subseteq DOMAIN Scans
    /\ \A s \in DOMAIN Scans :
        /\ DOMAIN scan[s] = {"payload", "fits", "bearing", "strict", "stage", "judged"}
        /\ scan[s].judged \in DOMAIN Paranoia \cup {"none", "unreachable"}

\* ScanIsConservative of one scan.
Conserved(s) ==
    LET c == scan[s]
        heard == {aggregate(c.payload)} \cup ({c.judged} \ {"none", "unreachable"})
        grave == {hit[1] : hit \in Hits(c.payload, {"med", "high"})}
    IN  /\ s \in DOMAIN verdicts <=> c.stage = "scanned"
        /\ s \in DOMAIN verdicts =>
             /\ \A v \in heard : Paranoia[v] <= Paranoia[verdicts[s]]
             /\ "injection" \in heard \/ (c.strict /\ "suspicious" \in heard)
                   => grave \subseteq stripped[s]
             /\ stripped[s] \cap c.bearing = {}
             /\ c.judged = "unreachable" => degraded

ScanInv == ScanTypes /\ \A s \in DOMAIN Scans : Conserved(s)

\* The patterns or the judge found so much that the fields with a grave match go.
Grave(s, judged) ==
    \/ "injection" \in {aggregate(scan[s].payload), judged}
    \/ scan[s].strict /\ "suspicious" \in {aggregate(scan[s].payload), judged}

\* A scan is at its next stage, with an answer, and otherwise as it was.
Stands(s, at, judged) ==
    /\ DOMAIN scan'[s] = DOMAIN scan[s]
    /\ scan'[s].stage = at /\ scan'[s].judged = judged
    /\ scan'[s].payload = scan[s].payload /\ scan'[s].strict = scan[s].strict
    /\ scan'[s].bearing = scan[s].bearing

\* Ending a scan moves that scan only.
LEMMA EndsOne ==
  ASSUME ScanInv, NEW s \in DOMAIN Scans, NEW at, NEW judged, ScanEnds(s, at, judged)
  PROVE  /\ DOMAIN scan' = DOMAIN scan
         /\ \A t \in DOMAIN Scans : t # s => scan'[t] = scan[t]
         /\ Stands(s, at, judged)
  <1>1. /\ DOMAIN scan = DOMAIN Scans
        /\ DOMAIN scan[s] = {"payload", "fits", "bearing", "strict", "stage", "judged"}
    BY DEF ScanInv, ScanTypes
  <1>2. scan' = [scan EXCEPT ![s] = [scan[s] EXCEPT !.stage = at, !.judged = judged]]
    BY <1>1 DEF ScanEnds
  <1>. QED BY <1>1, <1>2 DEF Stands

\* The patterns alone give a verdict, and without a hit it is "clean".
LEMMA Aggregated ==
  ASSUME NEW payload
  PROVE  /\ aggregate(payload) \in {"clean", "suspicious", "injection"}
         /\ Hits(payload, {"low", "med", "high"}) = {} =>
               aggregate(payload) = "clean" /\ Hits(payload, {"med", "high"}) = {}
  <1>1. aggregate(payload) \in {"clean", "suspicious", "injection"}
    BY DEF aggregate
  <1>2. ASSUME Hits(payload, {"low", "med", "high"}) = {}
        PROVE  /\ Hits(payload, {"med"}) = {} /\ Hits(payload, {"high"}) = {}
               /\ Hits(payload, {"med", "high"}) = {}
    BY <1>2 DEF Hits
  <1>3. Cardinality({}) = 0
    BY FS_EmptySet
  <1>. QED BY <1>1, <1>2, <1>3 DEF aggregate

\* The combined verdict is as severe as what was heard (filter_service.py).
LEMMA CombinedIsSevere ==
  ASSUME NEW payload, NEW judged \in DOMAIN Paranoia \cup {"unreachable"},
         NEW v \in {aggregate(payload)} \cup ({judged} \ {"none", "unreachable"})
  PROVE  /\ _combine_verdicts(payload, judged) \in DOMAIN Paranoia
         /\ Paranoia[v] <= Paranoia[_combine_verdicts(payload, judged)]
  <1>1. aggregate(payload) \in {"clean", "suspicious", "injection"}
    BY Aggregated
  <1>2. DOMAIN Paranoia = {"clean", "suspicious", "injection"}
    BY DEF Paranoia
  <1>3. Paranoia["clean"] = 0 /\ Paranoia["suspicious"] = 1 /\ Paranoia["injection"] = 2
    BY DEF Paranoia
  <1>. HIDE DEF Paranoia
  <1>. QED BY <1>1, <1>2, <1>3 DEF _combine_verdicts, Paranoid

\* A step of one scan leaves what holds of the others.
LEMMA OthersStayConserved ==
  ASSUME ScanInv, NEW s \in DOMAIN Scans, NEW t \in DOMAIN Scans, t # s,
         scan'[t] = scan[t], stripped'[t] = stripped[t],
         t \in DOMAIN verdicts' <=> t \in DOMAIN verdicts,
         t \in DOMAIN verdicts => verdicts'[t] = verdicts[t],
         degraded => degraded'
  PROVE  Conserved(t)'
  BY DEF ScanInv, Conserved

\* A scan that ends in another way than with a verdict.
LEMMA ConservedWithoutVerdict ==
  ASSUME ScanInv, NEW s \in DOMAIN Scans, NEW at, NEW judged, at # "scanned",
         judged \in DOMAIN Paranoia \cup {"none", "unreachable"},
         scan[s].stage # "scanned",
         ScanEnds(s, at, judged), UNCHANGED <<stripped, verdicts, degraded>>
  PROVE  ScanInv'
  <1>1. /\ DOMAIN scan' = DOMAIN scan
        /\ \A t \in DOMAIN Scans : t # s => scan'[t] = scan[t]
        /\ Stands(s, at, judged)
    BY EndsOne
  <1>2. ScanTypes'
    BY <1>1 DEF ScanInv, ScanTypes, Stands
  <1>3. s \notin DOMAIN verdicts'
    BY DEF ScanInv, Conserved
  <1>4. Conserved(s)'
    BY <1>1, <1>3 DEF Conserved, Stands
  <1>5. \A t \in DOMAIN Scans : t # s => Conserved(t)'
    BY <1>1, OthersStayConserved
  <1>. QED BY <1>2, <1>4, <1>5 DEF ScanInv

\* A scan that ends with a verdict, which is all that has to be shown of it.
LEMMA ConservedWithVerdict ==
  ASSUME ScanInv, NEW s \in DOMAIN Scans, NEW fields, NEW verdict, NEW judged,
         judged \in DOMAIN Paranoia \cup {"none", "unreachable"},
         _build_payload(s, fields, verdict, judged),
         \A v \in {aggregate(scan[s].payload)} \cup ({judged} \ {"none", "unreachable"}) :
             Paranoia[v] <= Paranoia[verdict],
         Grave(s, judged) =>
             {hit[1] : hit \in Hits(scan[s].payload, {"med", "high"})} \subseteq fields,
         fields \cap scan[s].bearing = {}
  PROVE  ScanInv'
  <1>1. /\ DOMAIN scan' = DOMAIN scan
        /\ \A t \in DOMAIN Scans : t # s => scan'[t] = scan[t]
        /\ Stands(s, "scanned", judged)
    BY EndsOne DEF _build_payload
  <1>2. /\ DOMAIN stripped' = DOMAIN stripped /\ stripped'[s] = fields
        /\ \A t \in DOMAIN Scans : t # s => stripped'[t] = stripped[t]
    BY DEF _build_payload, ScanInv, ScanTypes
  <1>3. /\ DOMAIN verdicts' = DOMAIN verdicts \cup {s} /\ verdicts'[s] = verdict
        /\ \A t \in DOMAIN verdicts : t # s => verdicts'[t] = verdicts[t]
    BY DEF _build_payload
  <1>4. degraded' = (degraded \/ judged = "unreachable")
    BY DEF _build_payload
  <1>5. ScanTypes'
    BY <1>1, <1>2, <1>3 DEF ScanInv, ScanTypes, Stands
  <1>6. Conserved(s)'
    <2>1. aggregate(scan'[s].payload) = aggregate(scan[s].payload)
          /\ Hits(scan'[s].payload, {"med", "high"}) = Hits(scan[s].payload, {"med", "high"})
      BY <1>1 DEF Stands
    <2>. QED BY <2>1, <1>1, <1>2, <1>3, <1>4 DEF Conserved, Stands, Grave
  <1>7. \A t \in DOMAIN Scans : t # s => Conserved(t)'
    BY <1>1, <1>2, <1>3, <1>4, OthersStayConserved
  <1>. QED BY <1>5, <1>6, <1>7 DEF ScanInv

\* No scan has begun (FilterService.scan).
LEMMA ScanBegins == ScanInit => ScanInv
  <1> SUFFICES ASSUME ScanInit PROVE ScanInv
    OBVIOUS
  <1>1. \A s \in DOMAIN Scans :
          /\ DOMAIN scan[s] = {"payload", "fits", "bearing", "strict", "stage", "judged"}
          /\ scan[s].stage = "start" /\ scan[s].judged = "none"
    BY ScanParameters DEF ScanParameters, ScanInit
  <1>2. ASSUME NEW s \in DOMAIN Scans
        PROVE  scan[s].stage = "start" /\ scan[s].judged = "none"
    BY <1>1
  <1>3. ScanTypes
    BY <1>1, <1>2 DEF ScanInit, ScanTypes
  <1>4. DOMAIN verdicts = {}
    BY DEF ScanInit
  <1>5. \A s \in DOMAIN Scans : Conserved(s)
    BY <1>2, <1>4 DEF Conserved
  <1>. QED BY <1>3, <1>5 DEF ScanInv

\* Each step of a scan keeps the invariant.
LEMMA ScanStep == ScanInv /\ [ScanNext]_scanVars => ScanInv'
  <1> SUFFICES ASSUME ScanInv, [ScanNext]_scanVars PROVE ScanInv'
    OBVIOUS
  <1>1. ASSUME NEW s \in DOMAIN Scans, _run_s1(s) PROVE ScanInv'
    <2>. DEFINE hit == Hits(scan[s].payload, {"low", "med", "high"}) # {}
    <2>1. scan[s].stage # "scanned"
      BY <1>1 DEF _run_s1
    <2>2. CASE Errs(s, "none")
      BY <2>1, <2>2, ConservedWithoutVerdict DEF Errs
    <2>3. CASE ~hit /\ _build_payload(s, {}, "clean", "none")
      <3>1. /\ aggregate(scan[s].payload) = "clean"
            /\ {h[1] : h \in Hits(scan[s].payload, {"med", "high"})} = {}
        BY <2>3, Aggregated
      <3>2. Paranoia["clean"] <= Paranoia["clean"]
        BY DEF Paranoia
      <3>3. ~Grave(s, "none") \/ {h[1] : h \in Hits(scan[s].payload, {"med", "high"})} = {}
        BY <3>1
      <3>. QED BY <2>3, <3>1, <3>2, <3>3, ConservedWithVerdict
    <2>4. CASE ScanEnds(s, "judge", "none") /\ UNCHANGED <<stripped, verdicts, degraded>>
      BY <2>1, <2>4, ConservedWithoutVerdict
    <2>. QED BY <1>1, <2>2, <2>3, <2>4 DEF _run_s1
  <1>2. ASSUME NEW s \in DOMAIN Scans, _run_s2(s) PROVE ScanInv'
    <2>1. PICK judged \in DOMAIN Paranoia \cup {"unreachable"} :
            LET c == scan[s]
                verdict == _combine_verdicts(c.payload, judged)
                fields == _select_fields_to_strip(c, verdict)
            IN  /\ c.stage = "judge"
                /\ IF fields \cap c.bearing # {} THEN Errs(s, judged)
                   ELSE _build_payload(s, fields, verdict, judged)
      BY <1>2 DEF _run_s2
    <2>. DEFINE pattern == aggregate(scan[s].payload)
                verdict == _combine_verdicts(scan[s].payload, judged)
                fields == _select_fields_to_strip(scan[s], verdict)
                grave == {h[1] : h \in Hits(scan[s].payload, {"med", "high"})}
    <2>2. CASE Errs(s, judged)
      BY <2>1, <2>2, ConservedWithoutVerdict DEF Errs
    <2>3. CASE fields \cap scan[s].bearing = {} /\ _build_payload(s, fields, verdict, judged)
      <3>1. \A v \in {pattern} \cup ({judged} \ {"none", "unreachable"}) :
              Paranoia[v] <= Paranoia[verdict]
        BY CombinedIsSevere
      <3>2. pattern \in {"clean", "suspicious", "injection"}
        BY Aggregated
      <3>3. /\ "injection" \in {pattern, judged} => verdict = "injection"
            /\ "suspicious" \in {pattern, judged} => verdict \in {"suspicious", "injection"}
        BY <3>2 DEF _combine_verdicts, Paranoid, Paranoia
      <3>4. Grave(s, judged) => grave \subseteq fields
        BY <3>3 DEF _select_fields_to_strip, Grave
      <3>. QED BY <2>3, <3>1, <3>4, ConservedWithVerdict
    <2>. QED BY <2>1, <2>2, <2>3
  <1>3. ASSUME NEW s \in DOMAIN Scans, JudgeRaises(s) PROVE ScanInv'
    BY <1>3, ConservedWithoutVerdict DEF JudgeRaises
  <1>4. CASE UNCHANGED scanVars
    BY <1>4 DEF scanVars, ScanInv, ScanTypes, Conserved
  <1>. QED BY <1>1, <1>2, <1>3, <1>4 DEF ScanNext

\* Every scan keeps what holds of it while others of its level end
\* (filter_service.py:169-388).
THEOREM ScanInvariance == ScanSpec => []ScanInv
  BY ScanBegins, ScanStep, PTL DEF ScanSpec

\* The verdict kept for a step is as severe as the patterns and the judge had it,
\* grave fields are stripped where it counts, load-bearing ones never, and the
\* plan knows of a scan without a judge (filter_service.py:285-350).
THEOREM ScansAreConservative == ScanSpec => []ScanIsConservative
  <1>1. ScanInv => ScanIsConservative
    BY DEF ScanInv, Conserved, ScanIsConservative
  <1>. QED BY <1>1, ScanInvariance, PTL

-----------------------------------------------------------------------------
(* SpawnPolicy *)

\* Every rule an administrator has not named was learned from an approval.
LearnedByApproval == DOMAIN policies \subseteq Named \cup approved

\* What the plan's id stands for is among what it stood for; who looks further
\* has seen it stand for nothing; and the rule that was found is the plan's or
\* was learned.
LookupsAreSeen ==
    /\ stage \in {"reference", "learned", "found", "user"} =>
          get_policy(policies, ask.ref) \in during
    /\ stage \in {"learned", "user"} => NoRule \in during
    /\ stage = "found" =>
          /\ rule # NoRule
          /\ \/ rule \in during
             \/ NoRule \in during /\ <<ask.role, ask.uses>> \in approved
    /\ ask \in Requests

SpawnInv == LearnedByApproval /\ LookupsAreSeen /\ RuleGoesFirst

\* No rule is stored and nothing is asked.
LEMMA SpawnBegins == PolicyInit => SpawnInv
  BY DEF PolicyInit, SpawnInv, LearnedByApproval, LookupsAreSeen, RuleGoesFirst

\* Rules that change only add to what the plan's id stood for.
LEMMA StoringIsSeen ==
  ASSUME SpawnInv, NEW id, NEW r, create_policy(id, r), id \in Named \cup approved',
         approved \subseteq approved'
  PROVE  SpawnInv'
  <1>1. LearnedByApproval'
    BY DEF SpawnInv, LearnedByApproval, create_policy
  <1>2. /\ during \subseteq during' /\ UNCHANGED <<ask, stage, rule, decision>>
        /\ stage \in {"idle", "done"} => during' = during
        /\ stage \notin {"idle", "done"} => get_policy(policies', ask.ref) \in during'
    BY DEF create_policy, evaluation
  <1>3. LookupsAreSeen'
    BY <1>2 DEF SpawnInv, LookupsAreSeen, get_policy
  <1>4. RuleGoesFirst'
    BY <1>2 DEF SpawnInv, RuleGoesFirst, RuleAdmits
  <1>. QED BY <1>1, <1>3, <1>4 DEF SpawnInv

\* Each lookup, decision and change of the rules keeps the invariant.
LEMMA SpawnStep == SpawnInv /\ [PolicyNext]_policyVars => SpawnInv'
  <1> SUFFICES ASSUME SpawnInv, [PolicyNext]_policyVars PROVE SpawnInv'
    OBVIOUS
  <1>1. CASE evaluate_spawn
    <2>1. LearnedByApproval'
      BY <1>1 DEF evaluate_spawn, SpawnInv, LearnedByApproval
    <2>2. LookupsAreSeen'
      BY <1>1 DEF evaluate_spawn, LookupsAreSeen, get_policy
    <2>3. RuleGoesFirst'
      BY <1>1 DEF evaluate_spawn, RuleGoesFirst
    <2>. QED BY <2>1, <2>2, <2>3 DEF SpawnInv
  <1>2. CASE ByReference
    <2>1. LearnedByApproval'
      BY <1>2 DEF ByReference, Looks, SpawnInv, LearnedByApproval
    <2>2. LookupsAreSeen'
      <3>1. get_policy(policies, ask.ref) \in during
        BY <1>2 DEF ByReference, SpawnInv, LookupsAreSeen
      <3>. QED BY <1>2, <3>1 DEF ByReference, Looks, SpawnInv, LookupsAreSeen, get_policy
    <2>3. RuleGoesFirst'
      BY <1>2 DEF ByReference, Looks, RuleGoesFirst
    <2>. QED BY <2>1, <2>2, <2>3 DEF SpawnInv
  <1>3. CASE _resolve_learned_policy
    <2>. DEFINE learned == <<ask.role, ask.uses>>
    <2>1. LearnedByApproval'
      BY <1>3 DEF _resolve_learned_policy, Looks, SpawnInv, LearnedByApproval
    <2>2. get_policy(policies, learned) # NoRule => learned \in approved
      <3>1. learned \in Learnable
        BY DEF SpawnInv, LookupsAreSeen, Learnable
      <3>2. learned \notin Named
        BY <3>1, SpawnParameters DEF SpawnParameters
      <3>. QED BY <3>2 DEF get_policy, SpawnInv, LearnedByApproval
    <2>3. NoRule \in during /\ get_policy(policies, ask.ref) \in during
      BY <1>3 DEF _resolve_learned_policy, SpawnInv, LookupsAreSeen
    <2>4. LookupsAreSeen'
      BY <1>3, <2>2, <2>3 DEF _resolve_learned_policy, Looks, SpawnInv, LookupsAreSeen, get_policy
    <2>5. RuleGoesFirst'
      BY <1>3 DEF _resolve_learned_policy, Looks, RuleGoesFirst
    <2>. QED BY <2>1, <2>4, <2>5 DEF SpawnInv
  <1>4. CASE Decided
    <2>1. LearnedByApproval'
      BY <1>4 DEF Decided, SpawnInv, LearnedByApproval
    <2>2. LookupsAreSeen'
      BY <1>4 DEF Decided, SpawnInv, LookupsAreSeen
    <2>3. CASE stage = "user"
      <3>1. NoRule \in during /\ decision' = "approval"
        BY <1>4, <2>3 DEF Decided, SpawnInv, LookupsAreSeen
      <3>2. RuleGoesFirst'
        BY <1>4, <3>1 DEF Decided, RuleGoesFirst
      <3>. QED BY <2>1, <2>2, <3>2 DEF SpawnInv
    <2>4. CASE stage = "found"
      <3>1. /\ rule # NoRule
            /\ \/ rule \in during
               \/ NoRule \in during /\ <<ask.role, ask.uses>> \in approved
        BY <2>4 DEF SpawnInv, LookupsAreSeen
      <3>2. decision' = "allowed" => RuleAdmits(rule, ask) /\ ~rule.approval /\ ask.role # "Booker"
        BY <1>4, <2>4 DEF Decided
      <3>3. ~RuleAdmits(rule, ask) => decision' = "denied"
        BY <1>4, <2>4 DEF Decided
      <3>4. UNCHANGED <<ask, during, approved>>
        BY <1>4 DEF Decided
      <3>5. RuleAdmits(rule, ask) => ~ask.can_spawn
        BY DEF RuleAdmits
      <3>6. RuleGoesFirst'
        BY <3>1, <3>2, <3>3, <3>4, <3>5 DEF RuleGoesFirst, RuleAdmits
      <3>. QED BY <2>1, <2>2, <3>6 DEF SpawnInv
    <2>. QED BY <1>4, <2>3, <2>4 DEF Decided
  <1>5. CASE AdministratorStores
    BY <1>5, StoringIsSeen DEF AdministratorStores
  <1>6. CASE learn_from_approval
    <2>. PICK a \in Requests :
            /\ approved' = approved \cup {<<a.role, a.uses>>}
            /\ \/ create_policy(<<a.role, a.uses>>,
                     [tools |-> {a.uses}, roles |-> {a.role}, approval |-> FALSE,
                      max |-> 3, forbidden |-> {}])
               \/ UNCHANGED <<policies, during, evaluation>>
      BY <1>6 DEF learn_from_approval
    <2>1. CASE UNCHANGED <<policies, during, evaluation>>
      BY <2>1 DEF evaluation, SpawnInv, LearnedByApproval, LookupsAreSeen, RuleGoesFirst,
                  get_policy, RuleAdmits
    <2>2. CASE create_policy(<<a.role, a.uses>>,
                 [tools |-> {a.uses}, roles |-> {a.role}, approval |-> FALSE,
                  max |-> 3, forbidden |-> {}])
      BY <2>2, StoringIsSeen
    <2>. QED BY <2>1, <2>2
  <1>7. CASE UNCHANGED policyVars
    BY <1>7 DEF policyVars, SpawnInv, LearnedByApproval, LookupsAreSeen, RuleGoesFirst,
                get_policy, RuleAdmits
  <1>. QED BY <1>1, <1>2, <1>3, <1>4, <1>5, <1>6, <1>7 DEF PolicyNext

\* What the lookups found is what the plan's id stood for, or was learned
\* (PolicyService.evaluate_spawn).
THEOREM SpawnInvariance == PolicySpec => []SpawnInv
  BY SpawnBegins, SpawnStep, PTL DEF PolicySpec

\* A step is added unseen only by a rule of the plan or by an approval of its
\* role and tool, and where the plan's rule is there all the time it decides,
\* however rules are stored and learned meanwhile (policy_service.py:79-85).
THEOREM TheRuleGoesFirst == PolicySpec => []RuleGoesFirst
  BY SpawnInvariance, PTL DEF SpawnInv
=============================================================================
