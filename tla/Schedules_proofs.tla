-------------------------- MODULE Schedules_proofs --------------------------
(***************************************************************************)
(* Proofs about Schedules, for any number of requests, executions and      *)
(* failures, and any limits: after the user has said no at most one        *)
(* execution begins, no more executions than the limit but for those the   *)
(* limit does not stand for, and no active schedule without a job.         *)
(***************************************************************************)
EXTENDS Schedules, TLAPS

Row == [status : Status \cup {"absent"}, kind : Kind, config : Config, limit : Nat, runs : Nat]
Run == [pc : RunPc, kind : Kind]
Word == {"active", "paused", "cancelled"}
Req == [pc     : {"idle", "creating", "writing", "rereading", "registering"},
        write  : Word \cup {"none"},
        limit  : Nat \cup {NotGiven},
        edit   : Config \cup {"none"},
        config : Config]

TypeOK ==
    /\ row \in Row
    /\ job \in BOOLEAN
    /\ trigger \in {"future", "now", "past"}
    /\ run \in Run
    /\ req \in [Client -> Req]
    /\ wish \in Word \cup {"none", "deleted"}
    /\ since \in Nat /\ started \in Nat /\ excused \in Nat /\ unrecorded \in {0, 1}
    /\ requests \in Nat /\ faults \in Nat
    /\ unjobbed \subseteq {"database", "gate", "trigger"}

\* A row that says "active" says what its user has asked for last.
ActiveIsWished == row.status = "active" => wish = "active"

\* Whoever has taken the job of an active schedule away registers it again, has
\* said that it was cut off, or has left after the time of the schedule.
JobIsCaredFor ==
    row.status = "active" =>
        \/ job
        \/ trigger = "past"
        \/ unjobbed # {}
        \/ row.kind = "once" /\ trigger = "now"
        \/ \E c \in Client : req[c].pc # "idle"

\* A run that has read the status and not begun its execution.
Ready == {"planning", "approving"}

\* Where no execution is under way that was not recorded yet.
Settled == Ready \cup {"idle", "loading", "unserved", "renewing", "pausing", "dropping"}

\* Since the user has said no, nothing has begun if a run is ready now.
ReadyIsFirst == run.pc \in Ready /\ wish # "active" => since = 0

\* The numbers of executions the schedule is limited to.
Caps == (IF row.kind = "once" THEN {1} ELSE {}) \cup ({row.limit} \ {0})

\* Every execution is recorded, excused or under way; an active schedule has
\* one more to go, and so has a run that is ready.
RunsAreCounted ==
    /\ wish = "none" => ~Exists /\ started = 0 /\ run.pc \notin Ready
    /\ ~Exists => row = NoRow
    /\ run.pc \in Settled => unrecorded = 0
    /\ Exists =>
         /\ started <= row.runs + excused + unrecorded
         /\ \A n \in Caps :
               /\ started <= n + excused
               /\ run.pc \in Ready => started + 1 <= n + excused
               /\ row.status = "active" => started + 1 <= n + excused + unrecorded

Inv == TypeOK /\ ActiveIsWished /\ JobIsCaredFor /\ ReadyIsFirst /\ RunsAreCounted

-----------------------------------------------------------------------------
\* The end of a run counts in the row, keeps its kind and limit, and leaves it
\* active only below its limit (scheduled_plan_adapter.py record_execution).
LEMMA RecordKeepsLimit ==
  ASSUME row \in Row, NEW success \in BOOLEAN, record_execution(success)
  PROVE  /\ row' \in Row
         /\ Exists' <=> Exists
         /\ row'.kind = row.kind /\ row'.limit = row.limit
         /\ IF Exists THEN row'.runs = row.runs + 1 ELSE row' = row
         /\ row'.status = "active" =>
               row.status = "active" /\ row.kind # "once"
               /\ (row.limit > 0 => row'.runs < row.limit)
  <1>. DEFINE status == IF ~success THEN "failed"
                        ELSE IF row.kind = "once" \/ (row.limit > 0 /\ row.runs + 1 >= row.limit)
                        THEN "completed" ELSE row.status
  <1>1. CASE ~Exists
    BY <1>1 DEF record_execution, Exists, Row
  <1>2. CASE Exists
    <2>1. row' = [[row EXCEPT !.runs = row.runs + 1] EXCEPT !.status = status]
      BY <1>2 DEF record_execution
    <2>2. row.runs + 1 \in Nat /\ status \in Status /\ status # "absent"
      BY <1>2 DEF Row, Status, Exists
    <2>3. [row EXCEPT !.runs = row.runs + 1] \in Row
      BY <2>2 DEF Row
    <2>4. /\ row' \in Row /\ row'.status = status /\ row'.runs = row.runs + 1
          /\ row'.kind = row.kind /\ row'.limit = row.limit
      BY <2>1, <2>2, <2>3 DEF Row
    <2>. QED BY <1>2, <2>2, <2>4 DEF Exists, Row
  <1>. QED BY <1>1, <1>2

\* An update of a row sets the fields it is given and nothing else.
LEMMA UpdateKeepsRest ==
  ASSUME row \in Row, NEW status \in Word \cup {"none"}, NEW limit \in Nat \cup {NotGiven},
         NEW edit \in Config \cup {"none"}, update_scheduled_plan(status, limit, edit)
  PROVE  /\ row' \in Row
         /\ Exists' <=> Exists
         /\ row'.kind = row.kind /\ row'.runs = row.runs
         /\ row'.limit = IF Exists /\ limit # NotGiven THEN limit ELSE row.limit
         /\ row'.status = IF Exists /\ status # "none" THEN status ELSE row.status
         /\ Exists \/ row' = row
  <1>1. CASE ~Exists
    BY <1>1 DEF update_scheduled_plan, Exists
  <1>2. CASE Exists
    <2>. DEFINE s == IF status = "none" THEN row.status ELSE status
                l == IF limit = NotGiven THEN row.limit ELSE limit
                c == IF edit = "none" THEN row.config ELSE edit
    <2>1. s \in Status /\ s # "absent" /\ l \in Nat /\ c \in Config
      BY <1>2 DEF Row, Status, Exists, Word
    <2>2. row' = [[[row EXCEPT !.status = s] EXCEPT !.limit = l] EXCEPT !.config = c]
      BY <1>2 DEF update_scheduled_plan
    <2>3. row' = [status |-> s, kind |-> row.kind, config |-> c, limit |-> l, runs |-> row.runs]
      BY <2>2 DEF Row
    <2>. HIDE DEF s, l, c
    <2>4. row' \in Row /\ row'.status = s /\ row'.kind = row.kind /\ row'.runs = row.runs
          /\ row'.limit = l
      BY <2>1, <2>3 DEF Row
    <2>. QED BY <1>2, <2>1, <2>4 DEF Exists, s, l
  <1>. QED BY <1>1, <1>2

\* What a request excuses: no less than before, one more if it makes active what
\* was not, and whatever a new limit would not allow.
LEMMA ExcuseSuffices ==
  ASSUME TypeOK, NEW write, NEW limit \in Nat \cup {NotGiven}, Excuse(write, limit)
  PROVE  /\ excused' \in Nat /\ excused <= excused'
         /\ write = "active" /\ row.status # "active" => excused + 1 <= excused'
         /\ limit # NotGiven /\ limit # 0 => started + 1 <= limit + excused' + unrecorded
  <1>. DEFINE again == IF write = "active" /\ row.status # "active" THEN excused + 1 ELSE excused
              lowered == started + 1 - unrecorded - limit
  <1>1. again \in Nat /\ excused <= again /\ lowered \in Int
        /\ (write = "active" /\ row.status # "active" => excused + 1 <= again)
    BY DEF TypeOK, NotGiven
  <1>2. excused' = IF limit > 0 /\ lowered > again THEN lowered ELSE again
    BY DEF Excuse
  <1>3. limit \in Int /\ started \in Nat /\ unrecorded \in Nat /\ excused \in Nat
        /\ (limit # NotGiven /\ limit # 0 => limit > 0)
    BY DEF TypeOK, NotGiven
  <1>4. excused' \in Nat /\ again <= excused' /\ (limit > 0 => lowered <= excused')
    <2>. HIDE DEF again, lowered
    <2>. QED BY <1>1, <1>2, <1>3
  <1>. HIDE DEF again, lowered
  <1>5. \A s, u, l, x \in Int : s + 1 - u - l <= x => s + 1 <= l + x + u
    OBVIOUS
  <1>6. limit > 0 => started + 1 <= limit + excused' + unrecorded
    <2>1. excused' \in Int /\ started \in Int /\ unrecorded \in Int
      BY <1>3, <1>4
    <2>2. limit > 0 => started + 1 - unrecorded - limit <= excused'
      BY <1>4 DEF lowered
    <2>. QED BY <1>3, <1>5, <2>1, <2>2
  <1>7. excused <= excused' /\ (write = "active" /\ row.status # "active" => excused + 1 <= excused')
    <2>1. again \in Nat /\ excused \in Nat /\ excused' \in Nat /\ excused <= again /\ again <= excused'
      BY <1>1, <1>3, <1>4
    <2>2. excused + 1 <= again => excused + 1 <= excused'
      BY <2>1
    <2>. QED BY <1>1, <2>1, <2>2
  <1>. QED BY <1>3, <1>4, <1>6, <1>7

-----------------------------------------------------------------------------
\* The variables of a schedule keep their types.
LEMMA TypeInductive == TypeOK /\ [Next]_vars => TypeOK'
  <1>. SUFFICES ASSUME TypeOK, [Next]_vars PROVE TypeOK'
    OBVIOUS
  <1>. USE ScheduleParameters DEF TypeOK
  <1>0. /\ \A a \in Answer : Answers(a) => faults' \in Nat
        /\ \A c \in Client : req[c] \in Req
        /\ NoRequest \in Req /\ NoRun \in Run /\ NoRow \in Row
        /\ row.kind \in Kind /\ row.config \in Config /\ run.kind \in Kind
        /\ \A p \in RunPc : [run EXCEPT !.pc = p] \in Run
    BY DEF Answers, NoRequest, Req, NoRun, Run, NoRow, Row, Kind, Config, RunPc, Status, Word
  <1>a. \A x \in Config : NotRegistered(x) \subseteq {"database", "gate", "trigger"}
    BY DEF NotRegistered
  <1>b. \A p \in {"creating", "rereading", "registering"}, x \in Config :
           [NoRequest EXCEPT !.pc = p, !.config = x] \in Req /\ [NoRequest EXCEPT !.pc = p] \in Req
    BY DEF NoRequest, Req, Config, NotGiven
  <1>1. CASE UNCHANGED vars
    BY <1>1 DEF vars, rowVars, counts, history
  <1>2. ASSUME NEW c \in Client, NEW a \in Answer, Create(c, a) PROVE TypeOK'
    <2>1. PICK kind \in Kind, config \in Config, limit \in Limits :
              /\ IF TakesEffect(a)
                 THEN create_scheduled_plan(kind, config, limit) /\ wish' = "active"
                 ELSE UNCHANGED <<row, wish>>
              /\ req' = IF a # "ok" THEN req
                        ELSE [req EXCEPT ![c] = [NoRequest EXCEPT !.pc = "creating", !.config = config]]
      BY <1>2 DEF Create
    <2>2. row' \in Row
      BY <2>1 DEF create_scheduled_plan, Row, Status
    <2>3. req' \in [Client -> Req]
      BY <1>b, <2>1
    <2>4. wish' \in Word \cup {"none", "deleted"}
      BY <2>1 DEF Word
    <2>. QED BY <1>0, <1>2, <2>2, <2>3, <2>4 DEF Create, Opened, counts
  <1>3. ASSUME NEW c \in Client, NEW new \in Word \cup {"none"},
               NEW limit \in Limits \cup {NotGiven}, NEW edit \in Config \cup {"none"},
               BeginUpdate(c, new, limit, edit)
        PROVE  TypeOK'
    <2>1. [pc |-> "writing", write |-> new, limit |-> limit, edit |-> edit, config |-> "good"] \in Req
      BY DEF Req, Config
    <2>2. req' \in [Client -> Req] /\ unjobbed' \subseteq {"database", "gate", "trigger"}
      BY <1>3, <2>1 DEF BeginUpdate
    <2>. QED BY <1>3, <2>2 DEF BeginUpdate, Opened, rowVars, counts
  <1>4. ASSUME NEW c \in Client, NEW a \in Answer, WriteUpdate(c, a) PROVE TypeOK'
    <2>1. /\ req[c].write \in Word \cup {"none"} /\ req[c].limit \in Nat \cup {NotGiven}
          /\ req[c].edit \in Config \cup {"none"}
      BY <1>0 DEF Req
    <2>2. row' \in Row /\ excused' \in Nat
      <3>1. CASE TakesEffect(a) /\ Exists
        BY <1>4, <2>1, <3>1, UpdateKeepsRest, ExcuseSuffices DEF WriteUpdate
      <3>2. CASE ~(TakesEffect(a) /\ Exists)
        BY <1>4, <3>2 DEF WriteUpdate
      <3>. QED BY <3>1, <3>2
    <2>3. req' \in [Client -> Req]
      BY <1>0, <1>b, <1>4 DEF WriteUpdate, Config
    <2>4. wish' \in Word \cup {"none", "deleted"} /\ since' \in Nat
          /\ trigger' \in {"future", "now", "past"}
      BY <1>4, <2>1 DEF WriteUpdate
    <2>. QED BY <1>0, <1>4, <2>2, <2>3, <2>4 DEF WriteUpdate
  <1>5. ASSUME NEW c \in Client, NEW a \in Answer, Reread(c, a) PROVE TypeOK'
    <2>1. req' \in [Client -> Req]
      BY <1>0, <1>b, <1>5 DEF Reread
    <2>. QED BY <1>0, <1>5, <2>1 DEF Reread, rowVars, counts
  <1>6. ASSUME NEW c \in Client, Register(c) PROVE TypeOK'
    <2>1. unjobbed' \subseteq {"database", "gate", "trigger"}
      BY <1>0, <1>a, <1>6 DEF Register, Req
    <2>2. req' \in [Client -> Req]
      BY <1>0, <1>6 DEF Register
    <2>3. job' \in BOOLEAN
      BY <1>6 DEF Register, register_job
    <2>. QED BY <1>6, <2>1, <2>2, <2>3 DEF Register, rowVars, counts
  <1>7. ASSUME NEW c \in Client, NEW a \in Answer, Delete(c, a) PROVE TypeOK'
    <2>1. row' \in Row /\ wish' \in Word \cup {"none", "deleted"} /\ since' \in Nat
      BY <1>0, <1>7 DEF Delete, delete_scheduled_plan
    <2>2. unjobbed' \subseteq {"database", "gate", "trigger"} /\ faults' \in Nat /\ requests' \in Nat
      BY <1>0, <1>7 DEF Delete, Opened
    <2>. QED BY <1>7, <2>1, <2>2 DEF Delete, remove_job
  <1>8. CASE Fire
    <2>1. run' \in Run
      BY <1>8 DEF Fire, NoRun, Run, RunPc, Kind
    <2>. QED BY <1>8, <2>1 DEF Fire, rowVars, counts, history
  <1>9. CASE Misfire
    BY <1>9 DEF Misfire, rowVars, counts, history
  <1>10. ASSUME NEW a \in Answer, Load(a) PROVE TypeOK'
    <2>1. run' \in Run
      <3>1. \/ run' = [run EXCEPT !.pc = "failing"] \/ run' = NoRun
            \/ \E pc \in {"planning", "unserved"} : run' = [pc |-> pc, kind |-> row.kind]
        BY <1>10 DEF Load, Goto
      <3>. QED BY <1>0, <3>1 DEF Run, RunPc
    <2>. QED BY <1>0, <1>10, <2>1 DEF Load, rowVars, counts
  <1>11. CASE Plan \/ Execute \/ Retry("gate-B")
    <2>1. \E p \in RunPc : run' = [run EXCEPT !.pc = p]
      BY <1>11 DEF Plan, Execute, Retry, Goto, RunPc
    <2>. QED BY <1>0, <1>11, <2>1 DEF Plan, Execute, Retry, RunOnly, rowVars, counts, history
  <1>12. CASE Approve
    <2>1. \E p \in RunPc : run' = [run EXCEPT !.pc = p]
      BY <1>12 DEF Approve, Goto, RunPc
    <2>2. started' \in Nat /\ since' \in Nat /\ unrecorded' \in {0, 1}
      BY <1>12 DEF Approve
    <2>. QED BY <1>0, <1>12, <2>1, <2>2 DEF Approve, rowVars
  <1>13. ASSUME NEW a \in Answer, NEW success \in BOOLEAN, NEW next \in {"idle", "renewing", "pausing"},
                Record(success, a, next)
         PROVE  TypeOK'
    <2>1. row' \in Row
      BY <1>13, RecordKeepsLimit DEF Record
    <2>2. run' \in Run
      <3>1. run' = NoRun \/ run' = [run EXCEPT !.pc = next] \/ run' = [run EXCEPT !.pc = "failing"]
        BY <1>13 DEF Record, Goto
      <3>. QED BY <1>0, <3>1 DEF RunPc
    <2>3. excused' \in Nat /\ unrecorded' \in {0, 1}
      BY <1>13 DEF Record
    <2>. QED BY <1>0, <1>13, <2>1, <2>2, <2>3 DEF Record
  <1>14. ASSUME NEW a \in Answer, RecordSuccess(a) \/ RecordFailure(a) \/ RecordGate(a)
         PROVE  TypeOK'
    <2>1. CASE RecordSuccess(a)
      <3>1. \E next \in {"idle", "renewing"} : Record(TRUE, a, next)
        BY <2>1, Zenon DEF RecordSuccess
      <3>. QED BY <1>13, <3>1
    <2>2. CASE RecordFailure(a)
      BY <1>13, <2>2 DEF RecordFailure
    <2>3. CASE RecordGate(a)
      BY <1>13, <2>3 DEF RecordGate
    <2>. QED BY <1>14, <2>1, <2>2, <2>3
  <1>15. ASSUME NEW a \in Answer, Renew(a) PROVE TypeOK'
    <2>1. [run EXCEPT !.pc = "failing"] \in Run
      BY <1>0 DEF RunPc
    <2>. QED BY <1>0, <1>15, <2>1 DEF Renew, Goto, rowVars, counts
  <1>16. ASSUME NEW a \in Answer, PauseAtGate(a) PROVE TypeOK'
    <2>1. row' \in Row
      BY <1>16, UpdateKeepsRest DEF PauseAtGate, Word
    <2>2. [run EXCEPT !.pc = "failing"] \in Run /\ [run EXCEPT !.pc = "dropping"] \in Run
      BY <1>0 DEF RunPc
    <2>. QED BY <1>0, <1>16, <2>1, <2>2 DEF PauseAtGate, Goto, counts
  <1>17. CASE DropJob
    BY <1>0, <1>17 DEF DropJob, remove_job, rowVars, counts
  <1>18. CASE Tick
    BY <1>18 DEF Tick, history, counts
  <1>19. ASSUME NEW a \in Answer, Restart(a) PROVE TypeOK'
    <2>1. job' \in BOOLEAN
      BY <1>19, Zenon DEF Restart, register_job
    <2>2. unjobbed' \subseteq {"database", "gate", "trigger"} /\ excused' \in Nat
          /\ unrecorded' \in {0, 1} /\ faults' \in Nat /\ trigger' \in {"future", "now", "past"}
      BY <1>0, <1>a, <1>19 DEF Restart
    <2>3. run' \in Run /\ req' \in [Client -> Req]
      BY <1>0, <1>19 DEF Restart
    <2>. QED BY <1>19, <2>1, <2>2, <2>3 DEF Restart
  <1>20. ASSUME NEW c \in Client, Update(c) PROVE TypeOK'
    <2>1. Word \cup {"none"} = {"none", "active", "paused", "cancelled"}
      BY DEF Word
    <2>. QED BY <1>3, <1>4, <1>5, <1>6, <1>20, <2>1 DEF Update
  <1>21. CASE RunStep
    BY <1>10, <1>11, <1>12, <1>14, <1>15, <1>16, <1>17, <1>21 DEF RunStep
  <1>. QED BY <1>1, <1>2, <1>7, <1>8, <1>9, <1>18, <1>19, <1>20, <1>21 DEF Next

-----------------------------------------------------------------------------
\* What the steps of a run that write to the row leave of it.
LEMMA RunWritesRow ==
  ASSUME TypeOK, NEW a \in Answer,
         RecordSuccess(a) \/ RecordFailure(a) \/ RecordGate(a) \/ PauseAtGate(a)
  PROVE  /\ Exists' <=> Exists
         /\ row'.kind = row.kind /\ row'.limit = row.limit
         /\ row'.status = "active" => row.status = "active"
         /\ UNCHANGED <<job, trigger, req, wish, since, started, unjobbed>>
         /\ run'.pc \notin Ready
  <1>1. /\ \/ row' = row
           \/ \E success \in BOOLEAN : record_execution(success)
           \/ update_scheduled_plan("paused", NotGiven, "none")
        /\ UNCHANGED <<job, trigger, req, wish, since, started, unjobbed>>
    BY DEF RecordSuccess, RecordFailure, RecordGate, Record, PauseAtGate, counts
  <1>2. /\ Exists' <=> Exists
        /\ row'.kind = row.kind /\ row'.limit = row.limit
        /\ row'.status = "active" => row.status = "active"
    <2>1. CASE row' = row
      BY <2>1 DEF Exists
    <2>2. CASE \E success \in BOOLEAN : record_execution(success)
      BY <2>2, RecordKeepsLimit DEF TypeOK
    <2>3. CASE update_scheduled_plan("paused", NotGiven, "none")
      <3>1. row \in Row /\ "paused" \in Word \cup {"none"} /\ "none" \in Config \cup {"none"}
            /\ NotGiven \in Nat \cup {NotGiven}
        BY DEF TypeOK, Word
      <3>2. /\ Exists' <=> Exists
            /\ row'.kind = row.kind
            /\ row'.limit = row.limit
            /\ row'.status = IF Exists THEN "paused" ELSE row.status
        BY <2>3, <3>1, UpdateKeepsRest
      <3>. QED BY <3>2
    <2>. QED BY <1>1, <2>1, <2>2, <2>3
  <1>3. run'.pc \in {"idle", "renewing", "pausing", "dropping", "failing"}
    <2>1. run \in Run
      BY DEF TypeOK
    <2>2. \/ run' = NoRun
          \/ \E p \in {"idle", "renewing", "pausing", "dropping", "failing"} : run' = [run EXCEPT !.pc = p]
      BY DEF RecordSuccess, RecordFailure, RecordGate, Record, PauseAtGate, Goto
    <2>. QED BY <2>1, <2>2 DEF NoRun, Run
  <1>. QED BY <1>1, <1>2, <1>3 DEF Ready

\* No write of a run makes a schedule active, and a request makes it so only
\* as its user has asked (scheduler_service.py:145-243).
LEMMA WishInductive == TypeOK /\ ActiveIsWished /\ [Next]_vars => ActiveIsWished'
  <1>. SUFFICES ASSUME TypeOK, ActiveIsWished, [Next]_vars PROVE ActiveIsWished'
    OBVIOUS
  <1>. USE DEF ActiveIsWished
  <1>1. ASSUME NEW c \in Client, NEW a \in Answer, Create(c, a) PROVE ActiveIsWished'
    BY <1>1 DEF Create
  <1>2. ASSUME NEW c \in Client, NEW a \in Answer, WriteUpdate(c, a) PROVE ActiveIsWished'
    <2>1. /\ req[c].write \in Word \cup {"none"} /\ req[c].limit \in Nat \cup {NotGiven}
          /\ req[c].edit \in Config \cup {"none"}
      BY DEF TypeOK, Req
    <2>. QED BY <1>2, <2>1, UpdateKeepsRest DEF WriteUpdate, TypeOK
  <1>3. ASSUME NEW c \in Client, NEW a \in Answer, Delete(c, a) PROVE ActiveIsWished'
    BY <1>3 DEF Delete, delete_scheduled_plan, NoRow
  <1>4. ASSUME NEW a \in Answer,
               RecordSuccess(a) \/ RecordFailure(a) \/ RecordGate(a) \/ PauseAtGate(a)
        PROVE  ActiveIsWished'
    BY <1>4, RunWritesRow
  <1>5. CASE UNCHANGED <<row, wish>>
    BY <1>5
  <1>. QED BY <1>1, <1>2, <1>3, <1>4, <1>5 DEF Next, Update, RunStep, BeginUpdate, Reread,
           Register, Fire, Misfire, Load, Plan, Approve, Execute, Retry, RunOnly, Renew, DropJob,
           Tick, Restart, vars, rowVars, counts, history

\* A job is dropped only by a request that is going to register it, by its time,
\* or by what is noted in unjobbed (scheduler_service.py:145-243, 424-429).
LEMMA JobInductive == TypeOK /\ JobIsCaredFor /\ [Next]_vars => JobIsCaredFor'
  <1>. SUFFICES ASSUME TypeOK, JobIsCaredFor, [Next]_vars PROVE JobIsCaredFor'
    OBVIOUS
  <1>. USE DEF JobIsCaredFor
  <1>0. \A x : NotRegistered(x) # {} \/ x = "good"
    BY DEF NotRegistered
  <1>1. ASSUME NEW c \in Client, NEW a \in Answer, Create(c, a) PROVE JobIsCaredFor'
    <2>1. CASE a = "ok"
      <3>1. req'[c].pc = "creating"
        BY <1>1, <2>1 DEF Create, TypeOK, NoRequest
      <3>. QED BY <3>1
    <2>2. CASE a = "lost"
      BY <1>1, <2>2 DEF Create
    <2>3. CASE a = "error"
      BY <1>1, <2>3 DEF Create, TakesEffect
    <2>. QED BY <2>1, <2>2, <2>3 DEF Answer
  <1>2. ASSUME NEW c \in Client, NEW new, NEW limit, NEW edit, BeginUpdate(c, new, limit, edit)
        PROVE  JobIsCaredFor'
    <2>1. req'[c].pc = "writing" \/ unjobbed' # {}
      BY <1>2 DEF BeginUpdate, TypeOK
    <2>. QED BY <2>1
  <1>3. ASSUME NEW c \in Client, NEW a \in Answer, WriteUpdate(c, a) PROVE JobIsCaredFor'
    <2>1. a = "ok" => req'[c].pc = "rereading"
      BY <1>3 DEF WriteUpdate, TypeOK, NoRequest
    <2>2. a # "ok" => unjobbed' # {}
      BY <1>3 DEF WriteUpdate
    <2>. QED BY <2>1, <2>2
  <1>4. ASSUME NEW c \in Client, NEW a \in Answer, Reread(c, a) PROVE JobIsCaredFor'
    <2>1. a = "ok" /\ row.status = "active" => req'[c].pc = "registering"
      BY <1>4 DEF Reread, TypeOK, NoRequest
    <2>2. a # "ok" => unjobbed' # {}
      BY <1>4 DEF Reread
    <2>. QED BY <1>4, <2>1, <2>2 DEF Reread, rowVars
  <1>5. ASSUME NEW c \in Client, Register(c) PROVE JobIsCaredFor'
    <2>1. job' \/ unjobbed' # {}
      BY <1>0, <1>5 DEF Register, register_job
    <2>. QED BY <2>1
  <1>6. ASSUME NEW c \in Client, NEW a \in Answer, Delete(c, a) PROVE JobIsCaredFor'
    <2>1. a # "ok" => unjobbed' # {}
      BY <1>6 DEF Delete
    <2>. QED BY <1>6, <2>1 DEF Delete, TakesEffect, delete_scheduled_plan, NoRow
  <1>7. CASE Fire
    <2>1. row.kind = "once" \/ row.kind = "recurring"
      BY DEF TypeOK, Row, Kind
    <2>. QED BY <1>7, <2>1 DEF Fire, rowVars, history
  <1>8. CASE Misfire
    BY <1>8 DEF Misfire, rowVars
  <1>9. ASSUME NEW a \in Answer,
               RecordSuccess(a) \/ RecordFailure(a) \/ RecordGate(a) \/ PauseAtGate(a)
        PROVE  JobIsCaredFor'
    BY <1>9, RunWritesRow
  <1>10. CASE DropJob
    BY <1>10 DEF DropJob, rowVars
  <1>11. CASE Tick
    BY <1>11 DEF Tick, history
  <1>12. ASSUME NEW a \in Answer, Restart(a) PROVE JobIsCaredFor'
    <2>1. a # "ok" => unjobbed' # {}
      BY <1>12 DEF Restart
    <2>2. a = "ok" /\ row.status = "active" => job' \/ unjobbed' # {}
      BY <1>0, <1>12 DEF Restart, get_active_schedules, register_job
    <2>. QED BY <1>12, <2>1, <2>2 DEF Restart
  <1>13. CASE UNCHANGED <<row, job, trigger, req, unjobbed>>
    BY <1>13
  <1>. QED BY <1>1, <1>2, <1>3, <1>4, <1>5, <1>6, <1>7, <1>8, <1>9, <1>10, <1>11, <1>12,
              <1>13 DEF Next, Update, RunStep, Load, Plan, Approve, Execute, Retry, RunOnly,
              Renew, vars, rowVars, counts, history

\* A run gets ready by reading "active", and a word of the user begins the count
\* of executions anew (scheduler_service.py:323-389).
LEMMA ReadyInductive ==
  TypeOK /\ ActiveIsWished /\ ReadyIsFirst /\ [Next]_vars => ReadyIsFirst'
  <1>. SUFFICES ASSUME TypeOK, ActiveIsWished, ReadyIsFirst, [Next]_vars PROVE ReadyIsFirst'
    OBVIOUS
  <1>. USE DEF ReadyIsFirst
  <1>0. run \in Run
    BY DEF TypeOK
  <1>1. CASE UNCHANGED <<run, wish, since>>
    BY <1>1
  <1>2. ASSUME NEW c \in Client, NEW a \in Answer,
               Create(c, a) \/ WriteUpdate(c, a) \/ Delete(c, a)
        PROVE  ReadyIsFirst'
    <2>1. run' = run
      BY <1>2 DEF Create, WriteUpdate, Delete
    <2>2. (wish' = wish /\ since' = since) \/ since' = 0 \/ wish' = "active"
      BY <1>2 DEF Create, WriteUpdate, Delete, counts
    <2>. QED BY <2>1, <2>2
  <1>3. ASSUME NEW a \in Answer, Load(a) PROVE ReadyIsFirst'
    <2>1. run'.pc \in Ready => row.status = "active"
      BY <1>0, <1>3 DEF Load, Goto, get_active_schedules, NoRun, Run, Ready
    <2>. QED BY <1>3, <2>1 DEF Load, ActiveIsWished
  <1>4. CASE Plan
    BY <1>0, <1>4 DEF Plan, Goto, RunOnly, history, counts, Run, Ready
  <1>5. CASE Approve \/ Execute \/ Retry("gate-B") \/ DropJob \/ Fire
    <2>1. run'.pc \notin Ready \/ (run' = run /\ UNCHANGED <<wish, since>>)
      BY <1>0, <1>5 DEF Approve, Execute, Retry, DropJob, Fire, Goto, NoRun, Run, Ready, history,
             counts
    <2>. QED BY <2>1
  <1>6. ASSUME NEW a \in Answer, Renew(a) \/ Restart(a) PROVE ReadyIsFirst'
    <2>1. run'.pc \notin Ready
      <3>1. run' = NoRun \/ run' = [run EXCEPT !.pc = "failing"]
        BY <1>6 DEF Renew, Restart, Goto
      <3>. QED BY <1>0, <3>1 DEF NoRun, Run, Ready
    <2>. QED BY <2>1
  <1>7. ASSUME NEW a \in Answer,
               RecordSuccess(a) \/ RecordFailure(a) \/ RecordGate(a) \/ PauseAtGate(a)
        PROVE  ReadyIsFirst'
    BY <1>7, RunWritesRow
  <1>. QED BY <1>1, <1>2, <1>3, <1>4, <1>5, <1>6, <1>7 DEF Next, Update, RunStep, BeginUpdate,
           Reread, Register, Misfire, Tick, vars, rowVars, counts, history

-----------------------------------------------------------------------------
\* The sums the counts are compared by, before a step and after it.
LEMMA Sums ==
  \A s, n, x, p, x1, p1 \in Nat :
     /\ s <= n + x /\ x <= x1 => s <= n + x1
     /\ s + 1 <= n + x /\ x <= x1 => s + 1 <= n + x1
     /\ s <= n + x + p /\ x + p <= x1 + p1 => s <= n + x1 + p1
     /\ s + 1 <= n + x + p /\ x + p <= x1 + p1 => s + 1 <= n + x1 + p1
  OBVIOUS

LEMMA SumsWithRun ==
  \A s, r, n, x, p, x1, p1 \in Nat :
     s <= r + x + p /\ p <= 1 /\ x <= x1 =>
        /\ s <= (r + 1) + x1 + p1
        /\ r + 1 < n => s + 1 <= n + x1 + p1
  OBVIOUS

\* A step that begins and records no execution, leaves the kind, the limit and
\* the runs of the row, makes nothing active and no run ready, and does not lose
\* the execution that is under way keeps the count.
LEMMA CountsUnchanged ==
  ASSUME TypeOK, RunsAreCounted,
         Exists' <=> Exists, Exists \/ row' = row,
         row'.kind = row.kind, row'.limit = row.limit, row'.runs = row.runs,
         row'.status = "active" => row.status = "active",
         started' = started, excused' \in Nat, unrecorded' \in {0, 1}, excused <= excused',
         excused + unrecorded <= excused' + unrecorded',
         wish' = "none" => wish = "none",
         run'.pc \in Ready => run.pc \in Ready,
         run'.pc \in Settled => unrecorded' = 0
  PROVE  RunsAreCounted'
  <1>1. started \in Nat /\ excused \in Nat /\ unrecorded \in Nat /\ unrecorded' \in Nat
    BY DEF TypeOK
  <1>2. ASSUME Exists'
        PROVE  /\ started' <= row'.runs + excused' + unrecorded'
               /\ \A n \in Caps' :
                     /\ started' <= n + excused'
                     /\ run'.pc \in Ready => started' + 1 <= n + excused'
                     /\ row'.status = "active" => started' + 1 <= n + excused' + unrecorded'
    <2>1. Exists /\ row.runs \in Nat /\ Caps' = Caps /\ Caps \subseteq Nat
      BY <1>2 DEF TypeOK, Row, Caps
    <2>2. started' <= row'.runs + excused' + unrecorded'
      <3>1. started <= row.runs + excused + unrecorded
        BY <2>1 DEF RunsAreCounted
      <3>. QED BY <1>1, <2>1, <3>1, Sums
    <2>3. ASSUME NEW n \in Caps'
          PROVE  /\ started' <= n + excused'
                 /\ run'.pc \in Ready => started' + 1 <= n + excused'
                 /\ row'.status = "active" => started' + 1 <= n + excused' + unrecorded'
      <3>1. /\ n \in Nat /\ started <= n + excused
            /\ run'.pc \in Ready => started + 1 <= n + excused
            /\ row'.status = "active" => started + 1 <= n + excused + unrecorded
        BY <2>1 DEF RunsAreCounted
      <3>. QED BY <1>1, <3>1, Sums
    <2>. QED BY <2>2, <2>3
  <1>3. /\ wish' = "none" => ~Exists' /\ started' = 0 /\ run'.pc \notin Ready
        /\ ~Exists' => row' = NoRow
    BY DEF RunsAreCounted
  <1>. QED BY <1>2, <1>3 DEF RunsAreCounted

\* The end of a run moves the execution from "under way" to the row, or to the
\* excused ones, and leaves the schedule active only if it may run again
\* (adapters/db.py:172-217).
LEMMA CountsRecorded ==
  ASSUME TypeOK, RunsAreCounted, NEW success \in BOOLEAN, NEW a \in Answer,
         NEW next \in {"idle", "renewing", "pausing"},
         Record(success, a, next),
         run.pc \in {"succeeding", "failing", "gated", "unserved"}
  PROVE  RunsAreCounted'
  <1>0. /\ run \in Run /\ row \in Row /\ excused \in Nat /\ started \in Nat
        /\ unrecorded \in Nat /\ unrecorded <= 1
    BY DEF TypeOK
  <1>1. /\ started' = started /\ wish' = wish /\ excused' \in Nat /\ excused <= excused'
        /\ unrecorded' \in {0, 1} /\ unrecorded' \in Nat
        /\ ~TakesEffect(a) => excused + unrecorded <= excused' + unrecorded'
    BY <1>0 DEF Record, TypeOK
  <1>2. run'.pc \in {"idle", "renewing", "pausing", "failing"}
    <2>1. run' = NoRun \/ \E p \in {"idle", "renewing", "pausing", "failing"} : run' = [run EXCEPT !.pc = p]
      BY DEF Record, Goto
    <2>. QED BY <1>0, <2>1 DEF NoRun, Run
  <1>3. run'.pc # "failing" => unrecorded' = 0
    <2>1. CASE TakesEffect(a) \/ run.pc = "failing"
      BY <2>1 DEF Record
    <2>2. CASE ~TakesEffect(a) /\ run.pc # "failing"
      <3>1. run' = [run EXCEPT !.pc = "failing"]
        BY <2>2 DEF Record, Goto, TakesEffect
      <3>. QED BY <1>0, <3>1 DEF Run
    <2>. QED BY <2>1, <2>2
  <1>4. /\ Exists' <=> Exists
        /\ row'.kind = row.kind /\ row'.limit = row.limit
        /\ ~TakesEffect(a) \/ ~Exists => row' = row
        /\ TakesEffect(a) /\ Exists =>
             /\ row'.runs = row.runs + 1
             /\ row'.status = "active" =>
                  row.kind # "once" /\ (row.limit > 0 => row'.runs < row.limit)
    <2>1. CASE TakesEffect(a)
      BY <1>0, <2>1, RecordKeepsLimit DEF Record
    <2>2. CASE ~TakesEffect(a)
      BY <2>2 DEF Record, Exists
    <2>. QED BY <2>1, <2>2
  <1>5. run'.pc \notin Ready
        /\ (run'.pc \in Settled => unrecorded' = 0)
    BY <1>2, <1>3 DEF Ready, Settled
  <1>6. CASE ~(TakesEffect(a) /\ Exists)
    <2>1. row' = row
      BY <1>4, <1>6
    <2>2. CASE ~Exists
      BY <1>1, <1>5, <2>1, <2>2 DEF RunsAreCounted, Exists
    <2>3. CASE ~TakesEffect(a)
      BY <1>1, <1>4, <1>5, <2>1, <2>3, CountsUnchanged
    <2>. QED BY <1>6, <2>2, <2>3
  <1>7. CASE TakesEffect(a) /\ Exists
    <2>1. /\ row.runs \in Nat /\ row.limit \in Nat /\ row'.runs = row.runs + 1
          /\ started <= row.runs + excused + unrecorded
          /\ Caps' = Caps /\ Caps \subseteq Nat
      BY <1>0, <1>4, <1>7 DEF Row, Caps, RunsAreCounted
    <2>2. started' <= row'.runs + excused' + unrecorded'
      BY <1>0, <1>1, <2>1, SumsWithRun
    <2>3. ASSUME NEW n \in Caps'
          PROVE  started' <= n + excused'
      <3>1. n \in Nat /\ started <= n + excused
        BY <1>7, <2>1 DEF RunsAreCounted
      <3>. QED BY <1>0, <1>1, <3>1, Sums
    <2>4. ASSUME NEW n \in Caps', row'.status = "active"
          PROVE  started' + 1 <= n + excused' + unrecorded'
      <3>1. n \in Nat /\ row.runs + 1 < n
        BY <1>4, <1>7, <2>1, <2>4 DEF Caps
      <3>. QED BY <1>0, <1>1, <2>1, <3>1, SumsWithRun
    <2>5. wish' # "none"
      BY <1>1, <1>7 DEF RunsAreCounted
    <2>. QED BY <1>4, <1>5, <1>7, <2>2, <2>3, <2>4, <2>5 DEF RunsAreCounted
  <1>. QED BY <1>6, <1>7

LEMMA SumsExcused ==
  \A s, n, x, p, x1 \in Nat :
     /\ s <= n + x + p /\ x <= x1 => s <= n + x1 + p
     /\ s + 1 <= n + x + p /\ x <= x1 => s + 1 <= n + x1 + p
     /\ s <= n + x /\ x + 1 <= x1 => s + 1 <= n + x1 + p
     /\ s + 1 <= n + x1 + p /\ p <= 1 => s <= n + x1
     /\ s + 1 <= n + x1 + p /\ p = 0 => s + 1 <= n + x1
  OBVIOUS

\* An update that takes effect keeps the count: what it allows anew is excused.
LEMMA CountsUpdated ==
  ASSUME TypeOK, RunsAreCounted, Exists,
         NEW write \in Word \cup {"none"}, NEW limit \in Nat \cup {NotGiven},
         NEW edit \in Config \cup {"none"},
         update_scheduled_plan(write, limit, edit), Excuse(write, limit),
         wish' = IF write = "none" THEN wish ELSE write,
         UNCHANGED <<run, started, unrecorded>>
  PROVE  RunsAreCounted'
  <1>1. /\ started \in Nat /\ excused \in Nat /\ unrecorded \in Nat /\ unrecorded <= 1
        /\ row.runs \in Nat /\ row.limit \in Nat
    BY DEF TypeOK, Row
  <1>2. /\ Exists' /\ row'.kind = row.kind /\ row'.runs = row.runs
        /\ row'.limit = IF limit # NotGiven THEN limit ELSE row.limit
        /\ row'.status = IF write # "none" THEN write ELSE row.status
    BY UpdateKeepsRest DEF TypeOK
  <1>3. /\ excused' \in Nat /\ excused <= excused'
        /\ write = "active" /\ row.status # "active" => excused + 1 <= excused'
        /\ limit # NotGiven /\ limit # 0 => started + 1 <= limit + excused' + unrecorded
    BY ExcuseSuffices
  <1>4. started' <= row'.runs + excused' + unrecorded'
    <2>1. started <= row.runs + excused + unrecorded
      BY DEF RunsAreCounted
    <2>. QED BY <1>1, <1>2, <1>3, <2>1, SumsExcused
  <1>5. ASSUME NEW n \in Caps'
        PROVE  /\ started' <= n + excused'
               /\ run'.pc \in Ready => started' + 1 <= n + excused'
               /\ row'.status = "active" => started' + 1 <= n + excused' + unrecorded'
    <2>1. n \in Caps \/ (limit # NotGiven /\ limit # 0 /\ n = limit)
      BY <1>2 DEF Caps
    <2>2. CASE n \in Caps
      <3>1. n \in Nat
        BY <1>1, <2>2 DEF Caps
      <3>2. /\ started <= n + excused
            /\ run.pc \in Ready => started + 1 <= n + excused
            /\ row.status = "active" => started + 1 <= n + excused + unrecorded
        BY <2>2 DEF RunsAreCounted
      <3>3. started' <= n + excused' /\ (run'.pc \in Ready => started' + 1 <= n + excused')
        BY <1>1, <1>3, <3>1, <3>2, Sums
      <3>4. row'.status = "active" => started' + 1 <= n + excused' + unrecorded'
        <4>1. CASE row.status = "active"
          BY <1>1, <1>3, <3>1, <3>2, <4>1, SumsExcused
        <4>2. CASE row.status # "active" /\ row'.status = "active"
          <5>1. excused + 1 <= excused'
            BY <1>2, <1>3, <4>2
          <5>. QED BY <1>1, <1>3, <3>1, <3>2, <5>1, SumsExcused
        <4>. QED BY <4>1, <4>2
      <3>. QED BY <3>3, <3>4
    <2>3. CASE limit # NotGiven /\ limit # 0 /\ n = limit
      <3>1. n \in Nat /\ started + 1 <= n + excused' + unrecorded
        BY <1>3, <2>3
      <3>2. run.pc \in Ready => unrecorded = 0
        BY DEF RunsAreCounted, Settled
      <3>3. started <= n + excused' /\ (unrecorded = 0 => started + 1 <= n + excused')
        BY <1>1, <1>3, <3>1, SumsExcused
      <3>. QED BY <1>1, <1>3, <3>1, <3>2, <3>3
    <2>. QED BY <2>1, <2>2, <2>3
  <1>6. wish' # "none"
    BY DEF RunsAreCounted
  <1>7. run'.pc \in Settled => unrecorded' = 0
    BY DEF RunsAreCounted
  <1>. QED BY <1>2, <1>4, <1>5, <1>6, <1>7 DEF RunsAreCounted

\* Every action keeps the count (scheduler_service.py, adapters/db.py:172-217).
LEMMA CountInductive == TypeOK /\ RunsAreCounted /\ [Next]_vars => RunsAreCounted'
  <1>. SUFFICES ASSUME TypeOK, RunsAreCounted, [Next]_vars PROVE RunsAreCounted'
    OBVIOUS
  <1>0. /\ run \in Run /\ row \in Row /\ excused \in Nat /\ started \in Nat
        /\ unrecorded \in {0, 1} /\ unrecorded \in Nat /\ excused <= excused
        /\ excused + unrecorded <= excused + unrecorded
    BY DEF TypeOK
  <1>1. ASSUME UNCHANGED <<row, excused, started, wish, unrecorded>>,
               run'.pc \in Ready => run.pc \in Ready,
               run'.pc \in Settled => unrecorded = 0
        PROVE  RunsAreCounted'
    <2>1. Exists' <=> Exists
      BY <1>1 DEF Exists
    <2>. QED BY <1>0, <1>1, <2>1, CountsUnchanged
  <1>2. CASE UNCHANGED <<row, excused, started, wish, run, unrecorded>>
    BY <1>1, <1>2 DEF RunsAreCounted
  <1>3. ASSUME NEW c \in Client, NEW a \in Answer, Create(c, a) PROVE RunsAreCounted'
    <2>1. PICK kind \in Kind, config \in Config, limit \in Limits :
              IF TakesEffect(a)
              THEN create_scheduled_plan(kind, config, limit) /\ wish' = "active"
              ELSE UNCHANGED <<row, wish>>
      BY <1>3 DEF Create
    <2>2. UNCHANGED <<run, excused, started, unrecorded>> /\ started = 0
      BY <1>3 DEF Create, counts, RunsAreCounted
    <2>3. CASE ~TakesEffect(a)
      BY <1>2, <2>1, <2>2, <2>3
    <2>4. CASE TakesEffect(a)
      <3>1. row'.runs \in Nat /\ wish' # "none" /\ Exists'
        BY <2>1, <2>4 DEF create_scheduled_plan, Exists
      <3>2. \A n \in Caps' : n \in Nat /\ n > 0
        BY <2>1, <2>4, ScheduleParameters DEF create_scheduled_plan, Caps
      <3>3. \A n, x, p \in Nat : 0 <= n + x + p /\ 0 <= n + x
                /\ (n > 0 => 0 + 1 <= n + x /\ 0 + 1 <= n + x + p)
        OBVIOUS
      <3>4. run'.pc \in Settled => unrecorded' = 0
        BY <2>2 DEF RunsAreCounted
      <3>. QED BY <1>0, <2>2, <3>1, <3>2, <3>3, <3>4 DEF RunsAreCounted
    <2>. QED BY <2>3, <2>4
  <1>4. ASSUME NEW c \in Client, NEW a \in Answer, WriteUpdate(c, a) PROVE RunsAreCounted'
    <2>1. /\ req[c].write \in Word \cup {"none"} /\ req[c].limit \in Nat \cup {NotGiven}
          /\ req[c].edit \in Config \cup {"none"}
      BY DEF TypeOK, Req
    <2>2. UNCHANGED <<run, started, unrecorded>>
      BY <1>4 DEF WriteUpdate
    <2>3. CASE ~(TakesEffect(a) /\ Exists)
      BY <1>2, <1>4, <2>2, <2>3 DEF WriteUpdate
    <2>4. CASE TakesEffect(a) /\ Exists
      BY <1>4, <2>1, <2>2, <2>4, CountsUpdated DEF WriteUpdate
    <2>. QED BY <2>3, <2>4
  <1>5. ASSUME NEW c \in Client, NEW a \in Answer, Delete(c, a) PROVE RunsAreCounted'
    <2>1. UNCHANGED <<run, excused, started, unrecorded>>
      BY <1>5 DEF Delete
    <2>2. CASE TakesEffect(a)
      BY <1>5, <2>1, <2>2 DEF Delete, delete_scheduled_plan, NoRow, Exists, RunsAreCounted
    <2>3. CASE ~TakesEffect(a)
      BY <1>2, <1>5, <2>1, <2>3 DEF Delete
    <2>. QED BY <2>2, <2>3
  <1>6. CASE Fire
    <2>1. UNCHANGED <<row, excused, started, wish, unrecorded>>
      BY <1>6 DEF Fire, rowVars, history, counts
    <2>2. run' = run \/ (run.pc = "idle" /\ run'.pc = "loading")
      BY <1>6 DEF Fire, NoRun
    <2>. QED BY <1>1, <2>1, <2>2 DEF RunsAreCounted, Ready, Settled
  <1>7. ASSUME NEW a \in Answer, Load(a) PROVE RunsAreCounted'
    <2>1. UNCHANGED <<row, excused, started, wish, unrecorded>> /\ unrecorded = 0
      BY <1>7 DEF Load, rowVars, counts, RunsAreCounted, Settled
    <2>2. CASE run'.pc \notin Ready
      BY <1>1, <2>1, <2>2
    <2>3. CASE run'.pc \in Ready
      <3>1. row.status = "active"
        BY <1>0, <1>7, <2>3 DEF Load, Goto, get_active_schedules, NoRun, Run, Ready
      <3>2. Exists /\ Exists' /\ Caps' = Caps /\ Caps \subseteq Nat
        BY <1>0, <2>1, <3>1 DEF Exists, Caps, Row
      <3>3. ASSUME NEW n \in Caps
            PROVE  started <= n + excused /\ started + 1 <= n + excused
        <4>1. n \in Nat /\ started <= n + excused /\ started + 1 <= n + excused + 0
          BY <2>1, <3>1, <3>2 DEF RunsAreCounted
        <4>. QED BY <1>0, <4>1
      <3>. QED BY <1>0, <2>1, <3>1, <3>2, <3>3 DEF RunsAreCounted
    <2>. QED BY <2>2, <2>3
  <1>8. CASE Plan
    <2>1. UNCHANGED <<row, excused, started, wish, unrecorded>> /\ run.pc \in Ready /\ unrecorded = 0
      BY <1>8 DEF Plan, RunOnly, rowVars, counts, history, Ready, Settled, RunsAreCounted
    <2>. QED BY <1>1, <2>1
  <1>9. CASE Approve
    <2>1. UNCHANGED <<row, excused, wish>> /\ run.pc \in Ready /\ unrecorded = 0
      BY <1>9 DEF Approve, rowVars, Ready, Settled, RunsAreCounted
    <2>2. CASE started' = started /\ unrecorded' = unrecorded /\ run'.pc = "failing"
      BY <1>1, <2>1, <2>2 DEF Ready
    <2>3. CASE started' = started + 1 /\ unrecorded' = 1 /\ run'.pc = "executing"
      <3>1. Exists' <=> Exists
        BY <2>1 DEF Exists
      <3>3. ASSUME Exists
            PROVE  /\ started' <= row'.runs + excused' + unrecorded'
                   /\ \A n \in Caps' :
                         started' <= n + excused' /\ started' + 1 <= n + excused' + unrecorded'
        <4>1. row.runs \in Nat /\ Caps' = Caps /\ Caps \subseteq Nat
          BY <1>0, <2>1, <3>3 DEF Row, Caps
        <4>2. started + 1 <= row.runs + excused + 1
          <5>1. started <= row.runs + excused + 0
            BY <2>1, <3>3 DEF RunsAreCounted
          <5>. QED BY <1>0, <4>1, <5>1
        <4>3. ASSUME NEW n \in Caps
              PROVE  started + 1 <= n + excused /\ (started + 1) + 1 <= n + excused + 1
          <5>1. n \in Nat /\ started + 1 <= n + excused
            BY <2>1, <3>3, <4>1 DEF RunsAreCounted
          <5>. QED BY <1>0, <5>1
        <4>. QED BY <2>1, <2>3, <4>1, <4>2, <4>3
      <3>4. wish' # "none"
        BY <2>1 DEF RunsAreCounted
      <3>. QED BY <2>1, <2>3, <3>1, <3>3, <3>4 DEF RunsAreCounted, Ready, Settled
    <2>4. \/ started' = started + 1 /\ unrecorded' = 1 /\ run' = [run EXCEPT !.pc = "executing"]
          \/ started' = started /\ unrecorded' = unrecorded /\ run' = [run EXCEPT !.pc = "failing"]
      BY <1>9 DEF Approve, Goto
    <2>. QED BY <1>0, <2>2, <2>3, <2>4 DEF Run
  <1>10. CASE Execute \/ Retry("gate-B")
    <2>1. UNCHANGED <<row, excused, started, wish, unrecorded>>
      BY <1>10 DEF Execute, Retry, RunOnly, rowVars, counts, history
    <2>2. \E p \in {"succeeding", "failing", "retrying", "gated"} : run' = [run EXCEPT !.pc = p]
      BY <1>10 DEF Execute, Retry, Goto
    <2>3. run'.pc \in {"succeeding", "failing", "retrying", "gated"}
      BY <1>0, <2>2 DEF Run
    <2>. QED BY <1>1, <2>1, <2>3 DEF Ready, Settled
  <1>11. ASSUME NEW a \in Answer, RecordSuccess(a) PROVE RunsAreCounted'
    <2>1. PICK next \in {"idle", "renewing"} : Record(TRUE, a, next)
      BY <1>11, Zenon DEF RecordSuccess
    <2>. QED BY <1>11, <2>1, CountsRecorded DEF RecordSuccess
  <1>12. ASSUME NEW a \in Answer, RecordFailure(a) PROVE RunsAreCounted'
    BY <1>12, CountsRecorded DEF RecordFailure
  <1>13. ASSUME NEW a \in Answer, RecordGate(a) PROVE RunsAreCounted'
    BY <1>13, CountsRecorded DEF RecordGate
  <1>14. ASSUME NEW a \in Answer, Renew(a) PROVE RunsAreCounted'
    <2>1. UNCHANGED <<row, excused, started, wish, unrecorded>> /\ unrecorded = 0
      BY <1>14 DEF Renew, rowVars, counts, RunsAreCounted, Settled
    <2>2. run' = NoRun \/ run' = [run EXCEPT !.pc = "failing"]
      BY <1>14 DEF Renew, Goto
    <2>3. run'.pc \in {"idle", "failing"}
      BY <1>0, <2>2 DEF Run, NoRun
    <2>. QED BY <1>1, <2>1, <2>3 DEF Ready
  <1>15. ASSUME NEW a \in Answer, PauseAtGate(a) PROVE RunsAreCounted'
    <2>1. UNCHANGED <<excused, started, wish, unrecorded>> /\ unrecorded = 0
      BY <1>15 DEF PauseAtGate, counts, RunsAreCounted, Settled
    <2>2. \E p \in {"dropping", "failing"} : run' = [run EXCEPT !.pc = p]
      BY <1>15 DEF PauseAtGate, Goto
    <2>3. run'.pc \in {"dropping", "failing"}
      BY <1>0, <2>2 DEF Run
    <2>4. /\ Exists' <=> Exists
          /\ Exists \/ row' = row
          /\ row'.kind = row.kind /\ row'.limit = row.limit /\ row'.runs = row.runs
          /\ row'.status = "active" => row.status = "active"
      <3>1. row' = row \/ update_scheduled_plan("paused", NotGiven, "none")
        BY <1>15 DEF PauseAtGate
      <3>2. "paused" \in Word \cup {"none"} /\ "none" \in Config \cup {"none"}
            /\ NotGiven \in Nat \cup {NotGiven}
        BY DEF Word
      <3>3. CASE update_scheduled_plan("paused", NotGiven, "none")
        <4>1. /\ Exists' <=> Exists
              /\ Exists \/ row' = row
              /\ row'.kind = row.kind
              /\ row'.limit = row.limit
              /\ row'.runs = row.runs
              /\ row'.status = IF Exists THEN "paused" ELSE row.status
          BY <1>0, <3>2, <3>3, UpdateKeepsRest
        <4>. QED BY <4>1
      <3>. QED BY <3>1, <3>3 DEF Exists
    <2>5. unrecorded' \in {0, 1} /\ excused' \in Nat /\ excused <= excused'
          /\ excused + unrecorded <= excused' + unrecorded'
      BY <1>0, <2>1
    <2>6. (run'.pc \in Ready => run.pc \in Ready) /\ (run'.pc \in Settled => unrecorded' = 0)
      BY <2>1, <2>3 DEF Ready
    <2>. QED BY <2>1, <2>4, <2>5, <2>6, CountsUnchanged
  <1>16. CASE DropJob
    <2>1. UNCHANGED <<row, excused, started, wish, unrecorded>> /\ unrecorded = 0 /\ run'.pc = "idle"
      BY <1>16 DEF DropJob, rowVars, counts, RunsAreCounted, NoRun, Settled
    <2>. QED BY <1>1, <2>1 DEF Ready
  <1>17. ASSUME NEW a \in Answer, Restart(a) PROVE RunsAreCounted'
    <2>1. UNCHANGED <<row, started, wish>> /\ run'.pc = "idle" /\ unrecorded' = 0
          /\ excused' = excused + unrecorded
      BY <1>17 DEF Restart, NoRun
    <2>2. /\ excused' \in Nat /\ excused <= excused' /\ unrecorded' \in {0, 1}
          /\ excused + unrecorded <= excused' + unrecorded'
      BY <1>0, <2>1
    <2>3. (Exists' <=> Exists) /\ (run'.pc \in Ready => run.pc \in Ready)
      BY <2>1 DEF Exists, Ready
    <2>. QED BY <2>1, <2>2, <2>3, CountsUnchanged
  <1>. QED BY <1>2, <1>3, <1>4, <1>5, <1>6, <1>7, <1>8, <1>9, <1>10, <1>11, <1>12, <1>13,
              <1>14, <1>15, <1>16, <1>17 DEF Next, Update, RunStep, BeginUpdate, Reread, Register,
              Misfire, Tick, vars, rowVars, counts, history

-----------------------------------------------------------------------------
\* The inductive invariant: the types, the wish behind an active schedule, the
\* care for its job, the count of the executions, and that of those begun since
\* the user's last word (scheduler_service.py).
THEOREM Invariance == Spec => []Inv
  <1>1. Init => Inv
    <2>. SUFFICES ASSUME Init PROVE Inv
      OBVIOUS
    <2>1. NoRow \in Row /\ NoRun \in Run /\ NoRequest \in Req
      BY DEF Row, Run, Req, NoRow, NoRun, NoRequest, Status, Kind, Config, RunPc
    <2>2. TypeOK
      BY <2>1 DEF Init, TypeOK
    <2>3. row.status = "absent" /\ run.pc = "idle"
      BY DEF Init, NoRow, NoRun
    <2>. QED BY <2>2, <2>3 DEF Init, Inv, ActiveIsWished, JobIsCaredFor, ReadyIsFirst, RunsAreCounted,
                               Exists, Ready
  <1>2. Inv /\ [Next]_vars => Inv'
    BY TypeInductive, WishInductive, JobInductive, ReadyInductive, CountInductive DEF Inv
  <1>. QED BY <1>1, <1>2, PTL DEF Spec

\* Once its user has paused, cancelled or deleted a schedule, an execution begins
\* only as the first since then, by a run that had read "active" before and was
\* waiting for its plan or its token (scheduler_service.py:323-389).
THEOREM NothingRunsAgainstTheWish == Spec => NoRunAgainstWish
  <1>1. Inv /\ [Next]_vars => [started' > started => wish = "active" \/ since = 0]_vars
    <2>. SUFFICES ASSUME TypeOK, ReadyIsFirst, [Next]_vars, started' > started
                  PROVE  wish = "active" \/ since = 0
      BY DEF Inv
    <2>1. started \in Nat
      BY DEF TypeOK
    <2>2. CASE UNCHANGED started
      BY <2>1, <2>2
    <2>3. CASE Approve
      BY <2>3 DEF Approve, ReadyIsFirst, Ready
    <2>. QED BY <2>2, <2>3 DEF Next, Update, RunStep, Create, BeginUpdate, WriteUpdate, Reread,
             Register, Delete, Fire, Misfire, Load, Plan, Execute, Retry, RunOnly, RecordSuccess,
             RecordFailure, RecordGate, Record, Renew, PauseAtGate, DropJob, Tick, Restart,
             vars, counts, history
  <1>. QED BY <1>1, Invariance, PTL DEF Spec, NoRunAgainstWish

\* However requests, edits of the limit, runs, failures and restarts interleave, a
\* limit is exceeded only by what it does not stand for (adapters/db.py:172-217,
\* scheduler_service.py:201-202).
THEOREM LimitsAreKept == Spec => []LimitKept
  <1>1. Inv => LimitKept
    <2>. SUFFICES ASSUME TypeOK, RunsAreCounted PROVE LimitKept
      BY DEF Inv
    <2>1. CASE ~Exists
      BY <2>1 DEF RunsAreCounted, LimitKept, NoRow
    <2>2. CASE Exists
      <3>1. \A n \in Caps : started <= n + excused
        BY <2>2 DEF RunsAreCounted
      <3>2. (row.kind = "once" => 1 \in Caps) /\ (row.limit > 0 => row.limit \in Caps)
        BY DEF TypeOK, Row, Caps
      <3>. QED BY <3>1, <3>2 DEF LimitKept
    <2>. QED BY <2>1, <2>2
  <1>. QED BY <1>1, Invariance, PTL

\* No active schedule is left without a job for longer than a request is open, but
\* for the failures and the refused triggers that unjobbed notes
\* (scheduler_service.py:145-243, 259-291).
THEOREM ActiveSchedulesHaveJobs == Spec => []ActiveHasJob
  <1>1. Inv => ActiveHasJob
    BY DEF Inv, JobIsCaredFor, ActiveHasJob
  <1>. QED BY <1>1, Invariance, PTL

=============================================================================
