------------------------------ MODULE Outcomes ------------------------------
(***************************************************************************)
(* What is remembered of executions.  PlanWriter writes an outcome to the  *)
(* PlanLibrary, which must succeed, then a fact to the History, with the   *)
(* count of the pattern the fact belongs to, then an embedding to the      *)
(* VectorIndex; a failure of the last two only makes the result partial.   *)
(*                                                                         *)
(* Every database command is an action with the code up to the next one;   *)
(* it may fail before it took effect or after.  Requests are independent   *)
(* and may die between two commands.  The facts are those of one user.     *)
(***************************************************************************)
EXTENDS Integers, Sequences, FiniteSets

CONSTANTS Call,      \* concurrent requests
          Intents,   \* types of plans
          Entities,  \* what they are about: "none" or a value, of which
          Pii,       \* these are refused in the text of a fact,
          Huge,      \* and these make a plan too large to be stored
          HasIndex,  \* is there a VectorIndex?
          Week,      \* days of a week
          Ttl,       \* days until a fact expires
          MaxPlans, MaxRounds, MaxDay, MaxFaults \* bounds

ASSUME OutcomeParameters ==
    /\ Pii \cup Huge \subseteq Entities /\ HasIndex \in BOOLEAN
    /\ Week \in Nat \ {0} /\ Ttl \in Nat \ {0}
    /\ {MaxPlans, MaxRounds, MaxDay, MaxFaults} \subseteq Nat
    /\ IsFiniteSet(Call)

VARIABLES
    plans,    \* plans made so far: type and entities
    library,  \* library[p]: the stored outcome of plan p, or "none"
    facts,    \* the rows of history
    counts,   \* occurrence_count of every pattern
    embedded, \* plans with a row in plan_embeddings
    call,     \* where a request is in persist_outcome
    day, rounds, faults,
    executed, \* history: what execute_plan gave to persist_outcome
    result,   \* the result of persist_outcome that came last, and the day of its
              \* fact
    ever,     \* all facts there have been
    blurred   \* patterns with a failed, dead or overlapping update

stores == <<library, facts, counts, embedded>>
history == <<executed, result, ever, blurred>>
vars == <<plans, stores, call, day, rounds, faults, history>>

Ids == DOMAIN plans
PatternKeys == Intents \X Entities \X (0 .. Week - 1)
NoResult == [plan |-> 0, outcome |-> "none", day |-> 0, status |-> "none"]
Outcome == {"success", "failure"}
Idle == [pc |-> "idle", todo |-> << >>, day |-> 0, seen |-> 0, status |-> "ok"]
Begin(items) == [pc |-> "library", todo |-> items, day |-> 0, seen |-> 0, status |-> "ok"]
Item(c) == Head(call[c].todo)

Init ==
    /\ plans = << >> /\ library = << >> /\ facts = {} /\ embedded = {}
    /\ counts = [k \in PatternKeys |-> 0] /\ call = [c \in Call |-> Idle]
    /\ day = 0 /\ rounds = 0 /\ faults = 0
    /\ executed = {} /\ result = NoResult /\ ever = {} /\ blurred = {}

\* How a command ends: "error" without its effect, "lost" with it.
Answer == {"ok", "lost", "error"}
TakesEffect(a) == a # "error"
StatusOf(a) == IF a = "ok" THEN "ok" ELSE "partial"
Answers(a) ==
    /\ faults' = IF a = "ok" THEN faults ELSE faults + 1
    /\ faults' <= MaxFaults

-----------------------------------------------------------------------------
(* Plans, and what is done with them *)

NewPlan(intent, entities) ==
    /\ Len(plans) < MaxPlans
    /\ plans' = Append(plans, [intent |-> intent, entities |-> entities])
    /\ library' = Append(library, "none")
    /\ UNCHANGED <<facts, counts, embedded, call, day, rounds, faults, history>>

\* The planner makes a plan.
Make(intent, entities) == NewPlan(intent, entities)

get_plan_by_id(p) == library[p] # "none"

\* A stored plan is repeated with other entities, under an id of its own.
clone_plan_for_rerun(p, entities) ==
    get_plan_by_id(p) /\ NewPlan(plans[p].intent, entities)

\* A round has ended, well or not, and is persisted as its last step.
Execute(c, p, outcome) ==
    /\ call[c] = Idle /\ rounds < MaxRounds
    /\ rounds' = rounds + 1
    /\ executed' = executed \cup {[plan |-> p, outcome |-> outcome]}
    /\ call' = [call EXCEPT ![c] = Begin(<<[plan |-> p, outcome |-> outcome]>>)]
    /\ UNCHANGED <<plans, stores, day, faults, result, ever, blurred>>

\* Outcomes are replayed, one after the other.
bulk_persist(c, items) ==
    /\ call[c] = Idle /\ rounds < MaxRounds
    /\ rounds' = rounds + 1
    /\ call' = [call EXCEPT ![c] = Begin(items)]
    /\ UNCHANGED <<plans, stores, day, faults, history>>

\* The result is reported; a batch goes on with its next outcome, also after
\* an error.
Finish(c, status) ==
    /\ result' = [plan |-> Item(c).plan, outcome |-> Item(c).outcome,
                  day |-> call[c].day, status |-> status]
    /\ call' = [call EXCEPT ![c] =
           IF Len(@.todo) = 1 THEN Idle ELSE Begin(Tail(@.todo))]

-----------------------------------------------------------------------------
(* PlanLibrary *)

\* Plan, outcome and metrics in one transaction; the plan id is unique.
store_plan_transaction(p, outcome, a) ==
    library' = IF TakesEffect(a) /\ library[p] = "none"
               THEN [library EXCEPT ![p] = outcome] ELSE library

\* Ids, fields and sizes are looked at before anything is stored.
Storable(p) == plans[p].entities \notin Huge

\* Without an error the plan is stored, or was before.
store_plan(p, outcome, a) ==
    IF Storable(p) THEN store_plan_transaction(p, outcome, a)
    ELSE a = "error" /\ UNCHANGED library

\* Mutant: the library is as optional as the other stores.
StorePlanOptional(c, a) ==
    /\ call[c].pc = "library"
    /\ store_plan(Item(c).plan, Item(c).outcome, a)
    /\ IF Storable(Item(c).plan) THEN Answers(a) ELSE UNCHANGED faults
    /\ call' = [call EXCEPT ![c] = [@ EXCEPT !.pc = "fact", !.status = StatusOf(a)]]
    /\ UNCHANGED <<plans, facts, counts, embedded, day, rounds, history>>

\* A duplicate counts as success; any other error ends persist_outcome.
StorePlan(c, a) ==
    /\ call[c].pc = "library"
    /\ store_plan(Item(c).plan, Item(c).outcome, a)
    /\ IF Storable(Item(c).plan) THEN Answers(a) ELSE UNCHANGED faults
    /\ IF a = "ok"
       THEN call' = [call EXCEPT ![c] = [@ EXCEPT !.pc = "fact"]] /\ UNCHANGED result
       ELSE Finish(c, "error")
    /\ UNCHANGED <<plans, facts, counts, embedded, day, rounds, executed, ever, blurred>>

get_plan_outcomes(p) == {library[p]} \ {"none"}

\* Plans whose outcomes, which are at most one, were a success.
get_plans_by_intent(intent) == {p \in Ids : plans[p].intent = intent /\ get_plan_outcomes(p) = {"success"}}

-----------------------------------------------------------------------------
(* History *)

\* The text: a success tells the entities, a failure only the type.
derive_fact(p, outcome) ==
    IF outcome = "success"
    THEN <<"done", plans[p].intent, plans[p].entities>>
    ELSE <<"failed", plans[p].intent>>

_detect_pii(p, outcome) == outcome = "success" /\ plans[p].entities \in Pii

\* The row the hash of user, type, text and day leads to.
SameHash(text, d) == {f \in facts : f.text = text /\ f.day = d /\ f.deleted = -1}

insert_fact(p, outcome, a) ==
    LET row == [text |-> derive_fact(p, outcome), day |-> day, plan |-> p, deleted |-> -1] IN
    IF SameHash(row.text, day) = {} /\ TakesEffect(a)
    THEN facts' = facts \cup {row} /\ ever' = ever \cup {row}
    ELSE UNCHANGED <<facts, ever>>

\* Mutant: every fact is taken for new.
IsNewAlways(p, outcome) == TRUE

\* Was the row inserted?
IsNew(p, outcome) == SameHash(derive_fact(p, outcome), day) = {}

\* Mutant: the failure is not noted.
GiveUpSilently(c) == [call[c] EXCEPT !.pc = "embedding", !.day = day]

\* A failure is noted, and the embedding is next.
GiveUp(c) == [call[c] EXCEPT !.pc = "embedding", !.status = "partial", !.day = day]

KeyOf(p, d) == <<plans[p].intent, plans[p].entities, d % Week>>

\* The fact is refused, inserted or known; a new one about something has a
\* pattern to be counted.
store_fact(c, p, outcome, a) ==
    IF _detect_pii(p, outcome)
    THEN /\ a = "ok" /\ call' = [call EXCEPT ![c] = GiveUp(c)]
         /\ UNCHANGED <<facts, ever, faults>>
    ELSE /\ Answers(a) /\ insert_fact(p, outcome, a)
         /\ call' = [call EXCEPT ![c] =
                IF a # "ok" THEN GiveUp(c)
                ELSE [@ EXCEPT !.day = day,
                               !.pc = IF IsNew(p, outcome) /\ plans[p].entities # "none"
                                      THEN "pattern" ELSE "embedding"]]

StoreFact(c, a) ==
    LET p == Item(c).plan IN
    /\ call[c].pc = "fact"
    /\ store_fact(c, p, Item(c).outcome, a)
    /\ blurred' = IF IsNew(p, Item(c).outcome) /\ a = "lost" THEN blurred \cup {KeyOf(p, day)}
                  ELSE blurred
    /\ UNCHANGED <<plans, library, counts, embedded, day, rounds, executed, result>>

query_patterns(k) == counts[k]

\* What the fact is about, and its weekday.
PatternOf(c) == KeyOf(Item(c).plan, call[c].day)

\* The patterns of the type are read to find this one ...
ReadPattern(c, a) ==
    /\ call[c].pc = "pattern" /\ a # "lost" /\ Answers(a)
    /\ call' = [call EXCEPT ![c] =
           IF a = "ok" THEN [@ EXCEPT !.pc = "count", !.seen = query_patterns(PatternOf(c))]
                       ELSE [@ EXCEPT !.pc = "embedding", !.status = "partial"]]
    /\ blurred' = IF a = "ok" THEN blurred ELSE blurred \cup {PatternOf(c)}
    /\ UNCHANGED <<plans, stores, day, rounds, executed, result, ever>>

\* ... and it is set to one more than was read, whatever it is now.
upsert_pattern(k, n, a) == counts' = IF TakesEffect(a) THEN [counts EXCEPT ![k] = n] ELSE counts

WritePattern(c, a) ==
    /\ call[c].pc = "count" /\ Answers(a)
    /\ upsert_pattern(PatternOf(c), call[c].seen + 1, a)
    /\ call' = [call EXCEPT ![c] = [@ EXCEPT !.pc = "embedding", !.seen = 0, !.status = StatusOf(a)]]
    /\ blurred' = IF TakesEffect(a) /\ counts[PatternOf(c)] = call[c].seen
                  THEN blurred ELSE blurred \cup {PatternOf(c)}
    /\ UNCHANGED <<plans, library, facts, embedded, day, rounds, executed, result, ever>>

-----------------------------------------------------------------------------
(* VectorIndex *)

upsert_embedding(p, a) ==
    embedded' = IF HasIndex /\ TakesEffect(a) THEN embedded \cup {p} ELSE embedded

store_embedding(p, a) == upsert_embedding(p, a)

\* Without an index there is nothing to fail.
StoreEmbedding(c, a) ==
    /\ call[c].pc = "embedding" /\ Answers(a) /\ (HasIndex \/ a = "ok")
    /\ store_embedding(Item(c).plan, a)
    /\ Finish(c, IF a = "ok" THEN call[c].status ELSE "partial")
    /\ UNCHANGED <<plans, library, facts, counts, day, rounds, executed, ever, blurred>>

-----------------------------------------------------------------------------
(* Time, clean-up and the death of a request *)

Tick ==
    /\ day < MaxDay /\ day' = day + 1
    /\ UNCHANGED <<plans, stores, call, rounds, faults, history>>

Expired(f) == f.day + Ttl <= day

query_facts(intent) == {f \in facts : plans[f.plan].intent = intent /\ f.deleted = -1 /\ ~Expired(f)}

\* Expired facts are marked as deleted, later removed.  Patterns keep them.
cleanup_expired_facts ==
    /\ \E f \in facts : Expired(f) /\ f.deleted = -1
    /\ facts' = {IF Expired(f) /\ f.deleted = -1 THEN [f EXCEPT !.deleted = day] ELSE f : f \in facts}
    /\ UNCHANGED <<plans, library, counts, embedded, call, day, rounds, faults, history>>

hard_delete_old_facts ==
    /\ \E f \in facts : f.deleted # -1
    /\ facts' = {f \in facts : f.deleted = -1}
    /\ UNCHANGED <<plans, library, counts, embedded, call, day, rounds, faults, history>>

Die(c) ==
    /\ call[c] # Idle /\ faults < MaxFaults
    /\ faults' = faults + 1
    /\ blurred' = IF call[c].pc \in {"pattern", "count"} THEN blurred \cup {PatternOf(c)}
                  ELSE blurred
    /\ call' = [call EXCEPT ![c] = Idle]
    /\ UNCHANGED <<plans, stores, day, rounds, executed, result, ever>>

-----------------------------------------------------------------------------
Next ==
    \/ \E i \in Intents, e \in Entities : Make(i, e)
    \/ \E p \in Ids, e \in Entities : clone_plan_for_rerun(p, e)
    \/ \E c \in Call :
          \/ \E p \in Ids, outcome \in Outcome : Execute(c, p, outcome)
          \/ \E x \in executed, y \in executed : bulk_persist(c, <<x, y>>)
          \/ \E a \in Answer : \/ StorePlan(c, a) \/ StoreFact(c, a) \/ ReadPattern(c, a)
                               \/ WritePattern(c, a) \/ StoreEmbedding(c, a)
          \/ Die(c)
    \/ Tick \/ cleanup_expired_facts \/ hard_delete_old_facts

Spec == Init /\ [][Next]_vars

-----------------------------------------------------------------------------
(* Properties *)

\* What is remembered has happened: the plan of a fact or an embedding is in
\* the library, and a precedent the library offers, like a fact that the
\* History answers with, tells an outcome its plan had.
MemoryIsGrounded ==
    /\ \A f \in ever : get_plan_by_id(f.plan)
    /\ \A p \in embedded : get_plan_by_id(p)
    /\ \A i \in Intents :
          /\ \A p \in get_plans_by_intent(i) : [plan |-> p, outcome |-> "success"] \in executed
          /\ \A f \in query_facts(i) :
                \E x \in executed : x.plan = f.plan /\ f.text = derive_fact(x.plan, x.outcome)

\* A result "ok" is true: the plan is stored, the fact of this outcome was
\* stored on that day, by this request or another one, and so is the
\* embedding; and there is no result but "error" for a plan that is not.
StatusIsTrue ==
    /\ result.status \in {"ok", "partial"} => get_plan_by_id(result.plan)
    /\ result.status = "ok" =>
          /\ HasIndex => result.plan \in embedded
          /\ \E f \in ever : f.text = derive_fact(result.plan, result.outcome) /\ f.day = result.day

\* A pattern never counts a fact twice, though outcomes are replayed, and
\* misses none unless updates of it failed or overlapped.
PatternsCount ==
    \A k \in PatternKeys :
        LET of == {f \in ever : KeyOf(f.plan, f.day) = k}
            pending == {c \in Call : call[c].pc \in {"pattern", "count"} /\ PatternOf(c) = k} IN
        /\ counts[k] <= Cardinality(of)
        /\ k[2] # "none" /\ k \notin blurred => counts[k] + Cardinality(pending) = Cardinality(of)

=============================================================================
