-------------------------- MODULE Outcomes_proofs --------------------------
(***************************************************************************)
(* Proofs about Outcomes, for any requests, plans, days and failures: what *)
(* is remembered has happened, the result of a request is true, and no     *)
(* pattern counts a fact twice or loses one unnoticed.                     *)
(***************************************************************************)
EXTENDS Outcomes, FiniteSetTheorems, SequenceTheorems, TLAPS

Plan == [intent : Intents, entities : Entities]
Round == [plan : Ids, outcome : Outcome]
Text == ({"done"} \X Intents \X Entities) \cup ({"failed"} \X Intents)
Fact == [text : Text, day : Nat, plan : Ids, deleted : Int]
Request == [pc   : {"idle", "library", "fact", "pattern", "count", "embedding"},
            todo : Seq(executed), day : Nat, seen : Nat, status : {"ok", "partial"}]
Result == [plan : Nat, outcome : Outcome \cup {"none"}, day : Nat,
           status : {"none", "ok", "partial", "error"}]

CallsOK ==
    /\ call \in [Call -> Request]
    /\ \A c \in Call : IF call[c].pc = "idle" THEN call[c] = Idle ELSE Len(call[c].todo) > 0

ResultOK == result \in Result /\ (result.status # "none" => result.plan \in Ids)

TypeOK ==
    /\ plans \in Seq(Plan)
    /\ library \in Seq(Outcome \cup {"none"}) /\ Len(library) = Len(plans)
    /\ facts \subseteq Fact /\ ever \subseteq Fact
    /\ counts \in [PatternKeys -> Nat]
    /\ embedded \subseteq Ids
    /\ executed \subseteq Round
    /\ CallsOK
    /\ day \in Nat /\ rounds \in Nat /\ faults \in Nat
    /\ ResultOK
    /\ blurred \subseteq PatternKeys

\* A fact is about an outcome its plan had, and about a plan that is stored.
FactIsGrounded(f) ==
    /\ get_plan_by_id(f.plan)
    /\ f.deleted = -1 /\ f.day <= day
    /\ \E x \in executed : x.plan = f.plan /\ f.text = derive_fact(x.plan, x.outcome)

\* Was the fact of this outcome stored on that day?
FactStored(p, outcome, d) == \E f \in ever : f.text = derive_fact(p, outcome) /\ f.day = d

\* The stores only hold what has happened; a request is past a store only with
\* the plan stored, and without an error only with the fact stored.
FactsGrounded ==
    /\ \A f \in ever : FactIsGrounded(f)
    /\ \A f \in facts : f.deleted = -1 => f \in ever

EmbeddingsGrounded == \A p \in embedded : get_plan_by_id(p)

LibraryGrounded ==
    \A p \in Ids : get_plan_by_id(p) => [plan |-> p, outcome |-> library[p]] \in executed

CallGrounded(c) ==
    /\ call[c].pc \in {"fact", "pattern", "count", "embedding"} => get_plan_by_id(Item(c).plan)
    /\ call[c].pc # "embedding" => call[c].status = "ok"
    /\ call[c].pc \in {"pattern", "count", "embedding"} /\ call[c].status = "ok" =>
          FactStored(Item(c).plan, Item(c).outcome, call[c].day)

Grounded ==
    /\ FactsGrounded /\ EmbeddingsGrounded /\ LibraryGrounded
    /\ \A c \in Call : CallGrounded(c)

\* The facts of a pattern, and the requests that are about to count one.
Of(k) == {f \in ever : KeyOf(f.plan, f.day) = k}
Pending(k) == {c \in Call : call[c].pc \in {"pattern", "count"} /\ PatternOf(c) = k}

\* A fact that has not expired was not removed.
FreshFactsStay == \A f \in ever : f.day + Ttl > day => f \in facts

\* With what is counted, or with what a request has read of it, the facts that
\* are to be counted never make up for more than there are.
KeyCounted(k) ==
    /\ counts[k] + Cardinality(Pending(k)) <= Cardinality(Of(k))
    /\ k[2] # "none" /\ k \notin blurred =>
          counts[k] + Cardinality(Pending(k)) = Cardinality(Of(k))
    /\ \A c \in Pending(k) : call[c].pc = "count" =>
          call[c].seen + Cardinality(Pending(k)) <= Cardinality(Of(k))

Counted == IsFiniteSet(ever) /\ FreshFactsStay /\ \A k \in PatternKeys : KeyCounted(k)

Inv == TypeOK /\ Grounded /\ StatusIsTrue /\ Counted

-----------------------------------------------------------------------------
\* More plans and more rounds leave what was well typed so.
LEMMA TypesGrow ==
  ASSUME Ids \subseteq Ids', executed \subseteq executed'
  PROVE  Round \subseteq Round' /\ Fact \subseteq Fact' /\ Request \subseteq Request'
  BY DEF Round, Fact, Request

LEMMA TypesStay ==
  ASSUME UNCHANGED <<plans, executed>>
  PROVE  Ids' = Ids /\ Round' = Round /\ Fact' = Fact /\ Request' = Request
  BY DEF Ids, Round, Fact, Request

\* What a request is about is one of the rounds.
LEMMA ItemOfCall ==
  ASSUME TypeOK, NEW c \in Call, call[c].pc # "idle"
  PROVE  /\ Item(c) \in executed /\ Item(c).plan \in Ids /\ Item(c).outcome \in Outcome
         /\ Len(call[c].todo) > 0 /\ call[c] \in Request
         /\ library[Item(c).plan] \in Outcome \cup {"none"}
         /\ plans[Item(c).plan] \in Plan
  BY DEF TypeOK, CallsOK, Request, Round, Item, Ids

\* A new plan leaves the plans there are, and what is stored of them.
LEMMA PlansStay ==
  ASSUME TypeOK, NEW i \in Intents, NEW e \in Entities, NewPlan(i, e)
  PROVE  /\ plans' \in Seq(Plan) /\ library' \in Seq(Outcome \cup {"none"})
         /\ Len(library') = Len(plans')
         /\ Ids \subseteq Ids' /\ \A p \in Ids : plans'[p] = plans[p] /\ library'[p] = library[p]
         /\ \A p \in Ids' : p \notin Ids => library'[p] = "none"
         /\ UNCHANGED <<facts, counts, embedded, call, day, rounds, faults, history>>
  <1>1. /\ plans \in Seq(Plan) /\ library \in Seq(Outcome \cup {"none"})
        /\ Len(library) = Len(plans)
        /\ [intent |-> i, entities |-> e] \in Plan
    BY DEF TypeOK, CallsOK, Plan
  <1>2. /\ plans' = Append(plans, [intent |-> i, entities |-> e])
        /\ library' = Append(library, "none")
        /\ UNCHANGED <<facts, counts, embedded, call, day, rounds, faults, history>>
    BY DEF NewPlan
  <1>. QED BY <1>1, <1>2 DEF Ids

LEMMA RestOfItems ==
  ASSUME NEW S, NEW s \in Seq(S), Len(s) > 0, Len(s) # 1
  PROVE  Tail(s) \in Seq(S) /\ Len(Tail(s)) > 0
  <1>1. s # << >> /\ Len(s) \in Nat
    OBVIOUS
  <1>2. Tail(s) \in Seq(S) /\ Len(Tail(s)) = Len(s) - 1
    BY <1>1, HeadTailProperties
  <1>. QED BY <1>1, <1>2

LEMMA BeginTypes ==
  ASSUME NEW t \in Seq(executed)
  PROVE  /\ Begin(t) \in Request
         /\ Begin(t).pc = "library" /\ Begin(t).todo = t /\ Begin(t).status = "ok"
  <1>1. Begin(t) \in Request
    BY DEF Request, Begin
  <1>2. Begin(t).status = "ok"
    BY Zenon DEF Begin
  <1>3. Begin(t).pc = "library" /\ Begin(t).todo = t
    BY DEF Begin
  <1>. QED BY <1>1, <1>2, <1>3

LEMMA IdleTypes == Idle \in Request /\ Idle.pc = "idle" /\ Idle.status = "ok"
  <1>1. Idle \in Request /\ Idle.pc = "idle"
    BY DEF Request, Idle
  <1>2. Idle.status = "ok"
    BY Zenon DEF Idle
  <1>. QED BY <1>1, <1>2

\* The end of an item leaves the request with the items after it.
LEMMA FinishTypes ==
  ASSUME TypeOK, NEW c \in Call, call[c].pc # "idle",
         NEW status \in {"ok", "partial", "error"}, Finish(c, status)
  PROVE  /\ call' \in [Call -> Request]
         /\ \A d \in Call : IF call'[d].pc = "idle" THEN call'[d] = Idle ELSE Len(call'[d].todo) > 0
         /\ result' \in Result /\ result'.plan \in Ids
         /\ \A d \in Call : d # c => call'[d] = call[d]
         /\ call'[c].pc \in {"idle", "library"} /\ call'[c].status = "ok"
         /\ result' = [plan |-> Item(c).plan, outcome |-> Item(c).outcome,
                       day |-> call[c].day, status |-> status]
  <1>. DEFINE next == IF Len(call[c].todo) = 1 THEN Idle
                      ELSE Begin(Tail(call[c].todo))
  <1>1. call' = [call EXCEPT ![c] = next]
    BY DEF Finish, TypeOK, CallsOK
  <1>2. next \in Request /\ next.pc \in {"idle", "library"} /\ next.status = "ok"
        /\ IF next.pc = "idle" THEN next = Idle ELSE Len(next.todo) > 0
    <2>1. call[c].todo \in Seq(executed) /\ Len(call[c].todo) > 0
      BY ItemOfCall DEF Request
    <2>2. CASE Len(call[c].todo) = 1
      <3>1. next = Idle
        BY <2>2
      <3>. HIDE DEF next
      <3>. QED BY <3>1, IdleTypes
    <2>3. CASE Len(call[c].todo) # 1
      <3>1. Tail(call[c].todo) \in Seq(executed) /\ Len(Tail(call[c].todo)) > 0
        BY <2>1, <2>3, RestOfItems
      <3>2. next = Begin(Tail(call[c].todo))
        BY <2>3
      <3>. HIDE DEF next
      <3>. QED BY <3>1, <3>2, BeginTypes
    <2>. QED BY <2>2, <2>3
  <1>3. result' = [plan |-> Item(c).plan, outcome |-> Item(c).outcome,
                   day |-> call[c].day, status |-> status]
    BY DEF Finish
  <1>4. result' \in Result /\ result'.plan \in Ids
    <2>1. Item(c).plan \in Nat /\ Item(c).plan \in Ids /\ Item(c).outcome \in Outcome
          /\ call[c].day \in Nat
      BY ItemOfCall DEF Ids, TypeOK, CallsOK, Request
    <2>. QED BY <1>3, <2>1 DEF Result
  <1>. HIDE DEF next
  <1>. QED BY <1>1, <1>2, <1>3, <1>4 DEF TypeOK, CallsOK

LEMMA PlanTypes ==
  ASSUME TypeOK, NEW p \in Ids
  PROVE  plans[p] \in Plan /\ plans[p].intent \in Intents /\ plans[p].entities \in Entities
  <1>1. plans[p] \in Plan
    BY DEF TypeOK, CallsOK, Ids
  <1>. QED BY <1>1 DEF Plan

\* The rows of the stores are facts, and stay so.
LEMMA DerivedText ==
  ASSUME TypeOK, NEW p \in Ids, NEW outcome \in Outcome
  PROVE  derive_fact(p, outcome) \in Text
  <1>1. plans[p].intent \in Intents /\ plans[p].entities \in Entities
    BY PlanTypes
  <1>. QED BY <1>1 DEF derive_fact, Text

LEMMA InsertTypes ==
  ASSUME TypeOK, NEW p \in Ids, NEW outcome \in Outcome, NEW a \in Answer,
         insert_fact(p, outcome, a)
  PROVE  facts' \subseteq Fact /\ ever' \subseteq Fact
  <1>. DEFINE f == [text |-> derive_fact(p, outcome), day |-> day, plan |-> p, deleted |-> -1]
  <1>1. f \in Fact
    BY DerivedText DEF Fact, TypeOK, CallsOK
  <1>2. (facts' = facts \cup {f} /\ ever' = ever \cup {f}) \/ UNCHANGED <<facts, ever>>
    BY DEF insert_fact
  <1>. QED BY <1>1, <1>2 DEF TypeOK, CallsOK

LEMMA PatternIsKey ==
  ASSUME TypeOK, NEW p \in Ids, NEW d \in Nat
  PROVE  KeyOf(p, d) \in PatternKeys
  <1>1. plans[p].intent \in Intents /\ plans[p].entities \in Entities
    BY PlanTypes
  <1>2. d % Week \in 0 .. Week - 1
    BY OutcomeParameters
  <1>. QED BY <1>1, <1>2 DEF KeyOf, PatternKeys

\* The types, when only a request and what it may write has changed.
LEMMA CallTypes ==
  ASSUME TypeOK, NEW c \in Call, call[c].pc # "idle", NEW r \in Request,
         call' = [call EXCEPT ![c] = r], r.pc # "idle", r.todo = call[c].todo
  PROVE  /\ call' \in [Call -> Request]
         /\ \A d \in Call : IF call'[d].pc = "idle" THEN call'[d] = Idle ELSE Len(call'[d].todo) > 0
         /\ \A d \in Call : call'[d] = IF d = c THEN r ELSE call[d]
         /\ Item(c)' = Item(c)
  BY DEF TypeOK, CallsOK, Item

\* What StoreFact makes of the request: an embedding is next after a failure,
\* or the pattern of a new fact.
LEMMA StoreFactMoves ==
  ASSUME TypeOK, NEW c \in Call, NEW a \in Answer, StoreFact(c, a)
  PROVE  \E r \in Request :
            /\ call' = [call EXCEPT ![c] = r]
            /\ r.pc \in {"pattern", "embedding"} /\ r.todo = call[c].todo /\ r.day = day
            /\ \/ r.status = "partial" /\ r.pc = "embedding"
               \/ /\ r.status = call[c].status /\ a = "ok"
                  /\ insert_fact(Item(c).plan, Item(c).outcome, a)
                  /\ r.pc = "pattern" => IsNew(Item(c).plan, Item(c).outcome)
  <1>. DEFINE p == Item(c).plan
              out == Item(c).outcome
              next == IF IsNew(p, out) /\ plans[p].entities # "none" THEN "pattern" ELSE "embedding"
              known == [call[c] EXCEPT !.day = day, !.pc = next]
  <1>1. call[c] \in Request /\ day \in Nat
    BY DEF TypeOK, CallsOK
  <1>2. /\ GiveUp(c) \in Request /\ GiveUp(c).pc = "embedding" /\ GiveUp(c).todo = call[c].todo
        /\ GiveUp(c).day = day /\ GiveUp(c).status = "partial"
    BY <1>1 DEF GiveUp, Request
  <1>3. /\ known \in Request /\ known.pc = next /\ known.todo = call[c].todo
        /\ known.day = day /\ known.status = call[c].status
    <2>. HIDE DEF p, out
    <2>1. next \in {"library", "fact", "pattern", "count", "embedding"}
      OBVIOUS
    <2>. HIDE DEF next
    <2>. QED BY <1>1, <2>1 DEF Request
  <1>4. CASE _detect_pii(p, out) \/ a # "ok"
    <2>1. call' = [call EXCEPT ![c] = GiveUp(c)]
      BY <1>4 DEF StoreFact, store_fact
    <2>. QED BY <1>2, <2>1
  <1>5. CASE ~_detect_pii(p, out) /\ a = "ok"
    <2>1. call' = [call EXCEPT ![c] = known] /\ insert_fact(p, out, a)
      BY <1>5 DEF StoreFact, store_fact, TypeOK, CallsOK
    <2>2. next \in {"pattern", "embedding"} /\ (next = "pattern" => IsNew(p, out))
      OBVIOUS
    <2>. HIDE DEF known, next
    <2>. QED BY <1>3, <1>5, <2>1, <2>2
  <1>. QED BY <1>4, <1>5

\* What the other steps make of the request.
LEMMA OtherMoves ==
  ASSUME TypeOK, NEW c \in Call, NEW a \in Answer,
         ReadPattern(c, a) \/ WritePattern(c, a)
  PROVE  \E r \in Request :
            /\ call' = [call EXCEPT ![c] = r]
            /\ r.todo = call[c].todo /\ r.day = call[c].day
            /\ \/ /\ ReadPattern(c, a) /\ a = "ok" /\ r.pc = "count" /\ r.status = call[c].status
                  /\ r.seen = counts[PatternOf(c)]
               \/ r.pc = "embedding" /\ r.status = StatusOf(a)
  <1>1. call[c] \in Request /\ counts[PatternOf(c)] \in Nat
    <2>1. call[c].pc # "idle"
      BY DEF ReadPattern, WritePattern
    <2>2. call[c] \in Request /\ call[c].day \in Nat /\ Item(c).plan \in Ids
      BY <2>1, ItemOfCall DEF Request
    <2>3. PatternOf(c) \in PatternKeys
      BY <2>2, PatternIsKey DEF PatternOf
    <2>. QED BY <2>2, <2>3 DEF TypeOK, CallsOK
  <1>2. CASE ReadPattern(c, a) /\ a = "ok"
    <2>. DEFINE r == [call[c] EXCEPT !.pc = "count", !.seen = counts[PatternOf(c)]]
    <2>1. call' = [call EXCEPT ![c] = r]
      BY <1>2 DEF ReadPattern, query_patterns, TypeOK, CallsOK
    <2>2. /\ r \in Request /\ r.todo = call[c].todo /\ r.day = call[c].day /\ r.pc = "count"
          /\ r.status = call[c].status /\ r.seen = counts[PatternOf(c)]
      BY <1>1 DEF Request
    <2>. HIDE DEF r
    <2>. QED BY <1>2, <2>1, <2>2
  <1>3. CASE ReadPattern(c, a) /\ a # "ok"
    <2>. DEFINE r == [call[c] EXCEPT !.pc = "embedding", !.status = "partial"]
    <2>1. call' = [call EXCEPT ![c] = r]
      BY <1>3 DEF ReadPattern, TypeOK, CallsOK
    <2>2. /\ r \in Request /\ r.todo = call[c].todo /\ r.day = call[c].day /\ r.pc = "embedding"
          /\ r.status = "partial"
      BY <1>1 DEF Request
    <2>. HIDE DEF r
    <2>. QED BY <1>3, <2>1, <2>2 DEF StatusOf
  <1>4. CASE WritePattern(c, a)
    <2>. DEFINE r == [call[c] EXCEPT !.pc = "embedding", !.seen = 0, !.status = StatusOf(a)]
    <2>1. call' = [call EXCEPT ![c] = r]
      BY <1>4 DEF WritePattern, TypeOK, CallsOK
    <2>2. StatusOf(a) \in {"ok", "partial"}
      BY DEF StatusOf
    <2>3. /\ r \in Request /\ r.todo = call[c].todo /\ r.day = call[c].day /\ r.pc = "embedding"
          /\ r.status = StatusOf(a)
      BY <1>1, <2>2 DEF Request
    <2>. HIDE DEF r
    <2>. QED BY <2>1, <2>3
  <1>. QED BY <1>2, <1>3, <1>4

\* What a step of a request does to the other variables of TypeOK.
LEMMA CleanTypes ==
  ASSUME TypeOK, cleanup_expired_facts \/ hard_delete_old_facts
  PROVE  facts' \subseteq Fact
  <1>1. facts \subseteq Fact /\ day \in Nat
    BY DEF TypeOK, CallsOK
  <1>2. \A f \in facts : [f EXCEPT !.deleted = day] \in Fact
    BY <1>1 DEF Fact
  <1>3. CASE cleanup_expired_facts
    <2>1. facts' = {IF Expired(f) /\ f.deleted = -1 THEN [f EXCEPT !.deleted = day] ELSE f : f \in facts}
      BY <1>3 DEF cleanup_expired_facts
    <2>. QED BY <1>1, <1>2, <2>1
  <1>4. CASE hard_delete_old_facts
    BY <1>1, <1>4 DEF hard_delete_old_facts
  <1>. QED BY <1>3, <1>4

\* The variables keep their types.
LEMMA TypeInductive == TypeOK /\ [Next]_vars => TypeOK'
  <1>. SUFFICES ASSUME TypeOK, [Next]_vars PROVE TypeOK'
    OBVIOUS
  <1>0. /\ CallsOK /\ call \in [Call -> Request] /\ \A c \in Call : call[c] \in Request
        /\ facts \subseteq Fact /\ ever \subseteq Fact /\ faults \in Nat /\ day \in Nat
    BY DEF TypeOK, CallsOK
  <1>a. \A a \in Answer : Answers(a) => faults' \in Nat
    BY <1>0 DEF Answers
  <1>1. CASE UNCHANGED vars
    <2>1. Ids' = Ids /\ Round' = Round /\ Fact' = Fact /\ Request' = Request
      BY <1>1, TypesStay DEF vars, history
    <2>. QED BY <1>1, <2>1 DEF vars, stores, history, TypeOK, CallsOK, ResultOK
  <1>2. ASSUME NEW i \in Intents, NEW e \in Entities, NewPlan(i, e) PROVE TypeOK'
    <2>1. /\ plans' \in Seq(Plan) /\ library' \in Seq(Outcome \cup {"none"})
          /\ Len(library') = Len(plans')
          /\ Ids \subseteq Ids' /\ UNCHANGED <<facts, counts, embedded, call, day, rounds, faults>>
          /\ UNCHANGED <<executed, result, ever, blurred>>
      BY <1>2, PlansStay DEF history
    <2>2. Round \subseteq Round' /\ Fact \subseteq Fact' /\ Request' = Request
      BY <2>1, TypesGrow DEF Request
    <2>3. CallsOK' /\ ResultOK'
      BY <2>1, <2>2 DEF TypeOK, CallsOK, ResultOK
    <2>. QED BY <2>1, <2>2, <2>3 DEF TypeOK
  <1>3. ASSUME NEW c \in Call, call[c] = Idle, rounds' = rounds + 1,
               executed' \subseteq Round, executed \subseteq executed',
               NEW t \in Seq(executed'), Len(t) > 0, call' = [call EXCEPT ![c] = Begin(t)],
               UNCHANGED <<plans, stores, day, faults, result, ever, blurred>>
        PROVE  TypeOK'
    <2>1. Ids' = Ids /\ Round' = Round /\ Fact' = Fact /\ Request \subseteq Request'
      <3>1. Ids' = Ids
        BY <1>3 DEF Ids
      <3>. QED BY <1>3, <3>1, TypesGrow DEF Round, Fact
    <2>2. Begin(t) \in Request' /\ Begin(t).pc = "library" /\ Begin(t).todo = t
      BY <1>3 DEF Begin, Request
    <2>3. CallsOK'
      BY <1>0, <1>3, <2>1, <2>2 DEF CallsOK
    <2>4. ResultOK'
      BY <1>3, <2>1 DEF TypeOK, ResultOK
    <2>. QED BY <1>3, <2>1, <2>3, <2>4 DEF TypeOK, stores
  <1>4. ASSUME NEW c \in Call, NEW p \in Ids, NEW outcome \in Outcome, Execute(c, p, outcome)
        PROVE  TypeOK'
    <2>. DEFINE x == [plan |-> p, outcome |-> outcome]
    <2>1. x \in Round
      BY DEF Round
    <2>. HIDE DEF x
    <2>2. /\ call[c] = Idle /\ rounds' = rounds + 1 /\ executed' = executed \cup {x}
          /\ call' = [call EXCEPT ![c] = Begin(<<x>>)]
          /\ UNCHANGED <<plans, stores, day, faults, result, ever, blurred>>
      BY <1>4 DEF Execute, x
    <2>3. <<x>> \in Seq(executed') /\ Len(<<x>>) > 0
      BY <2>2
    <2>. QED BY <1>3, <2>1, <2>2, <2>3 DEF TypeOK
  <1>5. ASSUME NEW c \in Call, NEW x \in executed, NEW y \in executed, bulk_persist(c, <<x, y>>)
        PROVE  TypeOK'
    <2>1. /\ call[c] = Idle /\ rounds' = rounds + 1 /\ executed' = executed
          /\ call' = [call EXCEPT ![c] = Begin(<<x, y>>)]
          /\ UNCHANGED <<plans, stores, day, faults, result, ever, blurred>>
      BY <1>5 DEF bulk_persist, history
    <2>2. <<x, y>> \in Seq(executed') /\ Len(<<x, y>>) > 0
      BY <2>1
    <2>. QED BY <1>3, <2>1, <2>2 DEF TypeOK
  <1>6. ASSUME UNCHANGED <<plans, executed>>, CallsOK',
               library' \in Seq(Outcome \cup {"none"}), Len(library') = Len(library),
               facts' \subseteq Fact, ever' \subseteq Fact, counts' \in [PatternKeys -> Nat],
               embedded' \subseteq Ids, day' \in Nat, rounds' \in Nat, faults' \in Nat,
               ResultOK' \/ UNCHANGED result,
               blurred' \subseteq PatternKeys
        PROVE  TypeOK'
    <2>1. Ids' = Ids /\ Round' = Round /\ Fact' = Fact /\ Request' = Request
      BY <1>6, TypesStay
    <2>2. ResultOK'
      BY <1>6, <2>1 DEF TypeOK, ResultOK
    <2>. QED BY <1>6, <2>1, <2>2 DEF TypeOK
  <1>7. ASSUME NEW c \in Call, NEW a \in Answer, StorePlan(c, a) PROVE TypeOK'
    <2>1. call[c].pc # "idle"
      BY <1>7 DEF StorePlan
    <2>2. library' \in Seq(Outcome \cup {"none"}) /\ Len(library') = Len(library)
      <3>1. Item(c).plan \in Ids /\ Item(c).outcome \in Outcome
        BY <2>1, ItemOfCall
      <3>. QED BY <1>7, <3>1 DEF StorePlan, store_plan, store_plan_transaction, TypeOK, Ids
    <2>3. faults' \in Nat
      BY <1>0, <1>a, <1>7 DEF StorePlan
    <2>4. CallsOK' /\ (ResultOK' \/ UNCHANGED result)
      <3>1. CASE a = "ok"
        <4>. DEFINE r == [call[c] EXCEPT !.pc = "fact"]
        <4>1. call' = [call EXCEPT ![c] = r] /\ UNCHANGED <<result, executed>>
          BY <1>7, <3>1 DEF StorePlan, TypeOK, CallsOK
        <4>2. r \in Request /\ r.pc # "idle" /\ r.todo = call[c].todo
          BY <1>0 DEF Request
        <4>. HIDE DEF r
        <4>3. CallsOK'
          BY <2>1, <4>1, <4>2, CallTypes DEF Request, CallsOK
        <4>. QED BY <4>1, <4>3 DEF TypeOK
      <3>2. CASE a # "ok"
        <4>1. Finish(c, "error") /\ UNCHANGED <<plans, executed>>
          BY <1>7, <3>2 DEF StorePlan
        <4>. QED BY <2>1, <4>1, FinishTypes DEF Request, CallsOK, ResultOK, Ids
      <3>. QED BY <3>1, <3>2
    <2>5. UNCHANGED <<plans, executed, facts, ever, counts, embedded, day, rounds, blurred>>
      BY <1>7 DEF StorePlan
    <2>. QED BY <1>6, <2>2, <2>3, <2>4, <2>5 DEF TypeOK
  <1>8. ASSUME NEW c \in Call, NEW a \in Answer, StoreFact(c, a) PROVE TypeOK'
    <2>1. call[c].pc # "idle" /\ Item(c).plan \in Ids /\ Item(c).outcome \in Outcome
      <3>1. call[c].pc # "idle"
        BY <1>8 DEF StoreFact
      <3>. QED BY <3>1, ItemOfCall
    <2>2. UNCHANGED <<plans, library, counts, embedded, day, rounds, executed, result>>
      BY <1>8 DEF StoreFact
    <2>3. faults' \in Nat
      BY <1>0, <1>a, <1>8 DEF StoreFact, store_fact
    <2>4. facts' \subseteq Fact /\ ever' \subseteq Fact
      <3>1. UNCHANGED <<facts, ever>> \/ insert_fact(Item(c).plan, Item(c).outcome, a)
        BY <1>8 DEF StoreFact, store_fact
      <3>. QED BY <1>0, <2>1, <3>1, InsertTypes
    <2>5. CallsOK'
      <3>1. PICK r \in Request : /\ call' = [call EXCEPT ![c] = r]
                                 /\ r.pc # "idle" /\ r.todo = call[c].todo
        BY <1>8, StoreFactMoves
      <3>. QED BY <2>1, <2>2, <3>1, CallTypes DEF Request, CallsOK
    <2>6. blurred' \subseteq PatternKeys
      <3>1. KeyOf(Item(c).plan, day) \in PatternKeys
        BY <1>0, <2>1, PatternIsKey
      <3>. QED BY <1>8, <3>1 DEF StoreFact, TypeOK
    <2>. QED BY <1>6, <2>2, <2>3, <2>4, <2>5, <2>6 DEF TypeOK
  <1>9. ASSUME NEW c \in Call, NEW a \in Answer, ReadPattern(c, a) \/ WritePattern(c, a)
        PROVE  TypeOK'
    <2>1. call[c].pc # "idle" /\ Item(c).plan \in Ids /\ call[c].day \in Nat
      <3>1. call[c].pc # "idle"
        BY <1>9 DEF ReadPattern, WritePattern
      <3>. QED BY <3>1, ItemOfCall DEF Request
    <2>2. PatternOf(c) \in PatternKeys
      BY <2>1, PatternIsKey DEF PatternOf
    <2>3. /\ UNCHANGED <<plans, library, facts, embedded, day, rounds, executed, result, ever>>
          /\ blurred' \subseteq PatternKeys
      BY <1>9, <2>2 DEF ReadPattern, WritePattern, stores, TypeOK
    <2>4. faults' \in Nat
      BY <1>a, <1>9 DEF ReadPattern, WritePattern
    <2>5. CallsOK'
      <3>1. PICK r \in Request : /\ call' = [call EXCEPT ![c] = r]
                                 /\ r.pc # "idle" /\ r.todo = call[c].todo
        BY <1>9, OtherMoves
      <3>. QED BY <2>1, <2>3, <3>1, CallTypes DEF Request, CallsOK
    <2>6. counts' \in [PatternKeys -> Nat]
      <3>1. call[c].seen \in Nat
        BY <1>0 DEF Request
      <3>. QED BY <1>9, <2>2, <3>1 DEF ReadPattern, WritePattern, upsert_pattern, stores, TypeOK
    <2>. QED BY <1>6, <2>3, <2>4, <2>5, <2>6 DEF TypeOK
  <1>10. ASSUME NEW c \in Call, NEW a \in Answer, StoreEmbedding(c, a) PROVE TypeOK'
    <2>1. call[c].pc # "idle" /\ Item(c).plan \in Ids /\ call[c].status \in {"ok", "partial"}
      <3>1. call[c].pc # "idle"
        BY <1>10 DEF StoreEmbedding
      <3>. QED BY <3>1, ItemOfCall DEF Request
    <2>2. /\ UNCHANGED <<plans, library, facts, counts, day, rounds, executed, ever, blurred>>
          /\ embedded' \subseteq Ids
      BY <1>10, <2>1 DEF StoreEmbedding, store_embedding, upsert_embedding, TypeOK
    <2>3. faults' \in Nat
      BY <1>a, <1>10 DEF StoreEmbedding
    <2>4. \E status \in {"ok", "partial"} : Finish(c, status)
      BY <1>10, <2>1 DEF StoreEmbedding
    <2>5. CallsOK' /\ ResultOK'
      BY <2>1, <2>2, <2>4, FinishTypes DEF Request, CallsOK, ResultOK, Ids
    <2>. QED BY <1>6, <2>2, <2>3, <2>5 DEF TypeOK
  <1>11. ASSUME NEW c \in Call, Die(c) PROVE TypeOK'
    <2>1. /\ UNCHANGED <<plans, stores, day, rounds, executed, result, ever>>
          /\ call' = [call EXCEPT ![c] = Idle] /\ faults' \in Nat /\ call[c].pc # "idle"
      BY <1>0, <1>11 DEF Die, CallsOK
    <2>2. CallsOK'
      BY <1>0, <2>1, IdleTypes DEF Request, CallsOK
    <2>3. blurred' \subseteq PatternKeys
      <3>1. Item(c).plan \in Ids /\ call[c].day \in Nat
        BY <2>1, ItemOfCall DEF Request
      <3>2. PatternOf(c) \in PatternKeys
        BY <3>1, PatternIsKey DEF PatternOf
      <3>. QED BY <1>11, <3>2 DEF Die, TypeOK
    <2>. QED BY <1>6, <2>1, <2>2, <2>3 DEF TypeOK, stores
  <1>12. CASE Tick
    <2>1. CallsOK'
      BY <1>0, <1>12 DEF Tick, history, Request, CallsOK
    <2>. QED BY <1>6, <1>12, <2>1 DEF Tick, stores, history, TypeOK
  <1>13. CASE cleanup_expired_facts \/ hard_delete_old_facts
    <2>1. facts' \subseteq Fact
      BY <1>13, CleanTypes
    <2>2. UNCHANGED <<plans, library, counts, embedded, call, day, rounds, faults, history>>
      BY <1>13 DEF cleanup_expired_facts, hard_delete_old_facts
    <2>3. CallsOK'
      BY <1>0, <2>2 DEF history, Request, CallsOK
    <2>. QED BY <1>6, <2>1, <2>2, <2>3 DEF history, TypeOK
  <1>14. ASSUME NEW p \in Ids, NEW e \in Entities, clone_plan_for_rerun(p, e) PROVE TypeOK'
    BY <1>2, <1>14, PlanTypes DEF clone_plan_for_rerun
  <1>. QED BY <1>1, <1>2, <1>4, <1>5, <1>7, <1>8, <1>9, <1>10, <1>11, <1>12, <1>13, <1>14
           DEF Next, Make

-----------------------------------------------------------------------------
\* Plans, stored outcomes, rounds and facts that there have been stay.
Growth ==
    /\ Ids \subseteq Ids' /\ executed \subseteq executed' /\ ever \subseteq ever' /\ day <= day'
    /\ \A p \in Ids : plans'[p] = plans[p] /\ (library[p] # "none" => library'[p] = library[p])

LEMMA StoresGrow == TypeOK /\ [Next]_vars => Growth
  <1>. SUFFICES ASSUME TypeOK, [Next]_vars PROVE Growth
    OBVIOUS
  <1>. USE DEF Growth
  <1>0. day \in Nat /\ plans \in Seq(Plan) /\ library \in Seq(Outcome \cup {"none"})
        /\ Len(library) = Len(plans)
    BY DEF TypeOK
  <1>1. ASSUME NEW i \in Intents, NEW e \in Entities, NewPlan(i, e) PROVE Growth
    BY <1>0, <1>1, PlansStay DEF history
  <1>2. ASSUME NEW p \in Ids, NEW e \in Entities, clone_plan_for_rerun(p, e) PROVE Growth
    BY <1>1, <1>2, PlanTypes DEF clone_plan_for_rerun
  <1>3. ASSUME NEW c \in Call, NEW a \in Answer, StorePlan(c, a) PROVE Growth
    <2>1. UNCHANGED <<plans, executed, ever, day>>
      BY <1>3 DEF StorePlan
    <2>2. \A p \in Ids : library[p] # "none" => library'[p] = library[p]
      BY <1>0, <1>3 DEF StorePlan, store_plan, store_plan_transaction, Ids
    <2>. QED BY <1>0, <2>1, <2>2 DEF Ids
  <1>4. ASSUME UNCHANGED <<plans, library>>, executed \subseteq executed', ever \subseteq ever',
               day' = day \/ day' = day + 1
        PROVE  Growth
    BY <1>0, <1>4 DEF Ids
  <1>5. ASSUME NEW c \in Call, NEW a \in Answer, StoreFact(c, a) PROVE Growth
    BY <1>4, <1>5 DEF StoreFact, store_fact, insert_fact
  <1>. HIDE DEF Growth
  <1>. QED BY <1>1, <1>2, <1>3, <1>4, <1>5 DEF Next, Make, Execute, bulk_persist, ReadPattern,
           WritePattern, StoreEmbedding, Die, Tick, cleanup_expired_facts, hard_delete_old_facts,
           vars, stores, history

\* What they say of a plan stays, too.
LEMMA MeaningStays ==
  ASSUME Growth, NEW p \in Ids
  PROVE  /\ \A outcome : derive_fact(p, outcome)' = derive_fact(p, outcome)
         /\ \A d : KeyOf(p, d)' = KeyOf(p, d)
         /\ get_plan_by_id(p) => get_plan_by_id(p)' /\ library'[p] = library[p]
  BY DEF Growth, derive_fact, KeyOf, get_plan_by_id

LEMMA FactStaysGrounded ==
  ASSUME TypeOK, Growth, TypeOK', NEW f \in Fact, FactIsGrounded(f)
  PROVE  FactIsGrounded(f)'
  <1>1. f.plan \in Ids /\ f.day \in Nat /\ day \in Nat /\ day' \in Nat
    BY DEF Fact, TypeOK
  <1>2. PICK x \in executed : x.plan = f.plan /\ f.text = derive_fact(x.plan, x.outcome)
    BY DEF FactIsGrounded
  <1>3. x \in executed' /\ f.text = derive_fact(x.plan, x.outcome)'
    BY <1>1, <1>2, MeaningStays DEF Growth
  <1>4. get_plan_by_id(f.plan)' /\ f.deleted = -1 /\ f.day <= day'
    BY <1>1, MeaningStays DEF Growth, FactIsGrounded
  <1>. QED BY <1>2, <1>3, <1>4 DEF FactIsGrounded

LEMMA StoredFactStays ==
  ASSUME Growth, NEW p \in Ids, NEW outcome, NEW d, FactStored(p, outcome, d)
  PROVE  FactStored(p, outcome, d)'
  BY MeaningStays DEF FactStored, Growth

-----------------------------------------------------------------------------
\* A fact is stored by a request whose plan is stored, about its round, and a
\* fact that is not deleted is one of those that were stored.
LEMMA FactsInductive ==
  ASSUME TypeOK, TypeOK', Growth, Grounded, [Next]_vars
  PROVE  FactsGrounded'
  <1>. USE DEF FactsGrounded
  <1>0. \A f \in ever : FactIsGrounded(f)'
    BY FactStaysGrounded DEF Grounded, TypeOK
  <1>1. CASE UNCHANGED <<facts, ever>>
    BY <1>0, <1>1 DEF Grounded
  <1>2. ASSUME NEW c \in Call, NEW a \in Answer, StoreFact(c, a) PROVE FactsGrounded'
    <2>. DEFINE p == Item(c).plan
                out == Item(c).outcome
                row == [text |-> derive_fact(p, out), day |-> day, plan |-> p, deleted |-> -1]
    <2>1. /\ Item(c) \in executed /\ p \in Ids /\ out \in Outcome /\ get_plan_by_id(p)
      <3>1. call[c].pc = "fact"
        BY <1>2 DEF StoreFact
      <3>. QED BY <3>1, ItemOfCall DEF Grounded, CallGrounded
    <2>2. UNCHANGED <<facts, ever>> \/ (facts' = facts \cup {row} /\ ever' = ever \cup {row})
      BY <1>2 DEF StoreFact, store_fact, insert_fact
    <2>3. FactIsGrounded(row)
      <3>1. day <= day
        BY DEF TypeOK
      <3>. QED BY <2>1, <3>1 DEF FactIsGrounded
    <2>4. row \in Fact
      BY <2>1, DerivedText DEF Fact, TypeOK
    <2>5. PICK f \in Fact : f = row
      BY <2>4
    <2>. HIDE DEF row
    <2>6. FactIsGrounded(f)'
      BY <2>3, <2>5, FactStaysGrounded
    <2>. QED BY <1>0, <2>2, <2>5, <2>6 DEF Grounded
  <1>3. CASE cleanup_expired_facts
    <2>1. /\ facts' = {IF Expired(f) /\ f.deleted = -1 THEN [f EXCEPT !.deleted = day] ELSE f : f \in facts}
          /\ ever' = ever
      BY <1>3 DEF cleanup_expired_facts, history
    <2>2. day \in Nat /\ \A f \in facts : f \in Fact
      BY DEF TypeOK
    <2>3. \A f \in facts : [f EXCEPT !.deleted = day].deleted # -1
      BY <2>2 DEF Fact
    <2>4. \A f \in facts' : f.deleted = -1 => f \in facts
      BY <2>1, <2>3
    <2>. QED BY <1>0, <2>1, <2>4 DEF Grounded
  <1>4. CASE hard_delete_old_facts
    BY <1>0, <1>4 DEF hard_delete_old_facts, history, Grounded
  <1>. QED BY <1>1, <1>2, <1>3, <1>4 DEF Next, Make, clone_plan_for_rerun, NewPlan, Execute,
           bulk_persist, StorePlan, ReadPattern, WritePattern, StoreEmbedding, Die, Tick,
           vars, stores, history

\* An embedding is stored for a plan that is stored.
LEMMA EmbeddingsInductive ==
  ASSUME TypeOK, Growth, Grounded, [Next]_vars
  PROVE  EmbeddingsGrounded'
  <1>. USE DEF EmbeddingsGrounded
  <1>0. \A p \in embedded : get_plan_by_id(p)'
    BY MeaningStays DEF Grounded, TypeOK
  <1>1. CASE UNCHANGED embedded
    BY <1>0, <1>1
  <1>2. ASSUME NEW c \in Call, NEW a \in Answer, StoreEmbedding(c, a) PROVE EmbeddingsGrounded'
    <2>1. PICK p \in Ids : p = Item(c).plan /\ get_plan_by_id(p)
      <3>1. call[c].pc = "embedding"
        BY <1>2 DEF StoreEmbedding
      <3>. QED BY <3>1, ItemOfCall DEF Grounded, CallGrounded
    <2>2. embedded' \subseteq embedded \cup {p}
      BY <1>2, <2>1 DEF StoreEmbedding, store_embedding, upsert_embedding
    <2>3. get_plan_by_id(p)'
      BY <2>1, MeaningStays
    <2>. QED BY <1>0, <2>2, <2>3
  <1>. QED BY <1>1, <1>2 DEF Next, Make, clone_plan_for_rerun, NewPlan, Execute, bulk_persist,
           StorePlan, StoreFact, ReadPattern, WritePattern, Die, Tick, cleanup_expired_facts,
           hard_delete_old_facts, vars, stores, history

\* The library holds the outcome of a round of the plan.
LEMMA LibraryInductive ==
  ASSUME TypeOK, TypeOK', Growth, Grounded, [Next]_vars
  PROVE  LibraryGrounded'
  <1>. USE DEF LibraryGrounded, get_plan_by_id
  <1>0. \A p \in Ids : library[p] # "none" => [plan |-> p, outcome |-> library'[p]] \in executed'
    BY DEF Grounded, Growth
  <1>1. CASE \A p \in Ids' : library'[p] # "none" => p \in Ids /\ library[p] # "none"
    BY <1>0, <1>1
  <1>2. ASSUME NEW i \in Intents, NEW e \in Entities, NewPlan(i, e) PROVE LibraryGrounded'
    BY <1>1, <1>2, PlansStay
  <1>3. ASSUME NEW p \in Ids, NEW e \in Entities, clone_plan_for_rerun(p, e) PROVE LibraryGrounded'
    BY <1>2, <1>3, PlanTypes DEF clone_plan_for_rerun
  <1>4. ASSUME NEW c \in Call, NEW a \in Answer, StorePlan(c, a) PROVE LibraryGrounded'
    <2>. DEFINE p == Item(c).plan
                out == Item(c).outcome
    <2>1. Item(c) \in executed /\ p \in Ids /\ out \in Outcome /\ Item(c) \in Round
      <3>1. call[c].pc # "idle"
        BY <1>4 DEF StorePlan
      <3>. QED BY <3>1, ItemOfCall DEF TypeOK
    <2>2. [plan |-> p, outcome |-> out] \in executed
      <3>1. [plan |-> p, outcome |-> out] = Item(c)
        BY <2>1 DEF Round
      <3>. QED BY <2>1, <3>1
    <2>3. Ids' = Ids
      BY <1>4 DEF StorePlan, Ids
    <2>4. \A q \in Ids : library'[q] = library[q] \/ (q = p /\ library'[q] = out)
      <3>1. library \in Seq(Outcome \cup {"none"}) /\ Len(library) = Len(plans)
        BY DEF TypeOK
      <3>. QED BY <1>4, <2>1, <3>1 DEF StorePlan, store_plan, store_plan_transaction, Ids
    <2>. HIDE DEF p, out
    <2>. QED BY <1>0, <2>2, <2>3, <2>4 DEF Growth
  <1>5. CASE UNCHANGED <<plans, library>>
    BY <1>1, <1>5 DEF Ids
  <1>. QED BY <1>2, <1>3, <1>4, <1>5 DEF Next, Make, Execute, bulk_persist, StoreFact,
           ReadPattern, WritePattern, StoreEmbedding, Die, Tick, cleanup_expired_facts,
           hard_delete_old_facts, vars, stores, history

-----------------------------------------------------------------------------
\* A request that does not move keeps what it knows.
LEMMA CallStaysGrounded ==
  ASSUME TypeOK, Growth, NEW c \in Call, CallGrounded(c), call'[c] = call[c]
  PROVE  CallGrounded(c)'
  <1>1. Item(c)' = Item(c)
    BY DEF Item
  <1>2. CASE call[c].pc = "idle"
    BY <1>2 DEF CallGrounded
  <1>3. CASE call[c].pc # "idle"
    <2>1. PICK p, out, d :
              p \in Ids /\ p = Item(c).plan /\ out = Item(c).outcome /\ d = call[c].day
      BY <1>3, ItemOfCall
    <2>2. get_plan_by_id(p) => get_plan_by_id(p)'
      BY <2>1, MeaningStays
    <2>3. FactStored(p, out, d) => FactStored(p, out, d)'
      BY <2>1, StoredFactStays
    <2>4. Item(c)' = Item(c) /\ call'[c] = call[c]
      BY <1>1
    <2>. QED BY <2>1, <2>2, <2>3, <2>4 DEF CallGrounded
  <1>. QED BY <1>2, <1>3

\* One that moves knows what it must, if it knew that its plan is stored, and
\* its fact, or has just seen to it.
LEMMA CallMovesGrounded ==
  ASSUME TypeOK, Growth, NEW c \in Call, CallGrounded(c), call[c].pc # "idle", NEW r \in Request,
         call' = [call EXCEPT ![c] = r], r.pc # "library", r.pc # "idle", r.todo = call[c].todo,
         \/ call[c].pc # "library" /\ get_plan_by_id(Item(c).plan)
         \/ \A p \in Ids : p = Item(c).plan => get_plan_by_id(p)',
         \/ r.status = "partial" /\ r.pc = "embedding"
         \/ r.status = "ok" /\ r.pc = "fact"
         \/ r.status = "ok" /\ r.day = call[c].day /\ call[c].pc \in {"pattern", "count"}
         \/ /\ r.status = "ok"
            /\ \A p \in Ids : p = Item(c).plan => FactStored(p, Item(c).outcome, r.day)'
  PROVE  CallGrounded(c)'
  <1>1. PICK p, out, d :
            p \in Ids /\ p = Item(c).plan /\ out = Item(c).outcome /\ d = r.day
    <2>1. Item(c).plan \in Ids /\ \E out, d : out = Item(c).outcome /\ d = r.day
      BY ItemOfCall
    <2>. QED BY <2>1
  <1>2. call'[c] = r /\ Item(c)' = Item(c)
    BY CallTypes
  <1>3. get_plan_by_id(p)'
    BY <1>1, MeaningStays
  <1>4. r.status = "ok" /\ r.pc # "fact" => FactStored(p, out, d)'
    <2>1. CASE r.status = "ok" /\ r.day = call[c].day /\ call[c].pc \in {"pattern", "count"}
      <3>1. FactStored(p, out, d)
        BY <1>1, <2>1 DEF CallGrounded
      <3>. QED BY <1>1, <3>1, StoredFactStays
    <2>2. CASE \A q \in Ids : q = Item(c).plan => FactStored(q, Item(c).outcome, r.day)'
      BY <1>1, <1>2, <2>2
    <2>. QED BY <2>1, <2>2
  <1>. QED BY <1>1, <1>2, <1>3, <1>4 DEF CallGrounded

LEMMA CallsInductive ==
  ASSUME TypeOK, TypeOK', Growth, Grounded, [Next]_vars
  PROVE  \A c \in Call : CallGrounded(c)'
  <1>. DEFINE Goal == \A c \in Call : CallGrounded(c)
  <1>0. \A c \in Call : CallGrounded(c)
    BY DEF Grounded
  <1>1. CASE UNCHANGED call
    BY <1>0, <1>1, CallStaysGrounded
  <1>2. ASSUME NEW c \in Call, CallGrounded(c)', \A d \in Call : d # c => call'[d] = call[d]
        PROVE  Goal'
    BY <1>0, <1>2, CallStaysGrounded
  <1>3. ASSUME NEW c \in Call, call'[c].pc \in {"idle", "library"}, call'[c].status = "ok",
               \A d \in Call : d # c => call'[d] = call[d]
        PROVE  Goal'
    <2>1. CallGrounded(c)'
      BY <1>3 DEF CallGrounded
    <2>. QED BY <1>2, <1>3, <2>1
  <1>4. ASSUME NEW c \in Call, NEW t, call' = [call EXCEPT ![c] = Begin(t)] PROVE Goal'
    <2>1. call'[c] = Begin(t) /\ \A d \in Call : d # c => call'[d] = call[d]
      BY <1>4 DEF TypeOK, CallsOK
    <2>. QED BY <1>3, <2>1 DEF Begin
  <1>5. ASSUME NEW c \in Call, call[c].pc # "idle", NEW status \in {"ok", "partial", "error"},
               Finish(c, status)
        PROVE  Goal'
    BY <1>3, <1>5, FinishTypes
  <1>6. ASSUME NEW c \in Call, NEW a \in Answer, StorePlan(c, a) PROVE Goal'
    <2>1. call[c].pc = "library"
      BY <1>6 DEF StorePlan
    <2>2. CASE a # "ok"
      BY <1>5, <1>6, <2>1, <2>2 DEF StorePlan
    <2>3. CASE a = "ok"
      <3>. DEFINE r == [call[c] EXCEPT !.pc = "fact"]
      <3>1. call[c] \in Request /\ call[c].status = "ok"
        BY <1>0, <2>1 DEF TypeOK, CallsOK, CallGrounded
      <3>2. call' = [call EXCEPT ![c] = r]
        BY <1>6, <2>3 DEF StorePlan, TypeOK, CallsOK
      <3>3. r \in Request /\ r.pc = "fact" /\ r.todo = call[c].todo /\ r.status = "ok"
        BY <3>1 DEF Request
      <3>. HIDE DEF r
      <3>4. \A p \in Ids : p = Item(c).plan => library'[p] # "none"
        <4>1. library \in Seq(Outcome \cup {"none"}) /\ Len(library) = Len(plans)
              /\ Item(c).outcome \in Outcome
          BY <2>1, ItemOfCall DEF TypeOK
        <4>2. library' = IF library[Item(c).plan] = "none"
                         THEN [library EXCEPT ![Item(c).plan] = Item(c).outcome] ELSE library
          BY <1>6, <2>3 DEF StorePlan, store_plan, store_plan_transaction, TakesEffect
        <4>3. Item(c).outcome # "none"
          BY <4>1 DEF Outcome
        <4>. QED BY <4>1, <4>2, <4>3 DEF Ids
      <3>5. \A p \in Ids : p = Item(c).plan => get_plan_by_id(p)'
        BY <3>4 DEF get_plan_by_id
      <3>6. CallGrounded(c)'
        BY <1>0, <2>1, <3>2, <3>3, <3>5, CallMovesGrounded
      <3>7. \A d \in Call : d # c => call'[d] = call[d]
        BY <3>2 DEF TypeOK, CallsOK
      <3>. QED BY <1>2, <3>6, <3>7
    <2>. QED BY <2>2, <2>3
  <1>7. ASSUME NEW c \in Call, NEW a \in Answer, StoreFact(c, a) PROVE Goal'
    <2>1. call[c].pc = "fact" /\ get_plan_by_id(Item(c).plan) /\ call[c].status = "ok"
      BY <1>0, <1>7 DEF StoreFact, CallGrounded
    <2>2. PICK r \in Request :
            /\ call' = [call EXCEPT ![c] = r]
            /\ r.pc \in {"pattern", "embedding"} /\ r.todo = call[c].todo /\ r.day = day
            /\ \/ r.status = "partial" /\ r.pc = "embedding"
               \/ /\ r.status = call[c].status /\ a = "ok"
                  /\ insert_fact(Item(c).plan, Item(c).outcome, a)
      BY <1>7, StoreFactMoves
    <2>3. ASSUME r.status = "ok", NEW p \in Ids, p = Item(c).plan
          PROVE  FactStored(p, Item(c).outcome, r.day)'
      <3>. DEFINE text == derive_fact(p, Item(c).outcome)
                  row == [text |-> text, day |-> day, plan |-> p, deleted |-> -1]
      <3>1. a = "ok" /\ insert_fact(p, Item(c).outcome, a)
        BY <2>2, <2>3
      <3>2. \E f \in ever' : f.text = text /\ f.day = r.day
        <4>1. CASE SameHash(text, day) = {}
          <5>1. ever' = ever \cup {row}
            BY <3>1, <4>1 DEF insert_fact, TakesEffect
          <5>. HIDE DEF text
          <5>2. row.text = text /\ row.day = day
            OBVIOUS
          <5>. HIDE DEF row
          <5>. QED BY <2>2, <5>1, <5>2
        <4>2. CASE SameHash(text, day) # {}
          <5>1. PICK f \in facts : f.text = text /\ f.day = day /\ f.deleted = -1
            BY <4>2 DEF SameHash
          <5>2. f \in ever'
            BY <5>1 DEF Grounded, FactsGrounded, Growth
          <5>. QED BY <2>2, <5>1, <5>2
        <4>. QED BY <4>1, <4>2
      <3>3. PICK out : out = Item(c).outcome
        OBVIOUS
      <3>4. derive_fact(p, out)' = text
        BY <3>3, MeaningStays
      <3>5. Item(c)' = Item(c)
        BY <2>1, <2>2, CallTypes
      <3>. QED BY <3>2, <3>3, <3>4, <3>5 DEF FactStored
    <2>4. CallGrounded(c)'
      <3>1. r.status = "ok" \/ (r.status = "partial" /\ r.pc = "embedding")
        BY <2>1, <2>2
      <3>. QED BY <1>0, <2>1, <2>2, <2>3, <3>1, CallMovesGrounded
    <2>5. \A d \in Call : d # c => call'[d] = call[d]
      BY <2>2 DEF TypeOK, CallsOK
    <2>. QED BY <1>2, <2>4, <2>5
  <1>8. ASSUME NEW c \in Call, NEW a \in Answer, ReadPattern(c, a) \/ WritePattern(c, a) PROVE Goal'
    <2>1. /\ call[c].pc \in {"pattern", "count"} /\ get_plan_by_id(Item(c).plan)
          /\ call[c].status = "ok"
      BY <1>0, <1>8 DEF ReadPattern, WritePattern, CallGrounded
    <2>2. PICK r \in Request :
            /\ call' = [call EXCEPT ![c] = r]
            /\ r.todo = call[c].todo /\ r.day = call[c].day
            /\ \/ r.pc = "count" /\ r.status = call[c].status
               \/ r.pc = "embedding" /\ r.status = StatusOf(a)
      BY <1>8, OtherMoves
    <2>3. CallGrounded(c)'
      <3>1. r.status = "ok" \/ (r.status = "partial" /\ r.pc = "embedding")
        BY <2>1, <2>2 DEF StatusOf
      <3>. QED BY <1>0, <2>1, <2>2, <3>1, CallMovesGrounded
    <2>4. \A d \in Call : d # c => call'[d] = call[d]
      BY <2>2 DEF TypeOK, CallsOK
    <2>. QED BY <1>2, <2>3, <2>4
  <1>9. ASSUME NEW c \in Call, NEW a \in Answer, StoreEmbedding(c, a) PROVE Goal'
    <2>1. call[c].pc = "embedding" /\ call[c].status \in {"ok", "partial"}
      BY <1>9 DEF StoreEmbedding, TypeOK, CallsOK, Request
    <2>2. \E status \in {"ok", "partial"} : Finish(c, status)
      BY <1>9, <2>1 DEF StoreEmbedding
    <2>. QED BY <1>5, <2>1, <2>2
  <1>10. ASSUME NEW c \in Call, Die(c) PROVE Goal'
    <2>1. call'[c] = Idle /\ \A d \in Call : d # c => call'[d] = call[d]
      BY <1>10 DEF Die, TypeOK, CallsOK
    <2>. QED BY <1>3, <2>1, IdleTypes
  <1>. QED BY <1>1, <1>4, <1>6, <1>7, <1>8, <1>9, <1>10 DEF Next, Make, clone_plan_for_rerun,
           NewPlan, Execute, bulk_persist, Tick, cleanup_expired_facts, hard_delete_old_facts,
           vars, stores, history

LEMMA GroundedInductive ==
  ASSUME TypeOK, TypeOK', Growth, Grounded, [Next]_vars
  PROVE  Grounded'
  BY FactsInductive, EmbeddingsInductive, LibraryInductive, CallsInductive DEF Grounded

\* The result of a request says what the request knew when it ended.
LEMMA StatusInductive ==
  ASSUME TypeOK, TypeOK', Growth, Grounded, Grounded', StatusIsTrue, [Next]_vars
  PROVE  StatusIsTrue'
  <1>. DEFINE Holds(q, out, d, status) ==
           /\ status \in {"ok", "partial"} => get_plan_by_id(q)
           /\ status = "ok" =>
                 /\ HasIndex => q \in embedded
                 /\ FactStored(q, out, d)
  <1>1. CASE UNCHANGED result /\ embedded \subseteq embedded'
    <2>1. CASE result.status = "none"
      BY <1>1, <2>1 DEF StatusIsTrue
    <2>2. CASE result.status # "none"
      <3>1. PICK p, out, d : p \in Ids /\ p = result.plan /\ out = result.outcome /\ d = result.day
        <4>1. result.plan \in Ids /\ \E out, d : out = result.outcome /\ d = result.day
          BY <2>2 DEF TypeOK, ResultOK
        <4>. QED BY <4>1
      <3>2. get_plan_by_id(p) => get_plan_by_id(p)'
        BY <3>1, MeaningStays
      <3>3. FactStored(p, out, d) => FactStored(p, out, d)'
        BY <3>1, StoredFactStays
      <3>4. Holds(p, out, d, result.status)'
        BY <1>1, <3>1, <3>2, <3>3 DEF StatusIsTrue, FactStored
      <3>. QED BY <1>1, <3>1, <3>4 DEF StatusIsTrue, FactStored
    <2>. QED BY <2>1, <2>2
  <1>2. ASSUME NEW c \in Call, NEW a \in Answer, StorePlan(c, a), ~UNCHANGED result
        PROVE  StatusIsTrue'
    <2>1. Finish(c, "error")
      BY <1>2 DEF StorePlan
    <2>. QED BY <2>1 DEF Finish, StatusIsTrue
  <1>3. ASSUME NEW c \in Call, NEW a \in Answer, StoreEmbedding(c, a) PROVE StatusIsTrue'
    <2>1. call[c].pc = "embedding" /\ call[c].status \in {"ok", "partial"} /\ CallGrounded(c)
      BY <1>3 DEF StoreEmbedding, TypeOK, CallsOK, Request, Grounded
    <2>2. PICK p, out, d :
              p \in Ids /\ p = Item(c).plan /\ out = Item(c).outcome /\ d = call[c].day
      <3>1. Item(c).plan \in Ids /\ \E out, d : out = Item(c).outcome /\ d = call[c].day
        BY <2>1, ItemOfCall
      <3>. QED BY <3>1
    <2>3. PICK status \in {"ok", "partial"} :
              /\ status = IF a = "ok" THEN call[c].status ELSE "partial"
              /\ Finish(c, status)
      BY <1>3, <2>1 DEF StoreEmbedding
    <2>4. result' = [plan |-> p, outcome |-> out, day |-> d, status |-> status]
      BY <2>2, <2>3 DEF Finish
    <2>5. get_plan_by_id(p)'
      BY <2>1, <2>2, MeaningStays DEF CallGrounded
    <2>6. status = "ok" => FactStored(p, out, d)'
      <3>1. status = "ok" => FactStored(p, out, d)
        BY <2>1, <2>2, <2>3 DEF CallGrounded
      <3>. QED BY <2>2, <3>1, StoredFactStays
    <2>7. status = "ok" /\ HasIndex => p \in embedded'
      BY <1>3, <2>2, <2>3 DEF StoreEmbedding, store_embedding, upsert_embedding, TakesEffect
    <2>8. Holds(p, out, d, status)'
      BY <2>5, <2>6, <2>7
    <2>9. result'.plan = p /\ result'.outcome = out /\ result'.day = d /\ result'.status = status
      BY <2>4
    <2>. QED BY <2>8, <2>9 DEF StatusIsTrue, FactStored
  <1>. QED BY <1>1, <1>2, <1>3 DEF Next, Make, clone_plan_for_rerun, NewPlan, Execute,
           bulk_persist, StorePlan, StoreFact, ReadPattern, WritePattern, Die, Tick,
           cleanup_expired_facts, hard_delete_old_facts, vars, stores, history

\* Whatever is grounded is what memory may answer with.
LEMMA GroundedMemory == TypeOK /\ Grounded => MemoryIsGrounded
  <1>. SUFFICES ASSUME TypeOK, Grounded PROVE MemoryIsGrounded
    OBVIOUS
  <1>1. \A f \in ever : get_plan_by_id(f.plan)
    BY DEF Grounded, FactsGrounded, FactIsGrounded
  <1>2. \A p \in embedded : get_plan_by_id(p)
    BY DEF Grounded, EmbeddingsGrounded
  <1>3. ASSUME NEW i \in Intents, NEW p \in get_plans_by_intent(i)
        PROVE  [plan |-> p, outcome |-> "success"] \in executed
    <2>1. p \in Ids /\ library[p] = "success"
      BY <1>3 DEF get_plans_by_intent, get_plan_outcomes
    <2>. QED BY <2>1 DEF Grounded, LibraryGrounded, get_plan_by_id
  <1>4. ASSUME NEW i \in Intents, NEW f \in query_facts(i)
        PROVE  \E x \in executed : x.plan = f.plan /\ f.text = derive_fact(x.plan, x.outcome)
    <2>1. f \in facts /\ f.deleted = -1
      BY <1>4 DEF query_facts
    <2>. QED BY <2>1 DEF Grounded, FactsGrounded, FactIsGrounded
  <1>. QED BY <1>1, <1>2, <1>3, <1>4 DEF MemoryIsGrounded

-----------------------------------------------------------------------------
\* A new fact is none there has been: if it were, it would not have expired, and
\* would be found by its hash.
LEMMA NewFactIsNew ==
  ASSUME TypeOK, FreshFactsStay, NEW row \in Fact, row.day = day, row.deleted = -1,
         SameHash(row.text, day) = {}
  PROVE  row \notin ever
  <1>. SUFFICES ASSUME row \in ever PROVE FALSE
    OBVIOUS
  <1>1. row.day + Ttl > day
    BY OutcomeParameters DEF TypeOK
  <1>2. row \in facts
    BY <1>1 DEF FreshFactsStay
  <1>. QED BY <1>2 DEF SameHash

\* StoreFact inserts nothing, or a fact that is not to be counted, or one that is.
LEMMA StoreFactCases ==
  ASSUME TypeOK, FreshFactsStay, NEW c \in Call, NEW a \in Answer, StoreFact(c, a)
  PROVE  \E row \in Fact, r \in Request :
            /\ row.plan = Item(c).plan /\ row.day = day
            /\ call' = [call EXCEPT ![c] = r] /\ r.todo = call[c].todo /\ r.day = day
            /\ \/ UNCHANGED <<facts, ever>> /\ r.pc = "embedding"
               \/ /\ row \notin ever /\ ever' = ever \cup {row} /\ facts' = facts \cup {row}
                  /\ \/ r.pc = "pattern"
                     \/ r.pc = "embedding" /\ (\/ plans[row.plan].entities = "none"
                                               \/ KeyOf(row.plan, row.day) \in blurred')
  <1>. DEFINE p == Item(c).plan
              out == Item(c).outcome
              row == [text |-> derive_fact(p, out), day |-> day, plan |-> p, deleted |-> -1]
              next == IF IsNew(p, out) /\ plans[p].entities # "none" THEN "pattern" ELSE "embedding"
              known == [call[c] EXCEPT !.day = day, !.pc = next]
  <1>1. p \in Ids /\ out \in Outcome /\ call[c] \in Request /\ day \in Nat
    <2>1. call[c].pc # "idle"
      BY DEF StoreFact
    <2>. QED BY <2>1, ItemOfCall DEF TypeOK
  <1>2. row \in Fact /\ row.text = derive_fact(p, out) /\ row.day = day /\ row.plan = p
        /\ row.deleted = -1 /\ row.plan = Item(c).plan
    BY <1>1, DerivedText DEF Fact
  <1>3. /\ GiveUp(c) \in Request /\ GiveUp(c).pc = "embedding" /\ GiveUp(c).todo = call[c].todo
        /\ GiveUp(c).day = day
    BY <1>1 DEF GiveUp, Request
  <1>4. known \in Request /\ known.pc = next /\ known.todo = call[c].todo /\ known.day = day
    <2>1. next \in {"library", "fact", "pattern", "count", "embedding"}
      OBVIOUS
    <2>. HIDE DEF next
    <2>. QED BY <1>1, <2>1 DEF Request
  <1>5. IsNew(p, out) <=> SameHash(row.text, day) = {}
    BY <1>2 DEF IsNew
  <1>6. CASE _detect_pii(p, out)
    BY <1>2, <1>3, <1>6 DEF StoreFact, store_fact
  <1>7. CASE ~_detect_pii(p, out)
    <2>1. /\ insert_fact(p, out, a)
          /\ call' = [call EXCEPT ![c] = IF a # "ok" THEN GiveUp(c) ELSE known]
          /\ IsNew(p, out) /\ a = "lost" => KeyOf(p, day) \in blurred'
      BY <1>7 DEF StoreFact, store_fact, TypeOK, CallsOK
    <2>2. IF IsNew(p, out) /\ TakesEffect(a)
          THEN facts' = facts \cup {row} /\ ever' = ever \cup {row} ELSE UNCHANGED <<facts, ever>>
      BY <1>2, <1>5, <2>1 DEF insert_fact
    <2>3. IsNew(p, out) => row \notin ever
      BY <1>2, <1>5, NewFactIsNew
    <2>4. CASE a # "ok"
      <3>1. call' = [call EXCEPT ![c] = GiveUp(c)]
        BY <2>1, <2>4
      <3>2. IsNew(p, out) /\ TakesEffect(a) => KeyOf(row.plan, row.day) \in blurred'
        BY <1>2, <2>1, <2>4 DEF Answer, TakesEffect
      <3>. HIDE DEF row, p, out
      <3>. QED BY <1>2, <1>3, <2>2, <2>3, <3>1, <3>2
    <2>5. CASE a = "ok"
      <3>1. call' = [call EXCEPT ![c] = known] /\ TakesEffect(a)
        BY <2>1, <2>5 DEF TakesEffect
      <3>2. CASE next = "pattern"
        <4>1. IsNew(p, out)
          BY <3>2
        <4>. HIDE DEF row, known, next, p, out
        <4>. QED BY <1>2, <1>4, <2>2, <2>3, <3>1, <3>2, <4>1
      <3>3. CASE next # "pattern"
        <4>1. next = "embedding" /\ (IsNew(p, out) => plans[row.plan].entities = "none")
          BY <1>2, <3>3
        <4>. HIDE DEF row, known, next, p, out
        <4>. QED BY <1>2, <1>4, <2>2, <2>3, <3>1, <4>1
      <3>. QED BY <3>2, <3>3
    <2>. QED BY <2>4, <2>5
  <1>. QED BY <1>6, <1>7

\* Fresh facts are not cleaned up, and there are finitely many facts.
LEMMA FreshInductive ==
  ASSUME TypeOK, TypeOK', Grounded, FreshFactsStay, IsFiniteSet(ever), [Next]_vars
  PROVE  FreshFactsStay' /\ IsFiniteSet(ever')
  <1>. USE DEF FreshFactsStay
  <1>1. CASE UNCHANGED <<ever, facts>> /\ (day' = day \/ day' = day + 1)
    <2>1. \A f \in ever : f.day \in Nat
      BY DEF TypeOK, Fact
    <2>2. day \in Nat /\ Ttl \in Nat
      BY OutcomeParameters DEF TypeOK
    <2>. QED BY <1>1, <2>1, <2>2
  <1>2. ASSUME NEW c \in Call, NEW a \in Answer, StoreFact(c, a)
        PROVE  FreshFactsStay' /\ IsFiniteSet(ever')
    <2>1. PICK row \in Fact : \/ UNCHANGED <<facts, ever>>
                              \/ ever' = ever \cup {row} /\ facts' = facts \cup {row}
      BY <1>2, StoreFactCases
    <2>2. day' = day
      BY <1>2 DEF StoreFact
    <2>3. IsFiniteSet(ever \cup {row})
      BY FS_AddElement
    <2>. QED BY <2>1, <2>2, <2>3
  <1>3. CASE cleanup_expired_facts
    <2>1. /\ facts' = {IF Expired(f) /\ f.deleted = -1 THEN [f EXCEPT !.deleted = day] ELSE f : f \in facts}
          /\ UNCHANGED <<ever, day>>
      BY <1>3 DEF cleanup_expired_facts, history
    <2>2. \A f \in ever : f.day \in Nat
      BY DEF TypeOK, Fact
    <2>3. day \in Nat /\ Ttl \in Nat
      BY OutcomeParameters DEF TypeOK
    <2>4. \A f \in ever : f.day + Ttl > day => ~Expired(f)
      BY <2>2, <2>3 DEF Expired
    <2>. QED BY <2>1, <2>4
  <1>4. CASE hard_delete_old_facts
    <2>1. facts' = {f \in facts : f.deleted = -1} /\ UNCHANGED <<ever, day>>
      BY <1>4 DEF hard_delete_old_facts, history
    <2>2. \A f \in ever : f.deleted = -1
      BY DEF Grounded, FactsGrounded, FactIsGrounded
    <2>. QED BY <2>1, <2>2
  <1>. HIDE DEF FreshFactsStay
  <1>. QED BY <1>1, <1>2, <1>3, <1>4 DEF Next, Make, clone_plan_for_rerun, NewPlan, Execute,
           bulk_persist, StorePlan, ReadPattern, WritePattern, StoreEmbedding, Die, Tick,
           vars, stores, history

-----------------------------------------------------------------------------
\* There are finitely many facts and requests to be counted.
LEMMA FiniteCounts ==
  ASSUME IsFiniteSet(ever), NEW k
  PROVE  /\ IsFiniteSet(Of(k)) /\ Cardinality(Of(k)) \in Nat
         /\ IsFiniteSet(Pending(k)) /\ Cardinality(Pending(k)) \in Nat
  <1>1. Of(k) \subseteq ever /\ Pending(k) \subseteq Call
    BY DEF Of, Pending
  <1>2. IsFiniteSet(Of(k)) /\ IsFiniteSet(Pending(k))
    BY <1>1, FS_Subset, OutcomeParameters
  <1>. QED BY <1>2, FS_CardinalityType

\* A step that leaves the facts of a pattern and the requests that are to count
\* one alone keeps its count.  A request that reads it reads what is counted.
LEMMA CountStays ==
  ASSUME NEW k, KeyCounted(k), counts'[k] = counts[k], Of(k)' = Of(k), Pending(k)' = Pending(k),
         k \in blurred => k \in blurred',
         \A c \in Pending(k) : call'[c].pc = "count" =>
            \/ call[c].pc = "count" /\ call'[c].seen = call[c].seen
            \/ call'[c].seen = counts[k]
  PROVE  KeyCounted(k)'
  BY DEF KeyCounted

\* A fact is stored that is to be counted by a request, or never will be, which is noted.
LEMMA CountInserted ==
  ASSUME TypeOK, TypeOK', IsFiniteSet(ever), IsFiniteSet(ever'), NEW k \in PatternKeys,
         KeyCounted(k), NEW row, row \notin Of(k), Of(k)' = Of(k) \cup {row}, counts' = counts,
         k \in blurred => k \in blurred',
         \/ Pending(k)' = Pending(k) /\ (k[2] = "none" \/ k \in blurred')
         \/ \E c \in Call : /\ c \notin Pending(k) /\ Pending(k)' = Pending(k) \cup {c}
                            /\ call'[c].pc = "pattern",
         \A c \in Pending(k) : call'[c] = call[c]
  PROVE  KeyCounted(k)'
  <1>1. PICK n \in Nat, m \in Nat, o \in Nat :
            n = counts[k] /\ m = Cardinality(Pending(k)) /\ o = Cardinality(Of(k))
    BY FiniteCounts DEF TypeOK
  <1>2. counts'[k] = n /\ Cardinality(Of(k))' = o + 1
    BY <1>1, FiniteCounts, FS_AddElement
  <1>3. \A c \in Pending(k) : call[c].pc = "count" => call[c].seen \in Nat
    BY DEF Pending, TypeOK, CallsOK, Request
  <1>4. /\ n + m <= o
        /\ k[2] # "none" /\ k \notin blurred => n + m = o
        /\ \A c \in Pending(k) : call[c].pc = "count" => call[c].seen + m <= o
    BY <1>1 DEF KeyCounted
  <1>5. CASE Pending(k)' = Pending(k) /\ (k[2] = "none" \/ k \in blurred')
    <2>1. n + m <= o + 1
      BY <1>4
    <2>2. \A c \in Pending(k) : call'[c].pc = "count" => call'[c].seen + m <= o + 1
      BY <1>3, <1>4
    <2>. QED BY <1>1, <1>2, <1>5, <2>1, <2>2 DEF KeyCounted
  <1>6. ASSUME NEW c \in Call, c \notin Pending(k), Pending(k)' = Pending(k) \cup {c},
               call'[c].pc = "pattern"
        PROVE  KeyCounted(k)'
    <2>1. Cardinality(Pending(k))' = m + 1
      BY <1>1, <1>6, FiniteCounts, FS_AddElement
    <2>2. /\ n + (m + 1) <= o + 1
          /\ k[2] # "none" /\ k \notin blurred => n + (m + 1) = o + 1
      BY <1>4
    <2>3. \A d \in Pending(k) : call'[d].pc = "count" => call'[d].seen + (m + 1) <= o + 1
      BY <1>3, <1>4
    <2>. QED BY <1>2, <1>6, <2>1, <2>2, <2>3 DEF KeyCounted
  <1>. QED BY <1>5, <1>6

\* A request is done with a fact: it has counted one more than it has read, or
\* it is noted that it has not.
LEMMA CountLeft ==
  ASSUME TypeOK, TypeOK', IsFiniteSet(ever), NEW k \in PatternKeys,
         KeyCounted(k), Of(k)' = Of(k), NEW c \in Pending(k), Pending(k)' = Pending(k) \ {c},
         k \in blurred => k \in blurred',
         \/ counts'[k] = counts[k] /\ k \in blurred'
         \/ /\ call[c].pc = "count" /\ counts'[k] = call[c].seen + 1
            /\ counts[k] = call[c].seen \/ k \in blurred',
         \A d \in Pending(k) : d # c => call'[d] = call[d]
  PROVE  KeyCounted(k)'
  <1>1. PICK n \in Nat, m \in Nat, o \in Nat :
            n = counts[k] /\ m = Cardinality(Pending(k)) /\ o = Cardinality(Of(k))
    BY FiniteCounts DEF TypeOK
  <1>2. m > 0 /\ Cardinality(Pending(k))' = m - 1 /\ Cardinality(Of(k))' = o
    <2>1. Cardinality(Pending(k) \ {c}) = m - 1
      BY <1>1, FiniteCounts, FS_RemoveElement
    <2>2. m # 0
      BY <1>1, FiniteCounts, FS_EmptySet
    <2>. QED BY <1>1, <2>1, <2>2
  <1>3. \A d \in Pending(k) : call[d].seen \in Nat
    BY DEF Pending, TypeOK, CallsOK, Request
  <1>4. /\ n + m <= o
        /\ k[2] # "none" /\ k \notin blurred => n + m = o
        /\ \A d \in Pending(k) : call[d].pc = "count" => call[d].seen + m <= o
    BY <1>1 DEF KeyCounted
  <1>5. \A d \in Pending(k)' : call'[d].pc = "count" => call'[d].seen + (m - 1) <= o
    BY <1>3, <1>4
  <1>6. CASE counts'[k] = counts[k] /\ k \in blurred'
    <2>1. n + (m - 1) <= o
      BY <1>4
    <2>. QED BY <1>1, <1>2, <1>5, <1>6, <2>1 DEF KeyCounted
  <1>7. CASE call[c].pc = "count" /\ counts'[k] = call[c].seen + 1
             /\ (counts[k] = call[c].seen \/ k \in blurred')
    <2>1. PICK s \in Nat : s = call[c].seen
      BY <1>3
    <2>2. s + m <= o /\ counts'[k] = s + 1
      BY <1>4, <1>7, <2>1
    <2>3. (s + 1) + (m - 1) <= o
      BY <1>2, <2>2
    <2>4. k[2] # "none" /\ k \notin blurred' => (s + 1) + (m - 1) = o
      BY <1>1, <1>2, <1>4, <1>7, <2>1
    <2>. QED BY <1>2, <1>5, <2>2, <2>3, <2>4 DEF KeyCounted
  <1>. QED BY <1>6, <1>7

\* The facts of a pattern are those they were and the new ones.
LEMMA OfStays ==
  ASSUME TypeOK, Growth, NEW k
  PROVE  /\ ever' = ever => Of(k)' = Of(k)
         /\ \A row \in Fact : row \notin ever /\ ever' = ever \cup {row} =>
               /\ row \notin Of(k)
               /\ Of(k)' = IF KeyOf(row.plan, row.day) = k THEN Of(k) \cup {row} ELSE Of(k)
  <1>1. \A f \in Fact : KeyOf(f.plan, f.day)' = KeyOf(f.plan, f.day)
    <2>. SUFFICES ASSUME NEW f \in Fact PROVE KeyOf(f.plan, f.day)' = KeyOf(f.plan, f.day)
      OBVIOUS
    <2>1. PICK p, d : p \in Ids /\ p = f.plan /\ d = f.day
      <3>1. f.plan \in Ids /\ \E d : d = f.day
        BY DEF Fact
      <3>. QED BY <3>1
    <2>. QED BY <2>1, MeaningStays
  <1>2. ever \subseteq Fact
    BY DEF TypeOK
  <1>. QED BY <1>1, <1>2 DEF Of

\* So are the requests that are to count one, but for those that move.
LEMMA PendingStays ==
  ASSUME TypeOK, Growth, NEW d \in Call, call'[d] = call[d], NEW k
  PROVE  d \in Pending(k)' <=> d \in Pending(k)
  <1>1. CASE call[d].pc \notin {"pattern", "count"}
    BY <1>1 DEF Pending
  <1>2. CASE call[d].pc \in {"pattern", "count"}
    <2>1. PICK p, t : p \in Ids /\ p = Item(d).plan /\ t = call[d].day
      <3>1. Item(d).plan \in Ids /\ \E t : t = call[d].day
        BY <1>2, ItemOfCall
      <3>. QED BY <3>1
    <2>2. Item(d)' = Item(d)
      BY DEF Item
    <2>3. KeyOf(p, t)' = KeyOf(p, t)
      BY <2>1, MeaningStays
    <2>4. PatternOf(d) = KeyOf(p, t) /\ PatternOf(d)' = KeyOf(p, t)'
      BY <2>1, <2>2 DEF PatternOf
    <2>. QED BY <2>3, <2>4 DEF Pending
  <1>. QED BY <1>1, <1>2

LEMMA PendingMoves ==
  ASSUME TypeOK, Growth, NEW c \in Call, \A d \in Call : d # c => call'[d] = call[d], NEW k
  PROVE  /\ call'[c].pc \notin {"pattern", "count"} => Pending(k)' = Pending(k) \ {c}
         /\ call[c].pc # "idle" /\ call'[c].todo = call[c].todo
               /\ call'[c].pc \in {"pattern", "count"} =>
                  Pending(k)' = IF KeyOf(Item(c).plan, call'[c].day) = k
                                THEN Pending(k) \cup {c} ELSE Pending(k) \ {c}
  <1>1. \A d \in Call : d # c => (d \in Pending(k)' <=> d \in Pending(k))
    BY PendingStays
  <1>2. Pending(k) \subseteq Call /\ Pending(k)' \subseteq Call
    BY DEF Pending
  <1>3. ASSUME call'[c].pc \notin {"pattern", "count"} PROVE Pending(k)' = Pending(k) \ {c}
    <2>1. c \notin Pending(k)'
      BY <1>3 DEF Pending
    <2>. QED BY <1>1, <1>2, <2>1
  <1>4. ASSUME call[c].pc # "idle", call'[c].todo = call[c].todo, call'[c].pc \in {"pattern", "count"}
        PROVE  Pending(k)' = IF KeyOf(Item(c).plan, call'[c].day) = k
                             THEN Pending(k) \cup {c} ELSE Pending(k) \ {c}
    <2>1. PICK p, t : p \in Ids /\ p = Item(c).plan /\ t = call'[c].day
      <3>1. Item(c).plan \in Ids /\ \E t : t = call'[c].day
        BY <1>4, ItemOfCall
      <3>. QED BY <3>1
    <2>2. Item(c)' = Item(c)
      BY <1>4 DEF Item
    <2>3. PatternOf(c)' = KeyOf(p, t)
      <3>1. PatternOf(c)' = KeyOf(p, t)'
        BY <2>1, <2>2 DEF PatternOf
      <3>. QED BY <2>1, <3>1, MeaningStays
    <2>4. c \in Pending(k)' <=> KeyOf(p, t) = k
      BY <1>4, <2>3 DEF Pending
    <2>. QED BY <1>1, <1>2, <2>1, <2>4
  <1>. QED BY <1>3, <1>4

\* Every step keeps the count of every pattern (history store_fact and
\* _update_pattern, with what cuts in between its two commands).
LEMMA CountInductive ==
  ASSUME TypeOK, TypeOK', Growth, Grounded, Counted, FreshFactsStay', IsFiniteSet(ever'), [Next]_vars
  PROVE  Counted'
  <1>. DEFINE Goal == \A k \in PatternKeys : KeyCounted(k)
  <1>0. /\ IsFiniteSet(ever) /\ FreshFactsStay /\ \A k \in PatternKeys : KeyCounted(k)
        /\ \A c \in Call : call[c] \in Request
    BY DEF Counted, TypeOK, CallsOK
  <1>1. CASE UNCHANGED <<ever, counts, call>> /\ blurred \subseteq blurred'
    <2>. SUFFICES ASSUME NEW k \in PatternKeys PROVE KeyCounted(k)'
      BY <1>0, <1>1 DEF Counted
    <2>1. Of(k)' = Of(k)
      BY <1>1, OfStays
    <2>2. Pending(k)' = Pending(k)
      <3>1. \A c \in Call : c \in Pending(k)' <=> c \in Pending(k)
        BY <1>1, PendingStays
      <3>. QED BY <3>1 DEF Pending
    <2>3. \A c \in Pending(k) : call'[c].pc = "count" =>
             \/ call[c].pc = "count" /\ call'[c].seen = call[c].seen
             \/ call'[c].seen = counts[k]
      BY <1>1
    <2>. QED BY <1>0, <1>1, <2>1, <2>2, <2>3, CountStays
  <1>2. ASSUME NEW c \in Call, UNCHANGED <<ever, counts>>, blurred \subseteq blurred',
               call[c].pc \notin {"pattern", "count"}, call'[c].pc \notin {"pattern", "count"},
               \A d \in Call : d # c => call'[d] = call[d]
        PROVE  Goal'
    <2>. SUFFICES ASSUME NEW k \in PatternKeys PROVE KeyCounted(k)'
      OBVIOUS
    <2>1. Of(k)' = Of(k)
      BY <1>2, OfStays
    <2>2. c \notin Pending(k) /\ Pending(k) \subseteq Call
      BY <1>2 DEF Pending
    <2>3. Pending(k)' = Pending(k)
      BY <1>2, <2>2, PendingMoves
    <2>4. \A d \in Pending(k) : call'[d].pc = "count" =>
             \/ call[d].pc = "count" /\ call'[d].seen = call[d].seen
             \/ call'[d].seen = counts[k]
      BY <1>2, <2>2
    <2>. QED BY <1>0, <1>2, <2>1, <2>3, <2>4, CountStays
  <1>3. ASSUME NEW c \in Call, call[c] = Idle, NEW t, call' = [call EXCEPT ![c] = Begin(t)],
               UNCHANGED <<ever, counts, blurred>>
        PROVE  Goal'
    <2>1. call'[c] = Begin(t) /\ \A d \in Call : d # c => call'[d] = call[d]
      BY <1>3 DEF TypeOK, CallsOK
    <2>. QED BY <1>2, <1>3, <2>1 DEF Begin, Idle
  <1>4. ASSUME NEW c \in Call, NEW a \in Answer, StorePlan(c, a) PROVE Goal'
    <2>1. call[c].pc = "library" /\ UNCHANGED <<ever, counts, blurred>>
      BY <1>4 DEF StorePlan
    <2>2. /\ call'[c].pc \in {"fact", "idle", "library"}
          /\ \A d \in Call : d # c => call'[d] = call[d]
      <3>1. CASE a = "ok"
        <4>1. call' = [call EXCEPT ![c] = [call[c] EXCEPT !.pc = "fact"]]
          BY <1>4, <3>1 DEF StorePlan, TypeOK, CallsOK
        <4>. QED BY <1>0, <4>1 DEF TypeOK, CallsOK, Request
      <3>2. CASE a # "ok"
        <4>1. Finish(c, "error")
          BY <1>4, <3>2 DEF StorePlan
        <4>. QED BY <2>1, <4>1, FinishTypes
      <3>. QED BY <3>1, <3>2
    <2>. QED BY <1>2, <2>1, <2>2
  <1>5. ASSUME NEW c \in Call, NEW a \in Answer, StoreFact(c, a) PROVE Goal'
    <2>. SUFFICES ASSUME NEW k \in PatternKeys PROVE KeyCounted(k)'
      OBVIOUS
    <2>1. PICK row \in Fact, r \in Request :
            /\ row.plan = Item(c).plan /\ row.day = day
            /\ call' = [call EXCEPT ![c] = r] /\ r.todo = call[c].todo /\ r.day = day
            /\ \/ UNCHANGED <<facts, ever>> /\ r.pc = "embedding"
               \/ /\ row \notin ever /\ ever' = ever \cup {row} /\ facts' = facts \cup {row}
                  /\ \/ r.pc = "pattern"
                     \/ r.pc = "embedding" /\ (\/ plans[row.plan].entities = "none"
                                               \/ KeyOf(row.plan, row.day) \in blurred')
      BY <1>0, <1>5, StoreFactCases
    <2>2. call[c].pc = "fact" /\ counts' = counts /\ blurred \subseteq blurred'
      BY <1>5 DEF StoreFact
    <2>3. call'[c] = r /\ \A d \in Call : d # c => call'[d] = call[d]
      BY <2>1 DEF TypeOK, CallsOK
    <2>4. c \notin Pending(k) /\ Pending(k) \subseteq Call
      BY <2>2 DEF Pending
    <2>5. \A d \in Pending(k) : call'[d] = call[d]
      BY <2>3, <2>4
    <2>6. CASE ever' = ever /\ r.pc = "embedding"
      <3>1. call'[c].pc \notin {"pattern", "count"} /\ call[c].pc \notin {"pattern", "count"}
        BY <2>2, <2>3, <2>6
      <3>. QED BY <1>2, <2>2, <2>3, <2>6, <3>1
    <2>7. CASE row \notin ever /\ ever' = ever \cup {row}
      <3>1. /\ row \notin Of(k)
            /\ Of(k)' = IF KeyOf(row.plan, row.day) = k THEN Of(k) \cup {row} ELSE Of(k)
        BY <2>7, OfStays
      <3>2. CASE KeyOf(row.plan, row.day) # k
        <4>1. Pending(k)' = Pending(k)
          <5>1. call[c].pc # "idle" /\ call'[c].todo = call[c].todo /\ call'[c].day = day
            BY <2>1, <2>2, <2>3
          <5>2. KeyOf(Item(c).plan, call'[c].day) # k
            BY <2>1, <3>2, <5>1
          <5>3. CASE r.pc = "pattern"
            <6>1. call'[c].pc \in {"pattern", "count"}
              BY <2>3, <5>3
            <6>2. Pending(k)' = Pending(k) \ {c}
              BY <2>3, <5>1, <5>2, <6>1, PendingMoves
            <6>. QED BY <2>4, <6>2
          <5>4. CASE r.pc = "embedding"
            <6>1. call'[c].pc \notin {"pattern", "count"}
              BY <2>3, <5>4
            <6>2. Pending(k)' = Pending(k) \ {c}
              BY <2>3, <6>1, PendingMoves
            <6>. QED BY <2>4, <6>2
          <5>. QED BY <2>1, <2>7, <5>3, <5>4
        <4>. QED BY <1>0, <2>2, <2>5, <3>1, <3>2, <4>1, CountStays
      <3>3. CASE KeyOf(row.plan, row.day) = k /\ r.pc = "pattern"
        <4>1. Pending(k)' = Pending(k) \cup {c}
          BY <2>1, <2>2, <2>3, <3>3, PendingMoves
        <4>. QED BY <1>0, <2>2, <2>3, <2>4, <2>5, <3>1, <3>3, <4>1, CountInserted
      <3>4. CASE KeyOf(row.plan, row.day) = k /\ r.pc = "embedding"
        <4>1. Pending(k)' = Pending(k)
          BY <2>3, <2>4, <3>4, PendingMoves
        <4>2. k[2] = plans[row.plan].entities
          BY <3>4 DEF KeyOf
        <4>3. k[2] = "none" \/ k \in blurred'
          BY <2>1, <2>7, <3>4, <4>2
        <4>. QED BY <1>0, <2>2, <2>5, <3>1, <3>4, <4>1, <4>3, CountInserted
      <3>. QED BY <2>1, <3>2, <3>3, <3>4
    <2>. QED BY <2>1, <2>6, <2>7
  <1>6. ASSUME NEW c \in Call, NEW a \in Answer, ReadPattern(c, a) \/ WritePattern(c, a) PROVE Goal'
    <2>. SUFFICES ASSUME NEW k \in PatternKeys PROVE KeyCounted(k)'
      OBVIOUS
    <2>1. PICK r \in Request :
            /\ call' = [call EXCEPT ![c] = r] /\ r.todo = call[c].todo /\ r.day = call[c].day
            /\ \/ /\ ReadPattern(c, a) /\ a = "ok" /\ r.pc = "count"
                  /\ r.seen = counts[PatternOf(c)]
               \/ r.pc = "embedding" /\ r.status = StatusOf(a)
      BY <1>6, OtherMoves
    <2>2. /\ call[c].pc \in {"pattern", "count"} /\ ever' = ever /\ blurred \subseteq blurred'
          /\ PatternOf(c) = KeyOf(Item(c).plan, call[c].day)
      BY <1>6 DEF ReadPattern, WritePattern, stores, PatternOf
    <2>3. call'[c] = r /\ \A d \in Call : d # c => call'[d] = call[d]
      BY <2>1 DEF TypeOK, CallsOK
    <2>4. Pending(k) \subseteq Call /\ (c \in Pending(k) <=> PatternOf(c) = k) /\ Of(k)' = Of(k)
      BY <2>2, OfStays DEF Pending
    <2>5. CASE PatternOf(c) # k
      <3>1. Pending(k)' = Pending(k)
        <4>1. r.pc \in {"count", "embedding"}
          BY <2>1
        <4>. QED BY <2>1, <2>2, <2>3, <2>4, <2>5, <4>1, PendingMoves
      <3>2. counts'[k] = counts[k]
        BY <1>6, <2>5 DEF ReadPattern, WritePattern, upsert_pattern, stores, TypeOK
      <3>3. \A d \in Pending(k) : call'[d] = call[d]
        BY <2>3, <2>4, <2>5
      <3>. QED BY <1>0, <2>2, <2>4, <3>1, <3>2, <3>3, CountStays
    <2>6. CASE PatternOf(c) = k /\ r.pc = "count"
      <3>1. Pending(k)' = Pending(k)
        <4>1. /\ call[c].pc # "idle" /\ call'[c].todo = call[c].todo
              /\ call'[c].pc \in {"pattern", "count"}
          BY <2>1, <2>2, <2>3, <2>6
        <4>2. KeyOf(Item(c).plan, call'[c].day) = k
          BY <2>1, <2>2, <2>3, <2>6
        <4>3. Pending(k)' = Pending(k) \cup {c}
          BY <2>3, <4>1, <4>2, PendingMoves
        <4>. QED BY <2>4, <2>6, <4>3
      <3>2. ReadPattern(c, a) /\ r.seen = counts[k]
        BY <2>1, <2>6
      <3>3. counts'[k] = counts[k]
        BY <3>2 DEF ReadPattern, stores
      <3>4. \A d \in Pending(k) : call'[d].pc = "count" =>
               \/ call[d].pc = "count" /\ call'[d].seen = call[d].seen
               \/ call'[d].seen = counts[k]
        BY <2>3, <2>4, <3>2
      <3>. QED BY <1>0, <2>2, <2>4, <3>1, <3>3, <3>4, CountStays
    <2>7. CASE PatternOf(c) = k /\ r.pc = "embedding"
      <3>1. c \in Pending(k) /\ Pending(k)' = Pending(k) \ {c}
        BY <2>3, <2>4, <2>7, PendingMoves
      <3>2. \/ counts'[k] = counts[k] /\ k \in blurred'
            \/ /\ call[c].pc = "count" /\ counts'[k] = call[c].seen + 1
               /\ counts[k] = call[c].seen \/ k \in blurred'
        <4>1. CASE ReadPattern(c, a)
          <5>1. a # "ok"
            <6>1. a = "ok" => call'[c].pc = "count"
              BY <1>0, <4>1 DEF ReadPattern, TypeOK, CallsOK, Request
            <6>. QED BY <2>3, <2>7, <6>1
          <5>. QED BY <2>7, <4>1, <5>1 DEF ReadPattern, stores
        <4>2. CASE WritePattern(c, a)
          <5>1. counts' = IF TakesEffect(a) THEN [counts EXCEPT ![k] = call[c].seen + 1] ELSE counts
            BY <2>7, <4>2 DEF WritePattern, upsert_pattern
          <5>2. blurred' = IF TakesEffect(a) /\ counts[k] = call[c].seen
                           THEN blurred ELSE blurred \cup {k}
            BY <2>7, <4>2 DEF WritePattern
          <5>3. call[c].pc = "count"
            BY <4>2 DEF WritePattern
          <5>4. CASE TakesEffect(a)
            <6>1. counts'[k] = call[c].seen + 1
              BY <5>1, <5>4 DEF TypeOK
            <6>2. counts[k] = call[c].seen \/ k \in blurred'
              BY <5>2
            <6>. QED BY <5>3, <6>1, <6>2
          <5>5. CASE ~TakesEffect(a)
            BY <5>1, <5>2, <5>5
          <5>. QED BY <5>4, <5>5
        <4>. QED BY <1>6, <4>1, <4>2
      <3>3. \A d \in Pending(k) : d # c => call'[d] = call[d]
        BY <2>3, <2>4
      <3>. QED BY <1>0, <2>2, <2>4, <3>1, <3>2, <3>3, CountLeft
    <2>. QED BY <2>1, <2>5, <2>6, <2>7
  <1>7. ASSUME NEW c \in Call, NEW a \in Answer, StoreEmbedding(c, a) PROVE Goal'
    <2>1. call[c].pc = "embedding" /\ call[c].status \in {"ok", "partial"}
          /\ UNCHANGED <<ever, counts, blurred>>
      BY <1>0, <1>7 DEF StoreEmbedding, Request
    <2>2. \E status \in {"ok", "partial"} : Finish(c, status)
      BY <1>7, <2>1 DEF StoreEmbedding
    <2>3. call'[c].pc \in {"idle", "library"} /\ \A d \in Call : d # c => call'[d] = call[d]
      BY <2>1, <2>2, FinishTypes
    <2>. QED BY <1>2, <2>1, <2>3
  <1>8. ASSUME NEW c \in Call, Die(c) PROVE Goal'
    <2>1. /\ call'[c].pc = "idle" /\ \A d \in Call : d # c => call'[d] = call[d]
          /\ UNCHANGED <<ever, counts>> /\ blurred \subseteq blurred'
      BY <1>8, IdleTypes DEF Die, TypeOK, CallsOK, stores
    <2>2. CASE call[c].pc \notin {"pattern", "count"}
      BY <1>2, <2>1, <2>2
    <2>3. CASE call[c].pc \in {"pattern", "count"}
      <3>. SUFFICES ASSUME NEW k \in PatternKeys PROVE KeyCounted(k)'
        OBVIOUS
      <3>1. Pending(k)' = Pending(k) \ {c} /\ Of(k)' = Of(k)
        BY <2>1, PendingMoves, OfStays
      <3>2. \A d \in Pending(k) : d \in Call
        BY DEF Pending
      <3>3. CASE c \in Pending(k)
        <4>1. k \in blurred'
          BY <1>8, <2>3, <3>3 DEF Die, Pending
        <4>. QED BY <1>0, <2>1, <3>1, <3>2, <3>3, <4>1, CountLeft
      <3>4. CASE c \notin Pending(k)
        <4>1. Pending(k)' = Pending(k) /\ \A d \in Pending(k) : call'[d] = call[d]
          BY <2>1, <3>1, <3>2, <3>4
        <4>. QED BY <1>0, <2>1, <3>1, <4>1, CountStays
      <3>. QED BY <3>3, <3>4
    <2>. QED BY <2>2, <2>3
  <1>9. ASSUME Goal' PROVE Counted'
    BY <1>9 DEF Counted
  <1>. HIDE DEF Goal
  <1>. QED BY <1>1, <1>3, <1>4, <1>5, <1>6, <1>7, <1>8, <1>9 DEF Next, Make, clone_plan_for_rerun,
           NewPlan, Execute, bulk_persist, Tick, cleanup_expired_facts, hard_delete_old_facts,
           vars, stores, history

-----------------------------------------------------------------------------
\* The inductive invariant: the types, what requests know, the last result and
\* the counts of the patterns (plan_writer, history and plan_library services).
THEOREM Invariance == Spec => []Inv
  <1>1. Init => Inv
    <2>. SUFFICES ASSUME Init PROVE Inv
      OBVIOUS
    <2>1. /\ plans = << >> /\ library = << >> /\ facts = {} /\ embedded = {} /\ executed = {}
          /\ counts = [k \in PatternKeys |-> 0] /\ call = [c \in Call |-> Idle] /\ ever = {}
          /\ day = 0 /\ rounds = 0 /\ faults = 0 /\ blurred = {} /\ result = NoResult
      BY DEF Init
    <2>2. ResultOK
      BY <2>1 DEF ResultOK, Result, NoResult
    <2>3. CallsOK
      BY <2>1, IdleTypes DEF CallsOK
    <2>4. TypeOK
      BY <2>1, <2>2, <2>3 DEF TypeOK
    <2>5. \A c \in Call : CallGrounded(c)
      BY <2>1, IdleTypes DEF CallGrounded
    <2>6. Grounded
      BY <2>1, <2>5 DEF Grounded, FactsGrounded, EmbeddingsGrounded, LibraryGrounded, Ids
    <2>7. StatusIsTrue
      BY <2>1 DEF StatusIsTrue, NoResult
    <2>8. ASSUME NEW k \in PatternKeys PROVE KeyCounted(k)
      <3>1. Of(k) = {} /\ Pending(k) = {} /\ counts[k] = 0
        BY <2>1, IdleTypes DEF Of, Pending
      <3>2. Cardinality({}) = 0
        BY FS_EmptySet
      <3>. QED BY <3>1, <3>2 DEF KeyCounted
    <2>9. Counted
      BY <2>1, <2>8, FS_EmptySet DEF Counted, FreshFactsStay
    <2>. QED BY <2>4, <2>6, <2>7, <2>9 DEF Inv
  <1>2. Inv /\ [Next]_vars => Inv'
    <2>. SUFFICES ASSUME Inv, [Next]_vars PROVE Inv'
      OBVIOUS
    <2>1. TypeOK /\ TypeOK' /\ Growth
      BY TypeInductive, StoresGrow DEF Inv
    <2>2. Grounded /\ Grounded' /\ StatusIsTrue'
      BY <2>1, GroundedInductive, StatusInductive DEF Inv
    <2>3. Counted'
      <3>1. Counted
        BY DEF Inv
      <3>2. FreshFactsStay' /\ IsFiniteSet(ever')
        BY <2>1, <2>2, <3>1, FreshInductive DEF Counted
      <3>. QED BY <2>1, <2>2, <3>1, <3>2, CountInductive
    <2>. QED BY <2>1, <2>2, <2>3 DEF Inv
  <1>. QED BY <1>1, <1>2, PTL DEF Spec

\* What is remembered has happened, whichever request dies or fails half way
\* (plan_writer_service.py persist_outcome).
THEOREM NothingIsMadeUp == Spec => []MemoryIsGrounded
  <1>1. Inv => MemoryIsGrounded
    BY GroundedMemory DEF Inv
  <1>. QED BY <1>1, Invariance, PTL

\* The result of persist_outcome is true when it is given: of what it reports
\* as stored nothing is missing (plan_writer_service.py persist_outcome).
THEOREM ResultsAreTrue == Spec => []StatusIsTrue
  <1>1. Inv => StatusIsTrue
    BY DEF Inv
  <1>. QED BY <1>1, Invariance, PTL

\* A pattern counts no fact twice, and misses none but for what is noted in
\* blurred (history_service.py store_fact).
THEOREM PatternsAreCounted == Spec => []PatternsCount
  <1>1. Inv => PatternsCount
    <2>. SUFFICES ASSUME TypeOK, Counted PROVE PatternsCount
      BY DEF Inv
    <2>1. ASSUME NEW k \in PatternKeys
          PROVE  /\ counts[k] <= Cardinality(Of(k))
                 /\ k[2] # "none" /\ k \notin blurred =>
                       counts[k] + Cardinality(Pending(k)) = Cardinality(Of(k))
      <3>1. counts[k] \in Nat /\ Cardinality(Of(k)) \in Nat /\ Cardinality(Pending(k)) \in Nat
        BY FiniteCounts DEF TypeOK, Counted
      <3>. QED BY <3>1 DEF Counted, KeyCounted
    <2>. QED BY <2>1 DEF PatternsCount, Of, Pending
  <1>. QED BY <1>1, Invariance, PTL

=============================================================================
