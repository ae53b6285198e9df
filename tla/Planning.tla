------------------------------- MODULE Planning -------------------------------
(***************************************************************************)
(* The planner: a skeleton shown to the user and the plan made of it       *)
(* later, or else a plan of one of two LLMs, each behind its circuit       *)
(* breaker, of a template of the library, or the minimal plan. Requests    *)
(* of one user share the breakers and the skeletons.                       *)
(***************************************************************************)
EXTENDS Naturals, Sequences

CONSTANTS Planner,          \* concurrent requests
          Intent,           \* intents without a workflow of their own
          FailureThreshold,
          SuccessThreshold,
          MaxSkeletons,     \* bound: skeletons that are built
          MaxCalls          \* bound: calls of an LLM

ASSUME PlanningParameters ==
    /\ FailureThreshold \in Nat \ {0} /\ SuccessThreshold \in Nat \ {0}
    /\ MaxSkeletons \in Nat /\ MaxCalls \in Nat

VARIABLES
    breaker,   \* breaker[b]: its state, its counts, whether its timeout runs
    skeletons, \* _skeleton_cache: for an intent at most one skeleton
    work,      \* where a request is
    offered,   \* offered[n]: the intent of skeleton n and the plans made of it
    streak,    \* streak[b]: calls that have failed since the last success
    calls

planningVars == <<breaker, skeletons, work, offered, streak, calls>>

LLM == {"primary", "fallback"}
NoWork == [at |-> "idle"]
CircuitBreaker == [state |-> "CLOSED", failures |-> 0, successes |-> 0, recent |-> FALSE]

PlanningInit ==
    /\ breaker = [b \in LLM |-> CircuitBreaker]
    /\ skeletons = [i \in Intent |-> {}]
    /\ work = [c \in Planner |-> NoWork]
    /\ offered = <<>> /\ streak = [b \in LLM |-> 0] /\ calls = 0

Is(c, at) == work[c].at = at
Becomes(c, record) == work' = [work EXCEPT ![c] = record]
Finishes(c) == Becomes(c, NoWork)

-----------------------------------------------------------------------------
(* The circuit breakers *)

\* Open, and not yet to be tried again.
Shut(b) == breaker[b].state = "OPEN" /\ breaker[b].recent

\* What becomes of a breaker that lets a call pass.
Admits(b) ==
    IF breaker[b].state = "OPEN"
    THEN [breaker EXCEPT ![b].state = "HALF_OPEN", ![b].successes = 0] ELSE breaker

\* Mutant: the circuit opens one failure late.
OpensLate(k) ==
    IF k.state = "HALF_OPEN"
    THEN [k EXCEPT !.state = "OPEN", !.failures = FailureThreshold, !.recent = TRUE]
    ELSE [k EXCEPT !.state = IF k.failures >= FailureThreshold THEN "OPEN" ELSE @,
                   !.failures = @ + 1, !.recent = TRUE]

_on_failure(k) ==
    IF k.state = "HALF_OPEN"
    THEN [k EXCEPT !.state = "OPEN", !.failures = FailureThreshold, !.recent = TRUE]
    ELSE [k EXCEPT !.state = IF k.failures + 1 >= FailureThreshold THEN "OPEN" ELSE @,
                   !.failures = @ + 1, !.recent = TRUE]

\* A success counts as a probe if the circuit was half open when the call
\* began, or is now.
_on_success(k, state_at_call) ==
    IF "HALF_OPEN" \notin {state_at_call, k.state} THEN [k EXCEPT !.failures = 0]
    ELSE IF k.successes + 1 < SuccessThreshold THEN [k EXCEPT !.successes = @ + 1]
    ELSE [k EXCEPT !.state = "CLOSED", !.failures = 0, !.successes = 0]

\* The state of the circuit as a call begins.
Era(b) == Admits(b)[b].state

\* Request c calls LLM b, or goes where it goes without it.
Calls(c, b, record, otherwise) ==
    IF Shut(b) THEN Becomes(c, otherwise) /\ UNCHANGED <<breaker, calls>>
    ELSE /\ calls < MaxCalls /\ calls' = calls + 1
         /\ breaker' = Admits(b)
         /\ Becomes(c, record)

Completes(b, success, era) ==
    /\ breaker' = [breaker EXCEPT ![b] = IF success THEN _on_success(@, era) ELSE _on_failure(@)]
    /\ streak' = [streak EXCEPT ![b] = IF success THEN 0 ELSE @ + 1]

-----------------------------------------------------------------------------
(* Skeletons *)

\* The LLM is asked for the entities and the steps of an intent; a circuit
\* that is open leaves both empty.
build_skeleton(c, i) ==
    /\ Is(c, "idle") /\ Len(offered) < MaxSkeletons
    /\ Calls(c, "primary", [at |-> "llm", llm |-> "primary", era |-> Era("primary"),
                           job |-> "skeleton", intent |-> i],
             [at |-> "catalog", intent |-> i])
    /\ UNCHANGED <<skeletons, offered, streak>>

\* A rate limit is shown to the user, any other failure leaves all empty.
get_required_entities(c) ==
    /\ Is(c, "llm") /\ work[c].job = "skeleton"
    /\ \/ \E success \in BOOLEAN : Completes("primary", success, work[c].era)
          /\ Becomes(c, [at |-> "catalog", intent |-> work[c].intent])
       \/ Completes("primary", FALSE, work[c].era) /\ Finishes(c)
    /\ UNCHANGED <<skeletons, offered, calls>>

\* It takes the place of an older one of its intent.
StoreSkeleton(i) ==
    /\ Len(offered) < MaxSkeletons
    /\ offered' = Append(offered, [intent |-> i, plans |-> 0])
    /\ skeletons' = [skeletons EXCEPT ![i] = {[number |-> Len(offered) + 1, fresh |-> TRUE]}]

\* The tools are looked up in the catalog; none of them may be there.
ResolveTools(c) ==
    /\ Is(c, "catalog") /\ Finishes(c)
    /\ StoreSkeleton(work[c].intent) \/ UNCHANGED <<skeletons, offered>>
    /\ UNCHANGED <<breaker, streak, calls>>

-----------------------------------------------------------------------------
(* Plans *)

\* Evidence and tools are gathered first.
generate_plan(c, i) ==
    /\ Is(c, "idle") /\ Becomes(c, [at |-> "gather", intent |-> i])
    /\ UNCHANGED <<breaker, skeletons, offered, streak, calls>>

\* Mutant: the skeleton is read and stays.
GetSkeleton(i) == UNCHANGED skeletons

PopSkeleton(i) == skeletons' = [skeletons EXCEPT ![i] = {}]

\* A plan of the skeleton, if it is not too old. Its tools may be gone, and
\* the skeleton is gone with them.
FromSkeleton(c) ==
    /\ Is(c, "gather") /\ PopSkeleton(work[c].intent) /\ Finishes(c)
    /\ \E s \in skeletons[work[c].intent] :
          /\ s.fresh
          /\ offered' \in {offered, [offered EXCEPT ![s.number].plans = @ + 1]}
    /\ UNCHANGED <<breaker, streak, calls>>

\* Without one the LLMs are asked, unless both circuits are open; or the
\* tools that the intent needs are not connected.
ToFallbacks(c) ==
    /\ Is(c, "gather") /\ PopSkeleton(work[c].intent)
    /\ ~\E s \in skeletons[work[c].intent] : s.fresh
    /\ Becomes(c, [at |-> IF \A b \in LLM : Shut(b) THEN "library" ELSE "primary"])
    /\ UNCHANGED <<breaker, offered, streak, calls>>

ToolNotConnected(c) ==
    /\ Is(c, "gather") /\ Finishes(c)
    /\ UNCHANGED <<breaker, skeletons, offered, streak, calls>>

NextSource(b) == [at |-> IF b = "primary" THEN "fallback" ELSE "library"]

AskForPlan(c, b) ==
    /\ Is(c, b) /\ Calls(c, b, [at |-> "llm", llm |-> b, era |-> Era(b), job |-> "plan"],
                         NextSource(b))
    /\ UNCHANGED <<skeletons, offered, streak>>

\* An answer that is not a valid plan is no failure of the circuit.
_try_llm_level(c) ==
    /\ Is(c, "llm") /\ work[c].job = "plan"
    /\ LET b == work[c].llm IN
       \/ /\ Completes(b, TRUE, work[c].era)
          /\ Finishes(c) \/ Becomes(c, NextSource(b))
       \/ Completes(b, FALSE, work[c].era) /\ Becomes(c, NextSource(b))
    /\ UNCHANGED <<skeletons, offered, calls>>

\* A plan of the library, or the minimal one.
_try_template_level(c) ==
    /\ Is(c, "library") /\ Finishes(c)
    /\ UNCHANGED <<breaker, skeletons, offered, streak, calls>>

-----------------------------------------------------------------------------
\* Time passes: a breaker may be tried again, a skeleton is too old.
TimeoutElapses(b) ==
    /\ breaker[b].recent /\ breaker' = [breaker EXCEPT ![b].recent = FALSE]
    /\ UNCHANGED <<skeletons, work, offered, streak, calls>>

SkeletonAges(i) ==
    /\ \E s \in skeletons[i] : s.fresh
    /\ skeletons' = [skeletons EXCEPT ![i] = {[s EXCEPT !.fresh = FALSE] : s \in @}]
    /\ UNCHANGED <<breaker, work, offered, streak, calls>>

PlanningNext ==
    \/ \E b \in LLM : TimeoutElapses(b)
    \/ \E i \in Intent : SkeletonAges(i)
    \/ \E c \in Planner :
          \/ \E i \in Intent : build_skeleton(c, i) \/ generate_plan(c, i)
          \/ \E b \in LLM : AskForPlan(c, b)
          \/ get_required_entities(c) \/ ResolveTools(c)
          \/ FromSkeleton(c) \/ ToFallbacks(c) \/ ToolNotConnected(c)
          \/ _try_llm_level(c) \/ _try_template_level(c)

PlanningSpec == PlanningInit /\ [][PlanningNext]_planningVars

-----------------------------------------------------------------------------
(* Properties *)

BeginsCall(c, b) == ~Is(c, "llm") /\ work'[c].at = "llm" /\ work'[c].llm = b

\* An LLM, that is the models called through one breaker (the skeleton calls the
\* fallback model through that of the primary one, planner_service.py:315-317),
\* that has failed FailureThreshold times in a row is not called before
\* the timeout after the last of these failures, whichever requests saw them
\* and however late they saw them.
OpenCircuitIsLeftAlone ==
    [][\A c \in Planner, b \in LLM :
          BeginsCall(c, b) => ~(streak[b] >= FailureThreshold /\ breaker[b].recent)]_planningVars

\* A skeleton that was shown shapes at most one plan, and none once a later
\* one of its intent was shown or its time to live is over.
SkeletonShapesOnePlan ==
    [][\A n \in DOMAIN offered : offered'[n].plans # offered[n].plans =>
          /\ offered[n].plans = 0
          /\ \A later \in DOMAIN offered : later > n => offered[later].intent # offered[n].intent
          /\ [number |-> n, fresh |-> TRUE] \in skeletons[offered[n].intent]]_planningVars

=============================================================================
