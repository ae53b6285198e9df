------------------------------ MODULE PlanRules ------------------------------
(***************************************************************************)
(* The validator of a plan that an LLM has written: is it JSON, is it a    *)
(* plan, and does it keep the rules of the business. Sizes and the limit   *)
(* on spawned steps are left out. The order of context_from is left out:   *)
(* no rule looks at it, though a sanitizer scans only the first step of    *)
(* its own that has a result (execute_service.py:1065-1069).               *)
(***************************************************************************)
EXTENDS PlanGraph, TLC

CONSTANTS Drafts,      \* the graphs the LLM writes
          MaxSteps, MaxParallel

\* What the JSON of a plan is once it is read: lists of steps with numbers.
ASSUME DraftParameters ==
    \A g \in Drafts :
        /\ IsGraph(g)
        /\ \A i \in DOMAIN g : g[i].step \in Nat /\ g[i].context_from \subseteq Int

VARIABLES draft, layer   \* layer: the checks it has passed, or "rejected"

ruleVars == <<draft, layer>>

RulesInit == draft \in Drafts /\ layer = "raw"

Passes(from, to, holds) ==
    /\ layer = from /\ layer' = IF holds THEN to ELSE "rejected"
    /\ UNCHANGED draft

\* The text may be no JSON, or JSON of something else.
_validate_json == \E object \in BOOLEAN : Passes("raw", "json", object)

-----------------------------------------------------------------------------
(* Structure *)

Numbers == {draft[i].step : i \in DOMAIN draft}
Steps == ToSet(draft)
Numbered(n) == CHOOSE s \in Steps : s.step = n

EarlierSteps == \A s \in Steps : \A d \in ToSet(s.after) : d < s.step /\ d \in Numbers

\* A plan has a step, and steps are numbered from 1.
_validate_schema ==
    Passes("json", "schema", /\ draft # <<>> /\ 0 \notin Numbers
                             /\ Cardinality(Numbers) = Len(draft) /\ EarlierSteps)

-----------------------------------------------------------------------------
(* Business rules *)

\* Steps count as parallel when they list the same numbers equally often.
Sorted(after) == SortSeq(after, <)

Limits ==
    /\ Len(draft) <= MaxSteps
    /\ \A s \in Steps :
          Cardinality({t \in Steps : Sorted(t.after) = Sorted(s.after)}) <= MaxParallel

Complete ==
    \A s \in Steps :
        /\ s.dry_run
        /\ s.role = "Booker" => s.gate_id
        /\ s.role = "Reasoner" /\ s.type = "llm_reasoning" => s.policy_ref
        /\ s.type = "llm_reasoning" => s.reasoning_config
        /\ s.type = "policy_check" => s.policy_ref

ContextIsEarlier == \A s \in Steps : \A c \in s.context_from : c < s.step /\ c \in Numbers

SpawnRules ==
    \A s \in Steps :
        /\ s.spawned_by => ~s.can_spawn
        /\ s.can_spawn /\ s.type = "api" => s.plugin
        /\ s.spawned_by /\ s.role = "Booker" => s.gate_id

UntrustedInputRules ==
    \A s \in Steps :
        s.type = "llm_reasoning" /\ s.trust_level = "untrusted_input" => s.schema /\ ~s.can_spawn

SanitizerRules ==
    \A s \in Steps : s.type = "sanitizer" => ~s.can_spawn /\ s.trust_level = "none"

\* The steps met by walking context_from, without going on from those in Stop.
Met(start, Stop) ==
    LET Walk[n \in Nat] ==
            IF n = 0 THEN start
            ELSE Walk[n - 1] \cup
                 UNION {Numbered(k).context_from : k \in (Walk[n - 1] \cap Numbers) \ Stop}
    IN  Walk[Len(draft)]

Sanitizers == {s.step : s \in {t \in Steps : t.type = "sanitizer"}}

\* A sanitizer the reasoner reads, and that reads step a, if over others.
_has_intervening_sanitizer(a, s) ==
    \E k \in s.context_from \cap Sanitizers : a \in Met(Numbered(k).context_from, {})

\* Mutant: only the steps a reasoner reads itself are looked at.
ReadDirectly == \A s \in Steps : s.type = "llm_reasoning" =>
    \A a \in s.context_from :
        Numbered(a).type = "api" => _has_intervening_sanitizer(a, s)

RuleF == \A s \in Steps : s.type = "llm_reasoning" =>
    \A a \in Met(s.context_from, Sanitizers) :
        Numbered(a).type = "api" => _has_intervening_sanitizer(a, s)

_validate_business_rules ==
    Passes("schema", "valid", Limits /\ Complete /\ ContextIsEarlier /\ SpawnRules
                              /\ UntrustedInputRules /\ SanitizerRules /\ RuleF)

RulesNext == _validate_json \/ _validate_schema \/ _validate_business_rules

RulesSpec == RulesInit /\ [][RulesNext]_ruleVars

-----------------------------------------------------------------------------
(* What a step is given *)

\* What ExecuteService gives an LLM step to read: the steps it declares or,
\* where it declares none, every step that already has a result.
LevelOf(n) == CHOOSE l \in DOMAIN LevelsOf(draft) : n \in ToSet(LevelsOf(draft)[l])
GivenTo(s) == IF s.context_from # {} THEN s.context_from
            ELSE {n \in Numbers : LevelOf(n) < LevelOf(s.step)}

-----------------------------------------------------------------------------
(* Properties *)

\* A path on which each step reads the next one.
IsReading(path) ==
    \A i \in 1 .. Len(path) - 1 : path[i + 1] \in Numbered(path[i]).context_from

\* A plan that passes can be ordered; and along what the steps declare to read,
\* over any number of steps in between, an LLM step comes to a tool's result
\* only through a sanitizer, or a sanitizer that it declares to read comes to
\* this result as well. A step that declares nothing reads everything, which
\* no rule looks at: InputsAreScanned.
AcceptedPlansAreSound ==
    layer = "valid" =>
        /\ Resolvable(draft)
        /\ \A n \in 2 .. Len(draft) : \A path \in [1 .. n -> Numbers] :
            /\ IsReading(path)
            /\ Numbered(path[1]).type = "llm_reasoning" /\ Numbered(path[n]).type = "api"
            => \/ \E i \in 2 .. n - 1 : path[i] \in Sanitizers
               \/ \E m \in 3 .. Len(draft) : \E scan \in [1 .. m -> Numbers] :
                     IsReading(scan) /\ scan[1] = path[1] /\ scan[2] \in Sanitizers
                                     /\ scan[m] = path[n]

\* What components/TrustFilter/LLD.md:13 says of all data that reaches an LLM,
\* at its weakest: of every tool whose result an LLM step of an accepted plan is
\* given, a sanitizer that the step reads as well has met the result
\* (plan_validator.py:389-422 against execute_service.py:801-804).
InputsAreScanned ==
    layer = "valid" =>
        \A s \in Steps : s.type = "llm_reasoning" =>
            \A a \in GivenTo(s) :
                Numbered(a).type = "api" =>
                    \E k \in GivenTo(s) \cap Sanitizers : a \in Met(Numbered(k).context_from, {})
=============================================================================
