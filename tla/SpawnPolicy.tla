----------------------------- MODULE SpawnPolicy -----------------------------
(***************************************************************************)
(* The decision whether a step of a running plan may add another: the rule *)
(* the plan names, else the rule learned from an approval of the user,     *)
(* else the user. The cache of rules is only written: a lookup without a   *)
(* version reads the table.                                                *)
(***************************************************************************)
EXTENDS Integers, FiniteSets

CONSTANTS Rules,      \* rules that may be stored under a name
          Named,      \* the policy ids plans name
          Requests,   \* the steps that may be proposed
          MaxTotal,   \* _MAX_TOTAL_PLAN_STEPS
          MaxSeen     \* bound: rules the plan's id has during one evaluation

\* What a rule is learned for; its id is "learned:role:tool" in the code.
Learnable == {<<a.role, a.uses>> : a \in Requests}

\* An administrator gives no rule a name that begins with "learned:".
ASSUME SpawnParameters == Named \cap Learnable = {}

VARIABLES policies,   \* the table: policy id -> rule
          ask,        \* the request that is evaluated
          stage, rule, decision,
          approved,   \* history: pairs of role and tool a user has approved
          during      \* history: what the plan's id stood for since the evaluation began

policyVars == <<policies, ask, stage, rule, decision, approved, during>>
evaluation == <<ask, stage, rule, decision>>

NoRule == [tools |-> {}]

PolicyInit ==
    /\ policies = <<>> /\ stage = "idle" /\ rule = NoRule
    /\ ask \in Requests /\ decision = "none"
    /\ approved = {} /\ during = {}

\* A row without tools reads as one for all tools.
Row(r) == [r EXCEPT !.tools = IF @ = {} THEN {"*"} ELSE @]

get_policy(table, id) == IF id \in DOMAIN table THEN Row(table[id]) ELSE NoRule

-----------------------------------------------------------------------------
(* evaluate_spawn: one proposed step *)

RuleAdmits(r, a) ==
    /\ 1 <= r.max
    /\ a.count + 1 <= MaxTotal
    /\ ~a.can_spawn
    /\ r.roles = {} \/ a.role \in r.roles
    /\ "*" \in r.tools \/ a.uses \in r.tools
    /\ a.plugins = {} \/ a.uses \in a.plugins
    /\ a.call \notin r.forbidden

evaluate_spawn ==
    /\ stage \in {"idle", "done"}
    /\ ask' \in Requests
    /\ stage' = "reference" /\ rule' = NoRule /\ decision' = "none"
    /\ during' = {get_policy(policies, ask'.ref)}
    /\ UNCHANGED <<policies, approved>>

Looks(found, next) ==
    /\ rule' = found /\ stage' = IF found = NoRule THEN next ELSE "found"
    /\ UNCHANGED <<policies, ask, decision, approved, during>>

\* Mutant: a rule that forbids the step gives way to what was learned.
AdmittingReference ==
    /\ stage = "reference"
    /\ LET named == get_policy(policies, ask.ref)
       IN  Looks(IF named # NoRule /\ RuleAdmits(named, ask) THEN named ELSE NoRule, "learned")

ByReference ==
    /\ stage = "reference"
    /\ Looks(get_policy(policies, ask.ref), "learned")

_resolve_learned_policy ==
    /\ stage = "learned"
    /\ Looks(get_policy(policies, <<ask.role, ask.uses>>), "user")

Decided ==
    /\ stage \in {"found", "user"}
    /\ decision' =
         IF stage = "user" THEN "approval"
         ELSE IF ~RuleAdmits(rule, ask) THEN "denied"
         ELSE IF rule.approval \/ ask.role = "Booker" THEN "approval" ELSE "allowed"
    /\ stage' = "done"
    /\ UNCHANGED <<policies, ask, rule, approved, during>>

-----------------------------------------------------------------------------
(* The table of rules *)

\* store_policy replaces the row of the id.
create_policy(id, r) ==
    /\ policies' = [i \in DOMAIN policies \cup {id} |-> IF i = id THEN r ELSE policies[i]]
    /\ during' = IF stage \in {"idle", "done"} THEN during
                 ELSE during \cup {get_policy(policies', ask.ref)}
    /\ Cardinality(during') <= MaxSeen
    /\ UNCHANGED evaluation

AdministratorStores ==
    /\ \E id \in Named, r \in Rules : create_policy(id, r)
    /\ UNCHANGED approved

\* An approval of a step for which no rule was found; the store may fail.
learn_from_approval ==
    \E a \in Requests :
        /\ approved' = approved \cup {<<a.role, a.uses>>}
        /\ \/ create_policy(<<a.role, a.uses>>,
                 [tools |-> {a.uses}, roles |-> {a.role}, approval |-> FALSE,
                  max |-> 3, forbidden |-> {}])
           \/ UNCHANGED <<policies, during, evaluation>>

PolicyNext ==
    \/ evaluate_spawn \/ ByReference \/ _resolve_learned_policy \/ Decided
    \/ AdministratorStores \/ learn_from_approval

PolicySpec == PolicyInit /\ [][PolicyNext]_policyVars

-----------------------------------------------------------------------------
(* Properties *)

\* No step is added unseen but under the plan's rule or by an approval of its
\* role and tool, and the rule goes first (policy_service.py:79-85): where it
\* was stored during the whole evaluation it alone decided, whatever was
\* learned; a step the user must always see is never added unseen.
RuleGoesFirst ==
    stage = "done" =>
        LET Admitting == {r \in during \ {NoRule} : RuleAdmits(r, ask)}
        IN  /\ decision = "allowed" =>
                 /\ ask.role # "Booker" /\ ~ask.can_spawn
                 /\ \/ \E r \in Admitting : ~r.approval
                    \/ NoRule \in during /\ <<ask.role, ask.uses>> \in approved
            /\ NoRule \notin during /\ Admitting = {} => decision = "denied"
=============================================================================
