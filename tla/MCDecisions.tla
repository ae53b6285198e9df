------------------------------ MODULE MCDecisions ------------------------------
\* The algorithms that decide about a plan before and while it runs, each for
\* itself: part names the one that a behaviour shows.
EXTENDS DagResolver, Workflows, WorkflowRegistry, PlanRules, PreviewRun, Scan, SpawnPolicy, TLC

VARIABLE part

\* dag: every graph of up to two steps with numbers 1 to 3, each after up to
\* two mentions of 1, 2, 3 or a step that does not exist; of three with one
\* mention, or numbered in order; and of four listed in order whose steps
\* mention up to two of the others.
Afters == UNION {[1 .. n -> {1, 2, 3, 9}] : n \in 0 .. 2}
SmallGraphs(n) == [1 .. n -> [step : 1 .. 3, after : Afters]]
FourSteps == {[i \in 1 .. 4 |-> [step |-> i, after |-> SetToSeq(deps[i])]]
                : deps \in {f \in [1 .. 4 -> {D \in SUBSET (1 .. 4) : Cardinality(D) <= 2}] :
                             \A i \in 1 .. 4 : i \notin f[i]}}
MCGraphs == SmallGraphs(0) \cup SmallGraphs(1) \cup SmallGraphs(2)
            \cup [1 .. 3 -> [step : 1 .. 3, after : {m \in Afters : Len(m) <= 1}]]
            \cup {[i \in 1 .. 3 |-> [step |-> i, after |-> m[i]]] : m \in [1 .. 3 -> Afters]}
            \cup FourSteps

\* workflows: every intent of one or two words; and one or two sub-intents
\* that are the words, that go beyond them, or that do not occur in them.
Chains(names) == UNION {[1 .. n -> names] : n \in 1 .. 2}
MCAsked == {[words |-> w, sub |-> <<>>] : w \in Chains(Known \cup {"other"})}
           \cup {[words |-> w, sub |-> w] : w \in Chains(Known)}
           \cup {[words |-> <<w[1], "other">>, sub |-> w] : w \in Chains(Known \cup {"other"})}
           \cup {[words |-> <<"other">>, sub |-> <<w>>] : w \in Known \cup {"other"}}

\* rules: three steps numbered and ordered in any way, also twice after the
\* same step; four steps of any types, one after the other, that read earlier
\* ones; one step with any flags; no step, a step 0, and one step too many.
ADraft(n, type, after, context) ==
    [step |-> n, role |-> IF type = "llm_reasoning" THEN "Reasoner" ELSE "Fetcher",
     type |-> type, after |-> after, context_from |-> context,
     dry_run |-> TRUE, gate_id |-> FALSE, policy_ref |-> TRUE, reasoning_config |-> TRUE,
     spawned_by |-> FALSE, can_spawn |-> FALSE, plugin |-> TRUE,
     trust_level |-> "none", schema |-> FALSE]
Types == {"api", "llm_reasoning", "sanitizer"}
Ordered == {[i \in 1 .. 3 |-> ADraft(n[i], "api", a[i], {})] :
              n \in [1 .. 3 -> 1 .. 3], a \in [1 .. 3 -> {<<>>, <<1>>, <<2>>, <<1, 1>>, <<9>>}]}
InARow(n) == IF n = 1 THEN <<>> ELSE <<n - 1>>
Reading == {[i \in 1 .. 4 |-> ADraft(i, t[i], InARow(i), c[i])] :
              t \in [1 .. 4 -> Types],
              c \in {f \in [1 .. 4 -> SUBSET (1 .. 3)] : \A i \in 1 .. 4 : f[i] \subseteq 1 .. i - 1}}
Flags == {<<[ADraft(1, t, <<>>, {}) EXCEPT !.role = r, !.gate_id = b[1], !.policy_ref = b[2],
               !.reasoning_config = b[3], !.spawned_by = b[4], !.can_spawn = b[5],
               !.schema = b[6], !.trust_level = l]>> :
            t \in Types \cup {"policy_check"}, r \in {"Booker", "Reasoner"}, b \in [1 .. 6 -> BOOLEAN],
            l \in {"none", "trusted", "untrusted_input"}}
MCDrafts == Ordered \cup Reading \cup Flags
            \cup {<<>>, <<ADraft(0, "api", <<>>, {})>>, [i \in 1 .. 5 |-> ADraft(i, "api", InARow(i), {})]}

\* preview: every graph of three ordered steps of five kinds, of four steps
\* of two kinds, and of two in a circle; one of the kinds writes under a name
\* that has no verb of the list.
AKind(type, uses, gated, writes) ==
    [type |-> type, uses |-> uses, call |-> uses, gate_id |-> gated,
     known |-> type = "api", writes |-> writes]
Kinds == [reads |-> AKind("api", {"GMAIL", "FETCH", "EMAILS"}, FALSE, FALSE),
          gated |-> AKind("api", {"GOOGLEDRIVE", "UPLOAD", "FILE"}, TRUE, TRUE),
          writes |-> AKind("api", {"GMAIL", "SEND", "EMAIL"}, FALSE, TRUE),
          posts |-> AKind("api", {"SLACK", "SENDS", "A", "MESSAGE"}, FALSE, TRUE),
          reasons |-> AKind("llm_reasoning", {"REASONER"}, FALSE, FALSE)]
OfKinds(n, kinds) ==
    {[i \in 1 .. n |-> [step |-> i, after |-> SetToSeq(a[i])] @@ Kinds[k[i]]] :
        k \in [1 .. n -> kinds],
        a \in {f \in [1 .. n -> SUBSET (1 .. 3)] : \A i \in 1 .. n : f[i] \subseteq 1 .. i - 1}}
Circle == [i \in 1 .. 2 |-> [step |-> i, after |-> <<3 - i>>] @@ Kinds.reads]
MCPreviews == OfKinds(3, DOMAIN Kinds) \cup OfKinds(4, {"reads", "gated"}) \cup {Circle}

\* scan: two sanitizers; one meets any matches of four rules in two fields.
MCSeverity == [l |-> "low", m |-> "med", n |-> "med", h |-> "high"]
AScan(P, B, F) == {[payload |-> p, fits |-> f, bearing |-> b, strict |-> s,
                    stage |-> "start", judged |-> "none"] : p \in P, f \in F, b \in B, s \in BOOLEAN}
MCScans == <<AScan({[a |-> x, b |-> y] : x \in SUBSET DOMAIN MCSeverity, y \in {{}, {"m"}}},
                   SUBSET {"a", "b"}, {TRUE}),
             AScan({[a |-> x, b |-> {}] : x \in {{}, {"m"}}}, {{}}, BOOLEAN)>>

\* policy: rules and requests that differ in one thing each.
Free == [tools |-> {}, roles |-> {}, approval |-> FALSE, max |-> 3, forbidden |-> {}]
MCRules == {Free, [Free EXCEPT !.approval = TRUE], [Free EXCEPT !.max = 0],
            [Free EXCEPT !.tools = {"mail"}, !.roles = {"Fetcher"}],
            [Free EXCEPT !.forbidden = {"send"}]}
MCNamed == {<<"named">>}
Plain == [ref |-> <<"named">>, role |-> "Fetcher", uses |-> "mail", call |-> "send",
          can_spawn |-> FALSE, plugins |-> {}, count |-> 3]
MCRequests == {Plain, [Plain EXCEPT !.uses = "chat", !.plugins = {"mail"}],
               [Plain EXCEPT !.uses = "chat", !.call = "list"], [Plain EXCEPT !.role = "Booker"],
               [Plain EXCEPT !.can_spawn = TRUE], [Plain EXCEPT !.count = 4],
               [Plain EXCEPT !.ref = <<>>], [Plain EXCEPT !.ref = <<>>, !.role = "Booker"]}

\* A part that is not shown stays as it begins.
DagRests == graph = <<>> /\ ResolverInit
WorkflowsRest == intent = [words |-> <<"other">>, sub |-> <<>>] /\ WorkflowsInit
RulesRest == draft = <<>> /\ RulesInit
PreviewRests == previewed = Circle /\ PreviewInit
ScanRests == scan = [s \in DOMAIN MCScans |-> CHOOSE c \in MCScans[s] : TRUE] /\ ScanInit
PolicyRests == ask = Plain /\ PolicyInit

DecisionsInit ==
    \/ part = "dag" /\ WorkflowsRest /\ RulesRest /\ PreviewRests /\ ScanRests /\ PolicyRests /\ ResolverInit
    \/ part = "workflows" /\ DagRests /\ RulesRest /\ PreviewRests /\ ScanRests /\ PolicyRests /\ WorkflowsInit
    \/ part = "rules" /\ DagRests /\ WorkflowsRest /\ PreviewRests /\ ScanRests /\ PolicyRests /\ RulesInit
    \/ part = "preview" /\ DagRests /\ WorkflowsRest /\ RulesRest /\ ScanRests /\ PolicyRests /\ PreviewInit
    \/ part = "scan" /\ DagRests /\ WorkflowsRest /\ RulesRest /\ PreviewRests /\ PolicyRests /\ ScanInit
    \/ part = "policy" /\ DagRests /\ WorkflowsRest /\ RulesRest /\ PreviewRests /\ ScanRests /\ PolicyInit

DecisionsRest ==
    /\ part \notin {"dag", "workflows", "rules", "preview", "scan", "policy"}
    /\ DagRests /\ WorkflowsRest /\ RulesRest /\ PreviewRests /\ ScanRests /\ PolicyRests

DecisionsNext ==
    /\ \/ part = "dag" /\ ResolverNext
             /\ UNCHANGED <<workflowVars, ruleVars, previewVars, scanVars, policyVars>>
       \/ part = "workflows" /\ WorkflowsNext
             /\ UNCHANGED <<resolverVars, ruleVars, previewVars, scanVars, policyVars>>
       \/ part = "rules" /\ RulesNext
             /\ UNCHANGED <<resolverVars, workflowVars, previewVars, scanVars, policyVars>>
       \/ part = "preview" /\ PreviewNext
             /\ UNCHANGED <<resolverVars, workflowVars, ruleVars, scanVars, policyVars>>
       \/ part = "scan" /\ ScanNext
             /\ UNCHANGED <<resolverVars, workflowVars, ruleVars, previewVars, policyVars>>
       \/ part = "policy" /\ PolicyNext
             /\ UNCHANGED <<resolverVars, workflowVars, ruleVars, previewVars, scanVars>>
    /\ UNCHANGED part

decisionVars == <<resolverVars, workflowVars, ruleVars, previewVars, scanVars, policyVars, part>>
DecisionsSpec == DecisionsInit /\ [][DecisionsNext]_decisionVars
=============================================================================
