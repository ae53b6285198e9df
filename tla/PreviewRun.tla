------------------------------ MODULE PreviewRun ------------------------------
(***************************************************************************)
(* The preview of a plan: level by level the steps that seem to read only  *)
(* are called, and the rest is deferred until the plan is approved.        *)
(***************************************************************************)
EXTENDS PlanGraph

CONSTANT Previews   \* the graphs that are previewed

\* shared/schemas/plan.py, as far as a preview depends on it. uses and call are
\* the tokens of two names, in capitals; known says whether the catalog has the
\* tool, and writes, which no code knows, whether a call of it changes anything.
PreviewStep == [step : Nat \ {0}, after : Seq(Int),
                type : {"api", "llm_reasoning", "policy_check", "sanitizer"},
                uses : SUBSET STRING, call : SUBSET STRING,
                gate_id : BOOLEAN, known : BOOLEAN, writes : BOOLEAN]

ASSUME PreviewParameters == Previews \subseteq Seq(PreviewStep)

VARIABLES previewed, \* the graph
          left,      \* the levels that are still to be processed
          results,   \* step_results: what became of a step
          running,   \* the steps that are called now, and what has come of them
          called,    \* history: steps that were called, and when each could read what
          permit     \* can_execute

previewVars == <<previewed, left, results, running, called, permit>>

\* A graph that cannot be resolved is not previewed.
PreviewInit ==
    /\ previewed \in Previews
    /\ left = LevelsOf(previewed) /\ results = <<>> /\ running = <<>> /\ called = <<>>
    /\ permit = IF Resolvable(previewed) THEN "none" ELSE "error"

\* f, and what else g has.
Over(f, g) == [x \in DOMAIN f \cup DOMAIN g |-> IF x \in DOMAIN f THEN f[x] ELSE g[x]]

The(n) == CHOOSE s \in ToSet(previewed) : s.step = n
Having(status) == {n \in DOMAIN results : results[n] = status}
Failed == Having("failed") \cup Having("skipped")

is_previewable(s) == s.known

_WRITE_VERBS ==
    {"CREATE", "UPDATE", "DELETE", "REMOVE", "SEND", "POST", "PATCH", "PUT", "INSERT",
     "ADD", "SET", "MODIFY", "MOVE", "CANCEL", "REVOKE", "APPROVE", "REJECT", "ARCHIVE"}

\* A tool is taken to write when one of its tokens is exactly such a verb.
is_write_action(s) == (s.uses \cup s.call) \cap _WRITE_VERBS # {}

\* Mutant: what follows a deferred step is looked at for itself.
ClassifyAlone(s) ==
    IF ToSet(s.after) \cap Failed # {} THEN "skipped"
    ELSE IF s.type \in {"llm_reasoning", "policy_check"} \/ s.gate_id
            \/ ~is_previewable(s) \/ is_write_action(s) THEN "deferred"
    ELSE "dispatch"

_classify_step(s) ==
    IF ToSet(s.after) \cap Having("deferred") # {} THEN "deferred"
    ELSE IF ToSet(s.after) \cap Failed # {} THEN "skipped"
    ELSE IF s.type \in {"llm_reasoning", "policy_check"} \/ s.gate_id
            \/ ~is_previewable(s) \/ is_write_action(s) THEN "deferred"
    ELSE "dispatch"

\* A level is classified as a whole, then its calls are made together; they
\* read what the levels before it have brought.
_process_level ==
    /\ permit = "none" /\ running = <<>> /\ left # <<>>
    /\ left' = Tail(left)
    /\ LET steps == ToSet(Head(left))
           class == [n \in steps |-> _classify_step(The(n))]
           ready == {n \in steps : class[n] = "dispatch"}
       IN  /\ results' = Over([n \in steps \ ready |-> class[n]], results)
           /\ running' = [n \in ready |-> "sent"]
           /\ called' = Over([n \in ready |-> Having("completed")], called)
    /\ UNCHANGED <<previewed, permit>>

\* A call comes back or fails; gather waits for all of them.
_dispatch_step(n) ==
    /\ running[n] = "sent"
    /\ \E answer \in {"completed", "failed"} : running' = [running EXCEPT ![n] = answer]
    /\ UNCHANGED <<previewed, left, results, called, permit>>

Gathered ==
    /\ running # <<>> /\ \A n \in DOMAIN running : running[n] # "sent"
    /\ results' = Over(running, results) /\ running' = <<>>
    /\ UNCHANGED <<previewed, left, called, permit>>

can_execute == Having("completed") # {} \/ Having("deferred") = DOMAIN results

PreviewFinished ==
    /\ permit = "none" /\ running = <<>> /\ left = <<>>
    /\ permit' = IF can_execute THEN "yes" ELSE "no"
    /\ UNCHANGED <<previewed, left, results, running, called>>

PreviewNext ==
    \/ _process_level \/ PreviewFinished \/ Gathered
    \/ \E n \in DOMAIN running : _dispatch_step(n)

PreviewSpec == PreviewInit /\ [][PreviewNext]_previewVars

-----------------------------------------------------------------------------
(* Properties *)

\* The steps that n comes after, over any number of steps: those in every set
\* that has the ones n mentions and all that its members mention.
Mentioned(n) == ToSet(The(n).after) \cap Ids(previewed)
Ancestors(n) ==
    {m \in Ids(previewed) \ {n} :
        \A A \in SUBSET Ids(previewed) :
            Mentioned(n) \subseteq A /\ (\A a \in A : Mentioned(a) \subseteq A) => m \in A}

\* What is called in a preview, and all that it follows, directly or not: steps
\* of known tools without a gate, without a verb for writing in their names,
\* and without a decision of an LLM; and all that a called step follows was
\* called before it, came back, and could be read by it.
PreviewStopsAtGates ==
    \A n \in DOMAIN called :
        /\ \A m \in {n} \cup Ancestors(n) :
              /\ The(m).type \in {"api", "sanitizer"} /\ ~The(m).gate_id /\ The(m).known
              /\ The(m).uses \cap _WRITE_VERBS = {} /\ The(m).call \cap _WRITE_VERBS = {}
        /\ Ancestors(n) \subseteq called[n]

\* What preview_service.py:286 says: "defer (don't execute
\* mutations in preview)". The names decide it: SENDS is not SEND, and UPLOAD
\* and APPEND are no verbs of the list (previewability_checker.py:22-57).
PreviewOnlyReads == \A n \in DOMAIN called : ~The(n).writes
=============================================================================
