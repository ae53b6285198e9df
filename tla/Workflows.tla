------------------------------ MODULE Workflows ------------------------------
(***************************************************************************)
(* Plans without an LLM: an intent the registry knows, or one whose name   *)
(* holds names it knows, is shown to the user as a skeleton with a form,   *)
(* and becomes a plan by chaining the workflows of these names.            *)
(*                                                                         *)
(* An entity stands for its canonical key; texts, times and settings of    *)
(* the reasoning are left out.                                             *)
(***************************************************************************)
EXTENDS PlanGraph

CONSTANTS Registered, \* the workflows of the registry, in its order
          Asked       \* intents: the words of the name, and the sub-intents, which
                      \* are what an LLM writes and need not occur in the name

WorkflowStep == [step : Nat, role : STRING, tool : STRING, after : Seq(Nat), context : SUBSET Nat,
                 gate : STRING, mentions : SUBSET STRING, refs : SUBSET Nat]

\* Every workflow of the registry is a chain: its steps are numbered from 1,
\* each comes after the one before it and reads only earlier ones.
IsChain(steps) ==
    /\ steps \in Seq(WorkflowStep) /\ steps # <<>>
    /\ \A i \in DOMAIN steps :
          /\ steps[i].step = i
          /\ ToSet(steps[i].after) \cup steps[i].context \cup steps[i].refs \subseteq 1 .. i - 1
          /\ i > 1 => i - 1 \in ToSet(steps[i].after)

ASSUME RegistryParameters ==
    /\ Len(Registered) \in Nat /\ DOMAIN Registered = 1 .. Len(Registered)
    /\ \A i \in DOMAIN Registered :
          IsChain(Registered[i].steps) /\ "action" \notin Registered[i].must
    /\ \A a \in Asked : a.words \in Seq(STRING) /\ a.sub \in Seq(STRING)

VARIABLES intent, \* what is asked for
          form,   \* the skeleton shown and its form
          given,  \* the entities answered
          made    \* what became of it

workflowVars == <<intent, form, given, made>>

Known == {Registered[i].name : i \in DOMAIN Registered}
Index(name) == CHOOSE i \in DOMAIN Registered : Registered[i].name = name

-----------------------------------------------------------------------------
(* Choosing workflows *)

Within(word) ==
    CASE word = "send_email_gmail" -> {"send_email"}
      [] word = "list_email_gmail" -> {"list_email"}
      [] word = "schedule_meeting_google_calendar" -> {"schedule_meeting"}
      [] word = "list_meetings_google_calendar" -> {"list_meetings"}
      [] word = "create_task_notion" -> {"create_task"}
      [] word = "search_files_google_drive" -> {"search_files"}
      [] OTHER -> {}

\* Where a known name first occurs in the words of an intent.
Places(name, words) == {i \in DOMAIN words : name \in {words[i]} \cup Within(words[i])}

get_workflow(name) == Registered[Index(name)]

\* The name itself, or every known name that occurs in it, in this order; a
\* name counts once, and also inside a longer known name.
decompose_intent(words) ==
    IF Len(words) = 1 /\ words[1] \in Known THEN <<get_workflow(words[1])>>
    ELSE LET found == {n \in Known : Places(n, words) # {}}
             names == InOrder([n \in found |-> <<Min(Places(n, words)), Index(n)>>])
         IN  [i \in DOMAIN names |-> get_workflow(names[i])]

\* Sub-intents come first; one that is not known leaves it to the LLM.
can_handle == IF intent.sub # <<>> /\ ToSet(intent.sub) \subseteq Known THEN TRUE
              ELSE decompose_intent(intent.words) # <<>>
Chosen ==
    IF intent.sub = <<>> THEN decompose_intent(intent.words)
    ELSE IF ToSet(intent.sub) \subseteq Known
    THEN [i \in DOMAIN intent.sub |-> get_workflow(intent.sub[i])]
    ELSE <<>>

-----------------------------------------------------------------------------
(* Chaining workflows *)

\* Mutant: the numbers in the arguments stay as they are.
KeepTemplateRefs(refs, offset) == refs

_renumber_template_refs(refs, offset) == {r + offset : r \in refs}

\* The first step of a workflow waits for the last one of the workflow before.
Shifted(step, offset, first) ==
    LET follows == [k \in DOMAIN step.after |-> step.after[k] + offset]
    IN  [step EXCEPT !.step = @ + offset,
                     !.after = IF first THEN <<offset>> \o follows ELSE follows,
                     !.context = {c + offset : c \in @},
                     !.refs = _renumber_template_refs(@, offset)]

Renumbered(steps, offset) ==
    [i \in DOMAIN steps |-> Shifted(steps[i], offset, i = 1 /\ offset > 0)]

\* The offset of a workflow is how many steps there are before it, which is
\* the number of the last of them.
compose_workflows(workflows) ==
    LET combined_steps[p \in 0 .. Len(workflows)] ==
            IF p = 0 THEN <<>>
            ELSE combined_steps[p - 1] \o
                 Renumbered(workflows[p].steps, Len(combined_steps[p - 1]))
    IN  combined_steps[Len(workflows)]

\* Mutant: the first definition of an entity wins.
FirstWins(workflows) ==
    [e \in UNION {w.must \cup w.may : w \in ToSet(workflows)} |->
        LET first == Min({p \in DOMAIN workflows : e \in workflows[p].must \cup workflows[p].may})
        IN  e \in workflows[first].must]

\* Of several definitions of an entity one that requires it wins.
merge_entity_requirements(workflows) ==
    [e \in UNION {w.must \cup w.may : w \in ToSet(workflows)} |->
        \E w \in ToSet(workflows) : e \in w.must]

-----------------------------------------------------------------------------
(* The skeleton *)

NoForm == [steps |-> <<>>]

WorkflowsInit ==
    /\ intent \in Asked /\ form = NoForm /\ given = {}
    /\ made = [outcome |-> "nothing"]

\* A skeleton of the registry; the route never passes the sub-intents on.
BuildSkeleton ==
    /\ form = NoForm /\ made.outcome = "nothing"
    /\ LET workflows == decompose_intent(intent.words)
       IN  /\ workflows # <<>>
           /\ form' = [steps |-> compose_workflows(workflows),
                       fields |-> merge_entity_requirements(workflows)]
    /\ UNCHANGED <<intent, given, made>>

\* Without a skeleton of the registry, in a chat or in a form of the LLM, the
\* user says some of what the workflows ask for.
AnswerWithoutSkeleton ==
    /\ form = NoForm /\ made.outcome = "nothing"
    /\ given' \in {{}} \cup {w.must \cup w.may : w \in ToSet(Chosen)}
    /\ made' = [outcome |-> "asked"]
    /\ UNCHANGED <<intent, form>>

\* The user answers what is required, and some of the rest.
FillForm ==
    /\ form # NoForm /\ made.outcome = "nothing"
    /\ LET fields == DOMAIN form.fields
           required == {e \in fields : form.fields[e]}
       IN  given' \in {required, fields}
    /\ made' = [outcome |-> "asked"]
    /\ UNCHANGED <<intent, form>>

-----------------------------------------------------------------------------
(* The plan *)

IsApi(step) == step.role \in {"Fetcher", "Booker"}

\* With no tools at hand every tool passes.
_validate_tools(steps, tools) ==
    tools = {} \/ \A i \in DOMAIN steps : IsApi(steps[i]) => steps[i].tool \in tools

\* The answers that reach the tools, by tool: those that any of the
\* workflows with a step of this tool asks for. One has no parameter.
_build_entity_args(workflows, tool) ==
    UNION {((w.must \cup w.may) \cap given) \ {"action"} :
             w \in {v \in ToSet(workflows) : \E i \in DOMAIN v.steps :
                                                IsApi(v.steps[i]) /\ v.steps[i].tool = tool}}

\* A step must name its tool: without one the plan is not even an object.
Planned(workflows, steps, tools) ==
    IF workflows = <<>> \/ ~_validate_tools(steps, tools) THEN [outcome |-> "llm"]
    ELSE IF \E i \in DOMAIN steps : steps[i].tool = "" THEN [outcome |-> "error"]
    ELSE [outcome |-> "built",
          steps |-> steps,
          answers |-> [i \in DOMAIN steps |->
                         IF IsApi(steps[i]) THEN _build_entity_args(workflows, steps[i].tool)
                         ELSE {}]]

build_plan(tools) == Planned(Chosen, compose_workflows(Chosen), tools)

\* A tool the user has chosen is left to the LLM too.
TryDeterministic(tools, overridden) ==
    /\ made.outcome = "asked"
    /\ made' = IF can_handle /\ ~overridden THEN build_plan(tools) ELSE [outcome |-> "llm"]
    /\ UNCHANGED <<intent, form, given>>

\* Every tool is looked up in the catalog of all users.
_finalize_plan(catalog) ==
    /\ made.outcome = "built"
    /\ made' = IF \A i \in DOMAIN made.steps : IsApi(made.steps[i]) => made.steps[i].tool \in catalog
               THEN [made EXCEPT !.outcome = "plan"] ELSE [outcome |-> "unavailable"]
    /\ UNCHANGED <<intent, form, given>>

\* The tools that are listed: all the workflows name, all but one, none, or others.
ToolsOf(steps) == {s.tool : s \in {t \in ToSet(steps) : IsApi(t)}} \ {""}
Around(tools) == {tools, {}, {"another"}} \cup {tools \ {t} : t \in tools}
Listings == Around(ToolsOf(compose_workflows(Chosen)))

WorkflowsNext ==
    \/ BuildSkeleton \/ FillForm \/ AnswerWithoutSkeleton
    \/ \E tools \in Listings, overridden \in BOOLEAN : TryDeterministic(tools, overridden)
    \/ \E tools \in Listings : _finalize_plan(tools)

WorkflowsSpec == WorkflowsInit /\ [][WorkflowsNext]_workflowVars

-----------------------------------------------------------------------------
(* Properties *)

\* The steps of the workflows one after the other, each with its workflow.
Origins(workflows) ==
    LET listed[p \in 0 .. Len(workflows)] ==
            IF p = 0 THEN <<>>
            ELSE listed[p - 1] \o [i \in DOMAIN workflows[p].steps |->
                                     [part |-> p, step |-> workflows[p].steps[i]]]
    IN  listed[Len(workflows)]

Level(levels, n) == CHOOSE l \in DOMAIN levels : n \in ToSet(levels[l])

Whole(origin, steps, levels) ==
    \A k \in DOMAIN origin :
        LET sources == origin[k].step.context \cup origin[k].step.refs
            reads == {j \in DOMAIN origin : origin[j].part = origin[k].part
                                            /\ origin[j].step.step \in sources}
        IN  /\ steps[k].context \cup steps[k].refs = {steps[j].step : j \in reads}
            /\ \A j \in reads \cup {i \in DOMAIN origin : origin[i].part < origin[k].part} :
                  Level(levels, steps[j].step) < Level(levels, steps[k].step)

\* In a plan made of several workflows each step still reads the results of
\* the steps of its own workflow that it was written to read, in its context
\* and in its arguments; the executor's levels put these steps before it,
\* and every step of a workflow before every step of the next one.
PartsStayWhole ==
    made.outcome = "plan" =>
        /\ Resolvable(made.steps)
        /\ Whole(Origins(Chosen), made.steps, LevelsOf(made.steps))

\* Every step of the plan that calls a tool is given what the user has said of
\* what its own workflow requires; where a form of the registry was filled
\* and the workflow is one that the form was made for, that is all it requires,
\* also when sub-intents choose other workflows beside it.
AnswersReachTheirSteps ==
    made.outcome = "plan" =>
        \A workflow \in ToSet(Chosen) : \A own \in ToSet(workflow.steps) :
            IsApi(own) =>
                \E k \in DOMAIN made.steps :
                    /\ made.steps[k].tool = own.tool
                    /\ workflow.must \cap given \subseteq made.answers[k]
                    /\ form # NoForm /\ workflow \in ToSet(decompose_intent(intent.words))
                       => workflow.must \subseteq made.answers[k]
=============================================================================
