-------------------------- MODULE MCPlanExecution --------------------------
\* Plans small enough to execute in every way, each with what one of the
\* runs is about.
EXTENDS PlanExecution, TLC

CONSTANTS gA, gB

Step(n, after, role, gate) ==
    [step |-> n, after |-> after, role |-> role, gate |-> gate,
     previewOnly |-> FALSE, canSpawn |-> FALSE, trusted |-> FALSE, limit |-> 3]
Reasoner(n, after, gate, limit) ==
    [Step(n, after, "Reasoner", gate) EXCEPT !.canSpawn = TRUE, !.trusted = TRUE,
                                             !.limit = limit]
PreviewOnly(n, after) ==
    [Step(n, after, "Analyzer", NoGate) EXCEPT !.previewOnly = TRUE]

\* Two gates in one level beside an ungated step, and a gate further down.
TwoGates == <<Step(1, <<>>, "Fetcher", NoGate),
              Step(2, <<1>>, "Booker", gA), Step(3, <<1>>, "Booker", gB),
              Step(4, <<1>>, "Fetcher", NoGate),
              PreviewOnly(5, <<1>>),
              Step(6, <<2, 5>>, "Notifier", gB)>>
\* A gated Reasoner that is also the one to recover with.
GatedReasoner == <<Step(1, <<>>, "Fetcher", NoGate),
                   Reasoner(2, <<1>>, gA, 1),
                   Step(3, <<1, 2>>, "Booker", gB)>>
\* A Resolver behind a gate no Booker needs.
GatedResolver == <<Step(1, <<>>, "Fetcher", NoGate), Step(2, <<1>>, "Resolver", gA)>>
Circular == <<Step(1, <<2>>, "Fetcher", NoGate), Step(2, <<1>>, "Booker", gA)>>
Empty == <<>>

\* Two Reasoners side by side.
TwoReasoners == <<Reasoner(1, <<>>, NoGate, 1), Reasoner(2, <<>>, NoGate, 2),
                  Step(3, <<1, 2>>, "Fetcher", NoGate)>>
\* Three steps fail in one level, more than may be recovered.
ManyFailures == <<Step(1, <<>>, "Fetcher", NoGate), Step(2, <<>>, "Fetcher", NoGate),
                  Step(3, <<>>, "Fetcher", NoGate),
                  Reasoner(4, <<1>>, NoGate, 1)>>
MCPlans == {TwoGates, GatedReasoner, GatedResolver, TwoReasoners, ManyFailures,
            Circular, Empty}
MCGates == {gA, gB}
MCAsks == UNION {[1 .. n -> {"Booker", "Fetcher"}] : n \in 1 .. 2}
=============================================================================
