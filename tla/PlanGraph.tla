----------------------------- MODULE PlanGraph -----------------------------
(***************************************************************************)
(* The graph of a plan as adapters/dag_resolver.py sees it: a sequence of  *)
(* steps, each with a step number and the sequence of step numbers it      *)
(* comes after.  Nothing in shared/schemas/plan.py keeps step numbers      *)
(* distinct, an "after" free of repetitions or its numbers inside the      *)
(* graph, so none of that is assumed here.                                 *)
(***************************************************************************)
EXTENDS Integers, Sequences, SequencesExt, FiniteSetsExt

\* What a graph is: a list of steps that come after lists of numbers.
IsGraph(g) ==
    /\ Len(g) \in Nat /\ DOMAIN g = 1 .. Len(g)
    /\ \A i \in DOMAIN g : g[i].after \in Seq(Int)

Ids(g) == {g[i].step : i \in DOMAIN g}

\* A mention is a place <<i, k>> in the graph: the k-th number the i-th step
\* comes after. Each mention of a step of the graph counts, also a repeated
\* one; a mention of any other number counts for nothing.
Target(g, m) == g[m[1]].after[m[2]]
Mentions(g, s) ==
    UNION {{i} \X {k \in DOMAIN g[i].after : g[i].after[k] \in Ids(g)} :
             i \in {j \in DOMAIN g : g[j].step = s}}

InDegree(g) == [s \in Ids(g) |-> Cardinality(Mentions(g, s))]

Precedes(p, q) == p[1] < q[1] \/ (p[1] = q[1] /\ p[2] < q[2])

\* The elements that have a place, ordered by their places.
InOrder(place) ==
    [n \in 1 .. Cardinality(DOMAIN place) |->
        CHOOSE s \in DOMAIN place :
            Cardinality({t \in DOMAIN place : Precedes(place[t], place[s])}) = n - 1]

\* The step numbers without dependencies, in the order in which they first
\* occur in the graph (the order of the dictionary in_degree).
Roots(g) ==
    InOrder([s \in {n \in Ids(g) : InDegree(g)[n] = 0} |->
                <<0, Min({i \in DOMAIN g : g[i].step = s})>>])

\* What the loop keeps: unmet dependencies, the queue, the levels found and
\* how many steps they hold.
LoopStart(g) == [deg |-> InDegree(g), queue |-> Roots(g), levels |-> <<>>, processed |-> 0]

\* The decrements of in_degree[s] in a round: <<q, m>> when the q-th of the
\* queue is what mention m of s is about.
Decrements(g, queue, s) ==
    {d \in (DOMAIN queue) \X Mentions(g, s) : Target(g, d[2]) = queue[d[1]]}

\* Where the loops over the queue and its dependents are at the last of them.
LastDecrement(g, queue, s) ==
    LET q == Max({d[1] : d \in Decrements(g, queue, s)})
    IN  <<q, Max({d[2][1] : d \in {e \in Decrements(g, queue, s) : e[1] = q}})>>

\* Mutant: a step joins the queue while one dependency is still unmet.
FreedTooEarly(before, after) == before > 1 /\ after \in {0, 1}

\* A step joins the next queue when its last dependency is met.
Freed(before, after) == before > 0 /\ after = 0

\* The body of the loop: the queue becomes a level, and the steps that
\* depend on nothing else become the next queue.
LoopBody(g, r) ==
    LET deg == [s \in Ids(g) |-> r.deg[s] - Cardinality(Decrements(g, r.queue, s))]
    IN  [deg |-> deg,
         queue |-> InOrder([s \in {n \in Ids(g) : Freed(r.deg[n], deg[n])} |->
                               LastDecrement(g, r.queue, s)]),
         levels |-> Append(r.levels, r.queue),
         processed |-> r.processed + Len(r.queue)]

\* The loop run to its end: a graph has at most as many levels as steps.
Resolved(g) ==
    LET Loop[n \in Nat] ==
            IF n = 0 THEN LoopStart(g)
            ELSE LET r == Loop[n - 1] IN IF r.queue = <<>> THEN r ELSE LoopBody(g, r)
    IN  Loop[Len(g)]

LevelsOf(g) == Resolved(g).levels

\* resolve returns levels: it raises neither ValueError nor CycleDetectedError.
Resolvable(g) == g # <<>> /\ Resolved(g).processed = Len(g)
=============================================================================
