---------------------------- MODULE DagResolver ----------------------------
(***************************************************************************)
(* DAGResolver.resolve (adapters/dag_resolver.py): Kahn's algorithm, one   *)
(* level per round, against what it is for.                                *)
(***************************************************************************)
EXTENDS PlanGraph

CONSTANTS Graphs   \* the plan graphs resolve is called with

ASSUME GraphParameters == \A g \in Graphs : IsGraph(g)

VARIABLES graph,   \* the argument
          loop,    \* in_degree, queue and levels
          returned \* "running", "levels", "cycle" or "empty"

resolverVars == <<graph, loop, returned>>

ResolverInit ==
    /\ graph \in Graphs
    /\ loop = LoopStart(graph)
    /\ returned = "running"

EmptyGraph ==
    /\ returned = "running"
    /\ graph = <<>>
    /\ returned' = "empty"
    /\ UNCHANGED <<graph, loop>>

Round ==
    /\ returned = "running"
    /\ loop.queue # <<>>
    /\ loop' = LoopBody(graph, loop)
    /\ UNCHANGED <<graph, returned>>

\* Mutant: the levels are returned without counting the steps in them.
ReturnUnchecked ==
    /\ returned = "running"
    /\ graph # <<>>
    /\ loop.queue = <<>>
    /\ returned' = "levels"
    /\ UNCHANGED <<graph, loop>>

Return ==
    /\ returned = "running"
    /\ graph # <<>>
    /\ loop.queue = <<>>
    /\ returned' = IF loop.processed # Len(graph) THEN "cycle" ELSE "levels"
    /\ UNCHANGED <<graph, loop>>

ResolverNext == EmptyGraph \/ Round \/ Return

ResolverSpec == ResolverInit /\ [][ResolverNext]_resolverVars

-----------------------------------------------------------------------------
(* What resolve is for *)

\* Dependencies inside the graph: <<d, s>> when s comes after d.
Edges(g) == {e \in Ids(g) \X Ids(g) :
                \E i \in DOMAIN g : g[i].step = e[2] /\ e[1] \in ToSet(g[i].after)}

\* There is no way to order the steps so that every dependency comes first.
Cyclic(g) ==
    \E C \in SUBSET Ids(g) :
        C # {} /\ \A s \in C : \E d \in C : <<d, s>> \in Edges(g)

Distinct(g) == Cardinality(Ids(g)) = Len(g)

\* Step s is in one level, one after the last level of what it comes after.
AtEarliestLevel(g, levels, s) ==
    LET LevelOf(u) == {n \in DOMAIN levels : u \in ToSet(levels[n])}
    IN  \E n \in DOMAIN levels :
          /\ LevelOf(s) = {n}
          /\ n = 1 + Max({0} \cup
                 UNION {LevelOf(e[1]) : e \in {x \in Edges(g) : x[2] = s}})

\* resolve ends after at most one round per step. It raises
\* CycleDetectedError exactly for the graphs whose dependencies are circular
\* or whose step numbers are not distinct; and in the levels it returns
\* otherwise every step occurs once, at the earliest level its dependencies
\* allow. They are the levels that LevelsOf computes (dag_resolver.py:47-69).
ResolvesToEarliestLevels ==
    /\ Len(loop.levels) <= Cardinality(Ids(graph))
    /\ returned \in {"levels", "cycle"} =>
         (returned = "cycle" <=> Cyclic(graph) \/ ~Distinct(graph))
    /\ returned = "levels" =>
         /\ loop.levels = LevelsOf(graph)
         /\ loop.processed = Cardinality(Ids(graph))
         /\ \A s \in Ids(graph) : AtEarliestLevel(graph, loop.levels, s)
=============================================================================
