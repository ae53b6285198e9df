---------------------------- MODULE MCBookerStep ----------------------------
EXTENDS BookerStep, TLC

CONSTANTS c1, c2, p1, p2, step1, resource

\* Two calls in two processes that write to one resource ...
MCTwoProcs == c1 :> p1 @@ c2 :> p2
MCOneLock == c1 :> resource @@ c2 :> resource

\* ... as repeats of one step.
MCOneStep == c1 :> step1 @@ c2 :> step1
=============================================================================
