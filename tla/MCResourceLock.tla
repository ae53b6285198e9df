--------------------------- MODULE MCResourceLock ---------------------------
\* Three calls: c1 and c2 of one process and c3 of another, on one key.
EXTENDS ResourceLock, TLC

CONSTANTS c1, c2, c3, p1, p2, k1, k2

MCProcOf == c1 :> p1 @@ c2 :> p1 @@ c3 :> p2
MCLockOf == c1 :> k1 @@ c2 :> k1 @@ c3 :> k1
=============================================================================
