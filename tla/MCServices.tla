----------------------------- MODULE MCServices -----------------------------
(***************************************************************************)
(* What a request asks of others: the lock of a resource in Redis, a       *)
(* session of an MCP server, a connection at Composio, an LLM.  These      *)
(* share no state, so that one run checks each by itself.                  *)
(***************************************************************************)
EXTENDS MCResourceLock, Connections, Sessions, Planning

VARIABLE part

connectionsVars == <<connectionVars, call, alone, faults>>

MCInit ==
    /\ LockInit /\ ConnectionsInit /\ SessionsInit /\ PlanningInit
    /\ \/ part = "sessions"
       \/ part \in {"lock", "connections", "planning"} /\ listed = AuthConfig

MCNext ==
    /\ UNCHANGED part
    /\ \/ part = "lock" /\ Next /\ UNCHANGED <<connectionsVars, sessionVars, planningVars>>
       \/ part = "connections" /\ ConnectionsNext
          /\ UNCHANGED <<lockVars, sessionVars, planningVars>>
       \/ part = "sessions" /\ SessionsNext
          /\ UNCHANGED <<lockVars, connectionsVars, planningVars>>
       \/ part = "planning" /\ PlanningNext
          /\ UNCHANGED <<lockVars, connectionsVars, sessionVars>>

MCSpec == MCInit /\ [][MCNext]_<<lockVars, connectionsVars, sessionVars, planningVars, part>>

\* The callers of every part have the same names.
Interchangeable == Permutations(Request) \cup Permutations(Accounts)
=============================================================================
