---------------------------- MODULE Connections ----------------------------
(***************************************************************************)
(* The connection of a user to an app: its accounts at Composio, the rows  *)
(* of user_connections and the cached set in Redis, as listing and         *)
(* disconnecting change them.  A listing first copies what Composio says   *)
(* into the rows.                                                          *)
(*                                                                         *)
(* Every remote call and command is an action with the code up to the next *)
(* one and may fail, before it took effect or after.                       *)
(***************************************************************************)
EXTENDS Naturals, FiniteSets

CONSTANTS ApiCall,   \* concurrent requests
          Accounts,  \* accounts of the user with the app
          Spellings, \* of the app's name, with
          App,       \* the normalized one
          MaxFaults  \* bound: failing commands

ASSUME ConnectionParameters == App \in Spellings /\ MaxFaults \in Nat

VARIABLES
    remote,  \* accounts that are active at Composio
    rows,    \* rows[n]: "none", "on" or "off"
    cached,  \* at most one element: the cached set of connected names
    call,    \* where a request is, with what it has read
    shown,   \* the listing that ended last: what it showed, and whether it
             \* ran alone, or NoListing
    alone,   \* requests during which nothing else has happened
    settled, \* has a request that ran alone written or dropped the cached set
             \* since the rows were last changed?
    faults

connectionVars == <<remote, rows, cached, shown, settled>>

Idle == [pc |-> "idle"]
NoListing == [on |-> {}, there |-> {}, alone |-> FALSE]
_normalize_provider(n) == App

ConnectionsInit ==
    /\ remote = {} /\ rows = [n \in Spellings |-> "none"] /\ cached = {}
    /\ call = [c \in ApiCall |-> Idle] /\ shown = NoListing
    /\ alone = {} /\ settled = TRUE /\ faults = 0

\* How a command ends: "error" without its effect, "lost" with it.
Answer == {"ok", "lost", "error"}
TakesEffect(a) == a # "error"

\* A step of c with a command: nobody who is under way was alone.
Answers(c, a) ==
    /\ faults' = IF a = "ok" THEN faults ELSE faults + 1
    /\ faults' <= MaxFaults
    /\ alone' = IF a = "ok" THEN alone \cap {c} ELSE {}

Begins(c, record) ==
    /\ call[c] = Idle
    /\ call' = [call EXCEPT ![c] = record]
    /\ alone' = IF \A d \in ApiCall : call[d] = Idle THEN {c} ELSE {}
    /\ UNCHANGED faults

Goto(c, record) == call' = [call EXCEPT ![c] = record]

Connected == {n \in Spellings : rows[n] = "on"}
upsert_connection(n, status, a) ==
    /\ rows' = IF TakesEffect(a) THEN [rows EXCEPT ![n] = status] ELSE rows
    /\ settled' = (settled /\ rows' = rows)
get_user_connections == Connected
set(names, a) == cached' = IF TakesEffect(a) THEN {names} ELSE cached
invalidate(a) == cached' = IF TakesEffect(a) THEN {} ELSE cached

-----------------------------------------------------------------------------
(* Listing *)

\* The user has gone through the OAuth flow that initiate_connection began.
Connect(x) ==
    /\ x \notin remote /\ remote' = remote \cup {x}
    /\ alone' = {}
    /\ UNCHANGED <<rows, cached, shown, settled, call, faults>>

List(c) == Begins(c, [pc |-> "remote"]) /\ UNCHANGED connectionVars

\* Without an answer the rows are taken as they are.
ListRemote(c, a) ==
    /\ call[c].pc = "remote" /\ a # "lost" /\ Answers(c, a)
    /\ Goto(c, IF a = "ok" THEN [pc |-> "active", todo |-> remote, active |-> remote # {}]
               ELSE [pc |-> "rows"])
    /\ UNCHANGED connectionVars

\* The row is set once for every account ...
SetActive(c, a) ==
    /\ call[c].pc = "active" /\ call[c].todo # {} /\ Answers(c, a)
    /\ upsert_connection(_normalize_provider(App), "on", a)
    /\ \E x \in call[c].todo :
          Goto(c, IF a = "ok" THEN [call[c] EXCEPT !.todo = @ \ {x}] ELSE [pc |-> "rows"])
    /\ UNCHANGED <<remote, cached, shown>>

\* Mutant: what is no longer active is not looked for.
ReadLocalOnly(c, a) ==
    /\ call[c].pc = "active" /\ call[c].todo = {} /\ a # "lost" /\ Answers(c, a)
    /\ Goto(c, IF a = "ok" THEN [pc |-> "inactive", todo |-> {}] ELSE [pc |-> "rows"])
    /\ UNCHANGED connectionVars

\* ... and those of names that are no longer active are found ...
ReadLocal(c, a) ==
    /\ call[c].pc = "active" /\ call[c].todo = {} /\ a # "lost" /\ Answers(c, a)
    /\ Goto(c, IF a = "ok"
               THEN [pc |-> "inactive",
                     todo |-> get_user_connections \ (IF call[c].active THEN {App} ELSE {})]
               ELSE [pc |-> "rows"])
    /\ UNCHANGED connectionVars

\* ... and set to off, one after the other.
SetInactive(c, a) ==
    /\ call[c].pc = "inactive" /\ Answers(c, a)
    /\ \E n \in call[c].todo :
          /\ upsert_connection(n, "off", a)
          /\ Goto(c, IF a = "ok" THEN [call[c] EXCEPT !.todo = @ \ {n}] ELSE [pc |-> "rows"])
    /\ UNCHANGED <<remote, cached, shown>>

\* The last read of sync_connections is for a caller that does not use it.
Invalidate(c, a) ==
    /\ call[c].pc = "inactive" /\ call[c].todo = {} /\ Answers(c, a)
    /\ invalidate(a) /\ settled' = (a = "ok" /\ alone = {c})
    /\ Goto(c, [pc |-> "rows"])
    /\ UNCHANGED <<remote, rows, shown>>

\* The cache is warmed from the rows.
ReadRows(c, a) ==
    /\ call[c].pc = "rows" /\ a # "lost" /\ Answers(c, a)
    /\ Goto(c, IF a = "ok" THEN [pc |-> "cache", names |-> get_user_connections]
               ELSE [pc |-> "show"])
    /\ UNCHANGED connectionVars

Warm(c, a) ==
    /\ call[c].pc = "cache" /\ Answers(c, a)
    /\ set(call[c].names, a)
    /\ settled' = (a = "ok" /\ alone = {c})
    /\ Goto(c, [pc |-> "show"])
    /\ UNCHANGED <<remote, rows, shown>>

\* The rows are read once more for the answer.
Show(c) ==
    /\ call[c].pc = "show"
    /\ shown' = [on |-> get_user_connections, there |-> remote, alone |-> c \in alone]
    /\ Goto(c, Idle) /\ alone' = alone \cap {c}
    /\ UNCHANGED <<remote, rows, cached, settled, faults>>

-----------------------------------------------------------------------------
(* Disconnecting *)

Disconnect(c, n) == Begins(c, [pc |-> "find", name |-> n]) /\ UNCHANGED connectionVars

\* One account of the app is looked for; a failure is passed over.
FindAccount(c, a) ==
    /\ call[c].pc = "find" /\ a # "lost" /\ Answers(c, a)
    /\ IF a = "ok" /\ _normalize_provider(call[c].name) = App /\ remote # {}
       THEN \E x \in remote : Goto(c, [pc |-> "revoke", name |-> call[c].name, account |-> x])
       ELSE Goto(c, [pc |-> "off", name |-> call[c].name])
    /\ UNCHANGED connectionVars

revoke_connection(x, a) == remote' = IF TakesEffect(a) THEN remote \ {x} ELSE remote

Revoke(c, a) ==
    /\ call[c].pc = "revoke" /\ Answers(c, a)
    /\ revoke_connection(call[c].account, a)
    /\ Goto(c, [pc |-> "off", name |-> call[c].name])
    /\ UNCHANGED <<rows, cached, shown, settled>>

\* The row of the name as it was spelt; the cache is dropped after it.
SetOff(c, a) ==
    /\ call[c].pc = "off" /\ Answers(c, a)
    /\ upsert_connection(call[c].name, "off", a)
    /\ Goto(c, IF a = "ok" THEN [pc |-> "forget"] ELSE Idle)
    /\ UNCHANGED <<remote, cached, shown>>

\* Mutant: the cache is kept.
ForgetNothing(c, a) ==
    /\ call[c].pc = "forget" /\ Answers(c, a)
    /\ settled' = (a = "ok" /\ alone = {c})
    /\ Goto(c, Idle)
    /\ UNCHANGED <<remote, rows, cached, shown>>

Forget(c, a) ==
    /\ call[c].pc = "forget" /\ Answers(c, a)
    /\ invalidate(a) /\ settled' = (a = "ok" /\ alone = {c})
    /\ Goto(c, Idle)
    /\ UNCHANGED <<remote, rows, shown>>

-----------------------------------------------------------------------------
ConnectionsNext ==
    \/ \E x \in Accounts : Connect(x)
    \/ \E c \in ApiCall :
          \/ List(c) \/ Show(c)
          \/ \E n \in Spellings : Disconnect(c, n)
          \/ \E a \in Answer :
                \/ ListRemote(c, a) \/ SetActive(c, a) \/ ReadLocal(c, a) \/ SetInactive(c, a)
                \/ Invalidate(c, a) \/ ReadRows(c, a) \/ Warm(c, a)
                \/ FindAccount(c, a) \/ Revoke(c, a) \/ SetOff(c, a) \/ Forget(c, a)

ConnectionsSpec == ConnectionsInit /\ [][ConnectionsNext]_<<connectionVars, call, alone, faults>>

-----------------------------------------------------------------------------
(* Properties *)

\* A listing that ran alone shows the app as connected if and only if Composio
\* has an account, whatever has gone wrong before; and what the cache says is
\* in the rows, once a request that ran alone has written or dropped it.
ListingIsTrue ==
    /\ shown.alone => shown.on = IF shown.there = {} THEN {} ELSE {App}
    /\ settled => cached \subseteq {Connected}

=============================================================================
