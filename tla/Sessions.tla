------------------------------ MODULE Sessions ------------------------------
(***************************************************************************)
(* The MCP sessions of a user: one for listing the user's tools, one for   *)
(* invoking them, each set up under its lock and kept until the server     *)
(* refuses it; and the MCP config, from which a failed listing removes the *)
(* auth configs that do not work.                                          *)
(*                                                                         *)
(* Every remote call is an action with the code up to the next one, and    *)
(* may fail before it took effect or after.                                *)
(***************************************************************************)
EXTENDS Naturals, FiniteSets

CONSTANTS Request,     \* concurrent requests
          AuthConfig,  \* auth configs of the server, of which
          Sound,       \* these work
          MaxSessions, \* bound: sessions set up, for each key
          MaxTroubles  \* bound: failing calls, and changes of the config

ASSUME SessionParameters == Sound \subseteq AuthConfig /\ MaxSessions \in Nat /\ MaxTroubles \in Nat

VARIABLES
    sessions, \* sessions[k]: at most one id
    lock,     \* lock[k]: at most one request
    made,     \* made[k]: sessions set up, whose ids are 1 .. made[k]
    refused,  \* refused[k]: requests the server refused for their session,
              \* counted up to MaxSessions
    expired,  \* expired[k]: ids the server does not know any more
    listed,   \* auth configs in the MCP config
    tools,    \* at most one element: the cached tools, by the auth configs
              \* that were listed when they were fetched
    request,  \* where a request is
    troubles

sessionVars == <<sessions, lock, made, refused, expired, listed, tools, request, troubles>>
held == <<sessions, lock, made>>
server == <<refused, expired>>

Key == {"tools", "calls"} \* "user:{id}" and the user's URL
\* sent counts the times a tool was run for a call, misread the answers that
\* were taken for a refusal.
New(k) == [pc |-> "session", key |-> k, id |-> 0, round |-> 1, sent |-> 0, misread |-> 0,
           found |-> {}, answer |-> {}, clean |-> FALSE]
Done == [New("tools") EXCEPT !.pc = "done"]

SessionsInit ==
    /\ sessions = [k \in Key |-> {}] /\ lock = [k \in Key |-> {}]
    /\ made = [k \in Key |-> 0] /\ refused = [k \in Key |-> 0]
    /\ expired = [k \in Key |-> {}]
    /\ listed \in SUBSET AuthConfig \ {{}} /\ tools = {}
    /\ request = [r \in Request |-> Done] /\ troubles = 0

-----------------------------------------------------------------------------
(* Requests *)

At(r, pc) == request[r].pc = pc
key(r) == request[r].key

\* How a remote call ends: "error" without its effect, "lost" with it.
Ending == {"ok", "lost", "error"}

\* A request is clean if nothing failed and no other was under way meanwhile.
Start(r, k, pc) ==
    /\ At(r, "done")
    /\ request' = [s \in Request |->
            IF s = r THEN [New(k) EXCEPT !.pc = pc, !.clean = \A q \in Request \ {r} : At(q, "done")]
            ELSE [request[s] EXCEPT !.clean = FALSE]]

\* What a request leaves when it is done.
Ended(record) == [Done EXCEPT !.id = IF record.key = "tools" THEN record.id ELSE 0, !.sent = record.sent,
                              !.misread = record.misread, !.answer = record.answer, !.key = record.key,
                              !.clean = record.clean /\ record.key = "tools"]

Goes(r, record) == request' = [request EXCEPT ![r] = IF record.pc = "done" THEN Ended(record) ELSE record]

\* The request goes on at pc after a call that ended with e.
MovesOn(r, pc, e) ==
    /\ troubles' = IF e = "ok" THEN troubles ELSE troubles + 1
    /\ troubles' <= MaxTroubles
    /\ Goes(r, [request[r] EXCEPT !.pc = pc, !.clean = @ /\ e = "ok"])

\* An exception: a listing tries to heal the config once, a call is raised.
Raise(r) == IF key(r) = "tools" /\ request[r].round = 1 THEN "heal" ELSE "done"

-----------------------------------------------------------------------------
(* A session for the request *)

\* asyncio.Lock is taken without a pause when it is free.
get_session(r) ==
    /\ At(r, "session")
    /\ IF sessions[key(r)] # {}
       THEN Goes(r, [request[r] EXCEPT !.pc = "send", !.id = CHOOSE i \in sessions[key(r)] : TRUE])
            /\ UNCHANGED lock
       ELSE IF lock[key(r)] # {} THEN Goes(r, [request[r] EXCEPT !.pc = "wait"]) /\ UNCHANGED lock
       ELSE lock' = [lock EXCEPT ![key(r)] = {r}] /\ Goes(r, [request[r] EXCEPT !.pc = "initialize"])
    /\ UNCHANGED <<sessions, made, server, listed, tools, troubles>>

\* Mutant: what happened while the request waited is not looked at.
InitializeAgain(r) ==
    /\ At(r, "wait") /\ lock[key(r)] = {}
    /\ lock' = [lock EXCEPT ![key(r)] = {r}]
    /\ Goes(r, [request[r] EXCEPT !.pc = "initialize"])
    /\ UNCHANGED <<sessions, made, server, listed, tools, troubles>>

DoubleCheck(r) ==
    /\ At(r, "wait") /\ lock[key(r)] = {}
    /\ IF sessions[key(r)] # {}
       THEN Goes(r, [request[r] EXCEPT !.pc = "send", !.id = CHOOSE i \in sessions[key(r)] : TRUE])
            /\ UNCHANGED lock
       ELSE /\ lock' = [lock EXCEPT ![key(r)] = {r}]
            /\ Goes(r, [request[r] EXCEPT !.pc = "initialize"])
    /\ UNCHANGED <<sessions, made, server, listed, tools, troubles>>

_initialize(r) ==
    /\ At(r, "initialize") /\ made[key(r)] < MaxSessions
    /\ made' = [made EXCEPT ![key(r)] = @ + 1]
    /\ sessions' = [sessions EXCEPT ![key(r)] = {made'[key(r)]}]
    /\ lock' = [lock EXCEPT ![key(r)] = {}]
    /\ Goes(r, [request[r] EXCEPT !.pc = "send", !.id = made'[key(r)]])
    /\ UNCHANGED <<server, listed, tools, troubles>>

MCPSessionError(r) ==
    /\ At(r, "initialize") /\ lock' = [lock EXCEPT ![key(r)] = {}]
    /\ MovesOn(r, Raise(r), "error")
    /\ UNCHANGED <<sessions, made, server, listed, tools>>

\* A refusal, counted up to MaxSessions.
Counted(k) == refused' = [refused EXCEPT ![k] = IF @ < MaxSessions THEN @ + 1 ELSE @]

-----------------------------------------------------------------------------
(* Listing the user's tools *)

\* get_user_tools: without tools in the cache refresh_user follows.
Discover(r) ==
    /\ tools = {} /\ Start(r, "tools", "session")
    /\ UNCHANGED <<held, server, listed, tools, troubles>>

\* A listing fails if the config lists an auth config that does not work.
_fetch_tools_for_user(r, e) ==
    /\ At(r, "send") /\ key(r) = "tools" /\ request[r].id \notin expired["tools"]
    /\ IF e = "ok" /\ listed \subseteq Sound
       THEN /\ troubles' = troubles
            /\ Goes(r, [request[r] EXCEPT !.pc = "store", !.answer = {listed}])
       ELSE MovesOn(r, Raise(r), e)
    /\ UNCHANGED <<held, server, listed, tools>>

\* The session is kept: nothing here tells a refusal from another failure.
FetchRefused(r) ==
    /\ At(r, "send") /\ key(r) = "tools" /\ request[r].id \in expired["tools"]
    /\ Counted("tools") /\ MovesOn(r, Raise(r), "ok")
    /\ UNCHANGED <<held, expired, listed, tools>>

Store(r, e) ==
    /\ At(r, "store") /\ MovesOn(r, "done", e)
    /\ tools' = IF e = "error" THEN tools ELSE request[r].answer
    /\ UNCHANGED <<held, server, listed>>

\* _heal_mcp_auth_configs reads the config ...
ReadConfig(r, e) ==
    /\ At(r, "heal")
    /\ IF e = "ok" /\ listed # {}
       THEN troubles' = troubles /\ Goes(r, [request[r] EXCEPT !.pc = "validate", !.found = listed])
       ELSE MovesOn(r, "done", e)
    /\ UNCHANGED <<held, server, listed, tools>>

\* ... and asks for each auth config: those it gets no answer for are taken
\* as broken, too, ...
Validate(r, failing) ==
    /\ At(r, "validate") /\ failing \subseteq request[r].found
    /\ troubles' = troubles + Cardinality(failing) /\ troubles' <= MaxTroubles
    /\ LET valid == (request[r].found \cap Sound) \ failing IN
          Goes(r, [request[r] EXCEPT !.pc = IF valid = request[r].found THEN "done" ELSE "patch",
                                     !.found = valid, !.clean = @ /\ failing = {}])
    /\ UNCHANGED <<held, server, listed, tools>>

\* Mutant: the listing is not tried again after the config was healed.
PatchOnly(r, e) ==
    /\ At(r, "patch") /\ MovesOn(r, "done", e)
    /\ listed' = IF e = "error" THEN listed ELSE request[r].found
    /\ UNCHANGED <<held, server, tools>>

\* ... and writes back the rest, after which the tools are fetched again.
Patch(r, e) ==
    /\ At(r, "patch")
    /\ listed' = IF e = "error" THEN listed ELSE request[r].found
    /\ IF e = "ok" THEN troubles' = troubles /\ Goes(r, [request[r] EXCEPT !.pc = "session", !.round = 2])
       ELSE MovesOn(r, "done", e)
    /\ UNCHANGED <<held, server, tools>>

-----------------------------------------------------------------------------
(* Invoking a tool *)

invoke(r) == Start(r, "calls", "session") /\ UNCHANGED <<held, server, listed, tools, troubles>>

\* Mutant: a call whose answer is late is repeated like a refused one.
SendAgain(r, e) ==
    /\ At(r, "send") /\ key(r) = "calls" /\ request[r].id \notin expired["calls"]
    /\ troubles' = IF e = "ok" THEN troubles ELSE troubles + 1
    /\ troubles' <= MaxTroubles
    /\ Goes(r, [request[r] EXCEPT
                  !.pc = IF e = "lost" /\ request[r].round = 1 THEN "session" ELSE "done",
                  !.round = 2, !.sent = @ + IF e = "error" THEN 0 ELSE 1])
    /\ UNCHANGED <<held, server, listed, tools>>

\* The tool is invoked: "lost" is a call whose answer is not received.
Send(r, e) ==
    /\ At(r, "send") /\ key(r) = "calls" /\ request[r].id \notin expired["calls"]
    /\ troubles' = IF e = "ok" THEN troubles ELSE troubles + 1
    /\ troubles' <= MaxTroubles
    /\ Goes(r, [request[r] EXCEPT !.pc = "done", !.sent = @ + IF e = "error" THEN 0 ELSE 1])
    /\ UNCHANGED <<held, server, listed, tools>>

\* Once, a call that counts as refused is repeated.
Repeat(r) == IF request[r].round = 1 THEN "session" ELSE "done"

\* The answer is an error of the tool, or a text about a missing connection,
\* in which "HTTP 401" or "HTTP 403" is quoted: whether the tool was run or not
\* (ran), that counts as a refusal.  The session is kept.
SendMisread(r, ran) ==
    /\ At(r, "send") /\ key(r) = "calls" /\ request[r].id \notin expired["calls"]
    /\ troubles' = troubles + 1 /\ troubles' <= MaxTroubles
    /\ Goes(r, [request[r] EXCEPT !.pc = Repeat(r), !.round = 2, !.sent = @ + ran,
                                  !.misread = IF request[r].round = 1 THEN @ + 1 ELSE @])
    /\ UNCHANGED <<held, server, listed, tools>>

\* HTTP 401 or 403, which a server may answer for a session it knows, too.
\* The session of the URL goes, whichever it is by now.
SendRefused(r) ==
    /\ At(r, "send") /\ key(r) = "calls"
    /\ Counted("calls")
    /\ troubles' = troubles + IF request[r].id \in expired["calls"] THEN 0 ELSE 1
    /\ troubles' <= MaxTroubles
    /\ sessions' = [sessions EXCEPT !["calls"] = {}]
    /\ Goes(r, [request[r] EXCEPT !.pc = Repeat(r), !.round = 2])
    /\ UNCHANGED <<lock, made, expired, listed, tools>>

-----------------------------------------------------------------------------
(* The world *)

Forgets(k) ==
    /\ \E i \in 1 .. made[k] : i \notin expired[k] /\ expired' = [expired EXCEPT ![k] = @ \cup {i}]
    /\ UNCHANGED <<held, refused, listed, tools, request, troubles>>

ToolsExpire == tools # {} /\ tools' = {} /\ UNCHANGED <<held, server, listed, request, troubles>>

\* An operator lists another auth config.
ListConfig(a) ==
    /\ a \notin listed /\ listed' = listed \cup {a}
    /\ troubles' = troubles + 1 /\ troubles' <= MaxTroubles
    /\ request' = [r \in Request |-> [request[r] EXCEPT !.clean = FALSE]]
    /\ UNCHANGED <<held, server, tools>>

SessionsNext ==
    \/ ToolsExpire \/ \E k \in Key : Forgets(k)
    \/ \E a \in AuthConfig : ListConfig(a)
    \/ \E r \in Request :
          \/ Discover(r) \/ invoke(r)
          \/ get_session(r) \/ DoubleCheck(r) \/ _initialize(r) \/ MCPSessionError(r)
          \/ FetchRefused(r) \/ SendRefused(r)
          \/ \E failing \in SUBSET AuthConfig : Validate(r, failing)
          \/ \E ran \in 0 .. 1 : SendMisread(r, ran)
          \/ \E e \in Ending :
                \/ _fetch_tools_for_user(r, e) \/ Store(r, e) \/ ReadConfig(r, e) \/ Patch(r, e)
                \/ Send(r, e)

SessionsSpec == SessionsInit /\ [][SessionsNext]_sessionVars

-----------------------------------------------------------------------------
(* Properties *)

\* One session of a key serves all its requests: another is set up only after
\* the server has refused a request.  A tool is run for a call once, and once
\* more only if the text of an answer was taken for a refusal, which happens
\* to a call at most once, over all the ways its attempts end
\* (mcp_client.py:160-187, session.py:57-85).
OnlyRefusalsRepeat ==
    /\ \A k \in Key : made[k] <= 1 + refused[k]
    /\ \A r \in Request : request[r].sent <= 1 + request[r].misread /\ request[r].misread <= 1

\* A listing that met with no failure, with no other request and with no
\* change of the config, whose session lives, has brought the tools, although
\* the config may have listed auth configs that do not work.
EmptyOnlyIfTroubled ==
    \A r \in Request :
        (request[r].clean /\ At(r, "done") /\ key(r) = "tools" /\ request[r].id \notin expired["tools"])
        => request[r].answer # {}

=============================================================================
