---------------------------- MODULE Conversation ----------------------------
(***************************************************************************)
(* Conversations of a user: a message is read against its session, parsed  *)
(* by a local and a remote LLM, merged into the session and saved with it. *)
(* The session is read and written as a whole, with the LLM in between.    *)
(*                                                                         *)
(* A parse finds an intent or none, and mentions an entity by its          *)
(* canonical name, by an alias of it, or not at all; the value it gives is *)
(* the number of the message.                                              *)
(***************************************************************************)
EXTENDS Naturals, Sequences

CONSTANTS Request,     \* concurrent requests
          SessionId,
          MaxTurns,    \* turns of a session
          MaxMessages, \* bound: messages that are sent
          MaxFailures  \* bound: failing commands and LLM calls

ASSUME ConversationParameters == MaxTurns \in Nat /\ MaxMessages \in Nat /\ MaxFailures \in Nat

VARIABLES
    sessions, \* sessions[s]: at most one
    named,    \* ids given to sessions so far
    turn,     \* where a request is, with the session it has read
    sent,     \* messages sent so far: the last one's number
    kept,     \* messages that were answered, by session, and that met no other
              \* request of their session; without those of sessions that went
    failures

conversationVars == <<sessions, named, turn, sent, kept, failures>>

Key == {"name", "alias"}
Parse == [intent : {"none", "known"}, says : Key \cup {"nothing"}]
ParseResult == [intent |-> "none", says |-> "nothing"]
NewSession == [turns |-> <<>>, intent |-> "none", entities |-> [k \in Key |-> 0]]
Ready == [pc |-> "ready"]

ConversationInit ==
    /\ sessions = [s \in SessionId |-> {}] /\ named = {}
    /\ turn = [c \in Request |-> Ready]
    /\ sent = 0 /\ kept = [s \in SessionId |-> {}] /\ failures = 0

Fail == failures < MaxFailures /\ failures' = failures + 1
Goes(c, record) == turn' = [turn EXCEPT ![c] = record]
Ends(c) == turn' = [turn EXCEPT ![c] = Ready]
On(c, pc) == turn[c].pc = pc

-----------------------------------------------------------------------------
(* A message *)

\* The turns are counted before the message is parsed.
StartsParse(c, s, session) ==
    LET others == {d \in Request \ {c} : ~On(d, "ready") /\ turn[d].id = s} IN
    IF Len(session.turns) >= MaxTurns THEN Ends(c) \* MaxTurnsExceededError
    ELSE turn' = [d \in Request |->
            IF d = c THEN [pc |-> "local", id |-> s, message |-> sent + 1, session |-> session,
                           attempt |-> 1, result |-> ParseResult, alone |-> others = {}]
            ELSE IF d \in others THEN [turn[d] EXCEPT !.alone = FALSE] ELSE turn[d]]

\* A session that is not in the store is begun under a new id.
_resolve_session(c, asked) ==
    /\ On(c, "ready") /\ sent < MaxMessages /\ sent' = sent + 1
    /\ \/ \E s \in asked : \E session \in sessions[s] : StartsParse(c, s, session) /\ UNCHANGED named
       \/ /\ \A s \in asked : sessions[s] = {}
          /\ \E s \in SessionId \ named : named' = named \cup {s} /\ StartsParse(c, s, NewSession)
    /\ UNCHANGED <<sessions, kept, failures>>

\* What was parsed, or ParseResult for any failure that is no rate limit.
Parsed(c, result) == Goes(c, [turn[c] EXCEPT !.pc = "save", !.result = result])

\* IntentParserError: an answer that cannot be read is asked for once more.
Unreadable(c) ==
    IF turn[c].attempt = 1 THEN Goes(c, [turn[c] EXCEPT !.pc = "local", !.attempt = 2])
    ELSE Parsed(c, ParseResult)

\* The local LLM; one that is not sure of its answer is checked by the remote.
AskLocal(c) ==
    /\ On(c, "local")
    /\ \/ \E r \in Parse : Parsed(c, r) /\ UNCHANGED failures
       \/ \E r \in Parse : Goes(c, [turn[c] EXCEPT !.pc = "escalate", !.result = r]) /\ UNCHANGED failures
       \/ Fail /\ Unreadable(c)
       \/ Fail /\ Goes(c, [turn[c] EXCEPT !.pc = "remote"])
    /\ UNCHANGED <<sessions, named, sent, kept>>

\* The remote LLM in place of a local one that failed.
AskRemote(c) ==
    /\ On(c, "remote")
    /\ \/ \E r \in Parse : Parsed(c, r) /\ UNCHANGED failures
       \/ \E r \in Parse : Goes(c, [turn[c] EXCEPT !.pc = "escalate", !.result = r]) /\ UNCHANGED failures
       \/ Fail /\ Unreadable(c)
       \/ Fail /\ Parsed(c, ParseResult)
       \/ Fail /\ Ends(c) \* RateLimitedError
    /\ UNCHANGED <<sessions, named, sent, kept>>

Escalate(c) ==
    /\ On(c, "escalate")
    /\ \/ \E r \in Parse : Parsed(c, r) /\ UNCHANGED failures
       \/ Fail /\ Parsed(c, turn[c].result)
    /\ UNCHANGED <<sessions, named, sent, kept>>

\* An alias is replaced once the intent is known.
_normalize_entity_keys(says, intent) ==
    IF says = "alias" /\ intent = "known" THEN "name" ELSE says

\* Mutant: a message that was not understood is no turn.
KeepUnderstood(session, result, message) ==
    LET intent == IF result.intent # "none" THEN result.intent ELSE session.intent
        key == _normalize_entity_keys(result.says, intent) IN
    [turns |-> IF result = ParseResult THEN session.turns
               ELSE Append(session.turns, [message |-> message, intent |-> result.intent, says |-> result.says]),
     intent |-> intent,
     entities |-> [k \in Key |-> IF k = key THEN message ELSE session.entities[k]]]

_merge_parse_result(session, result, message) ==
    LET intent == IF result.intent # "none" THEN result.intent ELSE session.intent
        key == _normalize_entity_keys(result.says, intent) IN
    [turns |-> Append(session.turns, [message |-> message, intent |-> result.intent, says |-> result.says]),
     intent |-> intent,
     entities |-> [k \in Key |-> IF k = key THEN message ELSE session.entities[k]]]

Updated(c) == _merge_parse_result(turn[c].session, turn[c].result, turn[c].message)

save(c) ==
    /\ On(c, "save")
    /\ LET s == turn[c].id IN
       \/ /\ sessions' = [sessions EXCEPT ![s] = {Updated(c)}]
          /\ kept' = IF turn[c].alone THEN [kept EXCEPT ![s] = @ \cup {turn[c].message}] ELSE kept
          /\ UNCHANGED failures
       \/ Fail /\ sessions' \in {sessions, [sessions EXCEPT ![s] = {Updated(c)}]} /\ UNCHANGED kept
    /\ Ends(c) /\ UNCHANGED <<named, sent>>

-----------------------------------------------------------------------------
\* The session is deleted by its user, or by its time to live.
reset_session(s) ==
    /\ sessions[s] # {} /\ sessions' = [sessions EXCEPT ![s] = {}]
    /\ kept' = [kept EXCEPT ![s] = {}]
    /\ UNCHANGED <<named, turn, sent, failures>>

ConversationNext ==
    \/ \E s \in SessionId : reset_session(s)
    \/ \E c \in Request :
          \/ _resolve_session(c, {}) \/ \E s \in named : _resolve_session(c, {s})
          \/ AskLocal(c) \/ AskRemote(c) \/ Escalate(c) \/ save(c)

ConversationSpec == ConversationInit /\ [][ConversationNext]_conversationVars

-----------------------------------------------------------------------------
(* Properties *)

\* What a session says follows from its turns: the intent is the last one that
\* was recognised, an entity has the value of the last message that mentioned
\* it, under its canonical name as soon as the intent is known.
FollowsFromTurns(session) ==
    LET t == session.turns
        Known(i) == \E j \in 1 .. i : t[j].intent = "known"
        Mentions(k) == {i \in DOMAIN t : \/ t[i].says = k /\ (k = "name" \/ ~Known(i))
                                         \/ k = "name" /\ t[i].says = "alias" /\ Known(i)}
    IN  /\ session.intent = IF Known(Len(t)) THEN "known" ELSE "none"
        /\ \A k \in Key :
              session.entities[k] = IF Mentions(k) = {} THEN 0
                                    ELSE t[CHOOSE i \in Mentions(k) : \A j \in Mentions(k) : j <= i].message

\* A message that was answered, and that met no other request of its session,
\* is a turn of the session as long as there is one, whatever other requests
\* do later; no session has more turns than allowed, and all it says follows
\* from them.
MessagesAreKept ==
    \A s \in SessionId : \A session \in sessions[s] :
        /\ kept[s] \subseteq {session.turns[i].message : i \in DOMAIN session.turns}
        /\ Len(session.turns) <= MaxTurns
        /\ FollowsFromTurns(session)

=============================================================================
