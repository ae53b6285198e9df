---------------------------- MODULE ApprovalGate ----------------------------
(***************************************************************************)
(* The approval of a plan at gate-A: the routes of the front end, the      *)
(* cached preview, ApprovalService and its GateStore in Redis, and the     *)
(* use of the token, by execute_plan and through validate_token.  It is    *)
(* about one plan, in a plan's keys nothing is shared with another one.    *)
(*                                                                         *)
(* Every Redis command is an action with the code up to the next one; it   *)
(* may fail before it took effect or after, and the code then goes on      *)
(* without it.  Tokens are numbered as they are signed.  They all live for *)
(* the same time, so they die in that order, and a key of the same TTL     *)
(* written after a token was signed outlives it.                           *)
(***************************************************************************)
EXTENDS Naturals, FiniteSets

CONSTANTS Call,        \* concurrent requests
          Scopes,      \* what a user may approve
          Gate,        \* gates that validate_token may be asked about, with
          GateA,       \* the one the routes and the scheduler approve
          MaxTokens,   \* bound: tokens signed
          MaxPreviews, \* bound: previews
          MaxFaults    \* bound: failing Redis commands

ASSUME GateParameters ==
    GateA \in Gate /\ MaxTokens \in Nat /\ MaxPreviews \in Nat /\ MaxFaults \in Nat

VARIABLES
    previews, \* previews run so far
    cached,   \* the one whose state is in Redis, or 0
    claims,   \* claims[t]: the scopes of token t, for every token signed
    dead,     \* tokens 1 .. dead have expired
    gate,     \* the key of gate-A: token, bound preview and, as a mark of when
              \* it was set, how many tokens there were; NoGate without a key
    consumed, \* the keys of consumed tokens
    call,     \* where a request is, with what it has read
    ended,    \* history: tokens returned by approvals that have ended
    keyed,    \* and those whose key was set with an answer
    rivals,   \* rivals[t]: the living ones of these when the approval that
              \* signed t began, if Redis answered it
    uses,     \* history: how often validate_token has accepted a token,
    blurred,  \* and tokens for which a Redis command failed there
    faults

redis == <<cached, gate, consumed>>
gateHistory == <<ended, keyed, rivals, uses, blurred>>
gateVars == <<previews, redis, claims, dead, call, gateHistory, faults>>

Tokens == DOMAIN claims
Alive(t) == t > dead
NoGate == [token |-> 0, preview |-> 0, after |-> 0]
NoRequest == [pc |-> "idle", scopes |-> {}, token |-> 0, preview |-> 0, rivals |-> {}]

GateInit ==
    /\ previews = 0 /\ cached = 0 /\ claims = << >> /\ dead = 0
    /\ gate = NoGate /\ consumed = {} /\ call = [c \in Call |-> NoRequest]
    /\ ended = {} /\ keyed = {} /\ rivals = << >>
    /\ uses = << >> /\ blurred = {} /\ faults = 0

\* How a Redis command ends: "error" without its effect, "lost" with it.
Answer == {"ok", "lost", "error"}
TakesEffect(a) == a # "error"
Answers(a) ==
    /\ faults' = IF a = "ok" THEN faults ELSE faults + 1
    /\ faults' <= MaxFaults

Goto(c, pc) == call' = [call EXCEPT ![c].pc = pc]

-----------------------------------------------------------------------------
(* Preview *)

\* Set under the key of the user and the plan, whatever was there before.
store(p, a) == cached' = IF TakesEffect(a) THEN p ELSE cached

\* None if there is no key, or no answer.
retrieve(a) == IF a = "ok" THEN cached ELSE 0

\* /plan or /rerun: the plan is previewed, which changes nothing else, and
\* shown whether or not its state could be cached.
Preview(a) ==
    /\ previews < MaxPreviews /\ Answers(a)
    /\ previews' = previews + 1 /\ store(previews', a)
    /\ UNCHANGED <<claims, dead, gate, consumed, call, gateHistory>>

-----------------------------------------------------------------------------
(* Approval *)

\* None if there is no key, or no answer.
get_gate(a) == IF a = "ok" THEN gate ELSE NoGate

\* The approval begins.  A stored one is answered with its token, whatever
\* scopes and user are asked for now.
Begin(c, scopes, a) ==
    LET found == get_gate(a) IN
    /\ call[c] = NoRequest /\ scopes # {} /\ Answers(a) /\ Cardinality(Tokens) < MaxTokens
    /\ call' = [call EXCEPT ![c] =
           IF found # NoGate
           THEN [NoRequest EXCEPT !.pc = "approved", !.scopes = scopes, !.token = found.token]
           ELSE [NoRequest EXCEPT !.pc = "binding", !.scopes = scopes,
                             !.rivals = IF a = "ok" THEN {t \in ended \cap keyed : Alive(t)} ELSE {}]]
    /\ UNCHANGED <<previews, redis, claims, dead, gateHistory>>

\* The preview state is read, and the token signed.
Bind(c, a) ==
    LET t == Cardinality(Tokens) + 1 IN
    /\ call[c].pc = "binding" /\ t <= MaxTokens /\ Answers(a)
    /\ claims' = [u \in Tokens \cup {t} |-> IF u = t THEN call[c].scopes ELSE claims[u]]
    /\ rivals' = [u \in Tokens \cup {t} |-> IF u = t THEN call[c].rivals ELSE rivals[u]]
    /\ uses' = [u \in Tokens \cup {t} |-> IF u = t THEN 0 ELSE uses[u]]
    /\ call' = [call EXCEPT ![c] = [@ EXCEPT !.pc = "storing", !.token = t,
                                             !.preview = retrieve(a)]]
    /\ UNCHANGED <<previews, redis, dead, ended, keyed, blurred>>

\* The record of the approval replaces whatever has been stored meanwhile.
store_gate(c, a) ==
    gate' = IF TakesEffect(a)
            THEN [token |-> call[c].token, preview |-> call[c].preview,
                  after |-> Cardinality(Tokens)]
            ELSE gate

Store(c, a) ==
    /\ call[c].pc = "storing" /\ Answers(a)
    /\ store_gate(c, a)
    /\ keyed' = IF a = "ok" THEN keyed \cup {call[c].token} ELSE keyed
    /\ Goto(c, "approved")
    /\ UNCHANGED <<previews, cached, claims, dead, consumed, ended, rivals, uses, blurred>>

\* /execute goes on with the token, looks for cached previews where there are
\* none (PreviewCacheAdapter has no get) and calls execute_plan, which accepts
\* a token that is signed, alive and for this plan, as often as it comes.
Execute(c) ==
    /\ call[c].pc = "approved"
    /\ ended' = ended \cup {call[c].token}
    /\ call' = [call EXCEPT ![c] = NoRequest]
    /\ UNCHANGED <<previews, redis, claims, dead, keyed, rivals, uses, blurred, faults>>

-----------------------------------------------------------------------------
(* validate_token *)

\* Signature, which all of these have, and expiry.
verify(t) == Alive(t)

\* Without an answer the token is not consumed.
is_consumed(t, a) == a = "ok" /\ t \in consumed

Verify(c, t, g, a) ==
    /\ call[c] = NoRequest /\ t \in ended /\ Answers(a)
    /\ verify(t) /\ g = GateA /\ ~is_consumed(t, a)
    /\ call' = [call EXCEPT ![c] = [NoRequest EXCEPT !.pc = "marking", !.token = t]]
    /\ blurred' = IF a = "ok" THEN blurred ELSE blurred \cup {t}
    /\ UNCHANGED <<previews, redis, claims, dead, ended, keyed, rivals, uses>>

\* Mutant: the mark is set, whether or not it is there.
mark_always(t, a) == TRUE

\* SET NX: does the caller have the token?  Without an answer it does.
mark_consumed(t, a) == a # "ok" \/ t \notin consumed

Mark(c, a) ==
    LET t == call[c].token IN
    /\ call[c].pc = "marking" /\ Answers(a)
    /\ uses' = IF mark_consumed(t, a) THEN [uses EXCEPT ![t] = @ + 1] ELSE uses
    /\ consumed' = IF TakesEffect(a) THEN consumed \cup {t} ELSE consumed
    /\ blurred' = IF a = "ok" THEN blurred ELSE blurred \cup {t}
    /\ call' = [call EXCEPT ![c] = NoRequest]
    /\ UNCHANGED <<previews, cached, gate, claims, dead, ended, keyed, rivals>>

-----------------------------------------------------------------------------
(* Time *)

\* The oldest living token expires.
Expire ==
    /\ \E t \in Tokens : Alive(t)
    /\ dead' = dead + 1
    /\ UNCHANGED <<previews, redis, claims, call, gateHistory, faults>>

\* Mutant: the key is set for a shorter time than its token lives.
DropGateEarly ==
    /\ gate # NoGate /\ gate' = NoGate
    /\ UNCHANGED <<previews, cached, consumed, claims, dead, call, gateHistory, faults>>

\* The keys, set for the lifetime of a token after every one there was then.
\* (exp is in whole seconds, so a key may go up to one second before its token.)
DropGate ==
    /\ gate # NoGate /\ gate.after <= dead
    /\ gate' = NoGate
    /\ UNCHANGED <<previews, cached, consumed, claims, dead, call, gateHistory, faults>>

\* The mark lives as long as a token from when it is set, which is assumed to
\* be longer than a caller takes between its two commands.
DropMark ==
    /\ \E t \in consumed :
          /\ ~Alive(t) /\ \A c \in Call : ~(call[c].pc = "marking" /\ call[c].token = t)
          /\ consumed' = consumed \ {t}
    /\ UNCHANGED <<previews, cached, gate, claims, dead, call, gateHistory, faults>>

DropPreview ==
    /\ cached # 0 /\ cached' = 0
    /\ UNCHANGED <<previews, gate, consumed, claims, dead, call, gateHistory, faults>>

-----------------------------------------------------------------------------
GateNext ==
    \/ \E a \in Answer :
          \/ Preview(a)
          \/ \E c \in Call : \/ Bind(c, a) \/ Store(c, a) \/ Mark(c, a)
                             \/ \E s \in Scopes : Begin(c, s, a)
                             \/ \E t \in Tokens, g \in Gate : Verify(c, t, g, a)
    \/ \E c \in Call : Execute(c)
    \/ Expire \/ DropGate \/ DropMark \/ DropPreview

GateSpec == GateInit /\ [][GateNext]_gateVars

-----------------------------------------------------------------------------
(* Properties *)

\* validate_token accepts a token once, however many callers come at the same
\* time, unless Redis did not answer one of them.
SingleUse == \A t \in Tokens : uses[t] <= 1 \/ t \in blurred

\* A user who has approved gets the same token again: a second one is signed
\* only by an approval that overlaps the first, after the first has expired,
\* or if Redis failed one of the two.
OneTokenAtATime == \A t \in Tokens : rivals[t] = {}

=============================================================================
