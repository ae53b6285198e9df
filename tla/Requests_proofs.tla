-------------------------- MODULE Requests_proofs --------------------------
(***************************************************************************)
(* Proofs about the way from a message to an approved plan, for any number *)
(* of requests: Conversation keeps the messages it answered; Planning      *)
(* leaves an open circuit alone and makes one plan of a skeleton;          *)
(* PlanRules accepts only plans that can be ordered and whose LLM steps    *)
(* are shielded from the results of tools; Workflows chains the workflows  *)
(* of an intent without mixing their steps; PreviewRun calls only what     *)
(* reads, in levels that keep the order; ApprovalGate signs one token at a *)
(* time and accepts it once.                                               *)
(***************************************************************************)
EXTENDS Conversation, Planning, PlanRules, Workflows, PreviewRun, ApprovalGate,
        DagResolver_proofs, SequenceTheorems

-----------------------------------------------------------------------------
(* ApprovalGate *)

Signed == Cardinality(Tokens)
Visit == [pc : {"idle", "binding", "storing", "approved", "marking"},
          scopes : Scopes \cup {{}}, token : Nat, preview : Nat, rivals : SUBSET Nat]

\* A request has the scopes to sign, and later the token that was signed.
HasItsToken(r) ==
    /\ r.pc = "binding" => r.scopes \in Scopes
    /\ r.pc \in {"storing", "approved", "marking"} => r.token \in Tokens

GateTypes ==
    /\ previews \in Nat /\ cached \in Nat /\ dead \in Nat /\ faults \in Nat
    /\ Signed \in Nat /\ Tokens = 1 .. Signed
    /\ claims \in [Tokens -> Scopes]
    /\ uses \in [Tokens -> Nat] /\ rivals \in [Tokens -> SUBSET Nat]
    /\ gate \in [token : Nat, preview : Nat, after : Nat]
    /\ gate = NoGate \/ gate.token \in Tokens
    /\ consumed \subseteq Tokens /\ ended \subseteq Tokens
    /\ keyed \subseteq Tokens /\ blurred \subseteq Tokens
    /\ call \in [Call -> Visit] /\ \A c \in Call : HasItsToken(call[c])

\* A living token that an approval has stored is guarded by the key of the gate.
KeyOutlives == \A t \in keyed : Alive(t) => gate # NoGate /\ t <= gate.after

NoRivals == \A c \in Call : call[c].rivals = {}

IsMarking(c, t) == call[c].pc = "marking" /\ call[c].token = t

\* A token that was accepted is marked, until nobody can ask for it any more.
UseMarked(t) ==
    \/ uses[t] = 0
    \/ uses[t] = 1 /\ (t \in consumed \/ (~Alive(t) /\ \A c \in Call : ~IsMarking(c, t)))

UseIsMarked == \A t \in Tokens \ blurred : UseMarked(t)

GateInv == GateTypes /\ KeyOutlives /\ NoRivals /\ OneTokenAtATime /\ UseIsMarked


-----------------------------------------------------------------------------

\* A request that goes on as it should keeps the types (approval_service.py).
LEMMA VisitGoesOn ==
  ASSUME GateTypes, Tokens \subseteq Tokens', NEW c \in Call, NEW r \in Visit,
         call' = [call EXCEPT ![c] = r], r.pc = "binding" => r.scopes \in Scopes,
         r.pc \in {"storing", "approved", "marking"} => r.token \in Tokens'
  PROVE  call' \in [Call -> Visit] /\ \A d \in Call : HasItsToken(call[d])'
  <1>1. call' \in [Call -> Visit] /\ call'[c] = r /\ \A d \in Call : d # c => call'[d] = call[d]
    BY DEF GateTypes
  <1>. QED BY <1>1 DEF GateTypes, HasItsToken

\* The gate, its tokens and the requests keep their types (approval_service.py).
LEMMA GateTypesInductive == GateTypes /\ [GateNext]_gateVars => GateTypes'
  <1>. SUFFICES ASSUME GateTypes, [GateNext]_gateVars PROVE GateTypes'
    OBVIOUS
  <1>0. /\ UNCHANGED claims => Tokens' = Tokens /\ Signed' = Signed
        /\ UNCHANGED <<claims, call>> =>
              call' \in [Call -> Visit] /\ \A d \in Call : HasItsToken(call[d])'
        /\ \A a : Answers(a) => faults' \in Nat
        /\ NoRequest \in Visit /\ NoRequest.pc = "idle"
        /\ NoGate \in [token : Nat, preview : Nat, after : Nat]
    BY DEF Tokens, Signed, GateTypes, HasItsToken, Answers, NoRequest, Visit, NoGate
  <1>a. Tokens \subseteq Nat /\ call \in [Call -> Visit]
    BY DEF GateTypes
  <1>1. CASE UNCHANGED gateVars
    BY <1>0, <1>1 DEF gateVars, redis, gateHistory, GateTypes
  <1>2. ASSUME NEW a \in Answer, Preview(a) PROVE GateTypes'
    BY <1>0, <1>2 DEF Preview, store, gateHistory, GateTypes
  <1>3. ASSUME NEW a \in Answer, NEW c \in Call, Bind(c, a) PROVE GateTypes'
    <2>. DEFINE t == Signed + 1
                r == [call[c] EXCEPT !.pc = "storing", !.token = t, !.preview = retrieve(a)]
    <2>1. t \in Nat /\ t \notin Tokens /\ Tokens \cup {t} = 1 .. t
      BY DEF GateTypes
    <2>2. Tokens' = 1 .. t
      BY <1>3, <2>1 DEF Bind, Tokens, Signed
    <2>3. Signed' = t
      BY <2>1, <2>2, FS_Interval DEF Signed
    <2>4. claims' \in [Tokens' -> Scopes]
      BY <1>3, <2>1, <2>2 DEF Bind, GateTypes, Signed, HasItsToken
    <2>5. uses' \in [Tokens' -> Nat] /\ rivals' \in [Tokens' -> SUBSET Nat]
      BY <1>3, <2>1, <2>2 DEF Bind, GateTypes, Signed, Visit
    <2>6. r \in Visit /\ r.pc = "storing" /\ r.token = t /\ call' = [call EXCEPT ![c] = r]
      <3>1. call[c] \in Visit /\ retrieve(a) \in Nat
        BY DEF GateTypes, retrieve
      <3>2. r \in Visit /\ r.pc = "storing" /\ r.token = t
        BY <2>1, <3>1 DEF Visit
      <3>. QED BY <1>3, <3>2 DEF Bind, Signed
    <2>7. t \in Tokens' /\ Tokens \subseteq Tokens'
      BY <2>1, <2>2
    <2>. HIDE DEF t, r
    <2>8. call' \in [Call -> Visit] /\ \A d \in Call : HasItsToken(call[d])'
      BY <2>6, <2>7, VisitGoesOn
    <2>9. UNCHANGED <<previews, cached, gate, consumed, dead, ended, keyed, blurred>> /\ faults' \in Nat
      BY <1>0, <1>3 DEF Bind, redis
    <2>. QED BY <2>1, <2>2, <2>3, <2>4, <2>5, <2>7, <2>8, <2>9 DEF GateTypes
  <1>4. ASSUME NEW a \in Answer, NEW c \in Call, Store(c, a) PROVE GateTypes'
    <2>. DEFINE r == [call[c] EXCEPT !.pc = "approved"]
    <2>1. r \in Visit /\ r.pc = "approved" /\ r.token = call[c].token /\ r.token \in Tokens
          /\ call' = [call EXCEPT ![c] = r]
      BY <1>4 DEF Store, Goto, GateTypes, Visit, HasItsToken
    <2>2. UNCHANGED claims
      BY <1>4 DEF Store
    <2>. HIDE DEF r
    <2>3. call' \in [Call -> Visit] /\ \A d \in Call : HasItsToken(call[d])'
      BY <1>0, <2>1, <2>2, VisitGoesOn
    <2>4. gate' \in [token : Nat, preview : Nat, after : Nat] /\ (gate' = NoGate \/ gate'.token \in Tokens)
      BY <1>4, <2>1 DEF Store, store_gate, GateTypes, Visit, Signed
    <2>5. keyed' \subseteq Tokens
      BY <1>4, <2>1 DEF Store, GateTypes
    <2>. QED BY <1>0, <1>4, <2>2, <2>3, <2>4, <2>5 DEF Store, GateTypes
  <1>5. ASSUME NEW a \in Answer, NEW c \in Call, Mark(c, a) PROVE GateTypes'
    <2>1. call[c].token \in Tokens
      BY <1>5 DEF Mark, GateTypes, HasItsToken
    <2>2. call' \in [Call -> Visit] /\ \A d \in Call : HasItsToken(call[d])'
      BY <1>0, <1>5, VisitGoesOn DEF Mark
    <2>3. uses' \in [Tokens -> Nat]
      <3>1. uses[call[c].token] + 1 \in Nat
        BY <2>1 DEF GateTypes
      <3>2. uses \in [Tokens -> Nat]
        BY DEF GateTypes
      <3>. QED BY <1>5, <3>1, <3>2 DEF Mark
    <2>4. consumed' \subseteq Tokens /\ blurred' \subseteq Tokens
      BY <1>5, <2>1 DEF Mark, GateTypes
    <2>. QED BY <1>0, <1>5, <2>2, <2>3, <2>4 DEF Mark, GateTypes
  <1>6. ASSUME NEW a \in Answer, NEW c \in Call, NEW s \in Scopes, Begin(c, s, a) PROVE GateTypes'
    <2>1. PICK r \in Visit : /\ call' = [call EXCEPT ![c] = r]
                             /\ \/ r.pc = "approved" /\ r.token \in Tokens
                                \/ r.pc = "binding" /\ r.scopes = s
      <3>1. CASE get_gate(a) # NoGate
        <4>. DEFINE r == [NoRequest EXCEPT !.pc = "approved", !.scopes = s, !.token = gate.token]
        <4>1. get_gate(a) = gate /\ gate.token \in Tokens /\ gate.token \in Nat
          BY <3>1 DEF get_gate, GateTypes
        <4>2. r \in Visit /\ r.pc = "approved" /\ r.token = gate.token
          BY <4>1 DEF NoRequest, Visit
        <4>3. call' = [call EXCEPT ![c] = r]
          BY <1>6, <3>1, <4>1 DEF Begin
        <4>. QED BY <4>1, <4>2, <4>3
      <3>2. CASE get_gate(a) = NoGate
        <4>1. PICK R \in SUBSET Nat :
                call' = [call EXCEPT ![c] = [NoRequest EXCEPT !.pc = "binding", !.scopes = s, !.rivals = R]]
          <5>1. ended \subseteq Nat
            BY <1>a DEF GateTypes
          <5>2. (IF a = "ok" THEN {t \in ended \cap keyed : Alive(t)} ELSE {}) \in SUBSET Nat
            BY <5>1
          <5>. QED BY <1>6, <3>2, <5>2 DEF Begin
        <4>2. [NoRequest EXCEPT !.pc = "binding", !.scopes = s, !.rivals = R] \in Visit
          BY DEF NoRequest, Visit
        <4>. QED BY <4>1, <4>2 DEF NoRequest
      <3>. QED BY <3>1, <3>2
    <2>2. UNCHANGED <<previews, redis, claims, dead, gateHistory>> /\ faults' \in Nat
      BY <1>0, <1>6 DEF Begin
    <2>3. call' \in [Call -> Visit] /\ \A d \in Call : HasItsToken(call[d])'
      BY <1>0, <2>1, <2>2, VisitGoesOn
    <2>. QED BY <1>0, <2>2, <2>3 DEF redis, gateHistory, GateTypes
  <1>7. ASSUME NEW a \in Answer, NEW c \in Call, NEW t \in Tokens, NEW g \in Gate, Verify(c, t, g, a)
        PROVE GateTypes'
    <2>. DEFINE r == [NoRequest EXCEPT !.pc = "marking", !.token = t]
    <2>1. r \in Visit /\ r.pc = "marking" /\ r.token = t /\ call' = [call EXCEPT ![c] = r]
      BY <1>7, <1>a DEF Verify, NoRequest, Visit
    <2>2. UNCHANGED <<previews, redis, claims, dead, ended, keyed, rivals, uses>> /\ faults' \in Nat
          /\ blurred' \subseteq Tokens
      BY <1>0, <1>7 DEF Verify, GateTypes
    <2>. HIDE DEF r
    <2>3. call' \in [Call -> Visit] /\ \A d \in Call : HasItsToken(call[d])'
      BY <1>0, <2>1, <2>2, VisitGoesOn
    <2>. QED BY <1>0, <2>2, <2>3 DEF redis, GateTypes
  <1>8. ASSUME NEW c \in Call, Execute(c) PROVE GateTypes'
    <2>1. call[c].token \in Tokens
      BY <1>8 DEF Execute, GateTypes, HasItsToken
    <2>2. call' \in [Call -> Visit] /\ \A d \in Call : HasItsToken(call[d])'
      BY <1>0, <1>8, VisitGoesOn DEF Execute
    <2>. QED BY <1>0, <1>8, <2>1, <2>2 DEF Execute, redis, GateTypes
  <1>9. CASE Expire \/ DropGate \/ DropMark \/ DropPreview
    <2>1. UNCHANGED <<previews, claims, call, gateHistory, faults>> /\ dead' \in Nat /\ cached' \in Nat
          /\ gate' \in {gate, NoGate} /\ consumed' \subseteq consumed
      BY <1>9 DEF Expire, DropGate, DropMark, DropPreview, redis, GateTypes
    <2>. QED BY <1>0, <2>1 DEF gateHistory, GateTypes
  <1>. QED BY <1>1, <1>2, <1>3, <1>4, <1>5, <1>6, <1>7, <1>8, <1>9 DEF GateNext

\* The key of an approval outlives its token: whatever is stored later is kept
\* for longer (GateStore.store_gate sets it for the lifetime of a token).
LEMMA KeyInductive == GateTypes /\ KeyOutlives /\ [GateNext]_gateVars => KeyOutlives'
  <1>. SUFFICES ASSUME GateTypes, KeyOutlives, [GateNext]_gateVars PROVE KeyOutlives'
    OBVIOUS
  <1>1. dead \in Nat /\ keyed \subseteq Nat /\ Signed \in Nat /\ gate.after \in Nat
    BY DEF GateTypes
  <1>2. CASE UNCHANGED <<gate, keyed>> /\ dead' >= dead /\ dead' \in Nat
    BY <1>1, <1>2 DEF KeyOutlives, Alive
  <1>3. ASSUME NEW a \in Answer, NEW c \in Call, Store(c, a) PROVE KeyOutlives'
    <2>1. call[c].token \in Tokens /\ \A t \in Tokens : t \in Nat /\ t <= Signed /\ t # 0
      BY <1>3 DEF Store, GateTypes, HasItsToken
    <2>2. CASE a = "error"
      BY <1>1, <1>3, <2>2 DEF Store, store_gate, TakesEffect, KeyOutlives, Alive
    <2>3. CASE a # "error"
      <3>1. gate' = [token |-> call[c].token, preview |-> call[c].preview, after |-> Signed]
        BY <1>3, <2>3 DEF Store, store_gate, TakesEffect, Signed
      <3>2. gate' # NoGate
        BY <2>1, <3>1 DEF NoGate
      <3>3. keyed' \subseteq Tokens
        BY <1>3, <2>1 DEF Store, GateTypes
      <3>. QED BY <2>1, <3>1, <3>2, <3>3 DEF KeyOutlives
    <2>. QED BY <2>2, <2>3
  <1>4. CASE DropGate
    BY <1>1, <1>4 DEF DropGate, gateHistory, KeyOutlives, Alive
  <1>5. CASE Expire
    BY <1>1, <1>2, <1>5 DEF Expire, redis, gateHistory
  <1>6. CASE UNCHANGED <<gate, keyed, dead>>
    BY <1>1, <1>2, <1>6
  <1>. QED BY <1>3, <1>4, <1>5, <1>6 DEF GateNext, Preview, Bind, Mark, Begin, Verify, Execute,
           DropMark, DropPreview, gateVars, redis, gateHistory

\* No approval begins beside a living token of another one that has ended: the
\* key of the gate answers it (ApprovalService.approve).
LEMMA RivalsInductive ==
  GateTypes /\ KeyOutlives /\ NoRivals /\ OneTokenAtATime /\ [GateNext]_gateVars
  => NoRivals' /\ OneTokenAtATime'
  <1>. SUFFICES ASSUME GateTypes, KeyOutlives, NoRivals, OneTokenAtATime, [GateNext]_gateVars
                PROVE  NoRivals' /\ OneTokenAtATime'
    OBVIOUS
  <1>1. call \in [Call -> Visit] /\ NoRequest.rivals = {}
    BY DEF GateTypes, NoRequest
  <1>2. ASSUME NEW c \in Call, NEW r, r.rivals = {}, call' = [call EXCEPT ![c] = r] PROVE NoRivals'
    BY <1>1, <1>2 DEF NoRivals
  <1>3. ASSUME UNCHANGED <<claims, rivals>> PROVE OneTokenAtATime'
    BY <1>3 DEF OneTokenAtATime, Tokens
  <1>4. ASSUME NEW a \in Answer, NEW c \in Call, NEW s \in Scopes, Begin(c, s, a)
        PROVE  NoRivals' /\ OneTokenAtATime'
    <2>1. UNCHANGED <<claims, rivals>>
      BY <1>4 DEF Begin, gateHistory
    <2>2. CASE get_gate(a) # NoGate
      <3>1. [NoRequest EXCEPT !.pc = "approved", !.scopes = s, !.token = get_gate(a).token].rivals = {}
        BY DEF NoRequest
      <3>. QED BY <1>2, <1>3, <1>4, <2>1, <2>2, <3>1 DEF Begin
    <2>3. CASE get_gate(a) = NoGate
      <3>. DEFINE R == IF a = "ok" THEN {t \in ended \cap keyed : Alive(t)} ELSE {}
                  r == [NoRequest EXCEPT !.pc = "binding", !.scopes = s, !.rivals = R]
      <3>1. R = {}
        BY <2>3 DEF get_gate, KeyOutlives
      <3>2. r.rivals = R
        BY DEF NoRequest
      <3>3. call' = [call EXCEPT ![c] = r]
        BY <1>4, <2>3 DEF Begin
      <3>. HIDE DEF r, R
      <3>. QED BY <1>2, <1>3, <2>1, <3>1, <3>2, <3>3
    <2>. QED BY <2>2, <2>3
  <1>5. ASSUME NEW a \in Answer, NEW c \in Call, Bind(c, a) PROVE NoRivals' /\ OneTokenAtATime'
    <2>1. call[c] \in Visit /\ call[c].rivals = {}
      BY <1>1 DEF NoRivals
    <2>2. rivals' = [u \in Tokens \cup {Signed + 1} |-> IF u = Signed + 1 THEN {} ELSE rivals[u]]
          /\ Tokens' = Tokens \cup {Signed + 1}
      BY <1>5, <2>1 DEF Bind, Signed, Tokens
    <2>3. OneTokenAtATime'
      BY <2>2 DEF OneTokenAtATime
    <2>4. [call[c] EXCEPT !.pc = "storing", !.token = Signed + 1, !.preview = retrieve(a)].rivals = {}
      BY <2>1 DEF Visit
    <2>5. NoRivals'
      BY <1>2, <1>5, <2>4 DEF Bind, Signed
    <2>. QED BY <2>3, <2>5
  <1>6. ASSUME NEW a \in Answer, NEW c \in Call, Store(c, a) PROVE NoRivals' /\ OneTokenAtATime'
    <2>1. call[c] \in Visit /\ call[c].rivals = {}
      BY <1>1 DEF NoRivals
    <2>2. [call[c] EXCEPT !.pc = "approved"].rivals = {}
      BY <2>1 DEF Visit
    <2>. QED BY <1>2, <1>3, <1>6, <2>2 DEF Store, Goto
  <1>7. ASSUME NEW c \in Call, Execute(c) \/ \E a \in Answer : Mark(c, a)
        PROVE  NoRivals' /\ OneTokenAtATime'
    BY <1>1, <1>2, <1>3, <1>7 DEF Execute, Mark
  <1>8. ASSUME NEW a \in Answer, NEW c \in Call, NEW t \in Tokens, NEW g \in Gate, Verify(c, t, g, a)
        PROVE  NoRivals' /\ OneTokenAtATime'
    <2>1. [NoRequest EXCEPT !.pc = "marking", !.token = t].rivals = {}
      BY DEF NoRequest
    <2>. QED BY <1>2, <1>3, <1>8, <2>1 DEF Verify
  <1>9. CASE UNCHANGED <<claims, rivals, call>>
    BY <1>3, <1>9 DEF NoRivals
  <1>. QED BY <1>4, <1>5, <1>6, <1>7, <1>8, <1>9 DEF GateNext, Preview, Expire, DropGate, DropMark,
           DropPreview, gateVars, redis, gateHistory

\* A token that was accepted stays marked as long as somebody could have it
\* accepted again (ApprovalService.validate_token, GateStore.mark_consumed).
LEMMA UseInductive == GateTypes /\ UseIsMarked /\ [GateNext]_gateVars => UseIsMarked'
  <1>. SUFFICES ASSUME GateTypes, UseIsMarked, [GateNext]_gateVars,
                       NEW t \in Tokens' \ blurred'
                PROVE  UseMarked(t)'
    BY DEF UseIsMarked
  <1>1. call \in [Call -> Visit] /\ dead \in Nat /\ Tokens \subseteq Nat /\ uses \in [Tokens -> Nat]
    BY DEF GateTypes
  <1>2. ASSUME t \in Tokens \ blurred, uses'[t] = uses[t], t \in consumed => t \in consumed',
               dead' \in Nat, dead' >= dead,
               \A c \in Call : IsMarking(c, t)' => IsMarking(c, t) \/ Alive(t)
        PROVE  UseMarked(t)'
    BY <1>1, <1>2 DEF UseIsMarked, UseMarked, Alive
  <1>3. ASSUME NEW c \in Call, NEW r, r.pc # "marking" \/ r.token # t \/ Alive(t),
               call' = [call EXCEPT ![c] = r]
        PROVE  \A d \in Call : IsMarking(d, t)' => IsMarking(d, t) \/ Alive(t)
    BY <1>1, <1>3 DEF IsMarking
  <1>4. ASSUME NEW a \in Answer, NEW c \in Call, Bind(c, a) PROVE UseMarked(t)'
    <2>1. uses' = [u \in Tokens \cup {Signed + 1} |-> IF u = Signed + 1 THEN 0 ELSE uses[u]]
          /\ Tokens' = Tokens \cup {Signed + 1} /\ UNCHANGED <<consumed, dead, blurred>>
      BY <1>4 DEF Bind, Signed, Tokens, redis
    <2>2. CASE t = Signed + 1
      BY <2>1, <2>2 DEF UseMarked
    <2>3. CASE t # Signed + 1
      <3>1. t \in Tokens \ blurred /\ uses'[t] = uses[t]
        BY <2>1, <2>3
      <3>2. [call[c] EXCEPT !.pc = "storing", !.token = Signed + 1, !.preview = retrieve(a)].pc # "marking"
        BY <1>1 DEF Visit
      <3>3. \A d \in Call : IsMarking(d, t)' => IsMarking(d, t) \/ Alive(t)
        BY <1>3, <1>4, <3>2 DEF Bind, Signed
      <3>. QED BY <1>1, <1>2, <2>1, <3>1, <3>3
    <2>. QED BY <2>2, <2>3
  <1>5. ASSUME UNCHANGED claims PROVE t \in Tokens
    BY <1>5 DEF Tokens
  <1>6. ASSUME NEW c \in Call, NEW r, r.pc # "marking", call' = [call EXCEPT ![c] = r],
               UNCHANGED <<claims, uses, consumed, dead, blurred>>
        PROVE  UseMarked(t)'
    <2>1. \A d \in Call : IsMarking(d, t)' => IsMarking(d, t) \/ Alive(t)
      BY <1>3, <1>6
    <2>2. t \in Tokens \ blurred /\ uses'[t] = uses[t] /\ dead' \in Nat /\ dead' >= dead
      BY <1>1, <1>5, <1>6
    <2>. QED BY <1>2, <1>6, <2>1, <2>2
  <1>7. ASSUME NEW a \in Answer, NEW c \in Call, Store(c, a) PROVE UseMarked(t)'
    <2>1. [call[c] EXCEPT !.pc = "approved"].pc # "marking"
      BY <1>1 DEF Visit
    <2>. QED BY <1>6, <1>7, <2>1 DEF Store, Goto
  <1>8. ASSUME NEW a \in Answer, NEW c \in Call, NEW s \in Scopes, Begin(c, s, a) PROVE UseMarked(t)'
    <2>. DEFINE R == IF a = "ok" THEN {u \in ended \cap keyed : Alive(u)} ELSE {}
    <2>1. /\ [NoRequest EXCEPT !.pc = "approved", !.scopes = s, !.token = get_gate(a).token].pc # "marking"
          /\ [NoRequest EXCEPT !.pc = "binding", !.scopes = s, !.rivals = R].pc # "marking"
      BY DEF NoRequest
    <2>. QED BY <1>6, <1>8, <2>1 DEF Begin, redis, gateHistory
  <1>9. ASSUME NEW c \in Call, Execute(c) PROVE UseMarked(t)'
    <2>1. NoRequest.pc # "marking"
      BY DEF NoRequest
    <2>. QED BY <1>6, <1>9, <2>1 DEF Execute, redis
  <1>10. ASSUME NEW a \in Answer, NEW c \in Call, NEW u \in Tokens, NEW g \in Gate, Verify(c, u, g, a)
         PROVE  UseMarked(t)'
    <2>. DEFINE r == [NoRequest EXCEPT !.pc = "marking", !.token = u]
    <2>1. r.token = u /\ Alive(u) /\ call' = [call EXCEPT ![c] = r]
      BY <1>10 DEF Verify, verify, NoRequest
    <2>2. t \in Tokens \ blurred /\ UNCHANGED <<uses, consumed, dead>>
      BY <1>5, <1>10 DEF Verify, redis
    <2>. HIDE DEF r
    <2>3. \A d \in Call : IsMarking(d, t)' => IsMarking(d, t) \/ Alive(t)
      BY <1>3, <2>1
    <2>. QED BY <1>1, <1>2, <2>2, <2>3
  <1>11. ASSUME NEW a \in Answer, NEW c \in Call, Mark(c, a) PROVE UseMarked(t)'
    <2>1. t \in Tokens \ blurred /\ dead' = dead /\ call[c].pc = "marking"
      BY <1>5, <1>11 DEF Mark
    <2>2. NoRequest.pc # "marking"
      BY DEF NoRequest
    <2>3. \A d \in Call : IsMarking(d, t)' => IsMarking(d, t) \/ Alive(t)
      BY <1>3, <1>11, <2>2 DEF Mark
    <2>4. CASE call[c].token # t
      <3>1. uses'[t] = uses[t] /\ consumed \subseteq consumed'
        BY <1>1, <1>11, <2>1, <2>4 DEF Mark
      <3>. QED BY <1>1, <1>2, <2>1, <2>3, <3>1
    <2>5. CASE call[c].token = t
      <3>1. a = "ok" /\ t \in consumed'
        BY <1>11, <2>5 DEF Mark, TakesEffect
      <3>2. uses[t] = 0 \/ (uses[t] = 1 /\ t \in consumed)
        BY <2>1, <2>5 DEF UseIsMarked, UseMarked, IsMarking
      <3>3. uses' = IF t \notin consumed THEN [uses EXCEPT ![t] = @ + 1] ELSE uses
        BY <1>11, <2>5, <3>1 DEF Mark, mark_consumed
      <3>4. uses'[t] \in {0, 1}
        BY <1>1, <2>1, <3>2, <3>3
      <3>. QED BY <3>1, <3>4 DEF UseMarked
    <2>. QED BY <2>4, <2>5
  <1>12. CASE DropMark
    <2>1. PICK u \in consumed : /\ ~Alive(u) /\ \A c \in Call : ~IsMarking(c, u)
                                /\ consumed' = consumed \ {u}
      BY <1>12 DEF DropMark, IsMarking
    <2>2. t \in Tokens \ blurred /\ UNCHANGED <<uses, dead, call>>
      BY <1>5, <1>12 DEF DropMark, gateHistory
    <2>. QED BY <2>1, <2>2 DEF UseIsMarked, UseMarked, Alive, IsMarking
  <1>13. CASE UNCHANGED <<claims, uses, consumed, blurred, call>> /\ dead' \in Nat /\ dead' >= dead
    BY <1>1, <1>2, <1>5, <1>13 DEF IsMarking
  <1>14. CASE Expire
    BY <1>1, <1>13, <1>14 DEF Expire, redis, gateHistory
  <1>15. CASE UNCHANGED <<claims, uses, consumed, blurred, call, dead>>
    BY <1>1, <1>13, <1>15
  <1>. QED BY <1>4, <1>7, <1>8, <1>9, <1>10, <1>11, <1>12, <1>14, <1>15 DEF GateNext, Preview, DropGate,
           DropPreview, gateVars, redis, gateHistory

\* The inductive invariant of ApprovalGate (approval_service.py, gate_store.py).
THEOREM GateInvariance == GateSpec => []GateInv
  <1>1. GateInit => GateInv
    <2>. SUFFICES ASSUME GateInit PROVE GateInv
      OBVIOUS
    <2>1. Tokens = {} /\ Signed = 0
      BY FS_EmptySet DEF GateInit, Tokens, Signed
    <2>2. NoRequest \in Visit /\ NoRequest.pc = "idle" /\ NoRequest.rivals = {}
      BY DEF NoRequest, Visit
    <2>3. NoGate \in [token : Nat, preview : Nat, after : Nat]
      BY DEF NoGate
    <2>4. GateTypes
      BY <2>1, <2>2, <2>3 DEF GateInit, GateTypes, HasItsToken, Tokens
    <2>. QED BY <2>1, <2>2, <2>4 DEF GateInit, GateInv, KeyOutlives, NoRivals, OneTokenAtATime, UseIsMarked
  <1>2. GateInv /\ [GateNext]_gateVars => GateInv'
    BY GateTypesInductive, KeyInductive, RivalsInductive, UseInductive DEF GateInv
  <1>. QED BY <1>1, <1>2, PTL DEF GateSpec

\* validate_token accepts a token once, however many callers race, unless a
\* Redis command for it got no answer (ApprovalService.validate_token).
THEOREM TokensAreUsedOnce == GateSpec => []SingleUse
  <1>1. GateInv => SingleUse
    BY DEF GateInv, GateTypes, UseIsMarked, UseMarked, SingleUse
  <1>. QED BY <1>1, GateInvariance, PTL

\* A second token is signed only by an approval that overlaps the first, after
\* the first one's death or when Redis failed (ApprovalService.approve).
THEOREM OneTokenIsSigned == GateSpec => []OneTokenAtATime
  <1>1. GateInv => OneTokenAtATime
    BY DEF GateInv
  <1>. QED BY <1>1, GateInvariance, PTL

-----------------------------------------------------------------------------
(* Planning *)

State == {"CLOSED", "OPEN", "HALF_OPEN"}
Circuit == [state : State, failures : Nat, successes : Nat, recent : BOOLEAN]
Skeleton == [number : Nat, fresh : BOOLEAN]
Work ==
    UNION {[at : {"idle"} \cup LLM \cup {"library"}], [at : {"gather", "catalog"}, intent : Intent],
           [at : {"llm"}, llm : LLM, era : State, job : {"plan"}],
           [at : {"llm"}, llm : LLM, era : State, job : {"skeleton"}, intent : Intent]}

PlanningTypes ==
    /\ breaker \in [LLM -> Circuit] /\ streak \in [LLM -> Nat] /\ calls \in Nat
    /\ skeletons \in [Intent -> SUBSET Skeleton]
    /\ offered \in Seq([intent : Intent, plans : Nat])
    /\ work \in [Planner -> Work]

\* A circuit that has failed n times in a row: closed it has counted them, and
\* half open its timeout is over.
CircuitFits(k, n) ==
    /\ k.state = "CLOSED" => n <= k.failures /\ k.failures < FailureThreshold
    /\ k.state = "HALF_OPEN" => ~k.recent

CircuitsFit == \A b \in LLM : CircuitFits(breaker[b], streak[b])

\* The skeleton that is kept is the last one of its intent, and no plan was
\* made of it.
SkeletonIsLast ==
    \A i \in Intent : \A s \in skeletons[i] :
        /\ s.number \in DOMAIN offered /\ offered[s.number].intent = i /\ offered[s.number].plans = 0
        /\ \A n \in DOMAIN offered : n > s.number => offered[n].intent # i

PlanningInv == PlanningTypes /\ CircuitsFit /\ SkeletonIsLast

-----------------------------------------------------------------------------
\* What a failure and a success make of a circuit (circuit_breaker.py).
LEMMA CircuitMoves ==
  ASSUME NEW k \in Circuit, NEW n \in Nat, NEW era
  PROVE  /\ _on_failure(k) \in Circuit /\ _on_success(k, era) \in Circuit
         /\ CircuitFits(k, n) => /\ CircuitFits(_on_failure(k), n + 1)
                                 /\ CircuitFits(_on_success(k, era), 0)
  <1>0. k.state \in State /\ k.failures + 1 \in Nat /\ k.successes + 1 \in Nat
        /\ "OPEN" \in State /\ "CLOSED" \in State /\ 0 \in Nat /\ FailureThreshold \in Nat
    BY PlanningParameters DEF Circuit, State
  <1>1. _on_failure(k) \in Circuit
    <2>1. ASSUME NEW s \in State, NEW f \in Nat
          PROVE  [k EXCEPT !.state = s, !.failures = f, !.recent = TRUE] \in Circuit
      BY Zenon DEF Circuit
    <2>2. (IF k.failures + 1 >= FailureThreshold THEN "OPEN" ELSE k.state) \in State
      BY <1>0
    <2>. QED BY <1>0, <2>1, <2>2, Zenon DEF _on_failure
  <1>2. _on_success(k, era) \in Circuit
    <2>1. ASSUME NEW s \in State, NEW f \in Nat, NEW g \in Nat
          PROVE  /\ [k EXCEPT !.failures = f] \in Circuit
                 /\ [k EXCEPT !.successes = g] \in Circuit
                 /\ [k EXCEPT !.state = s, !.failures = f, !.successes = g] \in Circuit
      BY Zenon DEF Circuit
    <2>. QED BY <1>0, <2>1, Zenon DEF _on_success
  <1>3. CircuitFits(k, n) => CircuitFits(_on_failure(k), n + 1)
    BY PlanningParameters DEF Circuit, State, _on_failure, CircuitFits
  <1>4. CircuitFits(k, n) => CircuitFits(_on_success(k, era), 0)
    BY PlanningParameters DEF Circuit, State, _on_success, CircuitFits
  <1>. QED BY <1>1, <1>2, <1>3, <1>4

\* A call that completes (CircuitBreaker.call).
LEMMA Completion ==
  ASSUME PlanningTypes, CircuitsFit, NEW b \in LLM, NEW success \in BOOLEAN, NEW era,
         Completes(b, success, era)
  PROVE  breaker' \in [LLM -> Circuit] /\ streak' \in [LLM -> Nat] /\ CircuitsFit'
  <1>. DEFINE k == IF success THEN _on_success(breaker[b], era) ELSE _on_failure(breaker[b])
              n == IF success THEN 0 ELSE streak[b] + 1
  <1>1. breaker[b] \in Circuit /\ streak[b] \in Nat /\ CircuitFits(breaker[b], streak[b])
    BY DEF PlanningTypes, CircuitsFit
  <1>2. k \in Circuit /\ n \in Nat /\ CircuitFits(k, n)
    BY <1>1, CircuitMoves
  <1>3. breaker' = [breaker EXCEPT ![b] = k] /\ streak' = [streak EXCEPT ![b] = n]
    BY DEF Completes
  <1>. HIDE DEF k, n
  <1>. QED BY <1>2, <1>3 DEF PlanningTypes, CircuitsFit

\* A call that begins, or does not (CircuitBreaker.call).
LEMMA CallTypes ==
  ASSUME PlanningTypes, CircuitsFit, NEW b \in LLM, NEW c \in Planner, NEW r \in Work,
         NEW otherwise \in Work, Calls(c, b, r, otherwise)
  PROVE  /\ breaker' \in [LLM -> Circuit] /\ calls' \in Nat /\ work' \in [Planner -> Work]
         /\ \A d \in LLM : CircuitFits(breaker'[d], streak[d])
         /\ work'[c] = otherwise \/ (work'[c] = r /\ ~Shut(b))
         /\ \A d \in Planner : d # c => work'[d] = work[d]
  <1>1. breaker' \in {breaker, Admits(b)} /\ (breaker' = breaker \/ ~Shut(b))
    BY DEF Calls
  <1>2. Admits(b) \in [LLM -> Circuit] /\ (~Shut(b) => \A d \in LLM : CircuitFits(Admits(b)[d], streak[d]))
    <2>1. CASE breaker[b].state # "OPEN"
      BY <2>1 DEF Admits, PlanningTypes, CircuitsFit
    <2>2. CASE breaker[b].state = "OPEN"
      <3>. DEFINE k == [breaker[b] EXCEPT !.state = "HALF_OPEN", !.successes = 0]
      <3>1. breaker[b] \in Circuit
        BY DEF PlanningTypes
      <3>2. k \in Circuit
        BY <3>1 DEF Circuit, State
      <3>3. ~Shut(b) => CircuitFits(k, streak[b])
        BY <2>2, <3>1 DEF Shut, CircuitFits, Circuit
      <3>4. Admits(b) = [breaker EXCEPT ![b] = k]
        BY <2>2, <3>1 DEF Admits, PlanningTypes, Circuit
      <3>. HIDE DEF k
      <3>. QED BY <3>2, <3>3, <3>4 DEF PlanningTypes, CircuitsFit
    <2>. QED BY <2>1, <2>2
  <1>3. calls' \in Nat
    BY DEF Calls, PlanningTypes
  <1>4. work' \in [Planner -> Work] /\ (work'[c] = otherwise \/ (work'[c] = r /\ ~Shut(b)))
        /\ \A d \in Planner : d # c => work'[d] = work[d]
    BY DEF Calls, Becomes, PlanningTypes
  <1>. QED BY <1>1, <1>2, <1>3, <1>4 DEF PlanningTypes, CircuitsFit

\* A request that goes on to r.
LEMMA WorkMoves ==
  ASSUME PlanningTypes, NEW c \in Planner, NEW r \in Work, Becomes(c, r)
  PROVE  /\ work' \in [Planner -> Work] /\ work'[c] = r
         /\ \A d \in Planner : d # c => work'[d] = work[d]
  BY DEF PlanningTypes, Becomes

\* Where a request may go, and what it knows where it is.
LEMMA WorkKinds ==
  /\ NoWork \in Work /\ NoWork.at = "idle"
  /\ \A b \in LLM : NextSource(b) \in Work /\ NextSource(b).at # "llm"
  /\ \A i \in Intent, w \in {"gather", "catalog"} : [at |-> w, intent |-> i] \in Work
  /\ \A w \in LLM \cup {"library"} : [at |-> w] \in Work
  /\ \A r \in Work : r.at \in {"gather", "catalog"} => r.intent \in Intent
  /\ \A r \in Work : r.at = "llm" => r.llm \in LLM /\ (r.job = "skeleton" => r.intent \in Intent)
  BY DEF Work, NoWork, NextSource, LLM

\* The calls of an LLM that begin (PlannerService._try_llm_level,
\* get_required_entities).
LEMMA CallRecords ==
  ASSUME PlanningTypes, NEW b \in LLM
  PROVE  /\ [at |-> "llm", llm |-> b, era |-> Era(b), job |-> "plan"] \in Work
         /\ \A i \in Intent :
               [at |-> "llm", llm |-> b, era |-> Era(b), job |-> "skeleton", intent |-> i] \in Work
  <1>1. Era(b) \in State
    BY DEF PlanningTypes, Era, Admits, Circuit, State
  <1>. QED BY <1>1 DEF Work

\* Requests that share the breakers keep their types, and a circuit its count.
LEMMA BreakersInductive ==
  PlanningTypes /\ CircuitsFit /\ [PlanningNext]_planningVars
  => /\ breaker' \in [LLM -> Circuit] /\ streak' \in [LLM -> Nat] /\ calls' \in Nat
     /\ work' \in [Planner -> Work] /\ CircuitsFit'
  <1>. DEFINE Goal == /\ breaker' \in [LLM -> Circuit] /\ streak' \in [LLM -> Nat] /\ calls' \in Nat
                      /\ work' \in [Planner -> Work] /\ CircuitsFit'
  <1>. SUFFICES ASSUME PlanningTypes, CircuitsFit, [PlanningNext]_planningVars PROVE Goal
    OBVIOUS
  <1>1. UNCHANGED <<breaker, streak, calls>> /\ work' \in [Planner -> Work] => Goal
    BY DEF PlanningTypes, CircuitsFit
  <1>2. ASSUME NEW b \in LLM, TimeoutElapses(b) PROVE Goal
    <2>. DEFINE k == [breaker[b] EXCEPT !.recent = FALSE]
    <2>1. breaker[b] \in Circuit /\ CircuitFits(breaker[b], streak[b])
      BY DEF PlanningTypes, CircuitsFit
    <2>2. k \in Circuit
      BY <2>1, Zenon DEF Circuit
    <2>3. CircuitFits(k, streak[b])
      BY <2>1 DEF CircuitFits, Circuit
    <2>4. breaker' = [breaker EXCEPT ![b] = k] /\ UNCHANGED <<streak, calls, work>>
      BY <1>2 DEF TimeoutElapses
    <2>. HIDE DEF k
    <2>. QED BY <2>2, <2>3, <2>4 DEF PlanningTypes, CircuitsFit
  <1>3. ASSUME NEW c \in Planner, NEW i \in Intent, build_skeleton(c, i) PROVE Goal
    <2>. DEFINE r == [at |-> "llm", llm |-> "primary", era |-> Era("primary"),
                      job |-> "skeleton", intent |-> i]
                o == [at |-> "catalog", intent |-> i]
    <2>1. r \in Work /\ o \in Work /\ "primary" \in LLM
      BY CallRecords, WorkKinds DEF LLM
    <2>2. Calls(c, "primary", r, o) /\ streak' = streak
      BY <1>3 DEF build_skeleton
    <2>. HIDE DEF r, o
    <2>. QED BY <2>1, <2>2, CallTypes DEF CircuitsFit, PlanningTypes
  <1>4. ASSUME NEW c \in Planner, NEW b \in LLM, AskForPlan(c, b) PROVE Goal
    <2>. DEFINE r == [at |-> "llm", llm |-> b, era |-> Era(b), job |-> "plan"]
    <2>1. r \in Work /\ NextSource(b) \in Work
      BY CallRecords, WorkKinds
    <2>2. Calls(c, b, r, NextSource(b)) /\ streak' = streak
      BY <1>4 DEF AskForPlan
    <2>. HIDE DEF r
    <2>. QED BY <2>1, <2>2, CallTypes DEF CircuitsFit, PlanningTypes
  <1>5. ASSUME NEW c \in Planner, get_required_entities(c) PROVE Goal
    <2>1. work[c].at = "llm" /\ work[c].job = "skeleton" /\ work[c] \in Work /\ calls' = calls
      BY <1>5 DEF get_required_entities, Is, PlanningTypes
    <2>2. \E success \in BOOLEAN : Completes("primary", success, work[c].era)
      BY <1>5 DEF get_required_entities
    <2>3. work[c].intent \in Intent
      BY <2>1, WorkKinds
    <2>4. \E r \in Work : Becomes(c, r)
      BY <1>5, <2>3, WorkKinds DEF get_required_entities, Finishes
    <2>. QED BY <2>1, <2>2, <2>4, WorkMoves, Completion DEF LLM, PlanningTypes
  <1>6. ASSUME NEW c \in Planner, _try_llm_level(c) PROVE Goal
    <2>1. work[c].llm \in LLM /\ calls' = calls
      BY <1>6, WorkKinds DEF _try_llm_level, Is, PlanningTypes
    <2>2. \E success \in BOOLEAN : Completes(work[c].llm, success, work[c].era)
      BY <1>6 DEF _try_llm_level
    <2>3. \E r \in Work : Becomes(c, r)
      BY <1>6, <2>1, WorkKinds DEF _try_llm_level, Finishes
    <2>. QED BY <2>1, <2>2, <2>3, WorkMoves, Completion DEF PlanningTypes
  <1>7. ASSUME NEW c \in Planner,
               \/ \E i \in Intent : generate_plan(c, i)
               \/ ResolveTools(c) \/ FromSkeleton(c) \/ ToFallbacks(c) \/ ToolNotConnected(c)
               \/ _try_template_level(c)
        PROVE  Goal
    <2>1. UNCHANGED <<breaker, streak, calls>>
      BY <1>7 DEF generate_plan, ResolveTools, FromSkeleton, ToFallbacks, ToolNotConnected, _try_template_level
    <2>2. \E r \in Work : Becomes(c, r)
      BY <1>7, WorkKinds DEF generate_plan, ResolveTools, FromSkeleton, ToFallbacks, ToolNotConnected,
           _try_template_level, Finishes, LLM
    <2>. QED BY <1>1, <2>1, <2>2, WorkMoves
  <1>8. CASE UNCHANGED <<breaker, streak, calls, work>>
    BY <1>1, <1>8 DEF PlanningTypes
  <1>. HIDE DEF Goal
  <1>. QED BY <1>2, <1>3, <1>4, <1>5, <1>6, <1>7, <1>8 DEF PlanningNext, SkeletonAges, planningVars

\* What a step may do to the plans of a skeleton that was shown.
ShapesOnePlan ==
    \A n \in DOMAIN offered : offered'[n].plans # offered[n].plans =>
          /\ offered[n].plans = 0
          /\ \A later \in DOMAIN offered : later > n => offered[later].intent # offered[n].intent
          /\ [number |-> n, fresh |-> TRUE] \in skeletons[offered[n].intent]

SkeletonTypes ==
    skeletons \in [Intent -> SUBSET Skeleton] /\ offered \in Seq([intent : Intent, plans : Nat])

\* A skeleton that is shown takes the place of the one of its intent
\* (PlannerService.build_skeleton).
LEMMA SkeletonStored ==
  ASSUME SkeletonTypes, SkeletonIsLast, NEW i \in Intent, StoreSkeleton(i)
  PROVE  SkeletonTypes' /\ SkeletonIsLast' /\ ShapesOnePlan
  <1>. DEFINE x == [intent |-> i, plans |-> 0]
              s == [number |-> Len(offered) + 1, fresh |-> TRUE]
  <1>1. x \in [intent : Intent, plans : Nat] /\ x.intent = i /\ x.plans = 0 /\ s.number = Len(offered) + 1
    OBVIOUS
  <1>2. s \in Skeleton
    <2>1. Len(offered) + 1 \in Nat
      BY DEF SkeletonTypes
    <2>. QED BY <2>1, Zenon DEF Skeleton
  <1>3. offered' = Append(offered, x) /\ skeletons' = [skeletons EXCEPT ![i] = {s}]
    BY DEF StoreSkeleton
  <1>. HIDE DEF x, s
  <1>4. SkeletonTypes'
    BY <1>1, <1>2, <1>3 DEF SkeletonTypes
  <1>5. /\ DOMAIN offered' = 1 .. Len(offered) + 1 /\ DOMAIN offered = 1 .. Len(offered) /\ Len(offered) \in Nat
        /\ offered'[Len(offered) + 1] = x /\ \A n \in 1 .. Len(offered) : offered'[n] = offered[n]
    BY <1>1, <1>3 DEF SkeletonTypes
  <1>6. SkeletonIsLast'
    <2>. SUFFICES ASSUME NEW j \in Intent, NEW u \in skeletons'[j]
                  PROVE  /\ u.number \in DOMAIN offered' /\ offered'[u.number].intent = j
                         /\ offered'[u.number].plans = 0
                         /\ \A n \in DOMAIN offered' : n > u.number => offered'[n].intent # j
      BY DEF SkeletonIsLast
    <2>1. CASE j = i
      <3>1. u = s
        BY <1>3, <2>1 DEF SkeletonTypes
      <3>. QED BY <1>1, <1>5, <2>1, <3>1
    <2>2. CASE j # i
      <3>1. u \in skeletons[j]
        BY <1>3, <2>2 DEF SkeletonTypes
      <3>. QED BY <1>1, <1>5, <2>2, <3>1 DEF SkeletonIsLast
    <2>. QED BY <2>1, <2>2
  <1>. QED BY <1>4, <1>5, <1>6 DEF ShapesOnePlan

\* A plan is made of a skeleton, which is gone (PlannerService.generate_plan).
LEMMA SkeletonUsed ==
  ASSUME SkeletonTypes, SkeletonIsLast, NEW i \in Intent, NEW s \in skeletons[i], s.fresh,
         PopSkeleton(i), offered' = [offered EXCEPT ![s.number].plans = @ + 1]
  PROVE  SkeletonTypes' /\ SkeletonIsLast' /\ ShapesOnePlan
  <1>1. /\ s.number \in DOMAIN offered /\ offered[s.number].intent = i /\ offered[s.number].plans = 0
        /\ \A n \in DOMAIN offered : n > s.number => offered[n].intent # i
    BY DEF SkeletonIsLast
  <1>2. s = [number |-> s.number, fresh |-> TRUE]
    <2>1. s \in Skeleton
      BY DEF SkeletonTypes
    <2>. QED BY <2>1, Zenon DEF Skeleton
  <1>3. skeletons' = [skeletons EXCEPT ![i] = {}]
    BY DEF PopSkeleton
  <1>4. /\ offered' \in Seq([intent : Intent, plans : Nat]) /\ DOMAIN offered' = DOMAIN offered
        /\ \A n \in DOMAIN offered : offered'[n].intent = offered[n].intent
        /\ \A n \in DOMAIN offered : n # s.number => offered'[n] = offered[n]
    <2>. DEFINE x == [offered[s.number] EXCEPT !.plans = @ + 1]
    <2>1. offered[s.number] \in [intent : Intent, plans : Nat]
      <3>. DEFINE R == [intent : Intent, plans : Nat]
      <3>1. offered \in Seq(R) /\ s.number \in DOMAIN offered
        BY <1>1 DEF SkeletonTypes
      <3>. HIDE DEF R, x
      <3>2. offered[s.number] \in R
        BY <3>1
      <3>. QED BY <3>2 DEF R
    <2>2. x \in [intent : Intent, plans : Nat] /\ x.intent = offered[s.number].intent
      BY <2>1
    <2>3. offered' = [offered EXCEPT ![s.number] = x]
      BY <2>1
    <2>. HIDE DEF x
    <2>. QED BY <1>1, <2>2, <2>3 DEF SkeletonTypes
  <1>5. SkeletonTypes'
    BY <1>3, <1>4 DEF SkeletonTypes
  <1>6. \A j \in Intent : skeletons'[j] = IF j = i THEN {} ELSE skeletons[j]
    BY <1>3 DEF SkeletonTypes
  <1>7. SkeletonIsLast'
    BY <1>1, <1>4, <1>6 DEF SkeletonIsLast
  <1>8. ShapesOnePlan
    BY <1>1, <1>2, <1>4 DEF ShapesOnePlan
  <1>. QED BY <1>5, <1>7, <1>8

\* Nothing is made of the skeletons, and none is added.
LEMMA SkeletonsFewer ==
  ASSUME SkeletonTypes, SkeletonIsLast, offered' = offered, NEW i \in Intent,
         NEW S \in SUBSET Skeleton, skeletons' = [skeletons EXCEPT ![i] = S],
         \A u \in S : \E s \in skeletons[i] : s.number = u.number
  PROVE  SkeletonTypes' /\ SkeletonIsLast' /\ ShapesOnePlan
  <1>1. \A j \in Intent : \A u \in skeletons'[j] : \E s \in skeletons[j] : s.number = u.number
    BY DEF SkeletonTypes
  <1>. QED BY <1>1 DEF SkeletonTypes, SkeletonIsLast, ShapesOnePlan

\* Every step keeps the skeletons last of their intents, and makes a plan of
\* such a one only.
LEMMA SkeletonsInductive ==
  PlanningTypes /\ SkeletonIsLast /\ [PlanningNext]_planningVars
  => SkeletonTypes' /\ SkeletonIsLast' /\ ShapesOnePlan
  <1>. DEFINE Goal == SkeletonTypes' /\ SkeletonIsLast' /\ ShapesOnePlan
  <1>. SUFFICES ASSUME PlanningTypes, SkeletonIsLast, [PlanningNext]_planningVars PROVE Goal
    OBVIOUS
  <1>0. SkeletonTypes
    BY DEF PlanningTypes, SkeletonTypes
  <1>1. CASE UNCHANGED <<skeletons, offered>>
    BY <1>0, <1>1 DEF SkeletonTypes, SkeletonIsLast, ShapesOnePlan
  <1>2. \A c \in Planner : work[c].at \in {"gather", "catalog"} => work[c].intent \in Intent
    BY WorkKinds DEF PlanningTypes
  <1>3. ASSUME NEW c \in Planner, ResolveTools(c) PROVE Goal
    BY <1>0, <1>1, <1>2, <1>3, SkeletonStored DEF ResolveTools, Is
  <1>4. ASSUME NEW i \in Intent, PopSkeleton(i), offered' = offered PROVE Goal
    <2>1. skeletons' = [skeletons EXCEPT ![i] = {}]
      BY <1>4 DEF PopSkeleton
    <2>. HIDE DEF Goal
    <2>2. {} \in SUBSET Skeleton /\ \A u \in {} : \E s \in skeletons[i] : s.number = u.number
      OBVIOUS
    <2>. QED BY <1>0, <1>4, <2>1, <2>2, SkeletonsFewer DEF Goal
  <1>5. ASSUME NEW c \in Planner, FromSkeleton(c) PROVE Goal
    <2>1. work[c].intent \in Intent /\ PopSkeleton(work[c].intent)
      BY <1>2, <1>5 DEF FromSkeleton, Is
    <2>2. PICK s \in skeletons[work[c].intent] :
            s.fresh /\ offered' \in {offered, [offered EXCEPT ![s.number].plans = @ + 1]}
      BY <1>5 DEF FromSkeleton
    <2>. QED BY <1>0, <1>4, <2>1, <2>2, SkeletonUsed
  <1>6. ASSUME NEW c \in Planner, ToFallbacks(c) PROVE Goal
    BY <1>2, <1>4, <1>6 DEF ToFallbacks, Is
  <1>7. ASSUME NEW i \in Intent, SkeletonAges(i) PROVE Goal
    <2>. DEFINE S == {[s EXCEPT !.fresh = FALSE] : s \in skeletons[i]}
    <2>1. \A s \in skeletons[i] : s \in Skeleton
      BY <1>0 DEF SkeletonTypes
    <2>2. \A s \in Skeleton : [s EXCEPT !.fresh = FALSE] \in Skeleton /\ [s EXCEPT !.fresh = FALSE].number = s.number
      BY Zenon DEF Skeleton
    <2>3. skeletons' = [skeletons EXCEPT ![i] = S] /\ offered' = offered
      BY <1>0, <1>7 DEF SkeletonAges, SkeletonTypes
    <2>4. S \in SUBSET Skeleton /\ \A u \in S : \E s \in skeletons[i] : s.number = u.number
      BY <2>1, <2>2
    <2>. HIDE DEF S
    <2>. QED BY <1>0, <2>3, <2>4, SkeletonsFewer
  <1>. HIDE DEF Goal
  <1>. QED BY <1>1, <1>3, <1>5, <1>6, <1>7 DEF PlanningNext, TimeoutElapses, build_skeleton, generate_plan,
           AskForPlan, get_required_entities, ToolNotConnected, _try_llm_level, _try_template_level,
           planningVars

\* A request only begins to call an LLM whose circuit lets it pass
\* (CircuitBreaker.call).
LEMMA BeginsAdmitted ==
  ASSUME PlanningTypes, CircuitsFit, [PlanningNext]_planningVars, NEW d \in Planner, NEW b \in LLM, BeginsCall(d, b)
  PROVE  ~Shut(b)
  <1>1. work'[d] # work[d] /\ work[d].at # "llm" /\ work'[d].at = "llm" /\ work'[d].llm = b
    BY DEF BeginsCall, Is
  <1>2. ASSUME NEW c \in Planner, NEW r \in Work, Becomes(c, r), r.at # "llm" \/ work[c].at = "llm"
        PROVE  FALSE
    BY <1>1, <1>2, WorkMoves
  <1>3. ASSUME NEW c \in Planner, NEW i \in Intent, build_skeleton(c, i) PROVE ~Shut(b)
    <2>. DEFINE r == [at |-> "llm", llm |-> "primary", era |-> Era("primary"),
                      job |-> "skeleton", intent |-> i]
                o == [at |-> "catalog", intent |-> i]
    <2>1. r \in Work /\ o \in Work /\ "primary" \in LLM /\ r.llm = "primary" /\ o.at # "llm"
      BY CallRecords, WorkKinds DEF LLM
    <2>2. Calls(c, "primary", r, o)
      BY <1>3 DEF build_skeleton
    <2>. HIDE DEF r, o
    <2>. QED BY <1>1, <2>1, <2>2, CallTypes
  <1>4. ASSUME NEW c \in Planner, NEW e \in LLM, AskForPlan(c, e) PROVE ~Shut(b)
    <2>. DEFINE r == [at |-> "llm", llm |-> e, era |-> Era(e), job |-> "plan"]
    <2>1. r \in Work /\ NextSource(e) \in Work /\ r.llm = e /\ NextSource(e).at # "llm"
      BY CallRecords, WorkKinds
    <2>2. Calls(c, e, r, NextSource(e))
      BY <1>4 DEF AskForPlan
    <2>. HIDE DEF r
    <2>. QED BY <1>1, <2>1, <2>2, CallTypes
  <1>5. ASSUME NEW c \in Planner, get_required_entities(c) \/ _try_llm_level(c) PROVE FALSE
    <2>1. work[c].at = "llm"
      BY <1>5 DEF get_required_entities, _try_llm_level, Is
    <2>2. \E r : Becomes(c, r)
      BY <1>5 DEF get_required_entities, _try_llm_level, Finishes
    <2>. QED BY <1>1, <2>1, <2>2 DEF Becomes, PlanningTypes
  <1>6. ASSUME NEW c \in Planner,
               \/ \E i \in Intent : generate_plan(c, i)
               \/ ResolveTools(c) \/ FromSkeleton(c) \/ ToFallbacks(c) \/ ToolNotConnected(c)
               \/ _try_template_level(c)
        PROVE  FALSE
    <2>1. \E r \in Work : Becomes(c, r) /\ r.at # "llm"
      <3>1. \A i \in Intent : [at |-> "gather", intent |-> i] \in Work /\ [at |-> "gather", intent |-> i].at # "llm"
        BY WorkKinds
      <3>2. \A w \in {"library", "primary"} : [at |-> w] \in Work /\ [at |-> w].at # "llm"
        BY WorkKinds DEF LLM
      <3>. QED BY <1>6, <3>1, <3>2, WorkKinds DEF generate_plan, ResolveTools, FromSkeleton, ToFallbacks,
                  ToolNotConnected, _try_template_level, Finishes
    <2>. QED BY <1>2, <2>1
  <1>7. work' = work => FALSE
    BY <1>1
  <1>. QED BY <1>3, <1>4, <1>5, <1>6, <1>7 DEF PlanningNext, TimeoutElapses, SkeletonAges, planningVars

\* The inductive invariant of Planning (planner_service.py, circuit_breaker.py).
THEOREM PlanningInvariance == PlanningSpec => []PlanningInv
  <1>1. PlanningInit => PlanningInv
    <2>. SUFFICES ASSUME PlanningInit PROVE PlanningInv
      OBVIOUS
    <2>1. CircuitBreaker \in Circuit /\ CircuitFits(CircuitBreaker, 0)
      BY PlanningParameters DEF CircuitBreaker, Circuit, State, CircuitFits
    <2>2. breaker \in [LLM -> Circuit] /\ \A b \in LLM : breaker[b] = CircuitBreaker /\ streak[b] = 0
      BY <2>1 DEF PlanningInit
    <2>3. work \in [Planner -> Work]
      BY WorkKinds DEF PlanningInit
    <2>. QED BY <2>1, <2>2, <2>3 DEF PlanningInit, PlanningInv, PlanningTypes, CircuitsFit, SkeletonIsLast
  <1>2. PlanningInv /\ [PlanningNext]_planningVars => PlanningInv'
    BY BreakersInductive, SkeletonsInductive DEF PlanningInv, PlanningTypes, SkeletonTypes
  <1>. QED BY <1>1, <1>2, PTL DEF PlanningSpec

\* An LLM that has failed too often in a row is not called before the timeout
\* after the last failure, whichever requests saw the failures and in whatever
\* order their calls come back (CircuitBreaker.call, _on_failure, _on_success).
THEOREM OpenCircuitsAreLeftAlone == PlanningSpec => OpenCircuitIsLeftAlone
  <1>1. PlanningInv /\ [PlanningNext]_planningVars
        => [\A c \in Planner, b \in LLM :
              BeginsCall(c, b) => ~(streak[b] >= FailureThreshold /\ breaker[b].recent)]_planningVars
    <2>. SUFFICES ASSUME PlanningInv, [PlanningNext]_planningVars,
                         NEW c \in Planner, NEW b \in LLM, BeginsCall(c, b)
                  PROVE  ~(streak[b] >= FailureThreshold /\ breaker[b].recent)
      OBVIOUS
    <2>1. ~Shut(b)
      BY BeginsAdmitted DEF PlanningInv
    <2>2. breaker[b] \in Circuit /\ CircuitFits(breaker[b], streak[b]) /\ streak[b] \in Nat
      BY DEF PlanningInv, PlanningTypes, CircuitsFit
    <2>. QED BY <2>1, <2>2, PlanningParameters DEF Shut, CircuitFits, Circuit, State
  <1>. QED BY <1>1, PlanningInvariance, PTL DEF PlanningSpec, OpenCircuitIsLeftAlone

\* A skeleton that was shown shapes at most one plan, and none after a later
\* one of its intent or its time (PlannerService.build_skeleton, generate_plan).
THEOREM SkeletonsShapeOnePlan == PlanningSpec => SkeletonShapesOnePlan
  <1>1. PlanningInv /\ [PlanningNext]_planningVars => [ShapesOnePlan]_planningVars
    BY SkeletonsInductive DEF PlanningInv
  <1>. QED BY <1>1, PlanningInvariance, PTL DEF PlanningSpec, SkeletonShapesOnePlan, ShapesOnePlan

-----------------------------------------------------------------------------
(* Conversation *)

Said == [message : Nat, intent : {"none", "known"}, says : Key \cup {"nothing"}]
Session == [turns : Seq(Said), intent : {"none", "known"}, entities : [Key -> Nat]]
Turn == [pc : {"local", "remote", "escalate", "save"}, id : SessionId, message : Nat,
         session : Session, attempt : {1, 2}, result : Parse, alone : BOOLEAN]

ConversationTypes ==
    /\ sessions \in [SessionId -> SUBSET Session] /\ named \subseteq SessionId
    /\ turn \in [Request -> {Ready} \cup Turn]
    /\ sent \in Nat /\ kept \in [SessionId -> SUBSET Nat] /\ failures \in Nat

Busy(c) == turn[c].pc # "ready"
Messages(session) == {session.turns[i].message : i \in DOMAIN session.turns}

\* A session that was read has what is kept and room for one turn.
TurnsSay ==
    \A c \in Request : Busy(c) =>
        /\ turn[c].id \in named
        /\ kept[turn[c].id] \subseteq Messages(turn[c].session)
        /\ Len(turn[c].session.turns) < MaxTurns
        /\ FollowsFromTurns(turn[c].session)

\* A request that met no other one is the only one of its session.
AloneIsAlone ==
    \A c, d \in Request :
        c # d /\ Busy(c) /\ Busy(d) /\ turn[c].alone => turn[d].id # turn[c].id

UnusedIsEmpty == \A s \in SessionId \ named : kept[s] = {}

ConversationInv ==
    ConversationTypes /\ TurnsSay /\ AloneIsAlone /\ UnusedIsEmpty /\ MessagesAreKept

-----------------------------------------------------------------------------
(* What a session says, in terms of its turns *)

KnownBy(t, i) == \E j \in 1 .. i : t[j].intent = "known"

\* An utterance x gives entity k its value if the intent is known, or not.
GivesIf(x, known, k) ==
    \/ x.says = k /\ (k = "name" \/ ~known)
    \/ k = "name" /\ x.says = "alias" /\ known

\* The turns that give entity k a value.
Gives(t, i, k) == GivesIf(t[i], KnownBy(t, i), k)
Givers(t, k) == {i \in DOMAIN t : Gives(t, i, k)}
LastOf(S) == CHOOSE i \in S : \A j \in S : j <= i

LEMMA Follows ==
  ASSUME NEW session
  PROVE  FollowsFromTurns(session) <=>
           /\ session.intent = IF KnownBy(session.turns, Len(session.turns)) THEN "known" ELSE "none"
           /\ \A k \in Key :
                 session.entities[k] = IF Givers(session.turns, k) = {} THEN 0
                                       ELSE session.turns[LastOf(Givers(session.turns, k))].message
  BY Zenon DEF FollowsFromTurns, KnownBy, Gives, GivesIf, Givers, LastOf

\* The largest of some turns is one of them.
LEMMA LastIsIn ==
  ASSUME NEW n \in Nat, NEW S \in SUBSET (1 .. n), S # {}
  PROVE  LastOf(S) \in S /\ \A j \in S : j <= LastOf(S)
  <1>. DEFINE R == {ss \in Nat \X Nat : ss[1] < ss[2]}
              T == {n - i : i \in S}
  <1>1. IsWellFoundedOn(R, Nat)
    BY NatLessThanWellFounded, Zenon DEF OpToRel
  <1>0. \A i \in S : i \in Nat /\ n - i \in Nat
    OBVIOUS
  <1>2. T \in SUBSET Nat /\ T # {}
    <2>. HIDE DEF R
    <2>. QED BY <1>0
  <1>3. \E x \in T : \A y \in T : ~ (<<y, x>> \in R)
    <2>. HIDE DEF R, T
    <2>. QED BY <1>1, <1>2, WFMin, Zenon
  <1>4. PICK m \in S : \A y \in T : ~ (<<y, n - m>> \in R)
    BY <1>3
  <1>5. ASSUME NEW j \in S PROVE j <= m
    <2>1. <<n - j, n - m>> \notin R
      <3>. HIDE DEF R
      <3>. QED BY <1>4
    <2>2. ~(n - j < n - m)
      <3>1. n - j \in Nat /\ n - m \in Nat
        BY <1>0
      <3>. QED BY <2>1, <3>1
    <2>. HIDE DEF R, T
    <2>. QED BY <1>0, <2>2
  <1>. QED BY <1>5 DEF LastOf

\* What one more turn adds (IntakeService._merge_parse_result).
LEMMA OneMoreTurn ==
  ASSUME NEW t \in Seq(Said), NEW x \in Said, NEW u, u = Append(t, x)
  PROVE  /\ KnownBy(u, Len(u)) <=> KnownBy(t, Len(t)) \/ x.intent = "known"
         /\ \A k \in Key :
               Givers(u, k) = IF GivesIf(x, KnownBy(u, Len(u)), k)
                              THEN Givers(t, k) \cup {Len(t) + 1} ELSE Givers(t, k)
  <1>. DEFINE n == Len(t) + 1
  <1>1. /\ Len(t) \in Nat /\ DOMAIN t = 1 .. Len(t) /\ DOMAIN u = 1 .. n /\ Len(u) = n
        /\ u[n] = x /\ \A i \in 1 .. Len(t) : u[i] = t[i]
    OBVIOUS
  <1>2. \A i \in 1 .. Len(t) : KnownBy(u, i) <=> KnownBy(t, i)
    BY <1>1 DEF KnownBy
  <1>3. KnownBy(u, n) <=> KnownBy(t, Len(t)) \/ x.intent = "known"
    BY <1>1 DEF KnownBy
  <1>4. ASSUME NEW k \in Key
        PROVE  Givers(u, k) = IF Gives(u, n, k) THEN Givers(t, k) \cup {n} ELSE Givers(t, k)
    <2>1. \A i \in 1 .. Len(t) : Gives(u, i, k) <=> Gives(t, i, k)
      BY <1>1, <1>2 DEF Gives, GivesIf
    <2>2. 1 .. n = (1 .. Len(t)) \cup {n} /\ n \notin 1 .. Len(t)
      BY <1>1
    <2>. HIDE DEF n
    <2>. QED BY <1>1, <2>1, <2>2 DEF Givers
  <1>5. \A k \in Key : Gives(u, n, k) <=> GivesIf(x, KnownBy(u, n), k)
    BY <1>1 DEF Gives, GivesIf
  <1>. HIDE DEF n
  <1>. QED BY <1>1, <1>3, <1>4, <1>5 DEF n

\* A merged session has one more turn, and says what follows from its turns
\* (IntakeService._merge_parse_result, _normalize_entity_keys).
LEMMA MergeFollows ==
  ASSUME NEW session \in Session, NEW result \in Parse, NEW message \in Nat,
         FollowsFromTurns(session),
         NEW merged, merged = _merge_parse_result(session, result, message)
  PROVE  /\ merged \in Session /\ FollowsFromTurns(merged)
         /\ Len(merged.turns) = Len(session.turns) + 1
         /\ Messages(merged) = Messages(session) \cup {message}
  <1>. DEFINE x == [message |-> message, intent |-> result.intent, says |-> result.says]
              t == session.turns
              u == merged.turns
              key == _normalize_entity_keys(result.says, merged.intent)
  <1>1. /\ result.intent \in {"none", "known"} /\ result.says \in Key \cup {"nothing"}
        /\ session.intent \in {"none", "known"} /\ session.entities \in [Key -> Nat] /\ t \in Seq(Said)
    BY DEF Parse, Session
  <1>2. x \in Said /\ x.intent = result.intent /\ x.says = result.says /\ x.message = message
    BY <1>1 DEF Said
  <1>3. /\ u = Append(t, x)
        /\ merged.intent = IF result.intent # "none" THEN result.intent ELSE session.intent
        /\ merged.entities = [k \in Key |-> IF k = key THEN message ELSE session.entities[k]]
        /\ merged = [turns |-> u, intent |-> merged.intent, entities |-> merged.entities]
    BY DEF _merge_parse_result
  <1>. HIDE DEF x, u
  <1>4. merged \in Session
    <2>1. u \in Seq(Said)
      BY <1>1, <1>2, <1>3
    <2>2. merged.intent \in {"none", "known"}
      BY <1>1, <1>3
    <2>3. merged.entities \in [Key -> Nat]
      BY <1>1, <1>3
    <2>4. u = merged.turns
      BY DEF u
    <2>. QED BY <1>3, <2>1, <2>2, <2>3, <2>4 DEF Session
  <1>5. /\ Len(t) \in Nat /\ DOMAIN t = 1 .. Len(t) /\ DOMAIN u = 1 .. Len(t) + 1
        /\ Len(u) = Len(t) + 1 /\ u[Len(t) + 1] = x /\ \A i \in 1 .. Len(t) : u[i] = t[i]
    BY <1>1, <1>2, <1>3
  <1>6. Messages(merged) = Messages(session) \cup {message}
    <2>1. \A i \in 1 .. Len(t) : u[i].message = t[i].message
      BY <1>5
    <2>2. u[Len(t) + 1].message = message
      BY <1>2, <1>5
    <2>3. 1 .. Len(t) + 1 = (1 .. Len(t)) \cup {Len(t) + 1}
      BY <1>5
    <2>4. Messages(session) = {t[i].message : i \in 1 .. Len(t)}
      BY <1>5 DEF Messages
    <2>5. Messages(merged) = {u[i].message : i \in 1 .. Len(t) + 1}
      BY <1>5 DEF Messages, u
    <2>. QED BY <1>5, <2>1, <2>2, <2>3, <2>4, <2>5
  <1>7. /\ session.intent = IF KnownBy(t, Len(t)) THEN "known" ELSE "none"
        /\ \A k \in Key : session.entities[k] = IF Givers(t, k) = {} THEN 0 ELSE t[LastOf(Givers(t, k))].message
    BY Follows
  <1>8. merged.intent = IF KnownBy(u, Len(u)) THEN "known" ELSE "none"
    <2>1. KnownBy(u, Len(u)) <=> KnownBy(t, Len(t)) \/ x.intent = "known"
      <3>. HIDE DEF t
      <3>. QED BY <1>1, <1>2, <1>3, OneMoreTurn
    <2>2. merged.intent = IF x.intent # "none" THEN x.intent ELSE session.intent
      BY <1>2, <1>3
    <2>. QED BY <1>1, <1>2, <1>7, <2>1, <2>2
  <1>9. ASSUME NEW k \in Key
        PROVE  merged.entities[k] = IF Givers(u, k) = {} THEN 0 ELSE u[LastOf(Givers(u, k))].message
    <2>1. Givers(u, k) = IF key = k THEN Givers(t, k) \cup {Len(t) + 1} ELSE Givers(t, k)
      <3>1. key = k <=> GivesIf(x, KnownBy(u, Len(u)), k)
        BY <1>1, <1>2, <1>8 DEF _normalize_entity_keys, Key, GivesIf
      <3>2. t \in Seq(Said) /\ u = Append(t, x)
        BY <1>1, <1>3
      <3>. HIDE DEF key, t
      <3>3. Givers(u, k) = IF GivesIf(x, KnownBy(u, Len(u)), k)
                           THEN Givers(t, k) \cup {Len(t) + 1} ELSE Givers(t, k)
        BY <1>2, <3>2, OneMoreTurn
      <3>. QED BY <3>1, <3>3
    <2>2. Givers(t, k) \subseteq 1 .. Len(t)
      BY <1>5 DEF Givers
    <2>3. merged.entities[k] = IF key = k THEN message ELSE session.entities[k]
      BY <1>3
    <2>. HIDE DEF key
    <2>4. CASE key = k
      <3>1. Len(t) + 1 \in Givers(u, k) /\ \A j \in Givers(u, k) : j \in Nat /\ j <= Len(t) + 1
        BY <1>5, <2>1, <2>2, <2>4
      <3>2. LastOf(Givers(u, k)) = Len(t) + 1
        BY <1>5, <3>1 DEF LastOf
      <3>. QED BY <1>2, <1>5, <2>3, <2>4, <3>1, <3>2
    <2>5. CASE key # k
      <3>1. Givers(u, k) = Givers(t, k)
        BY <2>1, <2>5
      <3>2. CASE Givers(t, k) = {}
        BY <1>7, <2>3, <2>5, <3>1, <3>2
      <3>3. CASE Givers(t, k) # {}
        <4>1. LastOf(Givers(t, k)) \in Givers(t, k)
          <5>1. Len(t) \in Nat
            BY <1>5
          <5>. HIDE DEF t
          <5>. QED BY <2>2, <3>3, <5>1, LastIsIn
        <4>2. u[LastOf(Givers(t, k))] = t[LastOf(Givers(t, k))]
          BY <1>5, <2>2, <4>1
        <4>. QED BY <1>7, <2>3, <2>5, <3>1, <3>3, <4>2
      <3>. QED BY <3>2, <3>3
    <2>. QED BY <2>4, <2>5
  <1>10. FollowsFromTurns(merged)
    BY <1>8, <1>9, Follows DEF u
  <1>. QED BY <1>4, <1>5, <1>6, <1>10 DEF u

-----------------------------------------------------------------------------
\* A request goes on with the session it has read, or is done.
SameTurn(d) ==
    turn'[d].pc # "ready" =>
        /\ turn[d].pc # "ready" /\ turn'[d].id = turn[d].id /\ turn'[d].session = turn[d].session
        /\ turn'[d].alone => turn[d].alone

\* The fields of a turn, and the steps from one to the next.
LEMMA TurnRecords ==
  /\ Ready.pc = "ready" /\ ParseResult \in Parse
  /\ \A w \in Turn : /\ w.pc # "ready" /\ w.id \in SessionId /\ w.message \in Nat /\ w.session \in Session
                     /\ w.result \in Parse
  /\ \A w \in Turn :
        LET v == [w EXCEPT !.pc = "local", !.attempt = 2] IN
        v \in Turn /\ v.id = w.id /\ v.session = w.session /\ v.alone = w.alone
  /\ \A w \in Turn :
        LET v == [w EXCEPT !.pc = "remote"] IN
        v \in Turn /\ v.id = w.id /\ v.session = w.session /\ v.alone = w.alone
  /\ \A w \in Turn :
        LET v == [w EXCEPT !.alone = FALSE] IN
        v \in Turn /\ v.id = w.id /\ v.session = w.session /\ v.pc = w.pc /\ v.alone = FALSE
  <1>1. Ready.pc = "ready" /\ ParseResult \in Parse
    BY DEF Ready, ParseResult, Parse
  <1>2. ASSUME NEW w \in Turn
        PROVE  /\ w.pc # "ready" /\ w.id \in SessionId /\ w.message \in Nat /\ w.session \in Session
               /\ w.result \in Parse
    BY DEF Turn
  <1>3. ASSUME NEW w \in Turn
        PROVE  LET v == [w EXCEPT !.pc = "local", !.attempt = 2] IN
               v \in Turn /\ v.id = w.id /\ v.session = w.session /\ v.alone = w.alone
    BY Zenon DEF Turn
  <1>4. ASSUME NEW w \in Turn
        PROVE  LET v == [w EXCEPT !.pc = "remote"] IN
               v \in Turn /\ v.id = w.id /\ v.session = w.session /\ v.alone = w.alone
    BY Zenon DEF Turn
  <1>5. ASSUME NEW w \in Turn
        PROVE  LET v == [w EXCEPT !.alone = FALSE] IN
               v \in Turn /\ v.id = w.id /\ v.session = w.session /\ v.pc = w.pc /\ v.alone = FALSE
    BY Zenon DEF Turn
  <1>. QED BY <1>1, <1>2, <1>3, <1>4, <1>5

\* A parse, whatever the LLMs answer, leaves the session as it was read
\* (IntentParser.parse, FallbackLLM.generate).
LEMMA ParseMoves ==
  ASSUME ConversationTypes, NEW c \in Request, AskLocal(c) \/ AskRemote(c) \/ Escalate(c)
  PROVE  /\ turn' \in [Request -> {Ready} \cup Turn] /\ failures' \in Nat
         /\ UNCHANGED <<sessions, named, sent, kept>>
         /\ \A d \in Request : SameTurn(d)
  <1>1. turn[c] \in Turn /\ turn[c].pc # "ready" /\ turn[c].result \in Parse
    BY TurnRecords DEF AskLocal, AskRemote, Escalate, On, ConversationTypes, Ready
  <1>2. PICK v \in {Ready} \cup Turn :
          /\ turn' = [turn EXCEPT ![c] = v]
          /\ v = Ready \/ (v.id = turn[c].id /\ v.session = turn[c].session /\ v.alone = turn[c].alone)
    <2>1. ASSUME NEW p \in {"save", "escalate"}, NEW r \in Parse,
                 Goes(c, [turn[c] EXCEPT !.pc = p, !.result = r])
          PROVE  \E v \in {Ready} \cup Turn :
                    /\ turn' = [turn EXCEPT ![c] = v]
                    /\ v = Ready \/ (v.id = turn[c].id /\ v.session = turn[c].session /\ v.alone = turn[c].alone)
      <3>1. PICK v : v = [turn[c] EXCEPT !.pc = p, !.result = r]
        OBVIOUS
      <3>2. v \in Turn /\ v.id = turn[c].id /\ v.session = turn[c].session /\ v.alone = turn[c].alone
        BY <1>1, <3>1, Zenon DEF Turn
      <3>3. turn' = [turn EXCEPT ![c] = v]
        BY <2>1, <3>1 DEF Goes
      <3>. QED BY <3>2, <3>3
    <2>2. ASSUME Goes(c, [turn[c] EXCEPT !.pc = "local", !.attempt = 2])
          PROVE  \E v \in {Ready} \cup Turn :
                    /\ turn' = [turn EXCEPT ![c] = v]
                    /\ v = Ready \/ (v.id = turn[c].id /\ v.session = turn[c].session /\ v.alone = turn[c].alone)
      BY <1>1, <2>2, TurnRecords DEF Goes
    <2>3. ASSUME Goes(c, [turn[c] EXCEPT !.pc = "remote"])
          PROVE  \E v \in {Ready} \cup Turn :
                    /\ turn' = [turn EXCEPT ![c] = v]
                    /\ v = Ready \/ (v.id = turn[c].id /\ v.session = turn[c].session /\ v.alone = turn[c].alone)
      BY <1>1, <2>3, TurnRecords DEF Goes
    <2>4. \/ \E p \in {"save", "escalate"}, r \in Parse : Goes(c, [turn[c] EXCEPT !.pc = p, !.result = r])
          \/ Goes(c, [turn[c] EXCEPT !.pc = "local", !.attempt = 2])
          \/ Goes(c, [turn[c] EXCEPT !.pc = "remote"])
          \/ Ends(c)
      BY <1>1, TurnRecords DEF AskLocal, AskRemote, Escalate, Parsed, Unreadable
    <2>. QED BY <2>1, <2>2, <2>3, <2>4 DEF Ends
  <1>3. turn' \in [Request -> {Ready} \cup Turn] /\ turn'[c] = v /\ \A d \in Request : d # c => turn'[d] = turn[d]
    BY <1>2 DEF ConversationTypes
  <1>4. \A d \in Request : SameTurn(d)
    BY <1>1, <1>2, <1>3, TurnRecords DEF SameTurn
  <1>5. failures' \in Nat
    <2>1. Fail \/ UNCHANGED failures
      BY DEF AskLocal, AskRemote, Escalate
    <2>. QED BY <2>1 DEF Fail, ConversationTypes
  <1>. QED BY <1>3, <1>4, <1>5 DEF AskLocal, AskRemote, Escalate

\* What is known of turns outlives every step that keeps or ends them and
\* keeps no more messages.
LEMMA TurnsStay ==
  ASSUME TurnsSay, AloneIsAlone, ConversationTypes, ConversationTypes', named \subseteq named',
         \A s \in SessionId : kept'[s] \subseteq kept[s], \A d \in Request : SameTurn(d)
  PROVE  TurnsSay' /\ AloneIsAlone'
  <1>1. \A d \in Request : turn[d].pc # "ready" => turn[d].id \in SessionId
    BY TurnRecords DEF ConversationTypes
  <1>2. TurnsSay'
    <2>. SUFFICES ASSUME NEW d \in Request, turn'[d].pc # "ready"
                  PROVE  /\ turn'[d].id \in named'
                         /\ kept'[turn'[d].id] \subseteq Messages(turn'[d].session)
                         /\ Len(turn'[d].session.turns) < MaxTurns
                         /\ FollowsFromTurns(turn'[d].session)
      BY DEF TurnsSay, Busy, Messages, FollowsFromTurns
    <2>1. turn[d].pc # "ready" /\ turn'[d].id = turn[d].id /\ turn'[d].session = turn[d].session
      BY DEF SameTurn
    <2>. QED BY <1>1, <2>1 DEF TurnsSay, Busy
  <1>3. AloneIsAlone'
    BY DEF AloneIsAlone, SameTurn, Busy
  <1>. QED BY <1>2, <1>3

\* A request that is ready starts to parse a message of a session that has all
\* its messages, or is refused (IntakeService.process_message).
LEMMA ParseStarts ==
  ASSUME ConversationInv, NEW c \in Request, turn[c].pc = "ready",
         NEW s \in SessionId, NEW session \in Session, StartsParse(c, s, session),
         s \in named', named \subseteq named', named' \subseteq SessionId,
         sent' = sent + 1, UNCHANGED <<sessions, kept, failures>>,
         kept[s] \subseteq Messages(session), FollowsFromTurns(session)
  PROVE  ConversationTypes' /\ TurnsSay' /\ AloneIsAlone'
  <1>. DEFINE others == {d \in Request \ {c} : ~On(d, "ready") /\ turn[d].id = s}
  <1>0. turn \in [Request -> {Ready} \cup Turn] /\ sent \in Nat /\ sent' \in Nat
    BY DEF ConversationInv, ConversationTypes
  <1>1. CASE Ends(c)
    <2>1. /\ turn' \in [Request -> {Ready} \cup Turn]
          /\ \A d \in Request : turn'[d] = IF d = c THEN Ready ELSE turn[d]
      BY <1>0, <1>1 DEF Ends
    <2>2. \A d \in Request : SameTurn(d)
      BY <2>1, TurnRecords DEF SameTurn
    <2>3. ConversationTypes'
      BY <1>0, <2>1 DEF ConversationInv, ConversationTypes
    <2>. QED BY <2>2, <2>3, TurnsStay DEF ConversationInv
  <1>2. CASE ~Ends(c)
    <2>1. PICK w : w = [pc |-> "local", id |-> s, message |-> sent + 1, session |-> session,
                        attempt |-> 1, result |-> ParseResult, alone |-> others = {}]
      OBVIOUS
    <2>2. /\ Len(session.turns) < MaxTurns
          /\ turn' = [d \in Request |-> IF d = c THEN w
                                        ELSE IF d \in others THEN [turn[d] EXCEPT !.alone = FALSE] ELSE turn[d]]
      <3>1. Len(session.turns) \in Nat
        BY DEF Session
      <3>. QED BY <1>2, <2>1, <3>1, ConversationParameters DEF StartsParse
    <2>3. w \in Turn /\ w.pc = "local" /\ w.id = s /\ w.session = session /\ w.alone = (others = {})
      <3>1. PICK alone \in BOOLEAN : alone = (others = {})
        OBVIOUS
      <3>. HIDE DEF others
      <3>2. sent + 1 \in Nat
        BY <1>0
      <3>3. w = [pc |-> "local", id |-> s, message |-> sent + 1, session |-> session,
                 attempt |-> 1, result |-> ParseResult, alone |-> alone]
        BY <2>1, <3>1
      <3>4. w \in Turn /\ w.pc = "local" /\ w.id = s /\ w.session = session /\ w.alone = alone
        BY <3>2, <3>3, TurnRecords, Zenon DEF Turn
      <3>. QED BY <3>1, <3>4
    <2>4. \A d \in others : turn[d] \in Turn
      BY <1>0, TurnRecords DEF On
    <2>. HIDE DEF others
    <2>5. turn'[c] = w
      BY <2>2
    <2>6. \A d \in Request \ {c} :
             /\ turn'[d] \in {Ready} \cup Turn /\ SameTurn(d) /\ turn'[d].pc = turn[d].pc
             /\ d \in others => turn'[d].alone = FALSE
      <3>. SUFFICES ASSUME NEW d \in Request \ {c}
                    PROVE  /\ turn'[d] \in {Ready} \cup Turn /\ SameTurn(d) /\ turn'[d].pc = turn[d].pc
                           /\ d \in others => turn'[d].alone = FALSE
        OBVIOUS
      <3>1. CASE d \in others
        <4>1. turn'[d] = [turn[d] EXCEPT !.alone = FALSE]
          BY <2>2, <3>1
        <4>2. /\ turn'[d] \in Turn /\ turn'[d].id = turn[d].id /\ turn'[d].session = turn[d].session
              /\ turn'[d].pc = turn[d].pc /\ turn'[d].alone = FALSE
          BY <2>4, <3>1, <4>1, Zenon DEF Turn
        <4>. QED BY <4>2 DEF SameTurn
      <3>2. CASE d \notin others
        <4>1. turn'[d] = turn[d]
          BY <2>2, <3>2
        <4>. QED BY <1>0, <3>2, <4>1 DEF SameTurn
      <3>. QED BY <3>1, <3>2
    <2>7. ConversationTypes'
      <3>1. turn' \in [Request -> {Ready} \cup Turn]
        BY <2>2, <2>3, <2>5, <2>6
      <3>. QED BY <1>0, <3>1 DEF ConversationInv, ConversationTypes
    <2>8. TurnsSay'
      <3>. SUFFICES ASSUME NEW d \in Request, turn'[d].pc # "ready"
                    PROVE  /\ turn'[d].id \in named'
                           /\ kept'[turn'[d].id] \subseteq Messages(turn'[d].session)
                           /\ Len(turn'[d].session.turns) < MaxTurns
                           /\ FollowsFromTurns(turn'[d].session)
        BY DEF TurnsSay, Busy, Messages, FollowsFromTurns
      <3>1. CASE d = c
        BY <2>2, <2>3, <2>5, <3>1
      <3>2. CASE d # c
        BY <2>6, <3>2 DEF SameTurn, ConversationInv, TurnsSay, Busy
      <3>. QED BY <3>1, <3>2
    <2>9. AloneIsAlone'
      <3>. SUFFICES ASSUME NEW d \in Request, NEW e \in Request, d # e,
                           turn'[d].pc # "ready", turn'[e].pc # "ready", turn'[d].alone
                    PROVE  turn'[e].id # turn'[d].id
        BY DEF AloneIsAlone, Busy
      <3>0. \A f \in Request \ {c} : turn[f].pc # "ready" /\ turn[f].id = s => f \in others
        BY DEF others, On
      <3>1. CASE d = c
        BY <2>3, <2>5, <2>6, <3>0, <3>1 DEF SameTurn
      <3>2. CASE e = c
        BY <2>3, <2>5, <2>6, <3>0, <3>2 DEF SameTurn
      <3>3. CASE d # c /\ e # c
        BY <2>6, <3>3 DEF SameTurn, ConversationInv, AloneIsAlone, Busy
      <3>. QED BY <3>1, <3>2, <3>3
    <2>. QED BY <2>7, <2>8, <2>9
  <1>. QED BY <1>1, <1>2

\* A new session has no turns, and says nothing.
LEMMA NewSessionSays ==
  NewSession \in Session /\ FollowsFromTurns(NewSession) /\ Messages(NewSession) = {}
  <1>1. /\ NewSession.turns = <<>> /\ NewSession.intent = "none"
        /\ \A k \in Key : NewSession.entities[k] = 0
    BY DEF NewSession
  <1>2. NewSession \in Session
    BY DEF NewSession, Session
  <1>3. Messages(NewSession) = {}
    BY <1>1 DEF Messages
  <1>4. ~KnownBy(<<>>, Len(<<>>)) /\ \A k \in Key : Givers(<<>>, k) = {}
    BY DEF KnownBy, Givers
  <1>. QED BY <1>1, <1>2, <1>3, <1>4, Follows

\* A message is read against its session as it is in the store, or a new one.
LEMMA ResolveKeeps ==
  ASSUME ConversationInv, NEW c \in Request, NEW asked, asked \subseteq named, _resolve_session(c, asked)
  PROVE  ConversationInv'
  <1>1. turn[c].pc = "ready" /\ sent' = sent + 1 /\ UNCHANGED <<sessions, kept, failures>>
    BY DEF _resolve_session, On
  <1>2. /\ named \subseteq SessionId
        /\ \A s \in SessionId : \A session \in sessions[s] :
              session \in Session /\ kept[s] \subseteq Messages(session) /\ FollowsFromTurns(session)
    BY DEF ConversationInv, ConversationTypes, MessagesAreKept, Messages
  <1>3. (ConversationTypes' /\ TurnsSay' /\ AloneIsAlone') /\ named \subseteq named'
    <2>1. CASE \E s \in asked : \E session \in sessions[s] : StartsParse(c, s, session) /\ UNCHANGED named
      BY <1>1, <1>2, <2>1, ParseStarts
    <2>2. CASE \E s \in SessionId \ named : named' = named \cup {s} /\ StartsParse(c, s, NewSession)
      <3>1. PICK s \in SessionId \ named : named' = named \cup {s} /\ StartsParse(c, s, NewSession)
        BY <2>2
      <3>2. kept[s] \subseteq Messages(NewSession)
        BY DEF ConversationInv, UnusedIsEmpty
      <3>. QED BY <1>1, <1>2, <3>1, <3>2, NewSessionSays, ParseStarts
    <2>. QED BY <2>1, <2>2 DEF _resolve_session
  <1>4. UnusedIsEmpty'
    BY <1>1, <1>3 DEF ConversationInv, UnusedIsEmpty
  <1>5. MessagesAreKept'
    BY <1>1, Zenon DEF ConversationInv, MessagesAreKept
  <1>. QED BY <1>3, <1>4, <1>5 DEF ConversationInv

\* What is merged into the session that was read is saved over whatever is in
\* the store by then: it has all messages that are kept of that session,
\* since its request met no other one if its own message is (RedisStore.save).
LEMMA SaveKeeps ==
  ASSUME ConversationInv, NEW c \in Request, save(c)
  PROVE  ConversationInv'
  <1>. DEFINE s == turn[c].id
  <1>1. /\ turn[c] \in Turn /\ turn[c].pc # "ready" /\ s \in SessionId /\ s \in named
        /\ turn[c].message \in Nat /\ turn[c].session \in Session /\ turn[c].result \in Parse
    BY TurnRecords DEF save, On, ConversationInv, ConversationTypes, Ready, TurnsSay, Busy
  <1>2. /\ sessions \in [SessionId -> SUBSET Session] /\ named \subseteq SessionId /\ sent \in Nat
        /\ turn \in [Request -> {Ready} \cup Turn] /\ kept \in [SessionId -> SUBSET Nat] /\ failures \in Nat
    BY DEF ConversationInv, ConversationTypes
  <1>3. PICK merged : merged = Updated(c)
    OBVIOUS
  <1>4. /\ merged \in Session /\ FollowsFromTurns(merged) /\ Len(merged.turns) <= MaxTurns
        /\ Messages(merged) = Messages(turn[c].session) \cup {turn[c].message}
        /\ kept[s] \subseteq Messages(turn[c].session)
    <2>1. /\ kept[s] \subseteq Messages(turn[c].session) /\ Len(turn[c].session.turns) < MaxTurns
          /\ FollowsFromTurns(turn[c].session)
      BY <1>1 DEF ConversationInv, TurnsSay, Busy
    <2>2. Len(turn[c].session.turns) \in Nat
      BY <1>1 DEF Session
    <2>3. /\ merged \in Session /\ FollowsFromTurns(merged)
          /\ Len(merged.turns) = Len(turn[c].session.turns) + 1
          /\ Messages(merged) = Messages(turn[c].session) \cup {turn[c].message}
      BY <1>1, <1>3, <2>1, MergeFollows DEF Updated
    <2>. QED BY <2>1, <2>2, <2>3, ConversationParameters
  <1>5. /\ turn' = [turn EXCEPT ![c] = Ready] /\ named' = named /\ sent' = sent /\ failures' \in Nat
        /\ sessions' = sessions \/ sessions' = [sessions EXCEPT ![s] = {merged}]
        /\ kept' = kept
             \/ /\ turn[c].alone /\ sessions' = [sessions EXCEPT ![s] = {merged}]
                /\ kept' = [kept EXCEPT ![s] = @ \cup {turn[c].message}]
    BY <1>2, <1>3 DEF save, Ends, Fail
  <1>. HIDE DEF s
  <1>6. turn'[c] = Ready /\ \A d \in Request \ {c} : turn'[d] = turn[d]
    BY <1>2, <1>5
  <1>7. \A z \in SessionId : /\ z # s => sessions'[z] = sessions[z] /\ kept'[z] = kept[z]
                             /\ sessions'[z] = sessions[z] \/ sessions'[z] = {merged}
                             /\ kept'[z] \subseteq kept[z] \cup {turn[c].message}
    BY <1>1, <1>2, <1>5
  <1>8. ConversationTypes'
    <2>1. turn' \in [Request -> {Ready} \cup Turn]
      BY <1>2, <1>5
    <2>2. sessions' \in [SessionId -> SUBSET Session] /\ kept' \in [SessionId -> SUBSET Nat]
      BY <1>1, <1>2, <1>4, <1>5
    <2>. QED BY <1>2, <1>5, <2>1, <2>2 DEF ConversationTypes
  <1>9. TurnsSay'
    <2>. SUFFICES ASSUME NEW d \in Request, turn'[d].pc # "ready"
                  PROVE  /\ turn'[d].id \in named'
                         /\ kept'[turn'[d].id] \subseteq Messages(turn'[d].session)
                         /\ Len(turn'[d].session.turns) < MaxTurns
                         /\ FollowsFromTurns(turn'[d].session)
      BY DEF TurnsSay, Busy, Messages, FollowsFromTurns
    <2>1. d # c /\ turn'[d] = turn[d] /\ turn[d].pc # "ready"
      BY <1>6, TurnRecords
    <2>2. turn[d].id \in SessionId
      BY <1>2, <2>1, TurnRecords
    <2>3. kept'[turn[d].id] = kept[turn[d].id]
      <3>1. CASE turn[c].alone
        <4>1. turn[d].id # s
          BY <1>1, <2>1, <3>1 DEF ConversationInv, AloneIsAlone, Busy, s
        <4>. QED BY <1>7, <2>2, <4>1
      <3>2. CASE ~turn[c].alone
        BY <1>5, <3>2
      <3>. QED BY <3>1, <3>2
    <2>. QED BY <1>5, <2>1, <2>2, <2>3 DEF ConversationInv, TurnsSay, Busy
  <1>10. AloneIsAlone'
    <2>1. \A d \in Request : Busy(d)' => Busy(d) /\ turn'[d] = turn[d]
      BY <1>6, TurnRecords DEF Busy
    <2>2. AloneIsAlone
      BY DEF ConversationInv
    <2>. QED BY <2>1, <2>2, Zenon DEF AloneIsAlone
  <1>11. UnusedIsEmpty'
    BY <1>1, <1>5, <1>7 DEF ConversationInv, UnusedIsEmpty
  <1>12. MessagesAreKept'
    <2>. SUFFICES ASSUME NEW z \in SessionId, NEW session \in sessions'[z]
                  PROVE  /\ kept'[z] \subseteq Messages(session)
                         /\ Len(session.turns) <= MaxTurns /\ FollowsFromTurns(session)
      BY Zenon DEF MessagesAreKept, Messages, FollowsFromTurns
    <2>0. session \in sessions[z] =>
            /\ kept[z] \subseteq Messages(session)
            /\ Len(session.turns) <= MaxTurns /\ FollowsFromTurns(session)
      BY Zenon DEF ConversationInv, MessagesAreKept, Messages
    <2>1. CASE z # s
      BY <1>7, <2>0, <2>1
    <2>2. CASE z = s /\ sessions' = [sessions EXCEPT ![s] = {merged}]
      <3>1. session = merged
        BY <1>2, <2>2
      <3>. QED BY <1>4, <1>7, <2>2, <3>1
    <2>3. CASE z = s /\ sessions' # [sessions EXCEPT ![s] = {merged}]
      BY <1>5, <2>0, <2>3
    <2>. QED BY <2>1, <2>2, <2>3
  <1>. QED BY <1>8, <1>9, <1>10, <1>11, <1>12 DEF ConversationInv

\* A session that goes takes what is kept of it with it.
LEMMA ResetKeeps ==
  ASSUME ConversationInv, NEW s \in SessionId, reset_session(s)
  PROVE  ConversationInv'
  <1>1. /\ sessions \in [SessionId -> SUBSET Session] /\ kept \in [SessionId -> SUBSET Nat]
        /\ sessions' = [sessions EXCEPT ![s] = {}] /\ kept' = [kept EXCEPT ![s] = {}]
        /\ UNCHANGED <<named, turn, sent, failures>>
    BY DEF ConversationInv, ConversationTypes, reset_session
  <1>2. \A z \in SessionId : kept'[z] \subseteq kept[z] /\ sessions'[z] \subseteq sessions[z]
    BY <1>1
  <1>3. ConversationTypes'
    BY <1>1 DEF ConversationInv, ConversationTypes
  <1>4. \A d \in Request : SameTurn(d)
    BY <1>1 DEF SameTurn
  <1>5. UnusedIsEmpty'
    BY <1>1, <1>2 DEF ConversationInv, ConversationTypes, UnusedIsEmpty
  <1>6. MessagesAreKept'
    <2>. SUFFICES ASSUME NEW z \in SessionId, NEW session \in sessions'[z]
                  PROVE  /\ kept'[z] \subseteq Messages(session)
                         /\ Len(session.turns) <= MaxTurns /\ FollowsFromTurns(session)
      BY Zenon DEF MessagesAreKept, Messages, FollowsFromTurns
    <2>1. /\ kept[z] \subseteq Messages(session)
          /\ Len(session.turns) <= MaxTurns /\ FollowsFromTurns(session)
      BY <1>2, Zenon DEF ConversationInv, MessagesAreKept, Messages
    <2>. QED BY <1>2, <2>1
  <1>. QED BY <1>1, <1>2, <1>3, <1>4, <1>5, <1>6, TurnsStay DEF ConversationInv

-----------------------------------------------------------------------------
\* The conversation's invariant: the sessions in the store, and those that
\* requests have read, say what follows from their turns, have room and have
\* the messages that are kept (IntakeService.process_message, reset_session).
THEOREM ConversationInvariance == ConversationSpec => []ConversationInv
  <1>1. ConversationInit => ConversationInv
    <2>. SUFFICES ASSUME ConversationInit PROVE ConversationInv
      OBVIOUS
    <2>1. ConversationTypes
      BY DEF ConversationInit, ConversationTypes
    <2>. QED BY <2>1, TurnRecords DEF ConversationInit, ConversationInv, TurnsSay, AloneIsAlone, Busy,
                                     UnusedIsEmpty, MessagesAreKept
  <1>2. ConversationInv /\ [ConversationNext]_conversationVars => ConversationInv'
    <2>. SUFFICES ASSUME ConversationInv, [ConversationNext]_conversationVars PROVE ConversationInv'
      OBVIOUS
    <2>1. CASE \E s \in SessionId : reset_session(s)
      BY <2>1, ResetKeeps
    <2>2. ASSUME NEW c \in Request,
                 _resolve_session(c, {}) \/ \E s \in named : _resolve_session(c, {s})
          PROVE  ConversationInv'
      BY <2>2, ResolveKeeps
    <2>3. ASSUME NEW c \in Request, AskLocal(c) \/ AskRemote(c) \/ Escalate(c)
          PROVE  ConversationInv'
      <3>1. /\ turn' \in [Request -> {Ready} \cup Turn] /\ failures' \in Nat
            /\ UNCHANGED <<sessions, named, sent, kept>> /\ \A d \in Request : SameTurn(d)
        BY <2>3, ParseMoves DEF ConversationInv
      <3>2. ConversationTypes'
        BY <3>1 DEF ConversationInv, ConversationTypes
      <3>3. UnusedIsEmpty' /\ MessagesAreKept'
        BY <3>1, Zenon DEF ConversationInv, UnusedIsEmpty, MessagesAreKept
      <3>. QED BY <3>1, <3>2, <3>3, TurnsStay DEF ConversationInv
    <2>4. ASSUME NEW c \in Request, save(c) PROVE ConversationInv'
      BY <2>4, SaveKeeps
    <2>5. CASE UNCHANGED conversationVars
      <3>1. UNCHANGED <<sessions, named, turn, sent, kept, failures>>
        BY <2>5 DEF conversationVars
      <3>2. ConversationTypes' /\ \A d \in Request : SameTurn(d)
        BY <3>1 DEF ConversationInv, ConversationTypes, SameTurn
      <3>3. UnusedIsEmpty' /\ MessagesAreKept'
        BY <3>1, Zenon DEF ConversationInv, UnusedIsEmpty, MessagesAreKept
      <3>. QED BY <3>1, <3>2, <3>3, TurnsStay DEF ConversationInv
    <2>. QED BY <2>1, <2>2, <2>3, <2>4, <2>5 DEF ConversationNext
  <1>. QED BY <1>1, <1>2, PTL DEF ConversationSpec

\* No answered message is lost to another request of the user, no session has
\* more turns than allowed, and a session's intent and entities are those its
\* turns give it (IntakeService.process_message, _merge_parse_result).
THEOREM MessagesStay == ConversationSpec => []MessagesAreKept
  <1>1. ConversationInv => MessagesAreKept
    BY DEF ConversationInv
  <1>. QED BY <1>1, ConversationInvariance, PTL

-----------------------------------------------------------------------------
(* PreviewRun *)

Kept == {"completed", "failed", "deferred", "skipped"}
Reached == DOMAIN results \cup DOMAIN running

\* A step that may be called: its names have no verb for writing, and it waits
\* for nobody.
Previewed(n) ==
    /\ The(n).type \in {"api", "sanitizer"} /\ ~The(n).gate_id /\ The(n).known
    /\ The(n).uses \cap _WRITE_VERBS = {} /\ The(n).call \cap _WRITE_VERBS = {}

\* The levels that are left hold the steps that were not reached, each once and
\* after what it mentions.
LeftInOrder ==
    /\ left \in Seq(Seq(Ids(previewed)))
    /\ \A k \in DOMAIN left : ToSet(left[k]) \cap Reached = {}
    /\ \A j, k \in DOMAIN left : j # k => ToSet(left[j]) \cap ToSet(left[k]) = {}
    /\ \A k \in DOMAIN left : \A n \in ToSet(left[k]) : \A m \in Mentioned(n) :
          m \in Reached \/ \E j \in 1 .. k - 1 : m \in ToSet(left[j])

PreviewTypes ==
    /\ Reached \subseteq Ids(previewed)
    /\ DOMAIN results \cap DOMAIN running = {}
    /\ \A n \in DOMAIN results : results[n] \in Kept
    /\ \A n \in DOMAIN running : running[n] \in {"sent", "completed", "failed"}

\* What was called is what was sent or has come back; it may be called, and
\* could read all that it mentions and whatever that could read.
CallsInOrder ==
    /\ DOMAIN running \subseteq DOMAIN called /\ DOMAIN called \subseteq Reached
    /\ Having("completed") \subseteq DOMAIN called
    /\ \A n \in DOMAIN called :
          /\ Previewed(n)
          /\ called[n] \subseteq Having("completed") /\ Mentioned(n) \subseteq called[n]
          /\ \A m \in called[n] : called[m] \subseteq called[n]

PreviewInv ==
    /\ previewed \in Previews /\ PreviewTypes /\ CallsInOrder
    /\ permit = "none" => Resolvable(previewed) /\ LeftInOrder

-----------------------------------------------------------------------------
\* The record of a step of the graph has its number and the types of the plan.
LEMMA TheStep ==
  ASSUME previewed \in Previews, NEW n \in Ids(previewed)
  PROVE  The(n) \in PreviewStep /\ The(n).step = n /\ The(n) \in ToSet(previewed)
  <1>1. previewed \in Seq(PreviewStep)
    BY PreviewParameters DEF PreviewParameters
  <1>2. \E s \in ToSet(previewed) : s.step = n
    BY DEF Ids, ToSet
  <1>3. The(n) \in ToSet(previewed) /\ The(n).step = n
    BY <1>2 DEF The
  <1>. QED BY <1>1, <1>3 DEF ToSet

\* Only a step that may be called, and whose mentioned steps have come back, is called
\* (preview_service.py:246-291).
LEMMA DispatchedIsPreviewed ==
  ASSUME previewed \in Previews, PreviewTypes, NEW n \in Ids(previewed),
         Mentioned(n) \subseteq DOMAIN results, _classify_step(The(n)) = "dispatch"
  PROVE  Previewed(n) /\ Mentioned(n) \subseteq Having("completed")
  <1>1. Previewed(n)
    <2>1. /\ The(n).type \in {"api", "llm_reasoning", "policy_check", "sanitizer"}
          /\ The(n).type \notin {"llm_reasoning", "policy_check"} /\ ~The(n).gate_id
          /\ is_previewable(The(n)) /\ ~is_write_action(The(n))
      BY TheStep DEF _classify_step, PreviewStep
    <2>2. The(n).type \in {"api", "sanitizer"}
      BY <2>1
    <2>. QED BY <2>1, <2>2 DEF Previewed, is_write_action, is_previewable
  <1>2. /\ ToSet(The(n).after) \cap Having("deferred") = {}
        /\ ToSet(The(n).after) \cap Failed = {}
    BY DEF _classify_step
  <1>. QED BY <1>1, <1>2 DEF PreviewTypes, Kept, Mentioned, Having, Failed

\* What a called step comes after it could read.
LEMMA AncestorsAreRead ==
  ASSUME PreviewTypes, CallsInOrder, NEW n \in DOMAIN called
  PROVE  Ancestors(n) \subseteq called[n]
  <1>1. called[n] \in SUBSET Ids(previewed)
    BY DEF CallsInOrder, Having, PreviewTypes, Reached
  <1>2. Mentioned(n) \subseteq called[n]
    BY DEF CallsInOrder
  <1>3. \A m \in called[n] : Mentioned(m) \subseteq called[n]
    BY DEF CallsInOrder
  <1>. QED BY <1>1, <1>2, <1>3 DEF Ancestors

\* The resolver's levels are in order (preview_service.py:64-95).
LEMMA PreviewBegins == PreviewInit => PreviewInv
  <1> SUFFICES ASSUME PreviewInit PROVE PreviewInv
    OBVIOUS
  <1>1. previewed \in Previews /\ DOMAIN results = {} /\ DOMAIN running = {} /\ DOMAIN called = {}
    BY DEF PreviewInit
  <1>2. PreviewTypes /\ CallsInOrder
    BY <1>1 DEF PreviewTypes, CallsInOrder, Reached, Having
  <1>3. ASSUME permit = "none" PROVE Resolvable(previewed) /\ LeftInOrder
    <2>1. Resolvable(previewed) /\ left = LevelsOf(previewed)
      BY <1>3 DEF PreviewInit
    <2>2. KeepsOrder(previewed, left) /\ previewed \in Seq(PreviewStep)
      <3>1. previewed \in Seq(PreviewStep)
        BY <1>1, PreviewParameters DEF PreviewParameters
      <3>2. \A i \in DOMAIN previewed : previewed[i] \in PreviewStep
        BY <3>1
      <3>3. IsGraph(previewed)
        BY <3>1, <3>2 DEF IsGraph, PreviewStep
      <3>. QED BY <2>1, <3>1, <3>3, LevelsKeepOrder
    <2>3. left \in Seq(Seq(Ids(previewed)))
      BY <2>2 DEF KeepsOrder
    <2>4. \A j, k \in DOMAIN left : j # k => ToSet(left[j]) \cap ToSet(left[k]) = {}
      BY <2>2 DEF KeepsOrder, ToSet
    <2>5. ASSUME NEW k \in DOMAIN left, NEW n \in ToSet(left[k]), NEW m \in Mentioned(n)
          PROVE  \E j \in 1 .. k - 1 : m \in ToSet(left[j])
      <3>1. n \in Ids(previewed)
        BY <2>3 DEF ToSet
      <3>2. PICK i \in DOMAIN previewed : previewed[i] = The(n) /\ previewed[i].step = n
        BY <3>1, <1>1, TheStep DEF ToSet
      <3>. QED BY <3>2, <2>2 DEF KeepsOrder, Mentioned
    <2>. QED BY <1>1, <2>1, <2>3, <2>4, <2>5 DEF LeftInOrder, Reached
  <1>. QED BY <1>1, <1>2, <1>3 DEF PreviewInv

\* A level that is entered sends the calls it may (preview_service.py:165-213).
LEMMA LevelProcessed ==
  ASSUME PreviewInv, _process_level
  PROVE  PreviewInv'
  <1>. DEFINE steps == ToSet(Head(left))
              ready == {n \in steps : _classify_step(The(n)) = "dispatch"}
              class == [n \in steps |-> _classify_step(The(n))]
  <1>1. /\ previewed \in Previews /\ PreviewTypes /\ CallsInOrder /\ LeftInOrder
        /\ Resolvable(previewed) /\ DOMAIN running = {} /\ left # <<>>
        /\ UNCHANGED <<previewed, permit>>
    BY DEF PreviewInv, _process_level
  <1>2. /\ left' = Tail(left) /\ Head(left) = left[1] /\ 1 \in DOMAIN left
        /\ left \in Seq(Seq(Ids(previewed)))
    BY <1>1 DEF _process_level, LeftInOrder
  <1>3. \A n \in steps : n \in Ids(previewed) /\ n \notin Reached /\ Mentioned(n) \subseteq DOMAIN results
    <2>1. Reached = DOMAIN results
      BY <1>1 DEF Reached
    <2>2. ASSUME NEW n \in steps
          PROVE  n \in Ids(previewed) /\ n \notin Reached /\ Mentioned(n) \subseteq DOMAIN results
      <3>1. n \in ToSet(left[1]) /\ left[1] \in Seq(Ids(previewed))
        BY <1>2
      <3>2. n \in Ids(previewed)
        BY <3>1 DEF ToSet
      <3>3. n \notin Reached
        BY <1>1, <1>2, <3>1 DEF LeftInOrder
      <3>4. \A m \in Mentioned(n) : m \in Reached \/ \E j \in 1 .. 1 - 1 : m \in ToSet(left[j])
        BY <1>1, <1>2, <3>1 DEF LeftInOrder
      <3>. QED BY <2>1, <3>2, <3>3, <3>4
    <2>. QED BY <2>2
  <1>4. /\ DOMAIN results' = (steps \ ready) \cup DOMAIN results
        /\ \A n \in DOMAIN results : results'[n] = results[n]
        /\ \A n \in steps \ ready : results'[n] \in Kept \ {"completed"}
    <2>1. results' = Over([n \in steps \ ready |-> class[n]], results)
      BY DEF _process_level
    <2>2. DOMAIN results' = (steps \ ready) \cup DOMAIN results
      BY <2>1 DEF Over
    <2>3. \A n \in DOMAIN results : results'[n] = results[n]
      BY <2>1, <1>3 DEF Over, Reached
    <2>4. ASSUME NEW n \in steps \ ready PROVE results'[n] \in Kept \ {"completed"}
      <3>1. results'[n] = _classify_step(The(n))
        BY <2>1 DEF Over
      <3>. QED BY <3>1 DEF _classify_step, Kept
    <2>. QED BY <2>2, <2>3, <2>4
  <1>5. /\ DOMAIN running' = ready /\ \A n \in ready : running'[n] = "sent"
        /\ DOMAIN called' = ready \cup DOMAIN called
        /\ \A n \in ready : called'[n] = Having("completed")
        /\ \A n \in DOMAIN called : n \notin ready /\ called'[n] = called[n]
    <2>1. /\ running' = [n \in ready |-> "sent"]
          /\ called' = Over([n \in ready |-> Having("completed")], called)
      BY DEF _process_level
    <2>2. \A n \in DOMAIN called : n \notin ready
      BY <1>1, <1>3 DEF CallsInOrder
    <2>. QED BY <2>1, <2>2 DEF Over
  <1>6. Having("completed")' = Having("completed") /\ Reached' = Reached \cup steps
    BY <1>1, <1>4, <1>5 DEF Having, Reached
  <1>7. Ids(previewed)' = Ids(previewed) /\ \A n : Mentioned(n)' = Mentioned(n) /\ Previewed(n)' = Previewed(n)
    BY <1>1 DEF Ids, Mentioned, The, Previewed
  <1>. HIDE DEF steps, ready
  <1>8. PreviewTypes'
    <2>1. Reached' \subseteq Ids(previewed)
      BY <1>1, <1>3, <1>6 DEF PreviewTypes
    <2>2. DOMAIN results' \cap DOMAIN running' = {}
      BY <1>3, <1>4, <1>5 DEF Reached, ready
    <2>. QED BY <1>1, <1>4, <1>5, <1>7, <2>1, <2>2 DEF PreviewTypes, Kept
  <1>9. CallsInOrder'
    <2>1. \A n \in ready : Previewed(n) /\ Mentioned(n) \subseteq Having("completed")
      BY <1>1, <1>3, DispatchedIsPreviewed DEF ready
    <2>2. ready \subseteq steps
      BY DEF ready
    <2>3. DOMAIN called' \subseteq Reached' /\ DOMAIN running' \subseteq DOMAIN called'
      BY <1>1, <1>5, <1>6, <2>2 DEF CallsInOrder
    <2>4. \A n \in ready : \A m \in Having("completed") :
            m \in DOMAIN called /\ called'[m] = called[m] /\ called[m] \subseteq Having("completed")
      BY <1>1, <1>5 DEF CallsInOrder
    <2>5. \A n \in DOMAIN called :
            /\ called'[n] = called[n] /\ called[n] \subseteq Having("completed")
            /\ \A m \in called[n] : m \in DOMAIN called /\ called'[m] = called[m]
      BY <1>1, <1>5 DEF CallsInOrder
    <2>6. ASSUME NEW n \in DOMAIN called'
          PROVE  /\ Previewed(n)'
                 /\ called'[n] \subseteq Having("completed")' /\ Mentioned(n)' \subseteq called'[n]
                 /\ \A m \in called'[n] : called'[m] \subseteq called'[n]
      <3>1. CASE n \in ready
        BY <3>1, <1>5, <1>6, <1>7, <2>1, <2>4
      <3>2. CASE n \in DOMAIN called
        <4>1. Previewed(n) /\ Mentioned(n) \subseteq called[n]
              /\ \A m \in called[n] : called[m] \subseteq called[n]
          BY <3>2, <1>1 DEF CallsInOrder
        <4>. QED BY <3>2, <4>1, <1>6, <1>7, <2>5
      <3>. QED BY <3>1, <3>2, <1>5
    <2>7. Having("completed")' \subseteq DOMAIN called'
      BY <1>1, <1>5, <1>6 DEF CallsInOrder
    <2>. QED BY <2>3, <2>6, <2>7 DEF CallsInOrder
  <1>10. LeftInOrder'
    <2>1. /\ left' \in Seq(Seq(Ids(previewed))) /\ Len(left') = Len(left) - 1
          /\ \A k \in DOMAIN left' : left'[k] = left[k + 1] /\ k + 1 \in DOMAIN left
          /\ \A k \in DOMAIN left : k \in Nat /\ k >= 1
      BY <1>1, <1>2
    <2>2. steps = ToSet(left[1])
      BY <1>2 DEF steps
    <2>3. ASSUME NEW k \in DOMAIN left' PROVE ToSet(left'[k]) \cap Reached' = {}
      <3>1. left'[k] = left[k + 1] /\ k + 1 \in DOMAIN left /\ k + 1 # 1
        <4>1. k \in 1 .. Len(left')
          BY <2>1
        <4>. QED BY <2>1, <4>1
      <3>2. ToSet(left[k + 1]) \cap Reached = {} /\ ToSet(left[k + 1]) \cap ToSet(left[1]) = {}
        BY <1>1, <1>2, <3>1 DEF LeftInOrder
      <3>. QED BY <1>6, <2>2, <3>1, <3>2
    <2>4. ASSUME NEW j \in DOMAIN left', NEW k \in DOMAIN left', j # k
          PROVE  ToSet(left'[j]) \cap ToSet(left'[k]) = {}
      <3>1. j \in 1 .. Len(left') /\ k \in 1 .. Len(left')
        BY <2>1
      <3>2. /\ left'[j] = left[j + 1] /\ left'[k] = left[k + 1] /\ j + 1 # k + 1
            /\ j + 1 \in DOMAIN left /\ k + 1 \in DOMAIN left
        BY <2>1, <2>4, <3>1
      <3>. QED BY <1>1, <3>2 DEF LeftInOrder
    <2>5. ASSUME NEW k \in DOMAIN left', NEW n \in ToSet(left'[k]), NEW m \in Mentioned(n),
                 m \notin Reached'
          PROVE  \E j \in 1 .. k - 1 : m \in ToSet(left'[j])
      <3>1. PICK j \in 1 .. k : m \in ToSet(left[j])
        <4>1. m \notin Reached /\ n \in ToSet(left[k + 1]) /\ k + 1 \in DOMAIN left /\ k \in Nat
          BY <1>6, <2>1, <2>5
        <4>2. PICK j \in 1 .. (k + 1) - 1 : m \in ToSet(left[j])
          BY <4>1, <1>1 DEF LeftInOrder
        <4>. QED BY <4>1, <4>2
      <3>2. j # 1
        BY <1>6, <2>2, <2>5, <3>1
      <3>3. j - 1 \in DOMAIN left' /\ j - 1 \in 1 .. k - 1 /\ (j - 1) + 1 = j
        BY <1>2, <2>1, <3>1, <3>2
      <3>. QED BY <2>1, <3>1, <3>3
    <2>. QED BY <1>7, <2>1, <2>3, <2>4, <2>5 DEF LeftInOrder
  <1>. QED BY <1>1, <1>8, <1>9, <1>10 DEF PreviewInv

\* The calls of a level come back.
LEMMA CallAnswered ==
  ASSUME PreviewInv, NEW n \in DOMAIN running, _dispatch_step(n)
  PROVE  PreviewInv'
  <1>1. /\ DOMAIN running' = DOMAIN running
        /\ \A m \in DOMAIN running : running'[m] = running[m] \/ running'[m] \in {"completed", "failed"}
        /\ UNCHANGED <<previewed, left, results, called, permit>>
    BY DEF _dispatch_step
  <1>2. /\ Reached' = Reached /\ Having("completed")' = Having("completed")
        /\ \A m : Mentioned(m)' = Mentioned(m) /\ Previewed(m)' = Previewed(m)
    BY <1>1 DEF Reached, Having, Mentioned, Previewed, The, Ids
  <1>3. PreviewTypes'
    BY <1>1, <1>2 DEF PreviewInv, PreviewTypes, Ids
  <1>4. CallsInOrder'
    BY <1>1, <1>2 DEF PreviewInv, CallsInOrder
  <1>5. LeftInOrder => LeftInOrder'
    BY <1>1, <1>2 DEF LeftInOrder, Ids
  <1>. QED BY <1>1, <1>3, <1>4, <1>5 DEF PreviewInv

\* The answers of a level become results together (preview_service.py:214-240).
LEMMA CallsGathered ==
  ASSUME PreviewInv, Gathered
  PROVE  PreviewInv'
  <1>1. /\ results' = Over(running, results) /\ DOMAIN running' = {}
        /\ \A n \in DOMAIN running : running[n] # "sent"
        /\ UNCHANGED <<previewed, left, called, permit>>
    BY DEF Gathered
  <1>2. /\ DOMAIN results' = DOMAIN running \cup DOMAIN results
        /\ \A n \in DOMAIN running : results'[n] = running[n]
        /\ \A n \in DOMAIN results : results'[n] = results[n]
    BY <1>1 DEF Over, PreviewInv, PreviewTypes
  <1>3. /\ Reached' = Reached
        /\ \A m : Mentioned(m)' = Mentioned(m) /\ Previewed(m)' = Previewed(m)
    BY <1>1, <1>2 DEF Reached, Mentioned, Previewed, The, Ids
  <1>4. Having("completed") \subseteq Having("completed")'
        /\ Having("completed")' \subseteq Having("completed") \cup DOMAIN running
    BY <1>2 DEF Having
  <1>5. PreviewTypes'
    BY <1>1, <1>2, <1>3 DEF PreviewInv, PreviewTypes, Kept, Ids
  <1>6. CallsInOrder'
    BY <1>1, <1>3, <1>4 DEF PreviewInv, CallsInOrder
  <1>7. LeftInOrder => LeftInOrder'
    BY <1>1, <1>3 DEF LeftInOrder, Ids
  <1>. QED BY <1>1, <1>5, <1>6, <1>7 DEF PreviewInv

\* Each step of a preview keeps the invariant.
LEMMA PreviewStays == PreviewInv /\ [PreviewNext]_previewVars => PreviewInv'
  <1> SUFFICES ASSUME PreviewInv, [PreviewNext]_previewVars PROVE PreviewInv'
    OBVIOUS
  <1>1. CASE PreviewFinished
    <2>1. UNCHANGED <<previewed, left, results, running, called>> /\ permit' # "none"
      BY <1>1 DEF PreviewFinished
    <2>. QED BY <2>1 DEF PreviewInv, PreviewTypes, CallsInOrder, Reached, Having, Mentioned,
                         Previewed, The, Ids
  <1>2. CASE UNCHANGED previewVars
    <2>1. UNCHANGED <<previewed, left, results, running, called, permit>>
      BY <1>2 DEF previewVars
    <2>2. /\ Reached' = Reached /\ Having("completed")' = Having("completed")
          /\ \A m : Mentioned(m)' = Mentioned(m) /\ Previewed(m)' = Previewed(m)
      BY <2>1 DEF Reached, Having, Mentioned, Previewed, The, Ids
    <2>3. PreviewTypes' /\ CallsInOrder'
      BY <2>1, <2>2 DEF PreviewInv, PreviewTypes, CallsInOrder, Ids
    <2>4. LeftInOrder => LeftInOrder'
      BY <2>1, <2>2 DEF LeftInOrder, Ids
    <2>. QED BY <2>1, <2>3, <2>4 DEF PreviewInv
  <1>. QED BY <1>1, <1>2, LevelProcessed, CallAnswered, CallsGathered DEF PreviewNext

\* A preview calls in the order of the levels (PreviewService.preview).
THEOREM PreviewInvariance == PreviewSpec => []PreviewInv
  BY PreviewBegins, PreviewStays, PTL DEF PreviewSpec

\* The preview of any graph calls only steps of known tools, without a gate and
\* without a verb for writing in their names, that follow only such steps; all
\* that a called step comes after has been called before, came back and could
\* be read
\* (preview_service.py:165-291).
THEOREM PreviewsStopAtGates == PreviewSpec => []PreviewStopsAtGates
  <1>1. ASSUME PreviewInv PROVE PreviewStopsAtGates
    <2>1. ASSUME NEW n \in DOMAIN called PROVE Ancestors(n) \subseteq called[n]
      BY <1>1, AncestorsAreRead DEF PreviewInv
    <2>2. \A n \in DOMAIN called : called[n] \subseteq DOMAIN called
      BY <1>1 DEF PreviewInv, CallsInOrder
    <2>3. \A n \in DOMAIN called : Previewed(n)
      BY <1>1 DEF PreviewInv, CallsInOrder
    <2>. QED BY <2>1, <2>2, <2>3 DEF PreviewStopsAtGates, Previewed
  <1>. QED BY <1>1, PreviewInvariance, PTL
-----------------------------------------------------------------------------
(* PlanRules *)

\* What the layers have established, each on top of the one before it.
RulesInv ==
    /\ draft \in Drafts
    /\ layer \in {"schema", "valid"} => draft # <<>> /\ Cardinality(Numbers) = Len(draft) /\ EarlierSteps
    /\ layer = "valid" => ContextIsEarlier /\ RuleF

\* The graph of a draft, as the resolver sees it.
LEMMA DraftIsGraph ==
  ASSUME draft \in Drafts
  PROVE  /\ IsGraph(draft) /\ Numbers = Ids(draft) /\ Numbers \subseteq Nat
         /\ \A n \in Numbers : Numbered(n) \in Steps /\ Numbered(n).step = n
         /\ \A s \in Steps : s.step \in Numbers /\ s.context_from \subseteq Int
  <1>1. /\ IsGraph(draft)
        /\ \A i \in DOMAIN draft : draft[i].step \in Nat /\ draft[i].context_from \subseteq Int
    BY DraftParameters
  <1>2. Numbers = Ids(draft) /\ Numbers \subseteq Nat
    BY <1>1 DEF Numbers, Ids
  <1>3. ASSUME NEW n \in Numbers PROVE Numbered(n) \in Steps /\ Numbered(n).step = n
    <2>1. PICK i \in DOMAIN draft : draft[i].step = n
      BY DEF Numbers
    <2>2. draft[i] \in Steps
      BY DEF Steps, ToSet
    <2>. QED BY <2>1, <2>2, Zenon DEF Numbered
  <1>4. \A s \in Steps : s.step \in Numbers /\ s.context_from \subseteq Int
    BY <1>1 DEF Steps, ToSet, Numbers
  <1>. QED BY <1>1, <1>2, <1>3, <1>4

\* Steps that come after earlier ones only cannot be circular
\* (plan_validator.py: _validate_schema).
LEMMA EarlierIsResolvable ==
  ASSUME draft \in Drafts, draft # <<>>, Cardinality(Numbers) = Len(draft), EarlierSteps
  PROVE  Resolvable(draft)
  <1>1. IsGraph(draft) /\ Numbers = Ids(draft) /\ Ids(draft) \subseteq Nat
    BY DraftIsGraph
  <1>2. \A i \in DOMAIN draft : \A d \in ToSet(draft[i].after) : d < draft[i].step
    BY DEF EarlierSteps, Steps, ToSet
  <1>3. NoneTwice(draft)
    BY <1>1, IdsFinite
  <1>. QED BY <1>1, <1>2, <1>3, DescentIsResolvable

-----------------------------------------------------------------------------
(* What the walk over context_from meets *)

Further(W, Stop) == W \cup UNION {Numbered(k).context_from : k \in (W \cap Numbers) \ Stop}

WalkRule(start, Stop, f) ==
    [n \in Nat |-> IF n = 0 THEN start
                   ELSE f[n - 1] \cup
                        UNION {Numbered(k).context_from : k \in (f[n - 1] \cap Numbers) \ Stop}]

\* q is a way of m steps from start to x.
IsWay(start, Stop, m, q, x) ==
    /\ q[1] \in start /\ q[m] = x
    /\ \A i \in 1 .. m - 1 : q[i] \in Numbers \ Stop /\ q[i + 1] \in Numbered(q[i]).context_from

InReach(start, Stop, n) ==
    {x \in Int : \E m \in 1 .. n + 1 : \E q \in [1 .. m -> Int] : IsWay(start, Stop, m, q, x)}

\* What is at most n steps away is what is at most n - 1 away and one further.
LEMMA ReachGoesFurther ==
  ASSUME draft \in Drafts, NEW start \in SUBSET Int, NEW Stop, NEW n \in Nat \ {0}
  PROVE  InReach(start, Stop, n) = Further(InReach(start, Stop, n - 1), Stop)
  <1>1. ASSUME NEW x \in InReach(start, Stop, n)
        PROVE  x \in Further(InReach(start, Stop, n - 1), Stop)
    <2>1. PICK m \in 1 .. n + 1 : \E q \in [1 .. m -> Int] : IsWay(start, Stop, m, q, x)
      BY <1>1 DEF InReach
    <2>. PICK q \in [1 .. m -> Int] : IsWay(start, Stop, m, q, x)
      BY <2>1
    <2>2. x \in Int
      BY <1>1 DEF InReach
    <2>3. CASE m <= n
      <3>1. m \in 1 .. (n - 1) + 1
        BY <2>3
      <3>2. x \in InReach(start, Stop, n - 1)
        BY <2>1, <2>2, <3>1 DEF InReach
      <3>. QED BY <3>2 DEF Further
    <2>4. CASE m = n + 1
      <3>. DEFINE p == [i \in 1 .. n |-> q[i]]
                  y == q[n]
      <3>1. /\ n \in 1 .. (n - 1) + 1 /\ n \in 1 .. m - 1 /\ n \in 1 .. m /\ 1 \in 1 .. n
            /\ \A i \in 1 .. n - 1 : i \in 1 .. m - 1 /\ i \in 1 .. n /\ i + 1 \in 1 .. n
        BY <2>4
      <3>2. p \in [1 .. n -> Int] /\ y \in Int
        BY <2>4, <3>1
      <3>3. \A i \in 1 .. n : p[i] = q[i]
        OBVIOUS
      <3>. HIDE DEF p
      <3>4. ASSUME NEW i \in 1 .. n - 1
            PROVE  p[i] \in Numbers \ Stop /\ p[i + 1] \in Numbered(p[i]).context_from
        BY <3>1, <3>3 DEF IsWay
      <3>5. IsWay(start, Stop, n, p, y)
        BY <3>1, <3>3, <3>4 DEF IsWay
      <3>6. y \in InReach(start, Stop, n - 1)
        BY <3>1, <3>2, <3>5 DEF InReach
      <3>7. y \in Numbers \ Stop /\ x \in Numbered(y).context_from
        BY <2>1, <2>4, <3>1 DEF IsWay
      <3>. QED BY <3>6, <3>7 DEF Further
    <2>. QED BY <2>3, <2>4
  <1>2. ASSUME NEW x \in InReach(start, Stop, n - 1)
        PROVE  x \in InReach(start, Stop, n)
    <2>1. \A m \in 1 .. (n - 1) + 1 : m \in 1 .. n + 1
      OBVIOUS
    <2>. QED BY <2>1 DEF InReach
  <1>3. ASSUME NEW y \in (InReach(start, Stop, n - 1) \cap Numbers) \ Stop,
               NEW x \in Numbered(y).context_from
        PROVE  x \in InReach(start, Stop, n)
    <2>1. PICK m \in 1 .. (n - 1) + 1 : \E q \in [1 .. m -> Int] : IsWay(start, Stop, m, q, y)
      BY DEF InReach
    <2>. PICK q \in [1 .. m -> Int] : IsWay(start, Stop, m, q, y)
      BY <2>1
    <2>2. x \in Int
      BY DraftIsGraph
    <2>. DEFINE p == [i \in 1 .. m + 1 |-> IF i = m + 1 THEN x ELSE q[i]]
    <2>3. m \in Nat /\ m + 1 \in 1 .. n + 1 /\ 1 \in 1 .. m /\ m \in 1 .. m
      OBVIOUS
    <2>4. /\ p \in [1 .. m + 1 -> Int] /\ p[m + 1] = x
          /\ \A i \in 1 .. m : p[i] = q[i]
      BY <2>2, <2>3
    <2>. HIDE DEF p
    <2>5. ASSUME NEW i \in 1 .. (m + 1) - 1
          PROVE  p[i] \in Numbers \ Stop /\ p[i + 1] \in Numbered(p[i]).context_from
      <3>1. CASE i = m
        BY <2>1, <2>3, <2>4, <3>1 DEF IsWay
      <3>2. CASE i \in 1 .. m - 1
        BY <2>1, <2>4, <3>2 DEF IsWay
      <3>. QED BY <2>3, <3>1, <3>2
    <2>6. IsWay(start, Stop, m + 1, p, x)
      BY <2>1, <2>3, <2>4, <2>5 DEF IsWay
    <2>. QED BY <2>2, <2>3, <2>4, <2>6 DEF InReach
  <1>. QED BY <1>1, <1>2, <1>3 DEF Further

\* The walk meets exactly what some way leads to
\* (plan_validator.py: the loops over the context_from of the steps met).
LEMMA MetIsInReach ==
  ASSUME draft \in Drafts, NEW start \in SUBSET Int, NEW Stop
  PROVE  Met(start, Stop) = InReach(start, Stop, Len(draft))
  <1>. DEFINE f0 == [n \in Nat |-> InReach(start, Stop, n)]
  <1>1. InReach(start, Stop, 0) = start
    <2>1. ASSUME NEW x \in start PROVE x \in InReach(start, Stop, 0)
      <3>1. [i \in 1 .. 1 |-> x] \in [1 .. 1 -> Int] /\ 1 \in 1 .. 0 + 1
        OBVIOUS
      <3>2. IsWay(start, Stop, 1, [i \in 1 .. 1 |-> x], x)
        BY DEF IsWay
      <3>. QED BY <3>1, <3>2 DEF InReach
    <2>2. ASSUME NEW x \in InReach(start, Stop, 0) PROVE x \in start
      BY DEF InReach, IsWay
    <2>. QED BY <2>1, <2>2
  <1>2. f0 = WalkRule(start, Stop, f0)
    <2>1. ASSUME NEW n \in Nat PROVE f0[n] = WalkRule(start, Stop, f0)[n]
      <3>1. CASE n = 0
        BY <1>1, <3>1 DEF WalkRule
      <3>2. CASE n # 0
        <4>1. n \in Nat \ {0} /\ n - 1 \in Nat
          BY <3>2
        <4>2. f0[n] = Further(f0[n - 1], Stop)
          BY <4>1, ReachGoesFurther
        <4>. HIDE DEF f0
        <4>. QED BY <4>1, <4>2 DEF WalkRule, Further
      <3>. QED BY <3>1, <3>2
    <2>2. DOMAIN WalkRule(start, Stop, f0) = Nat
      BY DEF WalkRule
    <2>. QED BY <2>1 DEF WalkRule
  <1>3. ASSUME NEW f, f = WalkRule(start, Stop, f), NEW n \in Nat
        PROVE  f[n] = InReach(start, Stop, n)
    <2>. DEFINE Bad == {m \in Nat : f[m] # f0[m]}
    <2>1. Bad = {}
      <3>. SUFFICES ASSUME Bad # {} PROVE FALSE
        OBVIOUS
      <3>1. PICK m \in Bad : \A k \in Bad : m <= k
        BY LeastNatural
      <3>2. \A k \in Nat : f[k] = WalkRule(start, Stop, f)[k]
                           /\ f0[k] = WalkRule(start, Stop, f0)[k]
        BY <1>2, <1>3
      <3>. HIDE DEF f0
      <3>3. m # 0
        BY <3>2 DEF WalkRule
      <3>4. m - 1 \in Nat /\ ~(m <= m - 1)
        BY <3>3
      <3>5. f[m - 1] = f0[m - 1]
        BY <3>1, <3>4
      <3>. QED BY <3>2, <3>3, <3>5 DEF WalkRule
    <2>. QED BY <2>1
  <1>4. Len(draft) \in Nat
    BY DraftIsGraph DEF IsGraph
  <1>. HIDE DEF f0
  <1>. QED BY <1>2, <1>3, <1>4 DEF Met, WalkRule

-----------------------------------------------------------------------------
(* Paths of reading *)

\* A path of reading goes down in the numbers of the steps, so that it meets
\* none twice and is not longer than the plan.
LEMMA ReadingIsShort ==
  ASSUME draft \in Drafts, ContextIsEarlier,
         NEW N \in Nat, NEW path \in [1 .. N -> Numbers], IsReading(path)
  PROVE  N <= Cardinality(Numbers)
  <1>1. Len(path) = N
    OBVIOUS
  <1>2. \A i \in 1 .. N : path[i] \in Nat
    BY DraftIsGraph
  <1>3. \A i \in 1 .. N - 1 : path[i + 1] < path[i]
    <2>. TAKE i \in 1 .. N - 1
    <2>1. i \in 1 .. N /\ path[i] \in Numbers
      OBVIOUS
    <2>2. Numbered(path[i]) \in Steps /\ Numbered(path[i]).step = path[i]
      BY <2>1, DraftIsGraph
    <2>. QED BY <1>1, <2>2 DEF IsReading, ContextIsEarlier
  <1>4. ASSUME NEW i \in 1 .. N, NEW j \in 1 .. N, i < j PROVE path[j] < path[i]
    <2>. DEFINE Bad == {k \in i + 1 .. N : ~(path[k] < path[i])}
    <2>1. Bad = {}
      <3>. SUFFICES ASSUME Bad # {} PROVE FALSE
        OBVIOUS
      <3>1. PICK k \in Bad : \A l \in Bad : k <= l
        <4>1. Bad \in SUBSET Nat
          OBVIOUS
        <4>. QED BY <4>1, LeastNatural
      <3>2. k - 1 \in 1 .. N - 1 /\ (k - 1) + 1 = k /\ k \in 1 .. N /\ k - 1 \in 1 .. N
        OBVIOUS
      <3>3. path[k] < path[k - 1]
        BY <1>3, <3>2
      <3>4. path[k - 1] < path[i] \/ k - 1 = i
        BY <3>1, <3>2
      <3>. QED BY <1>2, <3>2, <3>3, <3>4
    <2>2. j \in i + 1 .. N
      BY <1>4
    <2>. QED BY <2>1, <2>2
  <1>5. path \in Injection(1 .. N, Numbers)
    <2>1. \A i, j \in 1 .. N : path[i] = path[j] => i = j
      BY <1>2, <1>4
    <2>. QED BY <2>1 DEF Injection, IsInjective
  <1>6. IsFiniteSet(Numbers)
    BY DraftIsGraph, IdsFinite
  <1>7. Cardinality(1 .. N) <= Cardinality(Numbers) /\ Cardinality(1 .. N) = N
    BY <1>5, <1>6, FS_Injection, IntervalCounted
  <1>. QED BY <1>7

\* Whatever a step may come to know past no sanitizer, the walk of rule F meets
\* (plan_validator.py: the walk that stops at sanitizers).
LEMMA UnsanitizedIsMet ==
  ASSUME draft \in Drafts, NEW n \in Nat \ {0, 1}, n <= Len(draft),
         NEW path \in [1 .. n -> Numbers], IsReading(path),
         \A i \in 2 .. n - 1 : path[i] \notin Sanitizers
  PROVE  path[n] \in Met(Numbered(path[1]).context_from, Sanitizers)
  <1>. DEFINE start == Numbered(path[1]).context_from
              q == [i \in 1 .. n - 1 |-> path[i + 1]]
  <1>1. /\ Len(path) = n /\ Len(draft) \in Nat /\ n - 1 \in Nat
        /\ 1 \in 1 .. n /\ n \in 1 .. n /\ n - 1 \in 1 .. Len(draft) + 1
        /\ 1 \in 1 .. n - 1 /\ n - 1 \in 1 .. n - 1
        /\ \A i \in 1 .. (n - 1) - 1 : i + 1 \in 2 .. n - 1 /\ i + 1 \in 1 .. n - 1 /\ i \in 1 .. n - 1
    BY DraftIsGraph DEF IsGraph
  <1>2. Numbers \subseteq Int /\ start \in SUBSET Int
    BY <1>1, DraftIsGraph
  <1>3. q \in [1 .. n - 1 -> Int]
    <2>1. \A i \in 1 .. n - 1 : i + 1 \in 1 .. n
      BY <1>1
    <2>. QED BY <1>2, <2>1
  <1>4. q[1] \in start
    BY <1>1 DEF IsReading
  <1>5. q[n - 1] = path[n]
    BY <1>1
  <1>6. ASSUME NEW i \in 1 .. (n - 1) - 1
        PROVE  q[i] \in Numbers \ Sanitizers /\ q[i + 1] \in Numbered(q[i]).context_from
    <2>1. q[i] = path[i + 1] /\ q[i + 1] = path[(i + 1) + 1]
      BY <1>1
    <2>2. path[i + 1] \in Numbers \ Sanitizers
      BY <1>1
    <2>3. path[(i + 1) + 1] \in Numbered(path[i + 1]).context_from
      BY <1>1 DEF IsReading
    <2>. QED BY <2>1, <2>2, <2>3
  <1>. HIDE DEF q
  <1>7. IsWay(start, Sanitizers, n - 1, q, path[n])
    BY <1>4, <1>5, <1>6 DEF IsWay
  <1>8. path[n] \in InReach(start, Sanitizers, Len(draft))
    <2>1. path[n] \in Int
      BY <1>1, <1>2
    <2>. QED BY <1>1, <1>3, <1>7, <2>1 DEF InReach
  <1>. QED BY <1>2, <1>8, MetIsInReach

\* A sanitizer that a step reads and that has seen a result is on a path of
\* reading from the step to the result (plan_validator.py:
\* _has_intervening_sanitizer).
LEMMA SanitizerIsOnPath ==
  ASSUME draft \in Drafts, ContextIsEarlier, Cardinality(Numbers) = Len(draft),
         NEW r \in Numbers, NEW a \in Numbers, _has_intervening_sanitizer(a, Numbered(r))
  PROVE  \E m \in 3 .. Len(draft) : \E scan \in [1 .. m -> Numbers] :
            IsReading(scan) /\ scan[1] = r /\ scan[2] \in Sanitizers /\ scan[m] = a
  <1>1. PICK k \in Numbered(r).context_from \cap Sanitizers : a \in Met(Numbered(k).context_from, {})
    BY DEF _has_intervening_sanitizer
  <1>2. k \in Numbers
    <2>1. k \in {s.step : s \in {t \in Steps : t.type = "sanitizer"}}
      BY <1>1 DEF Sanitizers
    <2>. QED BY <2>1, DraftIsGraph
  <1>3. Numbered(k).context_from \in SUBSET Int
    BY <1>2, DraftIsGraph
  <1>4. a \in InReach(Numbered(k).context_from, {}, Len(draft))
    BY <1>1, <1>3, MetIsInReach
  <1>5. PICK m \in 1 .. Len(draft) + 1 :
          \E q \in [1 .. m -> Int] : IsWay(Numbered(k).context_from, {}, m, q, a)
    BY <1>4 DEF InReach
  <1>. PICK q \in [1 .. m -> Int] : IsWay(Numbered(k).context_from, {}, m, q, a)
    BY <1>5
  <1>. DEFINE walk == [i \in 1 .. m + 2 |-> IF i = 1 THEN r ELSE IF i = 2 THEN k ELSE q[i - 2]]
  <1>6. Len(draft) \in Nat /\ m \in Nat /\ m >= 1
    BY DraftIsGraph DEF IsGraph
  <1>7. \A i \in 1 .. m : q[i] \in Numbers
    <2>. TAKE i \in 1 .. m
    <2>1. CASE i = m
      BY <1>5, <2>1 DEF IsWay
    <2>2. CASE i \in 1 .. m - 1
      BY <1>5, <2>2 DEF IsWay
    <2>. QED BY <1>6, <2>1, <2>2
  <1>8. walk \in [1 .. m + 2 -> Numbers]
    <2>. SUFFICES ASSUME NEW i \in 1 .. m + 2
                  PROVE  (IF i = 1 THEN r ELSE IF i = 2 THEN k ELSE q[i - 2]) \in Numbers
      OBVIOUS
    <2>1. i # 1 /\ i # 2 => i - 2 \in 1 .. m
      BY <1>6
    <2>. QED BY <1>2, <1>7, <2>1
  <1>9. /\ walk[1] = r /\ walk[2] = k
        /\ \A i \in 3 .. m + 2 : walk[i] = q[i - 2]
    BY <1>6
  <1>10. DOMAIN walk = 1 .. m + 2 /\ Len(walk) = m + 2
    BY <1>6
  <1>. HIDE DEF walk
  <1>11. ASSUME NEW i \in 1 .. (m + 2) - 1
         PROVE  walk[i + 1] \in Numbered(walk[i]).context_from
    <2>1. CASE i = 1
      BY <1>1, <1>9, <2>1
    <2>2. CASE i = 2
      <3>1. walk[3] = q[1]
        BY <1>6, <1>9
      <3>. QED BY <1>5, <1>9, <2>2, <3>1 DEF IsWay
    <2>3. CASE i \in 3 .. m + 1
      <3>1. /\ i \in 3 .. m + 2 /\ i + 1 \in 3 .. m + 2 /\ i - 2 \in 1 .. m - 1
            /\ (i + 1) - 2 = (i - 2) + 1
        BY <1>6, <2>3
      <3>2. walk[i] = q[i - 2] /\ walk[i + 1] = q[(i + 1) - 2]
        BY <1>9, <3>1
      <3>3. q[(i - 2) + 1] \in Numbered(q[i - 2]).context_from
        BY <1>5, <3>1 DEF IsWay
      <3>. QED BY <3>1, <3>2, <3>3
    <2>. QED BY <1>6, <2>1, <2>2, <2>3
  <1>12. IsReading(walk)
    BY <1>10, <1>11 DEF IsReading
  <1>13. walk[m + 2] = a
    BY <1>5, <1>6, <1>9 DEF IsWay
  <1>14. m + 2 <= Len(draft)
    BY <1>6, <1>8, <1>12, ReadingIsShort
  <1>15. m + 2 \in 3 .. Len(draft) /\ walk[1] = r /\ walk[2] \in Sanitizers
    BY <1>1, <1>6, <1>9, <1>14
  <1>. QED BY <1>8, <1>12, <1>13, <1>15

\* What has passed is sound.
LEMMA PassedIsSound == RulesInv => AcceptedPlansAreSound
  <1>. SUFFICES ASSUME RulesInv, layer = "valid" PROVE AcceptedPlansAreSound
    BY DEF AcceptedPlansAreSound
  <1>1. /\ draft \in Drafts /\ draft # <<>> /\ Cardinality(Numbers) = Len(draft) /\ EarlierSteps
        /\ ContextIsEarlier /\ RuleF
    BY DEF RulesInv
  <1>2. Resolvable(draft)
    BY <1>1, EarlierIsResolvable
  <1>3. ASSUME NEW n \in 2 .. Len(draft), NEW path \in [1 .. n -> Numbers], IsReading(path),
               Numbered(path[1]).type = "llm_reasoning", Numbered(path[n]).type = "api",
               \A i \in 2 .. n - 1 : path[i] \notin Sanitizers
        PROVE  \E m \in 3 .. Len(draft) : \E scan \in [1 .. m -> Numbers] :
                  IsReading(scan) /\ scan[1] = path[1] /\ scan[2] \in Sanitizers
                                  /\ scan[m] = path[n]
    <2>1. Len(draft) \in Nat /\ n \in Nat \ {0, 1} /\ n <= Len(draft) /\ 1 \in 1 .. n /\ n \in 1 .. n
      BY <1>1, DraftIsGraph DEF IsGraph
    <2>2. path[1] \in Numbers /\ path[n] \in Numbers
      BY <2>1
    <2>3. Numbered(path[1]) \in Steps
      BY <1>1, <2>2, DraftIsGraph
    <2>4. path[n] \in Met(Numbered(path[1]).context_from, Sanitizers)
      BY <1>1, <1>3, <2>1, UnsanitizedIsMet
    <2>5. _has_intervening_sanitizer(path[n], Numbered(path[1]))
      BY <1>1, <1>3, <2>3, <2>4 DEF RuleF
    <2>. QED BY <1>1, <2>2, <2>5, SanitizerIsOnPath
  <1>. QED BY <1>2, <1>3 DEF AcceptedPlansAreSound

\* A plan that passes the validator can be ordered, and along the steps that its
\* steps declare to read an LLM step comes to a tool's result only where a
\* sanitizer has come to it too (plan_validator.py:75-92, 389-422).
THEOREM AcceptedAreSound == RulesSpec => []AcceptedPlansAreSound
  <1>1. RulesInit => RulesInv
    BY DEF RulesInit, RulesInv
  <1>2. RulesInv /\ [RulesNext]_ruleVars => RulesInv'
    <2>. SUFFICES ASSUME RulesInv, [RulesNext]_ruleVars PROVE RulesInv'
      OBVIOUS
    <2>1. draft' = draft
      BY DEF RulesNext, Passes, _validate_json, _validate_schema, _validate_business_rules, ruleVars
    <2>2. Numbers' = Numbers /\ Steps' = Steps
      BY <2>1 DEF Numbers, Steps
    <2>3. (EarlierSteps <=> EarlierSteps') /\ (ContextIsEarlier <=> ContextIsEarlier')
      BY <2>2 DEF EarlierSteps, ContextIsEarlier
    <2>4. RuleF <=> RuleF'
      BY <2>1, <2>2 DEF RuleF, Sanitizers, Met, Numbered, _has_intervening_sanitizer
    <2>5. CASE _validate_json
      BY <2>1, <2>5 DEF _validate_json, Passes, RulesInv
    <2>6. CASE _validate_schema
      BY <2>1, <2>2, <2>3, <2>6 DEF _validate_schema, Passes, RulesInv
    <2>7. CASE _validate_business_rules
      BY <2>1, <2>2, <2>3, <2>4, <2>7 DEF _validate_business_rules, Passes, RulesInv
    <2>8. CASE UNCHANGED ruleVars
      BY <2>2, <2>3, <2>4, <2>8 DEF ruleVars, RulesInv
    <2>. QED BY <2>5, <2>6, <2>7, <2>8 DEF RulesNext
  <1>. QED BY <1>1, <1>2, PassedIsSound, PTL DEF RulesSpec

-----------------------------------------------------------------------------
(* Workflows *)

\* A rule that makes the p-th value of the one before it has a solution.
LEMMA RecursionIsSolved ==
  ASSUME NEW S, NEW a \in S, NEW N \in Nat, NEW F \in [(1 .. N) \X S -> S]
  PROVE  \E f \in [0 .. N -> S] : f[0] = a /\ \A p \in 1 .. N : f[p] = F[<<p, f[p - 1]>>]
  <1>. DEFINE Solves(m, f) == f[0] = a /\ \A p \in 1 .. m : f[p] = F[<<p, f[p - 1]>>]
              Bad == {m \in 0 .. N : ~ \E f \in [0 .. m -> S] : Solves(m, f)}
  <1>1. Bad = {}
    <2>. SUFFICES ASSUME Bad # {} PROVE FALSE
      OBVIOUS
    <2>1. PICK m \in Bad : \A k \in Bad : m <= k
      <3>1. Bad \in SUBSET Nat
        OBVIOUS
      <3>. QED BY <3>1, LeastNatural
    <2>2. m # 0
      <3>. DEFINE h == [k \in 0 .. 0 |-> a]
      <3>1. h \in [0 .. 0 -> S] /\ Solves(0, h)
        OBVIOUS
      <3>. QED BY <3>1
    <2>3. m - 1 \in 0 .. N /\ ~(m <= m - 1) /\ m \in 1 .. N
      BY <2>2
    <2>4. PICK f \in [0 .. m - 1 -> S] : Solves(m - 1, f)
      BY <2>1, <2>3
    <2>. DEFINE h == [k \in 0 .. m |-> IF k = m THEN F[<<m, f[m - 1]>>] ELSE f[k]]
    <2>5. F[<<m, f[m - 1]>>] \in S
      BY <2>3
    <2>6. h \in [0 .. m -> S]
      BY <2>5
    <2>7. h[m] = F[<<m, f[m - 1]>>] /\ \A k \in 0 .. m - 1 : h[k] = f[k]
      BY <2>3
    <2>. HIDE DEF h
    <2>8. ASSUME NEW p \in 1 .. m PROVE h[p] = F[<<p, h[p - 1]>>]
      <3>1. h[p - 1] = f[p - 1]
        BY <2>7
      <3>2. CASE p = m
        BY <2>7, <3>1, <3>2
      <3>3. CASE p \in 1 .. m - 1
        BY <2>4, <2>7, <3>1, <3>3
      <3>. QED BY <3>2, <3>3
    <2>9. h[0] = a
      BY <2>3, <2>4, <2>7
    <2>. QED BY <2>6, <2>8, <2>9
  <1>2. N \notin Bad
    BY <1>1
  <1>. QED BY <1>2

LEMMA RulesAreSolved ==
  \A S : \A a \in S : \A N \in Nat : \A F \in [(1 .. N) \X S -> S] :
      \E f \in [0 .. N -> S] : f[0] = a /\ \A p \in 1 .. N : f[p] = F[<<p, f[p - 1]>>]
  BY RecursionIsSolved

\* What renumbering makes of a chain (workflow_registry.py:2148-2189).
LEMMA RenumberedChain ==
  ASSUME NEW steps, IsChain(steps), NEW n \in Nat
  PROVE  /\ Renumbered(steps, n) \in Seq(WorkflowStep)
         /\ Len(Renumbered(steps, n)) = Len(steps)
         /\ \A i \in 1 .. Len(steps) :
               /\ Renumbered(steps, n)[i].step = n + i
               /\ Renumbered(steps, n)[i].role = steps[i].role
               /\ Renumbered(steps, n)[i].tool = steps[i].tool
               /\ Renumbered(steps, n)[i].context \cup Renumbered(steps, n)[i].refs
                    = {c + n : c \in steps[i].context \cup steps[i].refs}
               /\ ToSet(Renumbered(steps, n)[i].after) \subseteq 1 .. n + i - 1
               /\ n + i > 1 => n + i - 1 \in ToSet(Renumbered(steps, n)[i].after)
  <1>1. /\ steps \in Seq(WorkflowStep) /\ Len(steps) \in Nat /\ DOMAIN steps = 1 .. Len(steps)
        /\ \A i \in 1 .. Len(steps) : steps[i] \in WorkflowStep
    BY DEF IsChain
  <1>2. ASSUME NEW i \in 1 .. Len(steps)
        PROVE  LET r == Shifted(steps[i], n, i = 1 /\ n > 0) IN
               /\ r \in WorkflowStep
               /\ r.step = n + i /\ r.role = steps[i].role /\ r.tool = steps[i].tool
               /\ r.context \cup r.refs = {c + n : c \in steps[i].context \cup steps[i].refs}
               /\ ToSet(r.after) \subseteq 1 .. n + i - 1
               /\ n + i > 1 => n + i - 1 \in ToSet(r.after)
    <2>. DEFINE s == steps[i]
                first == i = 1 /\ n > 0
                follows == [k \in DOMAIN s.after |-> s.after[k] + n]
                after == IF first THEN <<n>> \o follows ELSE follows
                context == {c + n : c \in s.context}
                refs == {c + n : c \in s.refs}
                r == Shifted(s, n, first)
    <2>1. /\ s.step = i /\ s.after \in Seq(Nat)
          /\ s.context \in SUBSET Nat /\ s.refs \in SUBSET Nat
          /\ ToSet(s.after) \subseteq 1 .. i - 1 /\ (i > 1 => i - 1 \in ToSet(s.after))
      BY <1>1 DEF IsChain, WorkflowStep
    <2>4. /\ follows \in Seq(Nat) /\ Len(follows) = Len(s.after)
          /\ DOMAIN follows = DOMAIN s.after
          /\ ToSet(follows) = {d + n : d \in ToSet(s.after)}
      <3>1. Len(s.after) \in Nat /\ DOMAIN s.after = 1 .. Len(s.after)
            /\ \A k \in DOMAIN s.after : s.after[k] \in Nat
        BY <2>1
      <3>2. follows \in [1 .. Len(s.after) -> Nat]
        BY <3>1
      <3>3. follows \in Seq(Nat) /\ Len(follows) = Len(s.after)
        BY <3>1, <3>2
      <3>. QED BY <3>3 DEF ToSet
    <2>. HIDE DEF follows
    <2>5. after \in Seq(Nat) /\ ToSet(after) = ToSet(follows) \cup (IF first THEN {n} ELSE {})
      <3>1. CASE first
        <4>. DEFINE q == <<n>> \o follows
        <4>1. <<n>> \in Seq(Nat) /\ Len(<<n>>) = 1 /\ <<n>>[1] = n
          OBVIOUS
        <4>2. /\ q \in Seq(Nat) /\ Len(q) = 1 + Len(follows)
              /\ q[1] = n /\ \A k \in 1 .. Len(follows) : q[k + 1] = follows[k]
          BY <2>4, <4>1
        <4>. HIDE DEF q
        <4>3. /\ DOMAIN q = 1 .. 1 + Len(follows) /\ DOMAIN follows = 1 .. Len(follows)
              /\ Len(follows) \in Nat
          BY <2>4, <4>2
        <4>4. ToSet(q) = {n} \cup ToSet(follows)
          <5>1. ASSUME NEW x \in ToSet(q) PROVE x \in {n} \cup ToSet(follows)
            <6>1. PICK k \in 1 .. 1 + Len(follows) : x = q[k]
              BY <4>3 DEF ToSet
            <6>2. k = 1 \/ (k - 1 \in 1 .. Len(follows) /\ (k - 1) + 1 = k)
              BY <4>3
            <6>3. k = 1 \/ (k - 1 \in DOMAIN follows /\ x = follows[k - 1])
              BY <4>2, <4>3, <6>1, <6>2
            <6>. QED BY <4>2, <6>1, <6>3 DEF ToSet
          <5>2. ASSUME NEW k \in DOMAIN follows PROVE follows[k] \in ToSet(q)
            <6>1. k + 1 \in DOMAIN q /\ q[k + 1] = follows[k]
              BY <4>2, <4>3
            <6>. QED BY <6>1 DEF ToSet
          <5>3. n \in ToSet(q)
            <6>1. 1 \in DOMAIN q /\ q[1] = n
              BY <4>2, <4>3
            <6>. QED BY <6>1 DEF ToSet
          <5>. QED BY <5>1, <5>2, <5>3 DEF ToSet
        <4>5. after = q
          BY <3>1 DEF q
        <4>. QED BY <3>1, <4>2, <4>4, <4>5
      <3>2. CASE ~first
        BY <2>4, <3>2
      <3>. QED BY <3>1, <3>2
    <2>. HIDE DEF after
    <2>6. context \in SUBSET Nat /\ refs \in SUBSET Nat
          /\ context \cup refs = {c + n : c \in s.context \cup s.refs}
      BY <2>1
    <2>7. ToSet(after) \subseteq 1 .. n + i - 1
      <3>1. ASSUME NEW d \in ToSet(follows) PROVE d \in 1 .. n + i - 1
        BY <2>1, <2>4
      <3>2. first => n \in 1 .. n + i - 1
        OBVIOUS
      <3>. QED BY <2>5, <3>1, <3>2
    <2>8. n + i > 1 => n + i - 1 \in ToSet(after)
      <3>1. CASE i > 1
        BY <2>1, <2>4, <2>5, <3>1
      <3>2. CASE i = 1
        BY <2>5, <3>2
      <3>. QED BY <3>1, <3>2
    <2>9. r = [s EXCEPT !.step = s.step + n, !.after = after, !.context = context, !.refs = refs]
      BY DEF Shifted, _renumber_template_refs, follows, after
    <2>. HIDE DEF context, refs
    <2>10. /\ r \in WorkflowStep /\ r.step = s.step + n /\ r.after = after
           /\ r.context = context /\ r.refs = refs /\ r.role = s.role /\ r.tool = s.tool
      <3>. HIDE DEF s, r
      <3>1. s \in WorkflowStep /\ s.step + n \in Nat
        BY <1>1, <2>1 DEF s
      <3>2. after \in Seq(Nat) /\ context \in SUBSET Nat /\ refs \in SUBSET Nat
        BY <2>5, <2>6
      <3>. QED BY <2>9, <3>1, <3>2 DEF WorkflowStep
    <2>. HIDE DEF r
    <2>11. /\ r \in WorkflowStep
           /\ r.step = n + i /\ r.role = steps[i].role /\ r.tool = steps[i].tool
           /\ r.context \cup r.refs = {c + n : c \in steps[i].context \cup steps[i].refs}
           /\ ToSet(r.after) \subseteq 1 .. n + i - 1
           /\ n + i > 1 => n + i - 1 \in ToSet(r.after)
      BY <2>1, <2>6, <2>7, <2>8, <2>10
    <2>. QED BY <2>11 DEF r
  <1>3. Renumbered(steps, n) = [i \in 1 .. Len(steps) |-> Shifted(steps[i], n, i = 1 /\ n > 0)]
    BY <1>1 DEF Renumbered
  <1>4. Renumbered(steps, n) \in Seq(WorkflowStep) /\ Len(Renumbered(steps, n)) = Len(steps)
    <2>1. Renumbered(steps, n) \in [1 .. Len(steps) -> WorkflowStep]
      BY <1>2, <1>3
    <2>. QED BY <1>1, <2>1
  <1>5. \A i \in 1 .. Len(steps) : Renumbered(steps, n)[i] = Shifted(steps[i], n, i = 1 /\ n > 0)
    BY <1>3
  <1>. QED BY <1>2, <1>4, <1>5

-----------------------------------------------------------------------------
(* The composed steps *)

Part(ws, p) == [i \in DOMAIN ws[p].steps |-> [part |-> p, step |-> ws[p].steps[i]]]

\* The places of the steps that the k-th step was written to read.
ReadBy(o, k) ==
    {j \in DOMAIN o : o[j].part = o[k].part
                      /\ o[j].step.step \in o[k].step.context \cup o[k].step.refs}

\* The steps so far are numbered by their places, each comes after the one
\* before it.
ChainSoFar(c) ==
    \A k \in 1 .. Len(c) :
        /\ c[k].step = k
        /\ ToSet(c[k].after) \subseteq 1 .. k - 1
        /\ k > 1 => k - 1 \in ToSet(c[k].after)

\* They read what they were written to read, and the parts are in order.
ReadsSoFar(c, o) ==
    \A k \in 1 .. Len(c) :
        /\ c[k].context \cup c[k].refs = ReadBy(o, k)
        /\ ReadBy(o, k) \subseteq 1 .. k - 1
        /\ \A j \in 1 .. Len(c) : o[j].part < o[k].part => j < k

\* c is what the first p workflows are composed to, o where its steps are from.
Composed(ws, p, c, o) ==
    /\ c \in Seq(WorkflowStep) /\ o \in Seq([part : 1 .. p, step : WorkflowStep])
    /\ Len(o) = Len(c)
    /\ ChainSoFar(c) /\ ReadsSoFar(c, o)
    /\ \A q \in 1 .. p : \A i \in DOMAIN ws[q].steps : \E k \in 1 .. Len(c) :
          c[k].tool = ws[q].steps[i].tool /\ c[k].role = ws[q].steps[i].role

AreChains(ws) ==
    /\ Len(ws) \in Nat /\ DOMAIN ws = 1 .. Len(ws) /\ (ws # <<>> => Len(ws) > 0)
    /\ \A p \in 1 .. Len(ws) : IsChain(ws[p].steps)

LEMMA Joined ==
  ASSUME NEW S, NEW s \in Seq(S), NEW t \in Seq(S)
  PROVE  /\ s \o t \in Seq(S) /\ Len(s \o t) = Len(s) + Len(t)
         /\ \A k \in 1 .. Len(s) : (s \o t)[k] = s[k]
         /\ \A i \in 1 .. Len(t) : (s \o t)[Len(s) + i] = t[i]
  <1>1. Len(s) \in Nat /\ Len(t) \in Nat
    OBVIOUS
  <1>2. \A i \in 1 .. Len(t) : Len(s) + i \in 1 .. Len(s) + Len(t) /\ ~(Len(s) + i <= Len(s))
                              /\ (Len(s) + i) - Len(s) = i
    BY <1>1
  <1>3. \A k \in 1 .. Len(s) : k \in 1 .. Len(s) + Len(t) /\ k <= Len(s)
    BY <1>1
  <1>. QED BY <1>2, <1>3, ConcatProperties

\* One more workflow is composed (workflow_registry.py:2142-2189).
LEMMA ComposesOneMore ==
  ASSUME NEW ws, AreChains(ws), NEW p \in 1 .. Len(ws), NEW c, NEW o, Composed(ws, p - 1, c, o)
  PROVE  Composed(ws, p, c \o Renumbered(ws[p].steps, Len(c)), o \o Part(ws, p))
  <1>. DEFINE steps == ws[p].steps
              n == Len(c)
              L == Len(steps)
              r == Renumbered(steps, n)
              part == Part(ws, p)
              c2 == c \o r
              o2 == o \o part
              Origin == [part : 1 .. p, step : WorkflowStep]
  <1>1. /\ IsChain(steps) /\ L \in Nat /\ n \in Nat /\ DOMAIN steps = 1 .. L
        /\ steps \in Seq(WorkflowStep) /\ p \in Nat /\ Len(ws) \in Nat
    BY DEF AreChains, IsChain, Composed
  <1>2. /\ r \in Seq(WorkflowStep) /\ Len(r) = L
        /\ \A i \in 1 .. L :
              /\ r[i].step = n + i
              /\ r[i].role = steps[i].role /\ r[i].tool = steps[i].tool
              /\ r[i].context \cup r[i].refs = {s + n : s \in steps[i].context \cup steps[i].refs}
              /\ ToSet(r[i].after) \subseteq 1 .. n + i - 1
              /\ n + i > 1 => n + i - 1 \in ToSet(r[i].after)
    BY <1>1, RenumberedChain
  <1>3. /\ part \in Seq(Origin) /\ Len(part) = L
        /\ \A i \in 1 .. L : part[i] = [part |-> p, step |-> steps[i]]
    <2>1. part = [i \in 1 .. L |-> [part |-> p, step |-> steps[i]]]
      BY <1>1 DEF Part
    <2>2. \A i \in 1 .. L : [part |-> p, step |-> steps[i]] \in Origin
      BY <1>1
    <2>3. part \in [1 .. L -> Origin]
      BY <2>1, <2>2
    <2>. QED BY <1>1, <2>1, <2>3
  <1>4. o \in Seq(Origin) /\ Len(o) = n /\ c \in Seq(WorkflowStep)
        /\ \A k \in 1 .. n : o[k].part \in 1 .. p - 1
    <2>1. o \in Seq([part : 1 .. p - 1, step : WorkflowStep]) /\ Len(o) = n /\ c \in Seq(WorkflowStep)
      BY DEF Composed
    <2>2. [part : 1 .. p - 1, step : WorkflowStep] \subseteq Origin
      BY <1>1
    <2>3. o \in Seq(Origin)
      <3>1. \A S, T : \A q \in Seq(S) : S \subseteq T => q \in Seq(T)
        BY SeqMonotonic
      <3>. HIDE DEF Origin
      <3>. QED BY <2>1, <2>2, <3>1, Zenon
    <2>4. \A k \in 1 .. n : o[k] \in [part : 1 .. p - 1, step : WorkflowStep]
      BY <2>1, ElementOfSeq
    <2>. QED BY <2>1, <2>3, <2>4
  <1>. HIDE DEF r, part
  <1>5. /\ c2 \in Seq(WorkflowStep) /\ Len(c2) = n + L
        /\ \A k \in 1 .. n : c2[k] = c[k]
        /\ \A i \in 1 .. L : c2[n + i] = r[i]
    <2>. HIDE DEF L, n, Origin
    <2>0. r \in Seq(WorkflowStep) /\ c \in Seq(WorkflowStep)
      BY <1>2, <1>4
    <2>1. /\ c \o r \in Seq(WorkflowStep) /\ Len(c \o r) = Len(c) + Len(r)
          /\ \A k \in 1 .. Len(c) : (c \o r)[k] = c[k]
          /\ \A i \in 1 .. Len(r) : (c \o r)[Len(c) + i] = r[i]
      BY <2>0, Joined
    <2>2. Len(c) = n /\ Len(r) = L
      BY <1>2 DEF n
    <2>. QED BY <2>1, <2>2
  <1>6. /\ o2 \in Seq(Origin) /\ Len(o2) = n + L
        /\ \A k \in 1 .. n : o2[k] = o[k]
        /\ \A i \in 1 .. L : o2[n + i] = part[i]
    <2>. HIDE DEF L, n, Origin
    <2>0. o \in Seq(Origin) /\ part \in Seq(Origin)
      BY <1>3, <1>4
    <2>1. /\ o \o part \in Seq(Origin) /\ Len(o \o part) = Len(o) + Len(part)
          /\ \A k \in 1 .. Len(o) : (o \o part)[k] = o[k]
          /\ \A i \in 1 .. Len(part) : (o \o part)[Len(o) + i] = part[i]
      BY <2>0, Joined
    <2>2. Len(o) = n /\ Len(part) = L
      BY <1>3, <1>4
    <2>. QED BY <2>1, <2>2
  <1>. HIDE DEF c2, o2, steps, L, n, Origin
  <1>old. \A k \in 1 .. n : o2[k].part \in 1 .. p - 1 /\ o2[k].part # p
    BY <1>1, <1>4, <1>6
  <1>new. \A i \in 1 .. L : o2[n + i].part = p /\ o2[n + i].step = steps[i] /\ steps[i].step = i
    <2>. TAKE i \in 1 .. L
    <2>1. o2[n + i] = [part |-> p, step |-> steps[i]]
      BY <1>3, <1>6
    <2>2. steps[i].step = i
      BY <1>1 DEF IsChain
    <2>. QED BY <2>1, <2>2
  <1>7. ASSUME NEW k \in 1 .. n + L
        PROVE  k \in 1 .. n \/ \E i \in 1 .. L : k = n + i
    <2>1. k \in 1 .. n \/ (k - n \in 1 .. L /\ k = n + (k - n))
      BY <1>1
    <2>. QED BY <2>1
  <1>8. DOMAIN o = 1 .. n /\ DOMAIN o2 = 1 .. n + L
    BY <1>4, <1>6
  <1>9. ChainSoFar(c2)
    <2>. SUFFICES ASSUME NEW k \in 1 .. n + L
                  PROVE  /\ c2[k].step = k
                         /\ ToSet(c2[k].after) \subseteq 1 .. k - 1
                         /\ k > 1 => k - 1 \in ToSet(c2[k].after)
      BY <1>5 DEF ChainSoFar
    <2>1. CASE k \in 1 .. n
      <3>1. /\ c[k].step = k
            /\ ToSet(c[k].after) \subseteq 1 .. k - 1
            /\ k > 1 => k - 1 \in ToSet(c[k].after)
        BY <2>1 DEF Composed, ChainSoFar, n
      <3>. QED BY <1>5, <2>1, <3>1
    <2>2. ASSUME NEW i \in 1 .. L, k = n + i
          PROVE  /\ c2[k].step = k
                 /\ ToSet(c2[k].after) \subseteq 1 .. k - 1
                 /\ k > 1 => k - 1 \in ToSet(c2[k].after)
      <3>1. /\ r[i].step = n + i
            /\ ToSet(r[i].after) \subseteq 1 .. n + i - 1
            /\ n + i > 1 => n + i - 1 \in ToSet(r[i].after)
        BY <1>2 DEF L, n, steps
      <3>2. c2[k] = r[i]
        BY <1>5, <2>2
      <3>. QED BY <1>1, <2>2, <3>1, <3>2
    <2>. QED BY <1>7, <2>1, <2>2
  <1>10. ASSUME NEW k \in 1 .. n PROVE ReadBy(o2, k) = ReadBy(o, k)
    <2>1. ASSUME NEW j \in 1 .. n + L
          PROVE  j \in ReadBy(o2, k) <=> j \in ReadBy(o, k)
      <3>1. CASE j \in 1 .. n
        BY <1>6, <1>8, <3>1 DEF ReadBy
      <3>2. ASSUME NEW i \in 1 .. L, j = n + i PROVE j \notin ReadBy(o2, k) /\ j \notin ReadBy(o, k)
        <4>1. o2[j].part = p /\ o2[k].part \in 1 .. p - 1
          BY <1>old, <1>new, <3>2
        <4>2. j \notin 1 .. n
          BY <1>1, <3>2
        <4>. QED BY <1>1, <1>8, <4>1, <4>2 DEF ReadBy
      <3>. QED BY <1>7, <3>1, <3>2
    <2>2. 1 .. n \subseteq 1 .. n + L
      BY <1>1
    <2>. QED BY <1>8, <2>1, <2>2 DEF ReadBy
  <1>11. ASSUME NEW i \in 1 .. L
         PROVE  ReadBy(o2, n + i) = {s + n : s \in steps[i].context \cup steps[i].refs}
    <2>. DEFINE sources == steps[i].context \cup steps[i].refs
    <2>1. o2[n + i].part = p /\ o2[n + i].step = steps[i]
      BY <1>new
    <2>2. sources \subseteq 1 .. i - 1
      BY <1>1 DEF IsChain
    <2>3. ASSUME NEW j \in ReadBy(o2, n + i) PROVE j \in {s + n : s \in sources}
      <3>1. j \in 1 .. n + L /\ o2[j].part = p /\ o2[j].step.step \in sources
        BY <1>8, <2>1 DEF ReadBy
      <3>2. j \notin 1 .. n
        BY <1>old, <3>1
      <3>3. PICK h \in 1 .. L : j = n + h
        BY <1>7, <3>1, <3>2
      <3>4. o2[j].step = steps[h] /\ steps[h].step = h
        BY <1>new, <3>3
      <3>5. h \in sources /\ j = h + n
        BY <1>1, <3>1, <3>3, <3>4
      <3>. QED BY <3>5
    <2>4. ASSUME NEW s \in sources PROVE s + n \in ReadBy(o2, n + i)
      <3>1. s \in 1 .. L /\ n + s \in 1 .. n + L /\ s + n = n + s
        BY <1>1, <2>2
      <3>2. o2[n + s].part = p /\ o2[n + s].step = steps[s] /\ steps[s].step = s
        BY <1>new, <3>1
      <3>. QED BY <1>8, <2>1, <3>1, <3>2 DEF ReadBy
    <2>. QED BY <2>3, <2>4
  <1>12. ReadsSoFar(c2, o2)
    <2>. SUFFICES ASSUME NEW k \in 1 .. n + L
                  PROVE  /\ c2[k].context \cup c2[k].refs = ReadBy(o2, k)
                         /\ ReadBy(o2, k) \subseteq 1 .. k - 1
                         /\ \A j \in 1 .. n + L : o2[j].part < o2[k].part => j < k
      BY <1>5 DEF ReadsSoFar
    <2>1. CASE k \in 1 .. n
      <3>1. /\ c[k].context \cup c[k].refs = ReadBy(o, k)
            /\ ReadBy(o, k) \subseteq 1 .. k - 1
            /\ \A j \in 1 .. n : o[j].part < o[k].part => j < k
        BY <2>1 DEF Composed, ReadsSoFar, n
      <3>2. ASSUME NEW j \in 1 .. n + L, o2[j].part < o2[k].part PROVE j < k
        <4>1. ASSUME NEW i \in 1 .. L, j = n + i PROVE FALSE
          <5>1. o2[j].part = p /\ o2[k].part \in 1 .. p - 1
            BY <1>old, <1>new, <2>1, <4>1
          <5>. QED BY <1>1, <3>2, <5>1
        <4>2. j \in 1 .. n
          BY <1>7, <4>1
        <4>. QED BY <1>6, <2>1, <3>1, <3>2, <4>2
      <3>. QED BY <1>5, <1>10, <2>1, <3>1, <3>2
    <2>2. ASSUME NEW i \in 1 .. L, k = n + i
          PROVE  /\ c2[k].context \cup c2[k].refs = ReadBy(o2, k)
                 /\ ReadBy(o2, k) \subseteq 1 .. k - 1
                 /\ \A j \in 1 .. n + L : o2[j].part < o2[k].part => j < k
      <3>1. c2[k].context \cup c2[k].refs = ReadBy(o2, k)
        BY <1>2, <1>5, <1>11, <2>2
      <3>2. ReadBy(o2, k) \subseteq 1 .. k - 1
        <4>1. steps[i].context \cup steps[i].refs \subseteq 1 .. i - 1
          BY <1>1 DEF IsChain
        <4>2. \A s \in 1 .. i - 1 : s + n \in 1 .. k - 1
          BY <1>1, <2>2
        <4>3. ReadBy(o2, k) = {s + n : s \in steps[i].context \cup steps[i].refs}
          BY <1>11, <2>2
        <4>. QED BY <4>1, <4>2, <4>3
      <3>3. ASSUME NEW j \in 1 .. n + L, o2[j].part < o2[k].part PROVE j < k
        <4>1. ASSUME NEW h \in 1 .. L, j = n + h PROVE FALSE
          <5>1. o2[j].part = p /\ o2[k].part = p
            BY <1>new, <2>2, <4>1
          <5>. QED BY <1>1, <3>3, <5>1
        <4>2. j \in 1 .. n
          BY <1>7, <4>1
        <4>. QED BY <1>1, <2>2, <4>2
      <3>. QED BY <3>1, <3>2, <3>3
    <2>. QED BY <1>7, <2>1, <2>2
  <1>13. ASSUME NEW q \in 1 .. p, NEW i \in DOMAIN ws[q].steps
         PROVE  \E k \in 1 .. n + L : c2[k].tool = ws[q].steps[i].tool
                                      /\ c2[k].role = ws[q].steps[i].role
    <2>1. CASE q = p
      <3>1. n + i \in 1 .. n + L /\ i \in 1 .. L
        BY <1>1, <2>1 DEF steps
      <3>2. c2[n + i] = r[i] /\ r[i].tool = steps[i].tool /\ r[i].role = steps[i].role
        BY <1>2, <1>5, <3>1 DEF steps, L, n
      <3>. QED BY <2>1, <3>1, <3>2 DEF steps
    <2>2. CASE q \in 1 .. p - 1
      <3>1. PICK k \in 1 .. n : c[k].tool = ws[q].steps[i].tool /\ c[k].role = ws[q].steps[i].role
        BY <2>2 DEF Composed, n
      <3>2. k \in 1 .. n + L
        BY <1>1
      <3>. QED BY <1>5, <3>1, <3>2
    <2>3. q = p \/ q \in 1 .. p - 1
      BY <1>1
    <2>. QED BY <2>1, <2>2, <2>3
  <1>14. Composed(ws, p, c2, o2)
    BY <1>5, <1>6, <1>9, <1>12, <1>13 DEF Composed, Origin
  <1>. QED BY <1>14 DEF c2, o2, r, part, steps, n

\* What the composed plan is and where its steps are from, for any number of
\* workflows (workflow_registry.py:2123-2191).
LEMMA AllAreComposed ==
  ASSUME NEW ws, AreChains(ws)
  PROVE  Composed(ws, Len(ws), compose_workflows(ws), Origins(ws))
  <1>. DEFINE N == Len(ws)
              CRule(f) == [p \in 0 .. N |-> IF p = 0 THEN <<>>
                                            ELSE f[p - 1] \o Renumbered(ws[p].steps, Len(f[p - 1]))]
              ORule(f) == [p \in 0 .. N |-> IF p = 0 THEN <<>> ELSE f[p - 1] \o Part(ws, p)]
              Origin == [part : 1 .. N, step : WorkflowStep]
  <1>1. N \in Nat /\ \A p \in 1 .. N : IsChain(ws[p].steps)
    BY DEF AreChains
  <1>2. \E f : f = CRule(f)
    <2>. DEFINE S == Seq(WorkflowStep)
                F == [x \in (1 .. N) \X S |-> x[2] \o Renumbered(ws[x[1]].steps, Len(x[2]))]
    <2>1. ASSUME NEW p \in 1 .. N, NEW c \in S
          PROVE  c \o Renumbered(ws[p].steps, Len(c)) \in S
      <3>1. Len(c) \in Nat
        OBVIOUS
      <3>2. Renumbered(ws[p].steps, Len(c)) \in S
        BY <1>1, <3>1, RenumberedChain
      <3>. QED BY <3>2, Joined
    <2>2. F \in [(1 .. N) \X S -> S]
      <3>1. \A x \in (1 .. N) \X S : x[1] \in 1 .. N /\ x[2] \in S
        OBVIOUS
      <3>. QED BY <2>1, <3>1
    <2>3. <<>> \in S
      BY EmptySeq
    <2>4. \A p \in 1 .. N : \A c \in S : F[<<p, c>>] = c \o Renumbered(ws[p].steps, Len(c))
      OBVIOUS
    <2>. HIDE DEF S, F, N
    <2>n. N \in Nat
      BY <1>1
    <2>5. PICK f \in [0 .. N -> S] : f[0] = <<>> /\ \A p \in 1 .. N : f[p] = F[<<p, f[p - 1]>>]
      <3>. HIDE DEF CRule, ORule, Origin
      <3>1. \A a \in S : \A n \in Nat : \A G \in [(1 .. n) \X S -> S] :
               \E f \in [0 .. n -> S] : f[0] = a /\ \A p \in 1 .. n : f[p] = G[<<p, f[p - 1]>>]
        BY RulesAreSolved
      <3>2. \A n \in Nat : \A G \in [(1 .. n) \X S -> S] :
               \E f \in [0 .. n -> S] : f[0] = <<>> /\ \A p \in 1 .. n : f[p] = G[<<p, f[p - 1]>>]
        BY <2>3, <3>1
      <3>3. \A G \in [(1 .. N) \X S -> S] :
               \E f \in [0 .. N -> S] : f[0] = <<>> /\ \A p \in 1 .. N : f[p] = G[<<p, f[p - 1]>>]
        BY <2>n, <3>2
      <3>. QED BY <2>2, <3>3
    <2>6. \A p \in 1 .. N : f[p - 1] \in S
      BY <1>1
    <2>7. \A p \in 1 .. N : f[p] = f[p - 1] \o Renumbered(ws[p].steps, Len(f[p - 1]))
      BY <2>4, <2>5, <2>6
    <2>8. f = CRule(f)
      <3>1. \A p \in 0 .. N : f[p] = IF p = 0 THEN <<>>
                                     ELSE f[p - 1] \o Renumbered(ws[p].steps, Len(f[p - 1]))
        <4>1. \A p \in 0 .. N : p = 0 \/ p \in 1 .. N
          BY <2>n
        <4>. QED BY <2>5, <2>7, <4>1
      <3>2. f = [p \in 0 .. N |-> f[p]]
        BY <2>5
      <3>. QED BY <3>1, <3>2
    <2>. QED BY <2>8
  <1>3. \E f : f = ORule(f)
    <2>. DEFINE S == Seq(Origin)
                F == [x \in (1 .. N) \X S |-> x[2] \o Part(ws, x[1])]
    <2>1. ASSUME NEW p \in 1 .. N, NEW o \in S
          PROVE  o \o Part(ws, p) \in S
      <3>1. ws[p].steps \in Seq(WorkflowStep) /\ Len(ws[p].steps) \in Nat
            /\ DOMAIN ws[p].steps = 1 .. Len(ws[p].steps)
        BY <1>1 DEF IsChain
      <3>2. Part(ws, p) \in [1 .. Len(ws[p].steps) -> Origin]
        BY <3>1 DEF Part
      <3>3. Part(ws, p) \in S
        <4>. HIDE DEF Origin
        <4>1. \A L \in Nat : \A T : \A q \in [1 .. L -> T] : q \in Seq(T)
          OBVIOUS
        <4>. QED BY <3>1, <3>2, <4>1
      <3>. QED BY <3>3, Joined
    <2>2. F \in [(1 .. N) \X S -> S]
      <3>1. \A x \in (1 .. N) \X S : x[1] \in 1 .. N /\ x[2] \in S
        OBVIOUS
      <3>. QED BY <2>1, <3>1
    <2>3. <<>> \in S
      BY EmptySeq
    <2>4. \A p \in 1 .. N : \A o \in S : F[<<p, o>>] = o \o Part(ws, p)
      OBVIOUS
    <2>. HIDE DEF S, F, N
    <2>n. N \in Nat
      BY <1>1
    <2>5. PICK f \in [0 .. N -> S] : f[0] = <<>> /\ \A p \in 1 .. N : f[p] = F[<<p, f[p - 1]>>]
      <3>. HIDE DEF CRule, ORule, Origin
      <3>1. \A a \in S : \A n \in Nat : \A G \in [(1 .. n) \X S -> S] :
               \E f \in [0 .. n -> S] : f[0] = a /\ \A p \in 1 .. n : f[p] = G[<<p, f[p - 1]>>]
        BY RulesAreSolved
      <3>2. \A n \in Nat : \A G \in [(1 .. n) \X S -> S] :
               \E f \in [0 .. n -> S] : f[0] = <<>> /\ \A p \in 1 .. n : f[p] = G[<<p, f[p - 1]>>]
        BY <2>3, <3>1
      <3>3. \A G \in [(1 .. N) \X S -> S] :
               \E f \in [0 .. N -> S] : f[0] = <<>> /\ \A p \in 1 .. N : f[p] = G[<<p, f[p - 1]>>]
        BY <2>n, <3>2
      <3>. QED BY <2>2, <3>3
    <2>6. \A p \in 1 .. N : f[p - 1] \in S
      BY <1>1
    <2>7. \A p \in 1 .. N : f[p] = f[p - 1] \o Part(ws, p)
      BY <2>4, <2>5, <2>6
    <2>8. f = ORule(f)
      <3>1. \A p \in 0 .. N : f[p] = IF p = 0 THEN <<>>
                                     ELSE f[p - 1] \o Part(ws, p)
        <4>1. \A p \in 0 .. N : p = 0 \/ p \in 1 .. N
          BY <2>n
        <4>. QED BY <2>5, <2>7, <4>1
      <3>2. f = [p \in 0 .. N |-> f[p]]
        BY <2>5
      <3>. QED BY <3>1, <3>2
    <2>. QED BY <2>8
  <1>4. PICK f : f = CRule(f) /\ compose_workflows(ws) = f[N]
    BY <1>2 DEF compose_workflows
  <1>5. PICK h : h = ORule(h) /\ Origins(ws) = h[N]
    BY <1>3 DEF Origins, Part
  <1>6. /\ f[0] = <<>> /\ \A p \in 1 .. N : f[p] = f[p - 1] \o Renumbered(ws[p].steps, Len(f[p - 1]))
        /\ h[0] = <<>> /\ \A p \in 1 .. N : h[p] = h[p - 1] \o Part(ws, p)
    <2>. HIDE DEF N
    <2>1. 0 \in 0 .. N /\ \A p \in 1 .. N : p \in 0 .. N /\ p # 0
      BY <1>1
    <2>. QED BY <1>4, <1>5, <2>1
  <1>. DEFINE Bad == {p \in 0 .. N : ~Composed(ws, p, f[p], h[p])}
  <1>7. Bad = {}
    <2>. SUFFICES ASSUME Bad # {} PROVE FALSE
      OBVIOUS
    <2>1. PICK p \in Bad : \A k \in Bad : p <= k
      <3>1. Bad \in SUBSET Nat
        BY <1>1
      <3>. QED BY <3>1, LeastNatural
    <2>2. p # 0
      <3>1. Len(<<>>) = 0 /\ <<>> \in Seq(WorkflowStep)
            /\ <<>> \in Seq([part : 1 .. 0, step : WorkflowStep])
        BY EmptySeq
      <3>2. Composed(ws, 0, <<>>, <<>>)
        BY <3>1 DEF Composed, ChainSoFar, ReadsSoFar
      <3>. QED BY <1>6, <3>2
    <2>3. p - 1 \in 0 .. N /\ ~(p <= p - 1) /\ p \in 1 .. N
      BY <1>1, <2>2
    <2>4. Composed(ws, p - 1, f[p - 1], h[p - 1])
      BY <2>1, <2>3
    <2>5. Composed(ws, p, f[p], h[p])
      BY <1>6, <2>3, <2>4, ComposesOneMore
    <2>. QED BY <2>1, <2>5
  <1>8. Composed(ws, N, f[N], h[N])
    BY <1>1, <1>7
  <1>. QED BY <1>4, <1>5, <1>8

-----------------------------------------------------------------------------
(* The levels of a chain *)

\* Each step of a chain is in a later level than the ones before it.
LEMMA ChainLevels ==
  ASSUME NEW g \in Seq(WorkflowStep), g # <<>>, ChainSoFar(g)
  PROVE  /\ Resolvable(g)
         /\ \A j, k \in 1 .. Len(g) :
               j < k => Level(LevelsOf(g), j) < Level(LevelsOf(g), k)
  <1>. DEFINE N == Len(g)
              levels == LevelsOf(g)
              At(k) == Level(levels, k)
  <1>1. N \in Nat /\ DOMAIN g = 1 .. N /\ \A k \in 1 .. N : g[k] \in WorkflowStep
    BY ElementOfSeq
  <1>2. \A k \in 1 .. N : g[k].step = k /\ g[k].after \in Seq(Nat)
                          /\ ToSet(g[k].after) \subseteq 1 .. k - 1
                          /\ (k > 1 => k - 1 \in ToSet(g[k].after))
    BY <1>1 DEF ChainSoFar, WorkflowStep
  <1>3. IsGraph(g)
    <2>1. Nat \subseteq Int
      OBVIOUS
    <2>2. \A q \in Seq(Nat) : q \in Seq(Int)
      BY <2>1, SeqMonotonic
    <2>. QED BY <1>1, <1>2, <2>2 DEF IsGraph
  <1>4. Ids(g) = 1 .. N /\ NoneTwice(g)
    BY <1>1, <1>2 DEF Ids, NoneTwice
  <1>5. ASSUME NEW i \in DOMAIN g, NEW d \in ToSet(g[i].after) PROVE d < g[i].step
    <2>1. i \in 1 .. N /\ g[i].step = i /\ d \in 1 .. i - 1
      BY <1>1, <1>2
    <2>. QED BY <2>1
  <1>6. Resolvable(g)
    BY <1>1, <1>3, <1>4, <1>5, DescentIsResolvable
  <1>7. KeepsOrder(g, levels)
    BY <1>3, <1>6, LevelsKeepOrder
  <1>. HIDE DEF levels, N
  <1>8. /\ levels \in Seq(Seq(1 .. N))
        /\ \A n \in 1 .. N : \E k \in DOMAIN levels : n \in ToSet(levels[k])
        /\ \A j, k \in DOMAIN levels : \A n : n \in ToSet(levels[j]) /\ n \in ToSet(levels[k]) => j = k
    BY <1>4, <1>7 DEF KeepsOrder, ToSet
  <1>9. DOMAIN levels \subseteq Nat /\ \A k \in DOMAIN levels : 1 .. k - 1 \subseteq DOMAIN levels
    <2>1. Len(levels) \in Nat /\ DOMAIN levels = 1 .. Len(levels)
      BY <1>8
    <2>. QED BY <2>1
  <1>10. ASSUME NEW n \in 1 .. N, NEW k \in DOMAIN levels, n \in ToSet(levels[k])
         PROVE  At(n) = k
    BY <1>8, <1>10 DEF Level
  <1>11. ASSUME NEW n \in 1 .. N PROVE At(n) \in DOMAIN levels /\ n \in ToSet(levels[At(n)])
    <2>1. PICK k \in DOMAIN levels : n \in ToSet(levels[k])
      BY <1>8
    <2>. QED BY <1>10, <2>1
  <1>. HIDE DEF At
  <1>12. ASSUME NEW k \in 2 .. N PROVE At(k - 1) < At(k)
    <2>1. k \in 1 .. N /\ k - 1 \in 1 .. N /\ g[k].step = k
          /\ k - 1 \in ToSet(g[k].after) \cap Ids(g) /\ k \in DOMAIN g
      BY <1>1, <1>2, <1>4 DEF N
    <2>2. At(k) \in DOMAIN levels /\ k \in ToSet(levels[At(k)])
      BY <1>11, <2>1
    <2>3. PICK l \in 1 .. At(k) - 1 : k - 1 \in ToSet(levels[l])
      BY <1>7, <2>1, <2>2 DEF KeepsOrder
    <2>4. l \in DOMAIN levels /\ At(k) \in Nat
      BY <1>9, <2>2
    <2>5. At(k - 1) = l
      BY <1>10, <2>1, <2>3, <2>4
    <2>. QED BY <2>4, <2>5
  <1>13. ASSUME NEW j \in 1 .. N, NEW k \in 1 .. N, j < k PROVE At(j) < At(k)
    <2>. DEFINE Bad == {n \in j + 1 .. N : ~(At(j) < At(n))}
    <2>1. Bad = {}
      <3>. SUFFICES ASSUME Bad # {} PROVE FALSE
        OBVIOUS
      <3>1. PICK n \in Bad : \A m \in Bad : n <= m
        <4>1. Bad \in SUBSET Nat
          OBVIOUS
        <4>. QED BY <4>1, LeastNatural
      <3>2. n \in 2 .. N /\ n - 1 \in 1 .. N /\ ~(n <= n - 1) /\ (n - 1 = j \/ n - 1 \in j + 1 .. N)
        BY <1>1 DEF N
      <3>3. At(n - 1) < At(n)
        BY <1>12, <3>2
      <3>4. At(j) \in Nat /\ At(n - 1) \in Nat /\ At(n) \in Nat
        BY <1>9, <1>11, <3>2
      <3>5. n - 1 = j \/ At(j) < At(n - 1)
        BY <3>1, <3>2
      <3>. QED BY <3>1, <3>3, <3>4, <3>5
    <2>2. k \in j + 1 .. N
      BY <1>1, <1>13 DEF N
    <2>. QED BY <2>1, <2>2
  <1>. QED BY <1>6, <1>13 DEF At, N, levels

-----------------------------------------------------------------------------
(* Which workflows are chosen *)

\* They are workflows of the registry.
LEMMA KnownAreChains ==
  ASSUME NEW name \in Known
  PROVE  /\ Index(name) \in DOMAIN Registered /\ Registered[Index(name)].name = name
         /\ IsChain(get_workflow(name).steps) /\ "action" \notin get_workflow(name).must
  <1>1. Index(name) \in DOMAIN Registered /\ Registered[Index(name)].name = name
    BY DEF Known, Index
  <1>. QED BY <1>1, RegistryParameters DEF get_workflow

\* A list of known names gives a list of chains.
LEMMA NamesAreChains ==
  ASSUME NEW names \in Seq(Known)
  PROVE  LET workflows == [i \in DOMAIN names |-> get_workflow(names[i])]
         IN  AreChains(workflows) /\ ToSet(workflows) = {get_workflow(n) : n \in ToSet(names)}
  <1>. DEFINE workflows == [i \in DOMAIN names |-> get_workflow(names[i])]
  <1>1. Len(names) \in Nat /\ DOMAIN names = 1 .. Len(names) /\ \A i \in DOMAIN names : names[i] \in Known
    OBVIOUS
  <1>2. DOMAIN workflows = 1 .. Len(names) /\ \A i \in DOMAIN names : workflows[i] = get_workflow(names[i])
    BY <1>1
  <1>3. Len(workflows) = Len(names) /\ (workflows # <<>> => Len(workflows) > 0)
    <2>1. \A W : \A q \in [1 .. Len(names) -> W] : q \in Seq(W) /\ Len(q) = Len(names)
      BY <1>1
    <2>2. workflows \in [1 .. Len(names) -> {get_workflow(n) : n \in Known}]
      BY <1>1, <1>2
    <2>. HIDE DEF workflows
    <2>3. workflows \in Seq({get_workflow(n) : n \in Known}) /\ Len(workflows) = Len(names)
      BY <2>1, <2>2
    <2>. QED BY <1>1, <2>3, EmptySeq
  <1>. HIDE DEF workflows
  <1>4. AreChains(workflows)
    BY <1>1, <1>2, <1>3, KnownAreChains DEF AreChains
  <1>5. ToSet(workflows) = {get_workflow(n) : n \in ToSet(names)}
    BY <1>1, <1>2 DEF ToSet
  <1>. QED BY <1>4, <1>5 DEF workflows

\* Every known name in an intent counts once (workflow_registry.py:2092-2120).
LEMMA NamesAreFound ==
  ASSUME NEW words \in Seq(STRING)
  PROVE  /\ AreChains(decompose_intent(words))
         /\ \A n \in Known \cap ToSet(words) : get_workflow(n) \in ToSet(decompose_intent(words))
         /\ \A w \in ToSet(decompose_intent(words)) : "action" \notin w.must
  <1>1. Len(words) \in Nat /\ DOMAIN words = 1 .. Len(words)
    OBVIOUS
  <1>2. CASE Len(words) = 1 /\ words[1] \in Known
    <2>1. decompose_intent(words) = <<get_workflow(words[1])>>
      BY <1>2 DEF decompose_intent
    <2>. DEFINE one == get_workflow(words[1])
    <2>2. Len(<<one>>) = 1 /\ DOMAIN <<one>> = 1 .. 1 /\ <<one>>[1] = one
      OBVIOUS
    <2>. HIDE DEF one
    <2>3. AreChains(<<one>>) /\ ToSet(<<one>>) = {one} /\ "action" \notin one.must
      <3>1. IsChain(one.steps) /\ "action" \notin one.must
        BY <1>2, KnownAreChains DEF one
      <3>2. ToSet(<<one>>) = {one}
        BY <2>2 DEF ToSet
      <3>3. \A p \in 1 .. 1 : p = 1
        OBVIOUS
      <3>. QED BY <2>2, <3>1, <3>2, <3>3 DEF AreChains
    <2>4. \A n \in ToSet(words) : n = words[1]
      BY <1>1, <1>2 DEF ToSet
    <2>. QED BY <2>1, <2>3, <2>4 DEF one
  <1>3. CASE ~(Len(words) = 1 /\ words[1] \in Known)
    <2>. DEFINE found == {n \in Known : Places(n, words) # {}}
                place == [n \in found |-> <<Min(Places(n, words)), Index(n)>>]
                names == InOrder(place)
                workflows == [i \in DOMAIN names |-> get_workflow(names[i])]
    <2>1. IsFiniteSet(found)
      <3>1. IsFiniteSet(DOMAIN Registered)
        BY RegistryParameters, FS_Interval
      <3>2. IsFiniteSet(Known)
        <4>. DEFINE f == [i \in DOMAIN Registered |-> Registered[i].name]
        <4>1. f \in Surjection(DOMAIN Registered, Known)
          BY DEF Known, Surjection
        <4>. HIDE DEF f
        <4>. QED BY <3>1, <4>1, FS_Surjection
      <3>. QED BY <3>2, FS_Subset
    <2>2. place \in [found -> Nat \X Nat]
      <3>1. ASSUME NEW n \in found PROVE Min(Places(n, words)) \in Nat
        <4>1. Places(n, words) \in SUBSET Nat /\ Places(n, words) # {}
          BY <1>1 DEF Places
        <4>. QED BY <4>1, MinOfNaturals
      <3>2. ASSUME NEW n \in found PROVE Index(n) \in Nat
        BY KnownAreChains, RegistryParameters
      <3>. QED BY <3>1, <3>2
    <2>3. \A s, t \in found : place[s] = place[t] => s = t
      <3>. TAKE s, t \in found
      <3>1. place[s] = place[t] => Index(s) = Index(t)
        OBVIOUS
      <3>2. Registered[Index(s)].name = s /\ Registered[Index(t)].name = t
        BY KnownAreChains
      <3>. QED BY <3>1, <3>2
    <2>4. names \in Seq(found) /\ ToSet(names) = found
      <3>. HIDE DEF found, place
      <3>. QED BY <2>1, <2>2, <2>3, ListedOnce
    <2>5. names \in Seq(Known)
      <3>1. found \subseteq Known
        OBVIOUS
      <3>. HIDE DEF found, names
      <3>. QED BY <2>4, <3>1, SeqMonotonic
    <2>6. decompose_intent(words) = workflows
      <3>1. decompose_intent(words) =
              LET found_ == {n \in Known : Places(n, words) # {}}
                  names_ == InOrder([n \in found_ |-> <<Min(Places(n, words)), Index(n)>>])
              IN  [i \in DOMAIN names_ |-> get_workflow(names_[i])]
        BY <1>3, Zenon DEF decompose_intent
      <3>. QED BY <3>1
    <2>7. Known \cap ToSet(words) \subseteq found
      BY DEF ToSet, Places
    <2>. HIDE DEF found, place, names
    <2>8. AreChains(workflows) /\ ToSet(workflows) = {get_workflow(n) : n \in ToSet(names)}
      BY <2>5, NamesAreChains
    <2>9. \A n \in found : n \in Known
      BY DEF found
    <2>. HIDE DEF workflows
    <2>. QED BY <2>4, <2>6, <2>7, <2>8, <2>9, KnownAreChains
  <1>. QED BY <1>2, <1>3

-----------------------------------------------------------------------------
(* The plan made of them *)

Offered == decompose_intent(intent.words)

\* What build_plan returns and _finalize_plan passes on
\* (deterministic_planner.py:110-198, planner_service.py:1503-1616).
PlanOf(outcome) ==
    LET steps == compose_workflows(Chosen)
    IN  [outcome |-> outcome,
         steps |-> steps,
         answers |-> [i \in DOMAIN steps |->
                        IF IsApi(steps[i]) THEN _build_entity_args(Chosen, steps[i].tool) ELSE {}]]

WorkflowsInv ==
    /\ intent \in Asked
    /\ form = NoForm \/ form.fields = merge_entity_requirements(Offered)
    /\ form # NoForm /\ made.outcome \in {"asked", "built", "plan"}
       => \A w \in ToSet(Offered) : w.must \subseteq given
    /\ made.outcome \in {"built", "plan"} => Chosen # <<>> /\ made = PlanOf(made.outcome)

LEMMA ChosenAreChains ==
  ASSUME intent \in Asked
  PROVE  AreChains(Chosen) /\ \A w \in ToSet(Chosen) : "action" \notin w.must
  <1>1. intent.words \in Seq(STRING) /\ intent.sub \in Seq(STRING)
    BY RegistryParameters
  <1>2. AreChains(Offered) /\ \A w \in ToSet(Offered) : "action" \notin w.must
    BY <1>1, NamesAreFound DEF Offered
  <1>3. CASE intent.sub = <<>>
    BY <1>2, <1>3 DEF Chosen, Offered
  <1>4. CASE intent.sub # <<>> /\ ToSet(intent.sub) \subseteq Known
    <2>1. intent.sub \in Seq(Known)
      <3>1. Len(intent.sub) \in Nat /\ DOMAIN intent.sub = 1 .. Len(intent.sub)
        BY <1>1
      <3>2. \A i \in DOMAIN intent.sub : intent.sub[i] \in Known
        BY <1>4 DEF ToSet
      <3>3. intent.sub = [i \in 1 .. Len(intent.sub) |-> intent.sub[i]]
        BY <1>1, <3>1
      <3>4. intent.sub \in [1 .. Len(intent.sub) -> Known]
        BY <3>1, <3>2, <3>3
      <3>5. \A n \in Nat : \A q \in [1 .. n -> Known] : q \in Seq(Known)
        OBVIOUS
      <3>. QED BY <3>1, <3>4, <3>5
    <2>2. Chosen = [i \in DOMAIN intent.sub |-> get_workflow(intent.sub[i])]
      BY <1>4 DEF Chosen
    <2>3. AreChains(Chosen) /\ ToSet(Chosen) = {get_workflow(n) : n \in ToSet(intent.sub)}
      BY <2>1, <2>2, NamesAreChains
    <2>. QED BY <1>4, <2>3, KnownAreChains
  <1>5. CASE intent.sub # <<>> /\ ~(ToSet(intent.sub) \subseteq Known)
    <2>1. Chosen = <<>>
      BY <1>5 DEF Chosen
    <2>2. AreChains(<<>>) /\ ToSet(<<>>) = {}
      BY DEF AreChains, ToSet
    <2>. QED BY <1>2, <2>1, <2>2
  <1>. QED BY <1>3, <1>4, <1>5

\* What is composed (workflow_registry.py:2123-2191).
LEMMA ChosenIsComposed ==
  ASSUME intent \in Asked, Chosen # <<>>
  PROVE  LET steps == compose_workflows(Chosen)
         IN  /\ Composed(Chosen, Len(Chosen), steps, Origins(Chosen))
             /\ Len(steps) \in Nat /\ DOMAIN steps = 1 .. Len(steps) /\ steps # <<>>
             /\ DOMAIN Origins(Chosen) = 1 .. Len(steps)
  <1>. DEFINE steps == compose_workflows(Chosen)
              N == Len(Chosen)
              o == Origins(Chosen)
  <1>1. AreChains(Chosen) /\ N \in Nat /\ DOMAIN Chosen = 1 .. N /\ N > 0
    BY ChosenAreChains DEF AreChains
  <1>2. Composed(Chosen, N, steps, o)
    BY <1>1, AllAreComposed
  <1>. HIDE DEF steps, o
  <1>3. steps \in Seq(WorkflowStep) /\ Len(o) = Len(steps) /\ o \in Seq([part : 1 .. N, step : WorkflowStep])
    BY <1>2 DEF Composed
  <1>4. Len(steps) \in Nat /\ DOMAIN steps = 1 .. Len(steps) /\ DOMAIN o = 1 .. Len(steps)
    BY <1>3
  <1>5. steps # <<>>
    <2>1. N > 0
      BY <1>1
    <2>2. 1 \in 1 .. N /\ IsChain(Chosen[1].steps)
      BY <1>1, <2>1 DEF AreChains
    <2>3. 1 \in DOMAIN Chosen[1].steps
      <3>1. Chosen[1].steps \in Seq(WorkflowStep) /\ Chosen[1].steps # <<>>
        BY <2>2 DEF IsChain
      <3>. QED BY <3>1
    <2>4. \E k \in 1 .. Len(steps) : TRUE
      BY <1>2, <2>2, <2>3 DEF Composed
    <2>. QED BY <1>4, <2>4
  <1>. QED BY <1>2, <1>4, <1>5 DEF steps, o

\* Filling what the form requires gives all that the workflows require, since an
\* entity that any of them requires is required (workflow_registry.py:2194-2213).
LEMMA FilledIsRequired ==
  ASSUME WorkflowsInv, FillForm
  PROVE  \A w \in ToSet(Offered) : w.must \subseteq given'
  <1>. DEFINE fields == merge_entity_requirements(Offered)
  <1>1. form.fields = fields
    BY DEF WorkflowsInv, FillForm
  <1>2. /\ DOMAIN fields = UNION {w.must \cup w.may : w \in ToSet(Offered)}
        /\ \A e \in DOMAIN fields : fields[e] <=> \E w \in ToSet(Offered) : e \in w.must
    BY DEF merge_entity_requirements
  <1>. HIDE DEF fields
  <1>3. given' \in {{e \in DOMAIN fields : fields[e]}, DOMAIN fields}
    BY <1>1 DEF FillForm
  <1>. SUFFICES ASSUME NEW w \in ToSet(Offered), NEW e \in w.must PROVE e \in given'
    OBVIOUS
  <1>4. e \in DOMAIN fields /\ fields[e]
    BY <1>2
  <1>. QED BY <1>3, <1>4

LEMMA WorkflowsInvariance == WorkflowsSpec => []WorkflowsInv
  <1>1. WorkflowsInit => WorkflowsInv
    BY DEF WorkflowsInit, WorkflowsInv
  <1>2. WorkflowsInv /\ [WorkflowsNext]_workflowVars => WorkflowsInv'
    <2>. SUFFICES ASSUME WorkflowsInv, [WorkflowsNext]_workflowVars PROVE WorkflowsInv'
      OBVIOUS
    <2>1. intent' = intent
      BY DEF WorkflowsNext, BuildSkeleton, FillForm, AnswerWithoutSkeleton, TryDeterministic,
             _finalize_plan, workflowVars
    <2>2. Chosen' = Chosen /\ Offered' = Offered
      BY <2>1 DEF Chosen, Offered
    <2>3. CASE BuildSkeleton
      <3>1. /\ form'.fields = merge_entity_requirements(Offered)
            /\ given' = given /\ made' = made /\ made.outcome = "nothing"
        BY <2>3 DEF BuildSkeleton, Offered
      <3>. QED BY <2>1, <2>2, <3>1 DEF WorkflowsInv
    <2>4. CASE FillForm
      <3>1. \A w \in ToSet(Offered) : w.must \subseteq given'
        BY <2>4, FilledIsRequired
      <3>2. made'.outcome = "asked" /\ form' = form
        BY <2>4 DEF FillForm
      <3>. QED BY <2>1, <2>2, <3>1, <3>2 DEF WorkflowsInv
    <2>8. CASE AnswerWithoutSkeleton
      <3>1. form = NoForm /\ form' = form /\ made'.outcome = "asked"
        BY <2>8 DEF AnswerWithoutSkeleton
      <3>. QED BY <2>1, <2>2, <3>1 DEF WorkflowsInv
    <2>5. ASSUME NEW tools \in Listings, NEW overridden \in BOOLEAN, TryDeterministic(tools, overridden)
          PROVE  WorkflowsInv'
      <3>1. made.outcome = "asked" /\ form' = form /\ given' = given
        BY <2>5 DEF TryDeterministic
      <3>2. made' \in {[outcome |-> "llm"], [outcome |-> "error"]}
            \/ (Chosen # <<>> /\ made' = PlanOf("built"))
        <4>1. made' = build_plan(tools) \/ made' = [outcome |-> "llm"]
          BY <2>5, Zenon DEF TryDeterministic
        <4>. DEFINE steps == compose_workflows(Chosen)
        <4>2. \/ build_plan(tools) \in {[outcome |-> "llm"], [outcome |-> "error"]}
              \/ Chosen # <<>> /\ build_plan(tools) =
                    [outcome |-> "built", steps |-> steps,
                     answers |-> [i \in DOMAIN steps |->
                        IF IsApi(steps[i]) THEN _build_entity_args(Chosen, steps[i].tool) ELSE {}]]
          BY Zenon DEF build_plan, Planned
        <4>. QED BY <4>1, <4>2 DEF PlanOf
      <3>3. PlanOf("built")' = PlanOf("built")
        BY <2>2, <3>1 DEF PlanOf, _build_entity_args
      <3>4. PlanOf("built").outcome = "built"
        BY DEF PlanOf
      <3>5. CASE made' \in {[outcome |-> "llm"], [outcome |-> "error"]}
        BY <2>1, <2>2, <3>1, <3>5 DEF WorkflowsInv
      <3>6. CASE Chosen # <<>> /\ made' = PlanOf("built")
        BY <2>1, <2>2, <3>1, <3>3, <3>4, <3>6 DEF WorkflowsInv
      <3>. QED BY <3>2, <3>5, <3>6
    <2>6. ASSUME NEW catalog \in Listings, _finalize_plan(catalog)
          PROVE  WorkflowsInv'
      <3>1. made.outcome = "built" /\ form' = form /\ given' = given /\ made = PlanOf("built") /\ Chosen # <<>>
        BY <2>6 DEF _finalize_plan, WorkflowsInv
      <3>2. made'.outcome = "unavailable" \/ made' = [made EXCEPT !.outcome = "plan"]
        BY <2>6 DEF _finalize_plan
      <3>3. [made EXCEPT !.outcome = "plan"] = PlanOf("plan") /\ PlanOf("plan").outcome = "plan"
        BY <3>1 DEF PlanOf
      <3>4. PlanOf("plan")' = PlanOf("plan")
        BY <2>2, <3>1 DEF PlanOf, _build_entity_args
      <3>5. CASE made'.outcome = "unavailable"
        BY <2>1, <2>2, <3>1, <3>5 DEF WorkflowsInv
      <3>6. CASE made' = PlanOf("plan")
        BY <2>1, <2>2, <3>1, <3>3, <3>4, <3>6 DEF WorkflowsInv
      <3>. QED BY <3>2, <3>3, <3>5, <3>6
    <2>7. CASE UNCHANGED workflowVars
      <3>1. PlanOf(made.outcome)' = PlanOf(made.outcome)
        BY <2>2, <2>7 DEF workflowVars, PlanOf, _build_entity_args
      <3>. QED BY <2>1, <2>2, <2>7, <3>1 DEF workflowVars, WorkflowsInv
    <2>. QED BY <2>3, <2>4, <2>5, <2>6, <2>7, <2>8 DEF WorkflowsNext
  <1>. QED BY <1>1, <1>2, PTL DEF WorkflowsSpec

\* The steps of a plan chained from workflows read the steps of their own
\* workflow that they were written to read, and every level comes after what
\* its steps read and after the workflows before (workflow_registry.py:2123-2191).
THEOREM PartsStayTogether == WorkflowsSpec => []PartsStayWhole
  <1>1. WorkflowsInv => PartsStayWhole
    <2>. SUFFICES ASSUME WorkflowsInv, made.outcome = "plan"
                  PROVE  /\ Resolvable(made.steps)
                         /\ Whole(Origins(Chosen), made.steps, LevelsOf(made.steps))
      BY DEF PartsStayWhole
    <2>. DEFINE steps == compose_workflows(Chosen)
                o == Origins(Chosen)
                levels == LevelsOf(steps)
    <2>1. intent \in Asked /\ Chosen # <<>> /\ made.steps = steps
      BY DEF WorkflowsInv, PlanOf
    <2>2. /\ Composed(Chosen, Len(Chosen), steps, o)
          /\ Len(steps) \in Nat /\ DOMAIN steps = 1 .. Len(steps) /\ steps # <<>>
          /\ DOMAIN o = 1 .. Len(steps)
      BY <2>1, ChosenIsComposed
    <2>. HIDE DEF steps, o
    <2>3. steps \in Seq(WorkflowStep) /\ ChainSoFar(steps) /\ ReadsSoFar(steps, o)
      BY <2>2 DEF Composed
    <2>4. /\ Resolvable(steps)
          /\ \A j, k \in 1 .. Len(steps) : j < k => Level(levels, j) < Level(levels, k)
      BY <2>2, <2>3, ChainLevels
    <2>. HIDE DEF levels
    <2>5. ASSUME NEW k \in DOMAIN o
          PROVE  LET sources == o[k].step.context \cup o[k].step.refs
                     reads == {j \in DOMAIN o : o[j].part = o[k].part /\ o[j].step.step \in sources}
                 IN  /\ steps[k].context \cup steps[k].refs = {steps[j].step : j \in reads}
                     /\ \A j \in reads \cup {i \in DOMAIN o : o[i].part < o[k].part} :
                           Level(levels, steps[j].step) < Level(levels, steps[k].step)
      <3>1. \A j \in 1 .. Len(steps) : steps[j].step = j
        BY <2>3 DEF ChainSoFar
      <3>2. /\ steps[k].context \cup steps[k].refs = ReadBy(o, k)
            /\ ReadBy(o, k) \subseteq 1 .. k - 1
            /\ \A j \in 1 .. Len(steps) : o[j].part < o[k].part => j < k
        BY <2>2, <2>3 DEF ReadsSoFar
      <3>3. \A j \in ReadBy(o, k) : j \in 1 .. Len(steps) /\ j < k
        BY <2>2, <3>2 DEF ReadBy
      <3>4. {steps[j].step : j \in ReadBy(o, k)} = ReadBy(o, k)
        BY <3>1, <3>3
      <3>5. \A j \in ReadBy(o, k) \cup {i \in DOMAIN o : o[i].part < o[k].part} :
               Level(levels, steps[j].step) < Level(levels, steps[k].step)
        BY <2>2, <2>4, <3>1, <3>2, <3>3
      <3>. QED BY <3>2, <3>4, <3>5 DEF ReadBy
    <2>6. Whole(o, steps, levels)
      BY <2>5 DEF Whole
    <2>. QED BY <2>1, <2>4, <2>6 DEF o, levels
  <1>. QED BY <1>1, WorkflowsInvariance, PTL

\* Whatever sub-intents the parser gives, what the user has said of what a
\* workflow requires reaches the tools of its steps; where the form of the
\* registry was filled and was made for this workflow, that is all it requires
\* (workflow_registry.py:2194-2213, deterministic_planner.py:248-288).
THEOREM AnswersArrive == WorkflowsSpec => []AnswersReachTheirSteps
  <1>1. WorkflowsInv => AnswersReachTheirSteps
    <2>. SUFFICES ASSUME WorkflowsInv, made.outcome = "plan",
                         NEW workflow \in ToSet(Chosen), NEW own \in ToSet(workflow.steps), IsApi(own)
                  PROVE  \E k \in DOMAIN made.steps :
                            /\ made.steps[k].tool = own.tool
                            /\ workflow.must \cap given \subseteq made.answers[k]
                            /\ form # NoForm /\ workflow \in ToSet(Offered)
                               => workflow.must \subseteq made.answers[k]
      BY DEF AnswersReachTheirSteps, Offered
    <2>. DEFINE steps == compose_workflows(Chosen)
    <2>1. /\ intent \in Asked /\ Chosen # <<>> /\ made.steps = steps
          /\ made.answers = [i \in DOMAIN steps |->
                IF IsApi(steps[i]) THEN _build_entity_args(Chosen, steps[i].tool) ELSE {}]
      BY DEF WorkflowsInv, PlanOf
    <2>2. /\ Composed(Chosen, Len(Chosen), steps, Origins(Chosen))
          /\ DOMAIN steps = 1 .. Len(steps)
      BY <2>1, ChosenIsComposed
    <2>. HIDE DEF steps
    <2>3. AreChains(Chosen) /\ "action" \notin workflow.must
      BY <2>1, ChosenAreChains
    <2>4. form # NoForm /\ workflow \in ToSet(Offered) => workflow.must \subseteq given
      BY DEF WorkflowsInv
    <2>5. PICK p \in 1 .. Len(Chosen) : Chosen[p] = workflow
      BY <2>3 DEF AreChains, ToSet
    <2>6. PICK i \in DOMAIN Chosen[p].steps : Chosen[p].steps[i] = own
      BY <2>5 DEF ToSet
    <2>7. PICK k \in 1 .. Len(steps) : steps[k].tool = own.tool /\ steps[k].role = own.role
      BY <2>2, <2>5, <2>6 DEF Composed
    <2>8. k \in DOMAIN steps /\ IsApi(steps[k])
      BY <2>2, <2>7 DEF IsApi
    <2>9. made.answers[k] = _build_entity_args(Chosen, own.tool)
      BY <2>1, <2>7, <2>8
    <2>10. workflow \in {v \in ToSet(Chosen) : \E x \in DOMAIN v.steps :
                                                 IsApi(v.steps[x]) /\ v.steps[x].tool = own.tool}
      BY <2>5, <2>6
    <2>11. workflow.must \cap given \subseteq _build_entity_args(Chosen, own.tool)
      BY <2>3, <2>10 DEF _build_entity_args
    <2>12. made.steps[k].tool = own.tool /\ workflow.must \cap given \subseteq made.answers[k]
      BY <2>1, <2>7, <2>9, <2>11
    <2>13. form # NoForm /\ workflow \in ToSet(Offered) => workflow.must \subseteq made.answers[k]
      BY <2>4, <2>12
    <2>. QED BY <2>1, <2>7, <2>8, <2>12, <2>13
  <1>. QED BY <1>1, WorkflowsInvariance, PTL
=============================================================================
