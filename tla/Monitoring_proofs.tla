--------------------------- MODULE Monitoring_proofs ---------------------------
(***************************************************************************)
(* Proofs about the two components that watch over executions.             *)
(*                                                                         *)
(* AuditLog, for any events, thresholds and buffer sizes: the safety       *)
(* invariants, that events are dropped only for want of room, and that     *)
(* AuditService implements EventLog.  None of the invariants is inductive  *)
(* alone: that no event is lost needs that none is twice in a queue that   *)
(* is cut, that needs that a new event is not yet anywhere, and that needs *)
(* that all events are accounted for.                                      *)
(*                                                                         *)
(* ExecutionTracker, for any plans, any number of rows and any poll limit: *)
(* the endings of rows are final, the user is told of a row once at most,  *)
(* and of every plan the watchdog has ended a row of.  That nobody is told *)
(* twice rests on the WHERE clause of the poll: a row of which the user    *)
(* was told has ended, so no poll returns it again.  Inductive is this     *)
(* only together with what is known of the records that the poll under way *)
(* has still to handle (Handled).                                          *)
(***************************************************************************)
EXTENDS AuditLog, ExecutionTracker, SequenceTheorems, FiniteSetTheorems, TLAPS

AuditInv == TypeOK /\ EventsAccounted /\ OnePlace /\ BufferBounded

-----------------------------------------------------------------------------
(* Sequences *)

\* The elements of two sequences, one after the other.
LEMMA ConcatElements ==
  ASSUME NEW S, NEW s \in Seq(S), NEW t \in Seq(S)
  PROVE  /\ s \o t \in Seq(S)
         /\ Len(s \o t) = Len(s) + Len(t)
         /\ ToSet(s \o t) = ToSet(s) \cup ToSet(t)
  <1>. DEFINE q == s \o t
  <1>1. q \in Seq(S) /\ Len(q) = Len(s) + Len(t)
    OBVIOUS
  <1>2. \A i \in 1..Len(s) : i \in 1..Len(q) /\ q[i] = s[i]
    OBVIOUS
  <1>3. \A i \in 1..Len(t) : i + Len(s) \in 1..Len(q) /\ q[i + Len(s)] = t[i]
    OBVIOUS
  <1>4. \A i \in 1..Len(q) : i > Len(s) => i - Len(s) \in 1..Len(t) /\ q[i] = t[i - Len(s)]
    OBVIOUS
  <1>5. Len(s) \in Nat /\ Len(t) \in Nat /\ DOMAIN s = 1..Len(s) /\ DOMAIN t = 1..Len(t)
        /\ DOMAIN q = 1..Len(q)
    BY <1>1
  <1>. HIDE DEF q
  <1>6. ToSet(q) \subseteq ToSet(s) \cup ToSet(t)
    <2>. SUFFICES ASSUME NEW i \in 1..Len(q) PROVE q[i] \in ToSet(s) \cup ToSet(t)
      BY <1>5 DEF ToSet
    <2>1. CASE i > Len(s)
      BY <2>1, <1>4, <1>5 DEF ToSet
    <2>2. CASE ~(i > Len(s))
      <3>1. i \in 1..Len(s)
        BY <2>2, <1>1, <1>5
      <3>. QED BY <3>1, <1>2, <1>5 DEF ToSet
    <2>. QED BY <2>1, <2>2
  <1>7. ToSet(s) \subseteq ToSet(q)
    BY <1>2, <1>5 DEF ToSet
  <1>8. ToSet(t) \subseteq ToSet(q)
    <2>. SUFFICES ASSUME NEW i \in 1..Len(t) PROVE t[i] \in ToSet(q)
      BY <1>5 DEF ToSet
    <2>. QED BY <1>3, <1>5 DEF ToSet
  <1>. QED BY <1>1, <1>6, <1>7, <1>8 DEF q

\* Two sequences without repetition that share nothing make one.
LEMMA ConcatInjective ==
  ASSUME NEW S, NEW s \in Seq(S), NEW t \in Seq(S),
         IsInjective(s), IsInjective(t), ToSet(s) \cap ToSet(t) = {}
  PROVE  IsInjective(s \o t)
  <1>. DEFINE q == s \o t
  <1>1. q \in Seq(S) /\ Len(q) = Len(s) + Len(t)
    OBVIOUS
  <1>2. \A i \in 1..Len(q) : \/ i \in 1..Len(s) /\ q[i] = s[i]
                             \/ /\ i > Len(s)
                                /\ i - Len(s) \in 1..Len(t) /\ q[i] = t[i - Len(s)]
    OBVIOUS
  <1>3. Len(s) \in Nat /\ Len(t) \in Nat /\ DOMAIN s = 1..Len(s) /\ DOMAIN t = 1..Len(t)
        /\ DOMAIN q = 1..Len(q)
    BY <1>1
  <1>. HIDE DEF q
  <1>4. ASSUME NEW i \in 1..Len(s), NEW j \in 1..Len(t), s[i] = t[j] PROVE FALSE
    BY <1>3, <1>4 DEF ToSet
  <1>5. SUFFICES ASSUME NEW i \in 1..Len(q), NEW j \in 1..Len(q), q[i] = q[j] PROVE i = j
    BY <1>3 DEF IsInjective, q
  <1>6. CASE i \in 1..Len(s) /\ q[i] = s[i] /\ j \in 1..Len(s) /\ q[j] = s[j]
    BY <1>3, <1>5, <1>6 DEF IsInjective
  <1>7. CASE i - Len(s) \in 1..Len(t) /\ q[i] = t[i - Len(s)]
             /\ j - Len(s) \in 1..Len(t) /\ q[j] = t[j - Len(s)]
    <2>1. i - Len(s) = j - Len(s)
      BY <1>3, <1>5, <1>7 DEF IsInjective
    <2>. QED BY <2>1, <1>3
  <1>. QED BY <1>2, <1>4, <1>5, <1>6, <1>7

\* One more element at the end.
LEMMA AppendElement ==
  ASSUME NEW S, NEW s \in Seq(S), NEW e \in S
  PROVE  /\ Append(s, e) \in Seq(S)
         /\ Len(Append(s, e)) = Len(s) + 1
         /\ ToSet(Append(s, e)) = ToSet(s) \cup {e}
         /\ IsInjective(s) /\ e \notin ToSet(s) => IsInjective(Append(s, e))
  <1>. DEFINE q == Append(s, e)
  <1>1. q \in Seq(S) /\ Len(q) = Len(s) + 1 /\ Len(s) \in Nat
    OBVIOUS
  <1>2. q[Len(s) + 1] = e /\ \A i \in 1..Len(s) : q[i] = s[i]
    OBVIOUS
  <1>3. DOMAIN s = 1..Len(s) /\ DOMAIN q = 1..(Len(s) + 1)
    BY <1>1
  <1>4. 1..(Len(s) + 1) = 1..Len(s) \cup {Len(s) + 1} /\ Len(s) + 1 \notin 1..Len(s)
    BY <1>1
  <1>. HIDE DEF q
  <1>5. ToSet(q) = ToSet(s) \cup {e}
    BY <1>2, <1>3, <1>4 DEF ToSet
  <1>6. ASSUME IsInjective(s), e \notin ToSet(s) PROVE IsInjective(q)
    BY <1>2, <1>3, <1>4, <1>6 DEF IsInjective, ToSet
  <1>. QED BY <1>1, <1>5, <1>6 DEF q

\* What is behind the first k elements.
LEMMA SuffixElements ==
  ASSUME NEW S, NEW q \in Seq(S), NEW k \in Nat, NEW n \in Nat, k <= n, n = Len(q)
  PROVE  /\ SubSeq(q, k + 1, n) \in Seq(S)
         /\ Len(SubSeq(q, k + 1, n)) = n - k
         /\ \A i \in 1..(n - k) : SubSeq(q, k + 1, n)[i] = q[k + i]
  <1>1. /\ k + 1 \in Int /\ n \in Int /\ n - (k + 1) + 1 = n - k
        /\ ~(k + 1 <= n) => n - k = 0
    OBVIOUS
  <1>2. \A i \in (k + 1)..n : q[i] \in S
    OBVIOUS
  <1>3. /\ SubSeq(q, k + 1, n) \in Seq(S)
        /\ Len(SubSeq(q, k + 1, n)) = IF k + 1 <= n THEN n - (k + 1) + 1 ELSE 0
        /\ \A i \in 1..(n - (k + 1) + 1) : SubSeq(q, k + 1, n)[i] = q[(k + 1) + i - 1]
    BY <1>1, <1>2, SubSeqProperties
  <1>4. \A i \in 1..(n - k) : (k + 1) + i - 1 = k + i
    OBVIOUS
  <1>. QED BY <1>1, <1>3, <1>4

\* Cutting a sequence in two.
LEMMA CutElements ==
  ASSUME NEW S, NEW q \in Seq(S), NEW k \in 1..Len(q)
  PROVE  /\ SubSeq(q, k + 1, Len(q)) \in Seq(S)
         /\ Len(SubSeq(q, k + 1, Len(q))) = Len(q) - k
         /\ ToSet(SubSeq(q, 1, k)) \cup ToSet(SubSeq(q, k + 1, Len(q))) = ToSet(q)
         /\ IsInjective(q) =>
              /\ IsInjective(SubSeq(q, k + 1, Len(q)))
              /\ ToSet(SubSeq(q, 1, k)) \cap ToSet(SubSeq(q, k + 1, Len(q))) = {}
  <1>. DEFINE front == SubSeq(q, 1, k)
              rest == SubSeq(q, k + 1, Len(q))
  <1>1. k \in Nat /\ Len(q) \in Nat /\ k <= Len(q) /\ DOMAIN q = 1..Len(q)
    OBVIOUS
  <1>2. /\ front \in Seq(S) /\ Len(front) = k
        /\ \A i \in 1..k : front[i] = q[i]
    BY <1>1, SubSeqProperties
  <1>3. /\ rest \in Seq(S) /\ Len(rest) = Len(q) - k
        /\ \A i \in 1..(Len(q) - k) : rest[i] = q[k + i]
    BY <1>1, SuffixElements
  <1>4. DOMAIN front = 1..k /\ DOMAIN rest = 1..(Len(q) - k)
    BY <1>2, <1>3
  <1>. HIDE DEF front, rest
  <1>5. ToSet(front) = {q[i] : i \in 1..k}
    BY <1>2, <1>4 DEF ToSet
  <1>6. ToSet(rest) = {q[i] : i \in (k + 1)..Len(q)}
    <2>1. ASSUME NEW i \in 1..(Len(q) - k) PROVE k + i \in (k + 1)..Len(q) /\ rest[i] = q[k + i]
      BY <1>1, <1>3
    <2>2. ASSUME NEW i \in (k + 1)..Len(q)
          PROVE  i - k \in 1..(Len(q) - k) /\ rest[i - k] = q[i]
      <3>1. i - k \in 1..(Len(q) - k) /\ k + (i - k) = i
        BY <1>1
      <3>. QED BY <3>1, <1>3
    <2>3. ToSet(rest) = {rest[i] : i \in 1..(Len(q) - k)}
      BY <1>4 DEF ToSet
    <2>4. {rest[i] : i \in 1..(Len(q) - k)} \subseteq {q[i] : i \in (k + 1)..Len(q)}
      BY <2>1
    <2>5. {q[i] : i \in (k + 1)..Len(q)} \subseteq {rest[i] : i \in 1..(Len(q) - k)}
      BY <2>2
    <2>. QED BY <2>3, <2>4, <2>5
  <1>7. 1..k \cup (k + 1)..Len(q) = 1..Len(q) /\ 1..k \cap (k + 1)..Len(q) = {}
    BY <1>1
  <1>8. ToSet(front) \cup ToSet(rest) = ToSet(q)
    BY <1>1, <1>5, <1>6, <1>7 DEF ToSet
  <1>9. ASSUME IsInjective(q) PROVE ToSet(front) \cap ToSet(rest) = {}
    BY <1>1, <1>5, <1>6, <1>7, <1>9 DEF IsInjective
  <1>10. ASSUME IsInjective(q) PROVE IsInjective(rest)
    <2>. SUFFICES ASSUME NEW i \in 1..(Len(q) - k), NEW j \in 1..(Len(q) - k), rest[i] = rest[j]
                  PROVE  i = j
      BY <1>4 DEF IsInjective
    <2>1. k + i \in 1..Len(q) /\ k + j \in 1..Len(q) /\ q[k + i] = q[k + j]
      BY <1>1, <1>3
    <2>2. k + i = k + j
      BY <2>1, <1>1, <1>10 DEF IsInjective
    <2>. QED BY <2>2, <1>1
  <1>. QED BY <1>3, <1>8, <1>9, <1>10 DEF front, rest

-----------------------------------------------------------------------------
(* The batches on their way *)

\* Taking a write out of a set of writes, and putting one in.
LEMMA EventsOfOne ==
  ASSUME NEW writes, NEW w
  PROVE  /\ EventsOf(writes \cup {w}) = EventsOf(writes) \cup ToSet(w.batch)
         /\ w \in writes => EventsOf(writes) = EventsOf(writes \ {w}) \cup ToSet(w.batch)
  BY DEF EventsOf

\* Taking several out.
LEMMA EventsOfSome ==
  ASSUME NEW writes, NEW some \in SUBSET writes
  PROVE  EventsOf(writes) = EventsOf(writes \ some) \cup EventsOf(some)
  BY DEF EventsOf

\* A batch goes back to a buffer within its bound: nothing is lost that is not
\* dropped, what stays was not dropped, only events of the batch are dropped,
\* and only if the buffer is full (audit_service.py:268-275).
LEMMA RequeueKeeps ==
  ASSUME NEW batch \in Seq(Events), buffer \in Seq(Events),
         IsInjective(batch), IsInjective(buffer), ToSet(batch) \cap ToSet(buffer) = {},
         BufferBounded, Requeue(batch)
  PROVE  /\ buffer' \in Seq(Events) /\ IsInjective(buffer') /\ Len(buffer') <= MaxBuffer
         /\ \E old \in SUBSET ToSet(batch) :
               /\ dropped' = dropped \cup old
               /\ old \cap ToSet(buffer') = {}
               /\ old \cup ToSet(buffer') = ToSet(batch) \cup ToSet(buffer)
         /\ dropped' # dropped => Len(buffer') = MaxBuffer
  <1>. DEFINE queue == batch \o buffer
              overflow == Len(queue) - MaxBuffer
  <1>1. /\ queue \in Seq(Events) /\ ToSet(queue) = ToSet(batch) \cup ToSet(buffer)
        /\ IsInjective(queue)
    BY ConcatElements, ConcatInjective
  <1>2. Len(queue) \in Nat /\ MaxBuffer \in Nat
    BY <1>1, AuditParameters
  <1>3. \/ /\ overflow > 0
           /\ buffer' = SubSeq(queue, overflow + 1, Len(queue))
           /\ dropped' = dropped \cup ToSet(SubSeq(queue, 1, overflow))
        \/ ~(overflow > 0) /\ buffer' = queue /\ dropped' = dropped
    BY DEF Requeue
  <1>. HIDE DEF queue
  <1>4. CASE overflow > 0 /\ buffer' = SubSeq(queue, overflow + 1, Len(queue))
             /\ dropped' = dropped \cup ToSet(SubSeq(queue, 1, overflow))
    <2>1. overflow \in 1..Len(queue) /\ Len(queue) - overflow = MaxBuffer
      BY <1>2, <1>4
    <2>. HIDE DEF overflow
    <2>2. /\ buffer' \in Seq(Events) /\ Len(buffer') = MaxBuffer /\ IsInjective(buffer')
          /\ ToSet(SubSeq(queue, 1, overflow)) \cup ToSet(buffer') = ToSet(queue)
          /\ ToSet(SubSeq(queue, 1, overflow)) \cap ToSet(buffer') = {}
      BY <1>1, <1>4, <2>1, CutElements
    <2>. DEFINE old == ToSet(SubSeq(queue, 1, overflow))
    <2>3. old \cup ToSet(buffer') = ToSet(batch) \cup ToSet(buffer)
          /\ old \cap ToSet(buffer') = {} /\ dropped' = dropped \cup old
      BY <1>1, <1>4, <2>2
    <2>4. old \subseteq ToSet(batch)
      <3>1. overflow \in 0..Len(batch)
        BY <1>2, <2>1, ConcatElements DEF BufferBounded, queue, overflow
      <3>2. \A i \in 1..overflow : SubSeq(queue, 1, overflow)[i] = batch[i] /\ i \in DOMAIN batch
        BY <3>1, <2>1 DEF queue
      <3>3. DOMAIN SubSeq(queue, 1, overflow) = 1..overflow
        BY <1>1, <2>1
      <3>. QED BY <3>2, <3>3 DEF ToSet
    <2>. HIDE DEF old
    <2>5. Len(buffer') <= MaxBuffer
      BY <1>2, <2>2
    <2>. QED BY <2>2, <2>3, <2>4, <2>5
  <1>5. CASE ~(overflow > 0) /\ buffer' = queue /\ dropped' = dropped
    <2>1. Len(queue) <= MaxBuffer
      BY <1>2, <1>5
    <2>2. {} \in SUBSET ToSet(batch) /\ dropped' = dropped \cup {}
      BY <1>5
    <2>. QED BY <1>1, <1>5, <2>1, <2>2
  <1>. QED BY <1>3, <1>4, <1>5

-----------------------------------------------------------------------------
(* The invariant *)

\* A write that ends leaves its batch disjoint from everything else.
LEMMA BatchApart ==
  ASSUME AuditInv, NEW w \in writing
  PROVE  /\ w.batch \in Seq(Events) /\ IsInjective(w.batch)
         /\ ToSet(w.batch) \cap (ToSet(buffer) \cup EventsOf(writing \ {w})) = {}
         /\ ToSet(w.batch) \cap (dropped \cup lost) = {}
         /\ ToSet(w.batch) \subseteq Events
         /\ AnswerMayGetLost \/ ToSet(w.batch) \cap stored = {}
  <1>1. w.batch \in Seq(Events) /\ ToSet(w.batch) \subseteq Events
    BY DEF AuditInv, TypeOK, ToSet
  <1>2. ToSet(w.batch) \subseteq Pending
    BY DEF Pending, EventsOf
  <1>. QED BY <1>1, <1>2 DEF AuditInv, OnePlace, EventsOf

\* A new AuditService has an empty buffer and nothing under way
\* (audit_service.py:80-83).
LEMMA InitialInv == Init => AuditInv
  <1>. SUFFICES ASSUME Init PROVE AuditInv
    OBVIOUS
  <1>1. buffer = <<>> /\ Len(buffer) = 0 /\ ToSet(buffer) = {} /\ IsInjective(buffer)
    BY DEF Init, ToSet, IsInjective
  <1>2. EventsOf(writing) = {}
    BY DEF Init, EventsOf
  <1>. QED BY <1>1, <1>2, AuditParameters
           DEF Init, AuditInv, TypeOK, EventsAccounted, OnePlace, BufferBounded, Pending

\* record(), whether or not it fills the buffer (audit_service.py:103-124).
LEMMA RecordKeepsInv == ASSUME AuditInv, NEW e \in Events, Record(e) PROVE AuditInv'
  <1>. DEFINE queue == Append(buffer, e)
  <1>. USE DEF AuditInv, EventsAccounted
  <1>1. e \notin Pending \cup stored \cup dropped \cup lost
    BY DEF Record
  <1>2. /\ queue \in Seq(Events) /\ ToSet(queue) = ToSet(buffer) \cup {e}
        /\ IsInjective(queue) /\ Len(queue) = Len(buffer) + 1 /\ Len(buffer) \in Nat
    BY <1>1, AppendElement DEF TypeOK, OnePlace, Pending
  <1>3. ToSet(queue) \cap EventsOf(writing) = {}
    BY <1>1, <1>2 DEF OnePlace, Pending, EventsOf
  <1>4. CASE Len(queue) >= Threshold
    <2>. DEFINE w == By("caller", queue)
    <2>1. /\ buffer' = <<>> /\ writing' = writing \cup {w}
          /\ UNCHANGED <<loop, stored, dropped, lost>> /\ recorded' = recorded \cup {e}
      BY <1>4 DEF Record
    <2>2. w.batch = queue /\ w \in [by : {"caller", "loop", "stop"}, batch : Seq(Events)]
      BY <1>2 DEF By
    <2>. HIDE DEF queue, w
    <2>3. ToSet(buffer') = {} /\ IsInjective(buffer') /\ Len(buffer') = 0
      BY <2>1 DEF ToSet, IsInjective
    <2>. HIDE DEF AuditInv, EventsAccounted
    <2>4. Pending' = Pending \cup {e}
      <3>1. EventsOf(writing') = EventsOf(writing) \cup ToSet(w.batch)
        BY <2>1, EventsOfOne
      <3>2. ToSet(w.batch) = ToSet(buffer) \cup {e}
        BY <1>2, <2>2
      <3>. QED BY <2>3, <3>1, <3>2 DEF Pending
    <2>. USE DEF AuditInv, EventsAccounted
    <2>5. \A v \in writing' : v # w => ToSet(v.batch) \cap ToSet(w.batch) = {}
      BY <1>3, <2>1, <2>2 DEF EventsOf
    <2>6. TypeOK' /\ BufferBounded'
      BY <2>1, <2>2, <2>3, AuditParameters DEF TypeOK, BufferBounded
    <2>7. EventsAccounted'
      BY <2>1, <2>4
    <2>8. OnePlace'
      <3>1. \A v \in writing' : IsInjective(v.batch) /\ ToSet(v.batch) \cap ToSet(buffer') = {}
        BY <1>2, <2>1, <2>2, <2>3 DEF OnePlace
      <3>2. \A v, u \in writing' : u # v => ToSet(v.batch) \cap ToSet(u.batch) = {}
        BY <2>1, <2>5 DEF OnePlace
      <3>3. Pending' \cap (dropped' \cup lost') = {}
        BY <1>1, <2>1, <2>4 DEF OnePlace
      <3>4. AnswerMayGetLost \/ (Pending' \cup dropped' \cup lost') \cap stored' = {}
        BY <1>1, <2>1, <2>4 DEF OnePlace
      <3>. QED BY <2>3, <3>1, <3>2, <3>3, <3>4 DEF OnePlace
    <2>. QED BY <2>6, <2>7, <2>8
  <1>5. CASE ~(Len(queue) >= Threshold)
    <2>1. /\ buffer' = queue /\ UNCHANGED <<writing, loop, stored, dropped, lost>>
          /\ recorded' = recorded \cup {e}
      BY <1>5 DEF Record
    <2>2. Len(queue) <= MaxBuffer
      BY <1>2, <1>5, AuditParameters
    <2>. HIDE DEF queue
    <2>3. Pending' = Pending \cup {e}
      BY <1>2, <2>1 DEF Pending
    <2>4. OnePlace'
      <3>1. \A v \in writing' : IsInjective(v.batch) /\ ToSet(v.batch) \cap ToSet(buffer') = {}
        BY <1>3, <2>1 DEF OnePlace, EventsOf
      <3>2. \A v, u \in writing' : u # v => ToSet(v.batch) \cap ToSet(u.batch) = {}
        BY <2>1 DEF OnePlace
      <3>3. Pending' \cap (dropped' \cup lost') = {}
        BY <1>1, <2>1, <2>3 DEF OnePlace
      <3>4. AnswerMayGetLost \/ (Pending' \cup dropped' \cup lost') \cap stored' = {}
        BY <1>1, <2>1, <2>3 DEF OnePlace
      <3>. QED BY <1>2, <2>1, <3>1, <3>2, <3>3, <3>4 DEF OnePlace
    <2>. QED BY <1>2, <2>1, <2>2, <2>3, <2>4 DEF TypeOK, BufferBounded
  <1>. QED BY <1>4, <1>5

\* The flush of the loop and the last one of stop(): the buffer becomes a
\* batch (audit_service.py:243-247).
LEMMA FlushKeepsInv ==
  ASSUME AuditInv, NEW who \in {"loop", "stop"},
         writing' = writing \cup {By(who, buffer)}, buffer' = <<>>,
         loop' \in {"on", "stopped"}, UNCHANGED <<stored, recorded, dropped, lost>>
  PROVE  AuditInv'
  <1>. DEFINE w == By(who, buffer)
  <1>. USE DEF AuditInv, EventsAccounted
  <1>1. w.batch = buffer /\ w \in [by : {"caller", "loop", "stop"}, batch : Seq(Events)]
    BY DEF By, TypeOK
  <1>2. writing' = writing \cup {w}
    OBVIOUS
  <1>. HIDE DEF w
  <1>3. ToSet(buffer') = {} /\ IsInjective(buffer') /\ Len(buffer') = 0 /\ buffer' \in Seq(Events)
    BY DEF ToSet, IsInjective
  <1>4. Pending' = Pending
    <2>1. EventsOf(writing') = EventsOf(writing) \cup ToSet(buffer)
      BY <1>1, <1>2, EventsOfOne
    <2>. QED BY <1>3, <2>1 DEF Pending
  <1>5. \A v \in writing : ToSet(v.batch) \cap ToSet(w.batch) = {}
    BY <1>1 DEF OnePlace
  <1>6. TypeOK' /\ BufferBounded'
    BY <1>1, <1>2, <1>3, AuditParameters DEF TypeOK, BufferBounded
  <1>7. OnePlace'
    <2>1. \A v \in writing' : IsInjective(v.batch) /\ ToSet(v.batch) \cap ToSet(buffer') = {}
      BY <1>1, <1>2, <1>3 DEF OnePlace
    <2>2. \A v, u \in writing' : u # v => ToSet(v.batch) \cap ToSet(u.batch) = {}
      BY <1>2, <1>5 DEF OnePlace
    <2>. QED BY <1>3, <1>4, <2>1, <2>2 DEF OnePlace
  <1>. QED BY <1>4, <1>6, <1>7

\* A batch that is stored (db.py:94-103).
LEMMA WrittenKeepsInv == ASSUME AuditInv, NEW w \in writing, Written(w) PROVE AuditInv'
  <1>. USE DEF AuditInv, EventsAccounted
  <1>1. /\ stored' = stored \cup ToSet(w.batch) /\ writing' = writing \ {w}
        /\ UNCHANGED <<buffer, loop, recorded, dropped, lost>>
    BY DEF Written
  <1>2. Pending = Pending' \cup ToSet(w.batch) /\ Pending' \cap ToSet(w.batch) = {}
    BY <1>1, BatchApart, EventsOfOne DEF Pending
  <1>3. OnePlace'
    <2>1. Pending' \cap (dropped' \cup lost') = {}
      BY <1>1, <1>2 DEF OnePlace
    <2>2. AnswerMayGetLost \/ (Pending' \cup dropped' \cup lost') \cap stored' = {}
      BY <1>1, <1>2, BatchApart DEF OnePlace
    <2>. QED BY <1>1, <2>1, <2>2 DEF OnePlace
  <1>4. TypeOK' /\ BufferBounded'
    BY <1>1, BatchApart DEF TypeOK, BufferBounded
  <1>. QED BY <1>1, <1>2, <1>3, <1>4

\* A batch that comes back, stored or not (audit_service.py:268-283).
LEMMA ReturnKeepsInv ==
  ASSUME AuditInv, NEW w \in writing, Requeue(w.batch), writing' = writing \ {w},
         \/ stored' = stored
         \/ AnswerMayGetLost /\ stored' = stored \cup ToSet(w.batch),
         UNCHANGED <<loop, recorded, lost>>
  PROVE  AuditInv'
  <1>. USE DEF AuditInv, EventsAccounted
  <1>1. PICK old \in SUBSET ToSet(w.batch) :
               /\ dropped' = dropped \cup old
               /\ old \cap ToSet(buffer') = {}
               /\ old \cup ToSet(buffer') = ToSet(w.batch) \cup ToSet(buffer)
    BY BatchApart, RequeueKeeps DEF TypeOK, OnePlace
  <1>2. buffer' \in Seq(Events) /\ IsInjective(buffer') /\ Len(buffer') <= MaxBuffer
    BY BatchApart, RequeueKeeps DEF TypeOK, OnePlace
  <1>3. Pending = Pending' \cup old
    BY <1>1, EventsOfOne DEF Pending
  <1>4. ToSet(buffer) \cap EventsOf(writing) = {}
    BY DEF OnePlace, EventsOf
  <1>5. EventsOf(writing) = EventsOf(writing') \cup ToSet(w.batch)
    BY EventsOfOne
  <1>6. old \cap Pending' = {} /\ ToSet(buffer') \cap EventsOf(writing') = {}
    BY <1>1, <1>4, <1>5, BatchApart DEF Pending
  <1>7. OnePlace'
    <2>1. \A v \in writing' : ToSet(v.batch) \subseteq EventsOf(writing')
      BY DEF EventsOf
    <2>2. AnswerMayGetLost \/ (Pending' \cup dropped' \cup lost') \cap stored' = {}
      BY <1>1, <1>3 DEF OnePlace
    <2>3. Pending' \cap (dropped' \cup lost') = {}
      BY <1>1, <1>3, <1>6 DEF OnePlace
    <2>. QED BY <1>2, <1>6, <2>1, <2>2, <2>3 DEF OnePlace
  <1>8. TypeOK' /\ BufferBounded'
    BY <1>1, <1>2, BatchApart DEF TypeOK, BufferBounded
  <1>9. ToSet(w.batch) \subseteq Pending
    BY DEF Pending, EventsOf
  <1>10. recorded' = Pending' \cup stored' \cup dropped' \cup lost'
    BY <1>1, <1>3, <1>9
  <1>. QED BY <1>7, <1>8, <1>10

\* The end of the cancelled loop (audit_service.py:184-187).
LEMMA LoopEndsKeepsInv == ASSUME AuditInv, LoopEnds PROVE AuditInv'
  <1>. DEFINE batch == EventsOf(LoopWrites)
  <1>. USE DEF AuditInv, EventsAccounted
  <1>1. LoopWrites \in SUBSET writing
    BY DEF LoopWrites
  <1>2. /\ writing' = writing \ LoopWrites /\ UNCHANGED <<buffer, recorded, dropped>>
        /\ loop' = "ended"
        /\ \/ lost' = lost \cup (batch \ stored) /\ UNCHANGED stored
           \/ stored' = stored \cup batch /\ UNCHANGED lost
    BY DEF LoopEnds
  <1>. HIDE DEF batch
  <1>3. Pending = Pending' \cup batch
    <2>1. EventsOf(writing) = EventsOf(writing') \cup batch
      BY <1>1, <1>2, EventsOfSome DEF batch
    <2>. QED BY <1>2, <2>1 DEF Pending
  <1>4. batch \cap Pending' = {}
    <2>1. \A v \in LoopWrites : ToSet(v.batch) \cap (ToSet(buffer) \cup EventsOf(writing \ {v})) = {}
      BY <1>1, BatchApart
    <2>2. EventsOf(writing') \subseteq EventsOf(writing)
      BY <1>2 DEF EventsOf
    <2>3. \A v \in LoopWrites : EventsOf(writing') \subseteq EventsOf(writing \ {v})
      BY <1>2 DEF EventsOf
    <2>. QED BY <1>2, <2>1, <2>3 DEF batch, EventsOf, Pending
  <1>5. batch \subseteq Events
    BY <1>1, BatchApart DEF batch, EventsOf
  <1>6. OnePlace'
    <2>1. batch \cap (dropped \cup lost) = {}
      BY <1>3 DEF OnePlace
    <2>2. Pending' \cap (dropped' \cup lost') = {}
      BY <1>2, <1>3, <1>4 DEF OnePlace
    <2>3. AnswerMayGetLost \/ (Pending' \cup dropped' \cup lost') \cap stored' = {}
      BY <1>2, <1>3, <1>4, <2>1 DEF OnePlace
    <2>. QED BY <1>2, <2>2, <2>3 DEF OnePlace
  <1>7. TypeOK' /\ BufferBounded'
    BY <1>2, <1>5 DEF TypeOK, BufferBounded
  <1>. QED BY <1>2, <1>3, <1>6, <1>7

\* Every step keeps the invariant (audit_service.py:103-133, 181-188, 237-298).
LEMMA AuditInvInductive == AuditInv /\ [Next]_vars => AuditInv'
  <1>. SUFFICES ASSUME AuditInv, [Next]_vars PROVE AuditInv'
    OBVIOUS
  <1>. USE DEF AuditInv, EventsAccounted
  <1>1. CASE UNCHANGED vars
    BY <1>1 DEF vars, TypeOK, OnePlace, BufferBounded, Pending
  <1>2. ASSUME NEW e \in Events, Record(e) PROVE AuditInv'
    BY <1>2, RecordKeepsInv
  <1>3. CASE Start
    BY <1>3 DEF Start, TypeOK, OnePlace, BufferBounded, Pending
  <1>4. CASE WakeUp
    BY <1>4, FlushKeepsInv DEF WakeUp
  <1>5. CASE Stop
    BY <1>5 DEF Stop, TypeOK, OnePlace, BufferBounded, Pending
  <1>6. CASE LoopEnds
    BY <1>6, LoopEndsKeepsInv
  <1>7. CASE FinalFlush
    <2>1. CASE buffer = <<>>
      BY <1>7, <2>1 DEF FinalFlush, TypeOK, OnePlace, BufferBounded, Pending
    <2>2. CASE buffer # <<>>
      BY <1>7, <2>2, FlushKeepsInv DEF FinalFlush
    <2>. QED BY <2>1, <2>2
  <1>8. ASSUME NEW w \in writing, WriteEnds(w) PROVE AuditInv'
    <2>1. CASE Written(w)     BY <2>1, WrittenKeepsInv
    <2>2. CASE WriteFails(w)  BY <2>2, ReturnKeepsInv DEF WriteFails
    <2>3. CASE AnswerLost(w)  BY <2>3, ReturnKeepsInv DEF AnswerLost
    <2>. QED BY <1>8, <2>1, <2>2, <2>3 DEF WriteEnds
  <1>. QED BY <1>1, <1>2, <1>3, <1>4, <1>5, <1>6, <1>7, <1>8 DEF Next

-----------------------------------------------------------------------------
(* Theorems *)

\* The invariant holds in every behaviour of AuditService
\* (audit_service.py:103-133, 181-188, 237-298).
LEMMA AuditInvariant == Spec => []AuditInv
  BY InitialInv, AuditInvInductive, PTL DEF Spec

\* The state of AuditService keeps its types (audit_service.py:66-88).
THEOREM AuditTyping == Spec => []TypeOK
  BY AuditInvariant, PTL DEF AuditInv

\* Whatever fails or is cancelled, and in whatever order writes end, every
\* recorded event stays accounted for (audit_service.py:103-133, 237-283).
THEOREM EventsStayAccounted == Spec => []EventsAccounted
  BY AuditInvariant, PTL DEF AuditInv

\* No event is buffered or under way twice (audit_service.py:243-247, 269-270).
THEOREM EventsStayInOnePlace == Spec => []OnePlace
  BY AuditInvariant, PTL DEF AuditInv

\* Appending without a look at the bound and putting batches back keep the
\* bound, since the threshold is not above it (audit_service.py:111-124, 269-275).
THEOREM BufferStaysBounded == Spec => []BufferBounded
  BY AuditInvariant, PTL DEF AuditInv

\* An event is dropped only when the buffer is full (audit_service.py:272-275).
THEOREM DropsForWantOfRoom == Spec => DropsOnlyExcess
  <1>1. AuditInv /\ [Next]_vars => [dropped' # dropped => Len(buffer') = MaxBuffer]_vars
    <2>. SUFFICES ASSUME AuditInv, Next, dropped' # dropped PROVE Len(buffer') = MaxBuffer
      BY DEF vars
    <2>1. PICK w \in writing : Requeue(w.batch)
      BY DEF Next, Record, Start, WakeUp, Stop, LoopEnds, FinalFlush, WriteEnds, Written,
             WriteFails, AnswerLost
    <2>. QED BY <2>1, BatchApart, RequeueKeeps DEF AuditInv, TypeOK, OnePlace
  <1>. QED BY <1>1, AuditInvariant, PTL DEF Spec, DropsOnlyExcess

-----------------------------------------------------------------------------
(* AuditService implements EventLog *)

\* Some pending events are stored, or some are lost.
LEMMA SettlingImplements ==
  ASSUME AuditInv, NEW settled \in SUBSET Events, settled \subseteq Pending,
         settled \cap stored = {},
         \/ stored' = stored \cup settled /\ dropped' \cup lost' \subseteq dropped \cup lost \cup settled
            /\ dropped \cup lost \subseteq dropped' \cup lost'
         \/ stored' = stored /\ (dropped' \cup lost') \ stored = (dropped \cup lost \cup settled) \ stored,
         recorded' = recorded
  PROVE  Log!LogNext
  <1>. DEFINE known == [e \in Events |-> Status(e)]
              to == IF stored' = stored THEN "lost" ELSE "stored"
  <1>1. settled \subseteq {e \in Events : known[e] = "pending"}
    BY DEF Status, AuditInv, EventsAccounted, OnePlace
  <1>2. ASSUME NEW e \in Events
        PROVE  Status(e)' = IF e \in settled THEN to ELSE Status(e)
    BY DEF Status, AuditInv, EventsAccounted, OnePlace
  <1>3. [e \in Events |-> Status(e)'] = [e \in Events |-> IF e \in settled THEN to ELSE known[e]]
    BY <1>2
  <1>. QED BY <1>1, <1>3 DEF Log!LogNext, Log!Settle

\* Nothing an auditor sees changes.
LEMMA StutteringImplements ==
  ASSUME UNCHANGED <<stored, dropped, lost, recorded>>
  PROVE  UNCHANGED [e \in Events |-> Status(e)]
  BY DEF Status

\* What record, a write and its failure do to the events, EventLog allows; the
\* rest it does not see (audit_service.py:103-133, 181-188, 237-298).
LEMMA StepImplements ==
  AuditInv /\ [Next]_vars => [Log!LogNext]_[e \in Events |-> Status(e)]
  <1>. DEFINE Step == [Log!LogNext]_[e \in Events |-> Status(e)]
  <1>. SUFFICES ASSUME AuditInv, [Next]_vars PROVE Step
    OBVIOUS
  <1>1. ASSUME NEW e \in Events, Record(e) PROVE Step
    <2>1. /\ e \notin recorded /\ recorded' = recorded \cup {e}
          /\ UNCHANGED <<stored, dropped, lost>>
      BY <1>1 DEF Record
    <2>2. e \notin stored \cup dropped \cup lost
      BY <2>1 DEF AuditInv, EventsAccounted
    <2>3. \A f \in Events : Status(f)' = IF f = e THEN "pending" ELSE Status(f)
      BY <2>1, <2>2 DEF Status
    <2>4. Status(e) = "new"
      BY <2>1, <2>2 DEF Status
    <2>5. Log!Accept(e)
      BY <2>3, <2>4 DEF Log!Accept
    <2>. QED BY <2>5 DEF Log!LogNext
  <1>2. ASSUME NEW w \in writing, Written(w) PROVE Step
    <2>1. /\ stored' = stored \cup ToSet(w.batch) /\ ToSet(w.batch) \cap stored = {}
          /\ UNCHANGED <<dropped, lost, recorded>>
      BY <1>2 DEF Written, Writable
    <2>2. ToSet(w.batch) \subseteq Pending
      BY DEF Pending, EventsOf
    <2>. QED BY <2>1, <2>2, BatchApart, SettlingImplements
  <1>3. ASSUME NEW w \in writing, WriteFails(w) \/ AnswerLost(w) PROVE Step
    <2>1. Requeue(w.batch) /\ UNCHANGED <<lost, recorded>>
      BY <1>3 DEF WriteFails, AnswerLost
    <2>2. PICK old \in SUBSET ToSet(w.batch) : dropped' = dropped \cup old
      BY <2>1, BatchApart, RequeueKeeps DEF AuditInv, TypeOK, OnePlace
    <2>3. ToSet(w.batch) \subseteq Pending
      BY DEF Pending, EventsOf
    <2>4. CASE WriteFails(w)
      <3>. DEFINE settled == old \ stored
      <3>1. settled \in SUBSET Events /\ settled \subseteq Pending /\ settled \cap stored = {}
        BY <2>3, BatchApart
      <3>2. stored' = stored
            /\ (dropped' \cup lost') \ stored = (dropped \cup lost \cup settled) \ stored
        BY <2>1, <2>2, <2>4 DEF WriteFails
      <3>. HIDE DEF settled
      <3>. QED BY <2>1, <3>1, <3>2, SettlingImplements
    <2>5. CASE AnswerLost(w)
      <3>1. stored' = stored \cup ToSet(w.batch) /\ ToSet(w.batch) \cap stored = {}
        BY <2>5 DEF AnswerLost, Writable
      <3>2. /\ dropped' \cup lost' \subseteq dropped \cup lost \cup ToSet(w.batch)
            /\ dropped \cup lost \subseteq dropped' \cup lost'
        BY <2>1, <2>2
      <3>. QED BY <2>1, <2>3, <3>1, <3>2, BatchApart, SettlingImplements
    <2>. QED BY <1>3, <2>4, <2>5
  <1>4. CASE LoopEnds
    <2>. DEFINE batch == EventsOf(LoopWrites)
    <2>1. batch \subseteq Pending /\ batch \subseteq Events
      BY BatchApart DEF LoopWrites, EventsOf, Pending
    <2>2. UNCHANGED <<dropped, recorded>>
      BY <1>4 DEF LoopEnds
    <2>3. CASE lost' = lost \cup (batch \ stored) /\ stored' = stored
      <3>. DEFINE settled == batch \ stored
      <3>1. settled \in SUBSET Events /\ settled \subseteq Pending /\ settled \cap stored = {}
        BY <2>1
      <3>2. (dropped' \cup lost') \ stored = (dropped \cup lost \cup settled) \ stored
        BY <2>2, <2>3
      <3>. HIDE DEF settled
      <3>. QED BY <2>2, <2>3, <3>1, <3>2, SettlingImplements
    <2>4. CASE stored' = stored \cup batch /\ lost' = lost /\ batch \cap stored = {}
      <3>. HIDE DEF batch
      <3>. QED BY <2>1, <2>2, <2>4, SettlingImplements
    <2>5. (\A w \in LoopWrites : Writable(w)) => batch \cap stored = {}
      BY DEF Writable, EventsOf
    <2>. QED BY <1>4, <2>3, <2>4, <2>5 DEF LoopEnds
  <1>5. CASE Start \/ WakeUp \/ Stop \/ FinalFlush \/ UNCHANGED vars
    BY <1>5, StutteringImplements DEF Start, WakeUp, Stop, FinalFlush, vars
  <1>. QED BY <1>1, <1>2, <1>3, <1>4, <1>5 DEF Next, WriteEnds

\* The log an auditor sees only grows: an event is recorded once and then
\* stored or given up for good, in every interleaving of flushes, failures and
\* the shutdown (audit_service.py:103-133, 181-188, 237-298).
THEOREM AuditImplementsLog == Spec => LogSpec
  <1>1. Init => Log!LogInit
    BY DEF Init, Log!LogInit, Status
  <1>. QED BY <1>1, StepImplements, AuditInvariant, PTL DEF Spec, LogSpec, Log!LogSpec

-----------------------------------------------------------------------------
(* ExecutionTracker *)

\* The rows that exist, and what is known of the records of a poll.
Handled ==
    /\ \A i \in Row : status[i] = "absent" <=> planOf[i] = NoPlan
    /\ \A i \in Row : status[i] = "absent" => ~notified[i]
    /\ \A i \in Row : notified[i] => Told(planOf[i])
    /\ \A i \in DOMAIN due :
          /\ status[i] # "absent"
          /\ due[i].notified => Told(planOf[i])
          /\ told[i] = 0 \/ (watch = "flagging" /\ i = First)
    /\ watch \in {"telling", "flagging"} => status[First] \in Ended
    /\ watch = "flagging" => told[First] > 0

TrackerInv == TrackerTypeOK /\ ToldOnce /\ FlaggedPlanIsTold /\ Handled

-----------------------------------------------------------------------------
(* Lemmas *)

\* A set of rows that is not empty has a first one.
LEMMA FirstRow ==
  ASSUME NEW S, S \subseteq Row, S # {}
  PROVE  Min(S) \in S
  <1>. DEFINE Below(i) == {k \in S : k < i}
              T == {Below(i) : i \in S}
  <1>a. S \subseteq Nat
    BY TrackerParameters DEF Row
  <1>b. IsFiniteSet(1 .. MaxRows)
    BY FS_Interval, TrackerParameters
  <1>1. IsFiniteSet(S)
    BY <1>b, FS_Subset DEF Row
  <1>2. T \subseteq FiniteSubsetsOf(S) /\ T # {}
    <2>1. ASSUME NEW i \in S PROVE Below(i) \in FiniteSubsetsOf(S)
      <3>1. Below(i) \subseteq S
        OBVIOUS
      <3>2. IsFiniteSet(Below(i))
        BY <1>1, <3>1, FS_Subset
      <3>. QED BY <3>1, <3>2 DEF FiniteSubsetsOf
    <2>. QED BY <2>1
  <1>. HIDE DEF T
  <1>3. PICK x \in T : \A y \in T : ~(<<y, x>> \in StrictSubsetOrdering(S))
    BY <1>2, FS_StrictSubsetOrderingWellFounded, WFMin
  <1>4. PICK i \in S : x = Below(i)
    BY <1>3 DEF T
  <1>5. ASSUME NEW j \in S PROVE i <= j
    <2>. SUFFICES ASSUME j < i PROVE FALSE
      BY TrackerParameters DEF Row
    <2>1. Below(j) \in T
      BY DEF T
    <2>2. Below(j) \subseteq Below(i) /\ Below(j) # Below(i)
      <3>1. j \in Below(i) /\ j \notin Below(j)
        BY <1>a
      <3>2. ASSUME NEW k \in Below(j) PROVE k \in Below(i)
        <4>. k \in Nat /\ j \in Nat /\ i \in Nat /\ k < j
          BY <1>a
        <4>. QED OBVIOUS
      <3>. QED BY <3>1, <3>2
    <2>3. <<Below(j), Below(i)>> \in StrictSubsetOrdering(S)
      BY <2>2 DEF StrictSubsetOrdering
    <2>. QED BY <1>3, <1>4, <2>1, <2>3
  <1>. QED BY <1>5 DEF Min

\* While the watchdog is awake there is a first record.
LEMMA FirstRecord ==
  ASSUME TrackerTypeOK, watch # "asleep"
  PROVE  First \in DOMAIN due /\ First \in Row
  BY FirstRow DEF TrackerTypeOK, First

-----------------------------------------------------------------------------
(* The invariant *)

LEMMA TrackerBegins == TrackerInit => TrackerInv
  BY TrackerParameters DEF TrackerInit, TrackerInv, TrackerTypeOK, ToldOnce, FlaggedPlanIsTold, Handled,
     Ended, Flagged, Told, Row

\* mark_terminal changes running rows only, to the ending it is given.
LEMMA MarkedRows ==
  ASSUME TrackerTypeOK, NEW p, NEW ending \in Ended, mark_terminal(p, ending)
  PROVE  /\ status' \in [Row -> {"absent", "running"} \cup Ended]
         /\ \A i \in Row : status[i] # "running" => status'[i] = status[i]
         /\ \A i \in Row : status[i] = "running" =>
               status'[i] = IF planOf[i] = p THEN ending ELSE "running"
  BY DEF TrackerTypeOK, mark_terminal, RunningOf, Running

\* What the next record leaves of the records of a poll.
LEMMA RecordsLeft ==
  ASSUME TrackerTypeOK, watch # "asleep", NextRecord
  PROVE  /\ DOMAIN due' = DOMAIN due \ {First}
         /\ \A i \in DOMAIN due' : due'[i] = due[i]
         /\ watch' \in {"asleep", "marking"}
         /\ watch' = "asleep" <=> DOMAIN due' = {}
  BY DEF NextRecord

LEMMA TrackerTypesGoOn == TrackerInv /\ [TrackerNext]_trackerVars => TrackerTypeOK'
  <1>. SUFFICES ASSUME TrackerTypeOK, Handled, [TrackerNext]_trackerVars PROVE TrackerTypeOK'
    BY DEF TrackerInv
  <1>. USE DEF TrackerTypeOK, Ended, Flagged
  <1>1. CASE \E p \in Plan : Register(p)
    BY <1>1 DEF Register, watchVars
  <1>2. CASE \E p \in Plan : ReportProgress(p)
    BY <1>2 DEF ReportProgress, roundVars, watchVars
  <1>3. CASE \E p \in Plan : Pause(p)
    BY <1>3 DEF Pause, watchVars
  <1>4. CASE \E p \in Plan : Complete(p)
    <2>1. PICK p \in Plan : Complete(p)
      BY <1>4
    <2>2. status' \in [Row -> {"absent", "running"} \cup Ended]
      BY <2>1, MarkedRows DEF Complete
    <2>. QED BY <2>1, <2>2 DEF Complete, watchVars
  <1>5. CASE Poll
    <2>. DEFINE overdue == {i \in Batch : age[i] # "fresh"}
    <2>1. overdue \subseteq Row /\ overdue # {}
      BY <1>5 DEF Poll, Batch, Running
    <2>2. DOMAIN due' = overdue /\ watch' = "marking"
      BY <1>5 DEF Poll
    <2>3. ASSUME NEW i \in overdue PROVE due'[i] \in [verdict : Flagged, notified : BOOLEAN]
      BY <1>5, <2>1 DEF Poll, Verdict
    <2>. QED BY <1>5, <2>1, <2>2, <2>3 DEF Poll, roundVars
  <1>6. CASE Mark
    <2>1. First \in DOMAIN due /\ First \in Row
      BY <1>6, FirstRecord DEF Mark
    <2>2. status' \in [Row -> {"absent", "running"} \cup Ended]
      BY <1>6, <2>1, MarkedRows DEF Mark
    <2>3. CASE due[First].notified
      BY <1>6, <2>1, <2>2, <2>3, RecordsLeft DEF Mark, roundVars
    <2>4. CASE ~due[First].notified
      BY <1>6, <2>1, <2>2, <2>4 DEF Mark, roundVars
    <2>. QED BY <2>3, <2>4
  <1>7. CASE MarkFails
    <2>1. First \in DOMAIN due /\ First \in Row
      BY <1>7, FirstRecord DEF MarkFails
    <2>2. status' \in [Row -> {"absent", "running"} \cup Ended]
      BY <1>7, <2>1, MarkedRows DEF MarkFails
    <2>3. planOf[First] \in Plan
      BY <2>1 DEF Handled
    <2>. QED BY <1>7, <2>2, <2>3 DEF MarkFails, roundVars
  <1>8. CASE Tell
    BY <1>8, FirstRecord DEF Tell, roundVars
  <1>9. CASE Flag
    <2>1. DOMAIN due' \subseteq Row /\ \A i \in DOMAIN due' : due'[i] = due[i] /\ i \in DOMAIN due
      BY <1>9, RecordsLeft DEF Flag
    <2>. QED BY <1>9, <2>1, RecordsLeft DEF Flag, roundVars
  <1>10. CASE \E i \in Row : GoSilent(i) \/ GrowOld(i)
    BY <1>10 DEF GoSilent, GrowOld, roundVars, watchVars
  <1>11. CASE Crash
    <2>1. watch = "telling" => planOf[First] \in Plan
      <3>. HAVE watch = "telling"
      <3>1. First \in Row
        BY FirstRecord
      <3>2. status[First] # "absent"
        BY DEF Handled
      <3>. QED BY <3>1, <3>2 DEF Handled
    <2>. QED BY <1>11, <2>1, TrackerParameters DEF Crash
  <1>12. CASE UNCHANGED trackerVars
    BY <1>12 DEF trackerVars
  <1>. QED BY <1>1, <1>2, <1>3, <1>4, <1>5, <1>6, <1>7, <1>8, <1>9, <1>10, <1>11, <1>12 DEF TrackerNext

\* The actions that touch neither the watchdog nor the ending of a row.
LEMMA QuietStep ==
  ASSUME TrackerInv, UNCHANGED <<due, watch, told, cut, notified>>,
         \A i \in Row : planOf'[i] = planOf[i] \/ status[i] = "absent",
         \A i \in Row : status'[i] = status[i] \/ status[i] \in {"absent", "running"},
         \A i \in Row : status'[i] # status[i] => status'[i] \in {"running", "finished"},
         \A i \in Row : status'[i] = "absent" <=> planOf'[i] = NoPlan
  PROVE  ToldOnce' /\ FlaggedPlanIsTold' /\ Handled'
  <1>. DEFINE ToldNow(p) == \E k \in Row : planOf'[k] = p /\ told'[k] > 0
  <1>. USE DEF TrackerInv
  <1>1. \A i \in Row : told[i] > 0 => status[i] \in Ended
    BY DEF TrackerTypeOK, ToldOnce
  <1>2. \A i \in Row : status[i] # "absent" => status'[i] # "absent" /\ planOf'[i] = planOf[i]
    OBVIOUS
  <1>3. \A i \in Row : status[i] \in Ended => status'[i] = status[i]
    BY DEF Ended, Flagged
  <1>4. ASSUME NEW p, Told(p) PROVE ToldNow(p)
    <2>1. PICK k \in Row : planOf[k] = p /\ told[k] > 0
      BY <1>4 DEF Told
    <2>2. status[k] # "absent"
      BY <2>1, <1>1 DEF Ended, Flagged
    <2>. QED BY <2>1, <2>2, <1>2
  <1>5. First' = First
    BY DEF First
  <1>6. watch # "asleep" => First \in Row /\ planOf'[First] = planOf[First]
    BY FirstRecord, <1>2 DEF Handled
  <1>7. ToldOnce'
    BY <1>1, <1>3 DEF ToldOnce, TrackerTypeOK
  <1>8. FlaggedPlanIsTold'
    <2>1. ASSUME NEW i \in Row, status'[i] \in Flagged
          PROVE  \/ ToldNow(planOf'[i]) \/ planOf'[i] \in cut'
                 \/ watch' = "telling" /\ planOf'[i] = planOf'[First]
      <3>1. status[i] \in Flagged /\ planOf'[i] = planOf[i]
        BY <2>1 DEF Flagged
      <3>2. \/ Told(planOf[i]) \/ planOf[i] \in cut
            \/ watch = "telling" /\ planOf[i] = planOf[First]
        BY <3>1 DEF FlaggedPlanIsTold
      <3>. QED BY <3>1, <3>2, <1>4, <1>6
    <2>. QED BY <2>1, <1>5 DEF FlaggedPlanIsTold, Told
  <1>9. Handled'
    <2>1. \A i \in Row : notified'[i] => ToldNow(planOf'[i])
      BY <1>2, <1>4 DEF Handled
    <2>2. \A i \in Row : status'[i] = "absent" => ~notified'[i]
      BY <1>2 DEF Handled
    <2>3. ASSUME NEW i \in DOMAIN due'
          PROVE  /\ status'[i] # "absent"
                 /\ due'[i].notified => ToldNow(planOf'[i])
                 /\ told'[i] = 0 \/ (watch' = "flagging" /\ i = First)
      <3>1. i \in Row /\ i \in DOMAIN due
        BY DEF TrackerTypeOK
      <3>. QED BY <3>1, <1>2, <1>4 DEF Handled
    <2>4. watch' \in {"telling", "flagging"} => status'[First] \in Ended
      BY <1>3, <1>6 DEF Handled
    <2>5. watch' = "flagging" => told'[First] > 0
      BY DEF Handled
    <2>. QED BY <2>1, <2>2, <2>3, <2>4, <2>5, <1>5 DEF Handled, Told
  <1>. QED BY <1>7, <1>8, <1>9

\* On to the next record, when the user has been told of the plan at hand.
LEMMA RecordStep ==
  ASSUME TrackerInv, watch \in {"marking", "flagging"}, NextRecord,
         UNCHANGED <<planOf, told, cut>>, Told(planOf[First]),
         \A i \in Row : \/ status'[i] = status[i]
                        \/ status[i] = "running" /\ status'[i] \in Ended
                           /\ planOf[i] = planOf[First],
         \A i \in Row : notified'[i] => notified[i] \/ planOf[i] = planOf[First],
         \A i \in Row : status[i] = "absent" => ~notified'[i]
  PROVE  ToldOnce' /\ FlaggedPlanIsTold' /\ Handled'
  <1>. USE DEF TrackerInv
  <1>1. \A p : Told(p) <=> \E k \in Row : planOf'[k] = p /\ told'[k] > 0
    BY DEF Told
  <1>2. \A i \in Row : status[i] \in Ended => status'[i] \in Ended
    BY DEF Ended, Flagged
  <1>3. \A i \in Row : status'[i] = "absent" <=> status[i] = "absent"
    BY DEF Ended, Flagged
  <1>4. ToldOnce'
    BY <1>2 DEF ToldOnce, TrackerTypeOK
  <1>5. FlaggedPlanIsTold'
    <2>1. ASSUME NEW i \in Row, status'[i] \in Flagged
          PROVE  Told(planOf[i]) \/ planOf[i] \in cut
      <3>1. CASE status'[i] = status[i]
        BY <2>1, <3>1 DEF FlaggedPlanIsTold
      <3>2. CASE planOf[i] = planOf[First]
        BY <3>2
      <3>. QED BY <3>1, <3>2
    <2>2. \A i \in Row : status'[i] \in Flagged =>
             (\E k \in Row : planOf'[k] = planOf'[i] /\ told'[k] > 0) \/ planOf'[i] \in cut'
      BY <2>1, <1>1
    <2>. QED BY <2>2 DEF FlaggedPlanIsTold, Told
  <1>6. Handled'
    <2>1. \A i \in Row : notified'[i] => Told(planOf[i])
      BY DEF Handled
    <2>2. \A i \in DOMAIN due' : i \in DOMAIN due /\ i # First /\ due'[i] = due[i] /\ i \in Row
      BY RecordsLeft DEF TrackerTypeOK
    <2>3. \A i \in DOMAIN due' :
             /\ status'[i] # "absent"
             /\ due'[i].notified => Told(planOf[i])
             /\ told'[i] = 0
      BY <2>2, <1>3 DEF Handled
    <2>4. \A i \in Row : (status'[i] = "absent" <=> planOf'[i] = NoPlan)
                      /\ (status'[i] = "absent" => ~notified'[i])
      BY <1>3 DEF Handled
    <2>5. \A i \in Row : notified'[i] => \E k \in Row : planOf'[k] = planOf'[i] /\ told'[k] > 0
      BY <2>1, <1>1
    <2>6. \A i \in DOMAIN due' :
             due'[i].notified => \E k \in Row : planOf'[k] = planOf'[i] /\ told'[k] > 0
      BY <2>3, <1>1
    <2>7. watch' \notin {"telling", "flagging"}
      BY RecordsLeft
    <2>. QED BY <2>3, <2>4, <2>5, <2>6, <2>7 DEF Handled, Told
  <1>. QED BY <1>4, <1>5, <1>6

\* The watchdog is asleep again although records are left.
LEMMA PollCutShort ==
  ASSUME TrackerInv, UNCHANGED <<planOf, notified, told>>,
         due' = <<>>, watch' = "asleep", cut \subseteq cut',
         watch = "telling" => planOf[First] \in cut',
         \A i \in Row : \/ status'[i] = status[i]
                        \/ /\ status[i] = "running" /\ status'[i] \in Flagged
                           /\ planOf[i] \in cut'
  PROVE  ToldOnce' /\ FlaggedPlanIsTold' /\ Handled'
  <1>. USE DEF TrackerInv
  <1>1. \A i \in Row : /\ status[i] \in Ended => status'[i] \in Ended
                       /\ status'[i] = "absent" <=> status[i] = "absent"
    BY DEF Ended, Flagged
  <1>2. ToldOnce'
    BY <1>1 DEF ToldOnce, TrackerTypeOK
  <1>3. FlaggedPlanIsTold'
    BY DEF FlaggedPlanIsTold, Told
  <1>4. Handled'
    BY <1>1 DEF Handled, Told
  <1>. QED BY <1>2, <1>3, <1>4

\* mark_terminal, and the user has still to be told.
LEMMA MarkedUntold ==
  ASSUME TrackerInv, Mark, ~due[First].notified
  PROVE  ToldOnce' /\ FlaggedPlanIsTold' /\ Handled'
  <1>. USE DEF TrackerInv
  <1>1. First \in DOMAIN due /\ First \in Row
    BY FirstRecord DEF Mark
  <1>2. due[First].verdict \in Flagged /\ due[First].verdict \in Ended
    BY <1>1 DEF TrackerTypeOK, Ended
  <1>3. /\ \A i \in Row : status[i] # "running" => status'[i] = status[i]
        /\ \A i \in Row : status[i] = "running" =>
              status'[i] = IF planOf[i] = planOf[First] THEN due[First].verdict ELSE "running"
    BY <1>2, MarkedRows DEF Mark
  <1>4. UNCHANGED <<planOf, notified, told, cut, due>> /\ watch = "marking" /\ watch' = "telling"
    BY DEF Mark, roundVars
  <1>5. First' = First
    BY <1>4 DEF First
  <1>6. \A i \in Row : status'[i] = status[i]
                    \/ (status'[i] \in Flagged /\ planOf[i] = planOf[First])
    BY <1>2, <1>3
  <1>7. ToldOnce'
    <2>1. \A i \in Row : status[i] \in Ended => status'[i] \in Ended
      BY <1>6 DEF Ended
    <2>. QED BY <2>1, <1>4 DEF ToldOnce, TrackerTypeOK
  <1>8. FlaggedPlanIsTold'
    BY <1>4, <1>5, <1>6 DEF FlaggedPlanIsTold, Told
  <1>9. Handled'
    <2>1. \A i \in Row : status'[i] = "absent" <=> status[i] = "absent"
      BY <1>2, <1>3 DEF Flagged
    <2>2. status'[First] \in Ended
      <3>1. status[First] # "absent" /\ status[First] \in {"absent", "running"} \cup Ended
        BY <1>1 DEF Handled, TrackerTypeOK
      <3>. QED BY <3>1, <1>1, <1>2, <1>3
    <2>3. \A i \in DOMAIN due : i \in Row /\ told[i] = 0
      BY <1>4 DEF Handled, TrackerTypeOK
    <2>. QED BY <2>1, <2>2, <2>3, <1>4, <1>5 DEF Handled, Told
  <1>. QED BY <1>7, <1>8, <1>9

LEMMA TrackerGoesOn == TrackerInv /\ [TrackerNext]_trackerVars => ToldOnce' /\ FlaggedPlanIsTold' /\ Handled'
  <1>. SUFFICES ASSUME TrackerInv, [TrackerNext]_trackerVars PROVE ToldOnce' /\ FlaggedPlanIsTold' /\ Handled'
    OBVIOUS
  <1>. USE DEF TrackerInv
  <1>0. \A i \in Row : status[i] = "absent" <=> planOf[i] = NoPlan
    BY DEF Handled
  <1>1. ASSUME NEW p \in Plan, Register(p) PROVE ToldOnce' /\ FlaggedPlanIsTold' /\ Handled'
    <2>1. UNCHANGED <<due, watch, told, cut, notified>>
      BY <1>1 DEF Register, watchVars
    <2>2. CASE UNCHANGED <<planOf, status>>
      BY <2>1, <2>2, <1>0, QuietStep
    <2>3. ASSUME NEW i \in Row, status[i] = "absent", planOf' = [planOf EXCEPT ![i] = p],
                 status' = [status EXCEPT ![i] = "running"]
          PROVE  ToldOnce' /\ FlaggedPlanIsTold' /\ Handled'
      <3>1. \A j \in Row : /\ planOf'[j] = IF j = i THEN p ELSE planOf[j]
                           /\ status'[j] = IF j = i THEN "running" ELSE status[j]
        BY <2>3 DEF TrackerTypeOK
      <3>2. p # NoPlan
        BY TrackerParameters
      <3>. QED BY <3>1, <3>2, <2>1, <2>3, <1>0, QuietStep
    <2>. QED BY <1>1, <2>2, <2>3 DEF Register
  <1>2. CASE \E p \in Plan : ReportProgress(p)
    BY <1>2, <1>0, QuietStep DEF ReportProgress, roundVars, watchVars
  <1>3. CASE \E p \in Plan : Pause(p)
    BY <1>3, <1>0, QuietStep DEF Pause, watchVars
  <1>4. ASSUME NEW p \in Plan, Complete(p) PROVE ToldOnce' /\ FlaggedPlanIsTold' /\ Handled'
    <2>1. UNCHANGED <<planOf, due, watch, told, cut, notified>>
      BY <1>4 DEF Complete, watchVars
    <2>2. \A i \in Row : \/ status'[i] = status[i]
                         \/ status[i] = "running" /\ status'[i] = "finished"
      <3>1. CASE mark_terminal(p, "finished")
        BY <3>1, MarkedRows DEF Ended
      <3>. QED BY <3>1, <1>4 DEF Complete
    <2>. QED BY <2>1, <2>2, <1>0, QuietStep
  <1>5. CASE Poll
    <2>1. UNCHANGED <<planOf, status, notified, told, cut>> /\ watch = "asleep" /\ watch' = "marking"
      BY <1>5 DEF Poll, roundVars
    <2>2. ToldOnce' /\ FlaggedPlanIsTold'
      BY <2>1 DEF ToldOnce, FlaggedPlanIsTold, Told
    <2>3. \A i \in DOMAIN due' : i \in Row /\ status[i] = "running" /\ due'[i].notified = notified[i]
      BY <1>5 DEF Poll, Batch, Running
    <2>4. \A i \in Row : status[i] = "running" => told[i] = 0
      BY DEF ToldOnce, TrackerTypeOK, Ended, Flagged
    <2>5. Handled'
      BY <2>1, <2>3, <2>4 DEF Handled, Told
    <2>. QED BY <2>2, <2>5
  <1>6. CASE Mark
    <2>1. CASE ~due[First].notified
      BY <1>6, <2>1, MarkedUntold
    <2>2. CASE due[First].notified
      <3>1. First \in DOMAIN due /\ First \in Row
        BY <1>6, FirstRecord DEF Mark
      <3>2. due[First].verdict \in Ended
        BY <3>1 DEF TrackerTypeOK, Ended
      <3>3. \A i \in Row : \/ status'[i] = status[i]
                           \/ status[i] = "running" /\ status'[i] \in Ended
                              /\ planOf[i] = planOf[First]
        BY <1>6, <3>2, MarkedRows DEF Mark
      <3>4. Told(planOf[First])
        BY <2>2, <3>1 DEF Handled
      <3>5. /\ watch \in {"marking", "flagging"} /\ NextRecord
            /\ UNCHANGED <<planOf, told, cut, notified>>
        BY <1>6, <2>2 DEF Mark, roundVars
      <3>6. \A i \in Row : status[i] = "absent" => ~notified'[i]
        BY <3>5 DEF Handled
      <3>. QED BY <3>3, <3>4, <3>5, <3>6, RecordStep
    <2>. QED BY <2>1, <2>2
  <1>7. CASE MarkFails
    <2>1. First \in DOMAIN due /\ First \in Row
      BY <1>7, FirstRecord DEF MarkFails
    <2>2. due[First].verdict \in Flagged /\ due[First].verdict \in Ended
      BY <2>1 DEF TrackerTypeOK, Ended
    <2>3. /\ UNCHANGED <<planOf, notified, told>> /\ due' = <<>> /\ watch' = "asleep"
          /\ cut \subseteq cut' /\ watch = "marking"
      BY <1>7 DEF MarkFails, roundVars
    <2>4. \A i \in Row : \/ status'[i] = status[i]
                         \/ /\ status[i] = "running" /\ status'[i] \in Flagged
                            /\ planOf[i] \in cut'
      BY <1>7, <2>2, MarkedRows DEF MarkFails
    <2>. QED BY <2>3, <2>4, PollCutShort
  <1>8. CASE Tell
    <2>1. First \in DOMAIN due /\ First \in Row
      BY <1>8, FirstRecord DEF Tell
    <2>2. /\ UNCHANGED <<planOf, status, notified, due, cut>>
          /\ watch = "telling" /\ watch' = "flagging" /\ First' = First
      BY <1>8 DEF Tell, roundVars, First
    <2>3. told[First] = 0 /\ status[First] \in Ended
      BY <2>1, <2>2 DEF Handled
    <2>4. \A i \in Row : told'[i] = IF i = First THEN 1 ELSE told[i]
      BY <1>8, <2>1, <2>3 DEF Tell, TrackerTypeOK
    <2>5. ToldOnce'
      BY <2>2, <2>3, <2>4 DEF ToldOnce
    <2>6. \A p : Told(p) => \E k \in Row : planOf'[k] = p /\ told'[k] > 0
      BY <2>2, <2>4 DEF Told
    <2>7. \E k \in Row : planOf'[k] = planOf[First] /\ told'[k] > 0
      BY <2>1, <2>2, <2>4
    <2>8. FlaggedPlanIsTold'
      BY <2>2, <2>6, <2>7 DEF FlaggedPlanIsTold, Told
    <2>9. Handled'
      <3>1. \A i \in Row : notified'[i] => \E k \in Row : planOf'[k] = planOf'[i] /\ told'[k] > 0
        BY <2>2, <2>6 DEF Handled
      <3>2. ASSUME NEW i \in DOMAIN due'
            PROVE  /\ status'[i] # "absent"
                   /\ due'[i].notified => \E k \in Row : planOf'[k] = planOf'[i] /\ told'[k] > 0
                   /\ told'[i] = 0 \/ (watch' = "flagging" /\ i = First)
        <4>1. i \in DOMAIN due /\ i \in Row
          BY <2>2 DEF TrackerTypeOK
        <4>2. told[i] = 0 /\ status[i] # "absent" /\ (due[i].notified => Told(planOf[i]))
          BY <4>1, <2>2 DEF Handled
        <4>. QED BY <4>1, <4>2, <2>2, <2>4, <2>6
      <3>3. told'[First] > 0
        BY <2>1, <2>4
      <3>. QED BY <3>1, <3>2, <3>3, <2>2, <2>3 DEF Handled, Told
    <2>. QED BY <2>5, <2>8, <2>9
  <1>9. CASE Flag
    <2>1. First \in DOMAIN due /\ First \in Row
      BY <1>9, FirstRecord DEF Flag
    <2>2. /\ watch \in {"marking", "flagging"} /\ watch = "flagging" /\ NextRecord
          /\ UNCHANGED <<planOf, status, told, cut>>
      BY <1>9 DEF Flag, roundVars
    <2>3. Told(planOf[First])
      BY <2>1, <2>2 DEF Handled, Told
    <2>4. \A i \in Row : notified'[i] => notified[i] \/ planOf[i] = planOf[First]
      BY <1>9 DEF Flag
    <2>5. \A i \in Row : status[i] = "absent" => ~notified'[i]
      BY <2>1, <2>4, <1>0 DEF Handled
    <2>. QED BY <2>2, <2>3, <2>4, <2>5, RecordStep
  <1>10. CASE \E i \in Row : GoSilent(i) \/ GrowOld(i)
    BY <1>10, <1>0, QuietStep DEF GoSilent, GrowOld, roundVars, watchVars
  <1>11. CASE Crash
    <2>1. /\ UNCHANGED <<planOf, status, notified, told>> /\ due' = <<>> /\ watch' = "asleep"
          /\ cut \subseteq cut' /\ (watch = "telling" => planOf[First] \in cut')
      BY <1>11 DEF Crash
    <2>. QED BY <2>1, PollCutShort
  <1>12. CASE UNCHANGED trackerVars
    BY <1>12, <1>0, QuietStep DEF trackerVars
  <1>. QED BY <1>1, <1>2, <1>3, <1>4, <1>5, <1>6, <1>7, <1>8, <1>9, <1>10, <1>11, <1>12 DEF TrackerNext

-----------------------------------------------------------------------------
(* Theorems *)

THEOREM TrackerIsInv == TrackerSpec => []TrackerInv
  <1>1. TrackerInit => TrackerInv
    BY TrackerBegins
  <1>2. TrackerInv /\ [TrackerNext]_trackerVars => TrackerInv'
    BY TrackerTypesGoOn, TrackerGoesOn DEF TrackerInv
  <1>. QED BY <1>1, <1>2, PTL DEF TrackerSpec

\* The rows, the watchdog and the records of its poll keep their types: it is
\* asleep exactly when no record is left to handle.
THEOREM TrackerTypes == TrackerSpec => []TrackerTypeOK
  BY TrackerIsInv, PTL DEF TrackerInv

\* The user is told of a row once at most, and only after it has ended.
THEOREM NobodyIsToldTwice == TrackerSpec => []ToldOnce
  BY TrackerIsInv, PTL DEF TrackerInv

\* Who has an execution ended by the watchdog is told of it, unless the
\* process dies between ending the row and sending the notification, or the
\* answer of the database to the first is lost.
THEOREM FlaggedPlansAreTold == TrackerSpec => []FlaggedPlanIsTold
  BY TrackerIsInv, PTL DEF TrackerInv

\* Of complete() and the watchdog the first one decides how a row has ended.
THEOREM EndingsAreFinal == TrackerSpec => EndingIsFinal
  <1>. DEFINE Final == \A i \in Row : status[i] \in Ended => status'[i] = status[i]
  <1>1. TrackerInv /\ [TrackerNext]_trackerVars => [Final]_trackerVars
    <2>. SUFFICES ASSUME TrackerTypeOK, [TrackerNext]_trackerVars PROVE Final
      BY DEF TrackerInv
    <2>1. ASSUME NEW p, NEW ending, mark_terminal(p, ending) PROVE Final
      BY <2>1 DEF mark_terminal, RunningOf, Running, Ended, Flagged
    <2>2. ASSUME NEW p \in Plan, Register(p) PROVE Final
      BY <2>2 DEF Register, TrackerTypeOK, Ended, Flagged
    <2>3. ASSUME NEW p \in Plan, Complete(p) PROVE Final
      BY <2>3, <2>1 DEF Complete
    <2>4. CASE Mark \/ MarkFails
      BY <2>4, <2>1 DEF Mark, MarkFails
    <2>5. ASSUME UNCHANGED status PROVE Final
      BY <2>5
    <2>6. UNCHANGED trackerVars => UNCHANGED status
      BY DEF trackerVars
    <2>7. \A p \in Plan : ReportProgress(p) \/ Pause(p) => UNCHANGED status
      BY DEF ReportProgress, Pause
    <2>8. Poll \/ Tell \/ Flag \/ Crash => UNCHANGED status
      BY DEF Poll, Tell, Flag, Crash
    <2>9. \A i \in Row : GoSilent(i) \/ GrowOld(i) => UNCHANGED status
      BY DEF GoSilent, GrowOld
    <2>. HIDE DEF Final
    <2>. QED BY <2>2, <2>3, <2>4, <2>5, <2>6, <2>7, <2>8, <2>9 DEF TrackerNext
  <1>. QED BY <1>1, TrackerIsInv, PTL DEF TrackerSpec, EndingIsFinal
=============================================================================
