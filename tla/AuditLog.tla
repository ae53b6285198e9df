------------------------------ MODULE AuditLog ------------------------------
(***************************************************************************)
(* AuditService: events are buffered in memory and written to PostgreSQL   *)
(* in batches, by the caller whose event fills the buffer, by the flush    *)
(* loop and by stop().  The lock is never held across an await, so what    *)
(* runs between two awaits is one action: appending an event and taking    *)
(* the batch, or failing a write and putting its batch back.               *)
(*                                                                         *)
(* event_id is the primary key of the table: a batch that holds a stored   *)
(* event cannot be written.                                                *)
(***************************************************************************)
EXTENDS Integers, Sequences, SequencesExt

CONSTANTS Events,        \* the events that may be recorded
          Threshold,     \* flush_threshold (10 in the code)
          MaxBuffer,     \* max_buffer_size (1000 in the code)
          Managed,       \* are start() and stop() called? app.py calls neither
          AnswerMayGetLost \* may a commit succeed and still raise?

ASSUME AuditParameters ==
    /\ Threshold \in Nat \ {0} /\ MaxBuffer \in Nat /\ Threshold <= MaxBuffer
    /\ Managed \in BOOLEAN /\ AnswerMayGetLost \in BOOLEAN

VARIABLES
    buffer,   \* _buffer
    writing,  \* the batches handed to append_events_batch, with who waits for each
    loop,     \* the flush loop: "off", "on", "cancelled" or "ended"; then "stopped"
    stored,   \* the rows of audit_events
    recorded, \* history: the events passed to record()
    dropped,  \* history: the events dropped by an overflow
    lost      \* history: the events of a write that was cancelled

vars == <<buffer, writing, loop, stored, recorded, dropped, lost>>

Init ==
    /\ buffer = <<>> /\ writing = {}
    /\ loop = "off"
    /\ stored = {} /\ recorded = {} /\ dropped = {} /\ lost = {}

By(who, batch) == [by |-> who, batch |-> batch]

\* record: the caller of the event that fills the buffer writes it.
Record(e) ==
    LET queue == Append(buffer, e) IN
    /\ e \notin recorded
    /\ recorded' = recorded \cup {e}
    /\ IF Len(queue) >= Threshold
       THEN buffer' = <<>> /\ writing' = writing \cup {By("caller", queue)}
       ELSE buffer' = queue /\ UNCHANGED writing
    /\ UNCHANGED <<loop, stored, dropped, lost>>

\* start creates the task of the flush loop.
Start ==
    /\ Managed /\ loop = "off"
    /\ loop' = "on"
    /\ UNCHANGED <<buffer, writing, stored, recorded, dropped, lost>>

EventsOf(writes) == UNION {ToSet(w.batch) : w \in writes}
LoopWrites == {w \in writing : w.by = "loop"}

\* Mutant: the loop, too, waits for the threshold.
WakeUpAtThreshold ==
    /\ loop = "on" /\ LoopWrites = {} /\ Len(buffer) >= Threshold
    /\ writing' = writing \cup {By("loop", buffer)}
    /\ buffer' = <<>>
    /\ UNCHANGED <<loop, stored, recorded, dropped, lost>>

\* The loop has slept and flushes.
WakeUp ==
    /\ loop = "on" /\ LoopWrites = {} /\ buffer # <<>>
    /\ writing' = writing \cup {By("loop", buffer)}
    /\ buffer' = <<>>
    /\ UNCHANGED <<loop, stored, recorded, dropped, lost>>

Writable(w) == ToSet(w.batch) \cap stored = {}

Written(w) ==
    /\ Writable(w)
    /\ stored' = stored \cup ToSet(w.batch)
    /\ writing' = writing \ {w}
    /\ UNCHANGED <<buffer, loop, recorded, dropped, lost>>

\* Mutant: the batch of a failed write is forgotten.
RequeueNothing(batch) == UNCHANGED <<buffer, dropped>>

\* Mutant: what exceeds the buffer is counted but not cut off.
RequeueUncut(batch) ==
    LET queue == batch \o buffer
        overflow == Len(queue) - MaxBuffer
    IN
    /\ buffer' = queue
    /\ dropped' = IF overflow > 0
                  THEN dropped \cup ToSet(SubSeq(queue, 1, overflow)) ELSE dropped

\* The batch of a failed write goes back to the front of the buffer; what
\* exceeds the buffer is cut off at the front.
Requeue(batch) ==
    LET queue == batch \o buffer
        overflow == Len(queue) - MaxBuffer
    IN
    IF overflow > 0
    THEN /\ buffer' = SubSeq(queue, overflow + 1, Len(queue))
         /\ dropped' = dropped \cup ToSet(SubSeq(queue, 1, overflow))
    ELSE buffer' = queue /\ UNCHANGED dropped

WriteFails(w) ==
    /\ writing' = writing \ {w}
    /\ Requeue(w.batch)
    /\ UNCHANGED <<loop, stored, recorded, lost>>

\* The transaction is committed but the connection breaks before the answer:
\* append_events_batch raises, and the batch is put back.
AnswerLost(w) ==
    /\ AnswerMayGetLost /\ Writable(w)
    /\ stored' = stored \cup ToSet(w.batch)
    /\ writing' = writing \ {w}
    /\ Requeue(w.batch)
    /\ UNCHANGED <<loop, recorded, lost>>

\* stop: the loop, if there is one, is cancelled ...
Stop ==
    /\ Managed /\ loop \in {"off", "on"}
    /\ loop' = IF loop = "on" THEN "cancelled" ELSE "ended"
    /\ UNCHANGED <<buffer, writing, stored, recorded, dropped, lost>>

\* ... and ends.  CancelledError is no Exception: the batch the loop was
\* writing is not put back.  It may be stored already.
LoopEnds ==
    LET batch == EventsOf(LoopWrites) IN
    /\ loop = "cancelled"
    /\ loop' = "ended"
    /\ writing' = writing \ LoopWrites
    /\ \/ lost' = lost \cup (batch \ stored) /\ UNCHANGED stored
       \/ /\ \A w \in LoopWrites : Writable(w)
          /\ stored' = stored \cup batch /\ UNCHANGED lost
    /\ UNCHANGED <<buffer, recorded, dropped>>

\* Then stop flushes a last time.
FinalFlush ==
    /\ loop = "ended"
    /\ loop' = "stopped"
    /\ writing' = IF buffer = <<>> THEN writing ELSE writing \cup {By("stop", buffer)}
    /\ buffer' = <<>>
    /\ UNCHANGED <<stored, recorded, dropped, lost>>

WriteEnds(w) == Written(w) \/ WriteFails(w) \/ AnswerLost(w)

Next ==
    \/ \E e \in Events : Record(e)
    \/ Start \/ WakeUp \/ Stop \/ LoopEnds \/ FinalFlush
    \/ \E w \in writing : WriteEnds(w)

Spec == Init /\ [][Next]_vars

\* The loop runs while the process does; a write that is tried again and
\* again, and can be written, succeeds in the end.
FairSpec ==
    /\ Spec
    /\ WF_vars(Start) /\ WF_vars(WakeUp)
    /\ \A e \in Events : SF_vars(\E w \in writing : e \in ToSet(w.batch) /\ Written(w))

-----------------------------------------------------------------------------
(* Properties *)

TypeOK ==
    /\ buffer \in Seq(Events)
    /\ writing \subseteq [by : {"caller", "loop", "stop"}, batch : Seq(Events)]
    /\ loop \in {"off", "on", "cancelled", "ended", "stopped"}
    /\ stored \subseteq Events /\ recorded \subseteq Events
    /\ dropped \subseteq Events /\ lost \subseteq Events

Pending == ToSet(buffer) \cup EventsOf(writing)

\* No event vanishes or appears from nowhere: what was recorded is in the
\* table, in the buffer, in a batch on its way, or accounted for as dropped or
\* cancelled (audit_service.py:103-133, 243-283).
EventsAccounted == recorded = Pending \cup stored \cup dropped \cup lost

\* No event is in two places at once: of the buffer and the batches on their
\* way, each event is in at most one and in that once, and a stored event is
\* in none unless the answer to its commit was lost (audit_service.py:243-247,
\* 269-270).
OnePlace ==
    /\ IsInjective(buffer)
    /\ \A w \in writing :
          /\ IsInjective(w.batch)
          /\ ToSet(w.batch) \cap ToSet(buffer) = {}
          /\ \A v \in writing \ {w} : ToSet(w.batch) \cap ToSet(v.batch) = {}
    /\ Pending \cap (dropped \cup lost) = {}
    /\ AnswerMayGetLost \/ (Pending \cup dropped \cup lost) \cap stored = {}

\* The buffer keeps its bound, although record() does not look at it
\* (audit_service.py:110-111, 123-124, 272-274).
BufferBounded == Len(buffer) <= MaxBuffer

\* Events are dropped only for want of room: whenever some are, the buffer is
\* full afterwards (audit_service.py:270-275).
DropsOnlyExcess == [][dropped' # dropped => Len(buffer') = MaxBuffer]_vars

\* While the loop runs a pending event is stored or dropped in the end, unless
\* an event whose answer was lost blocks the batches (audit_service.py:285-298).
Blocked == Pending \cap stored # {}
EventuallySettled ==
    \A e \in Events : (e \in Pending) ~> (e \notin Pending \/ Blocked \/ loop # "on")

\* The log an auditor sees.
Status(e) == IF e \in stored THEN "stored"
             ELSE IF e \in dropped \cup lost THEN "lost"
             ELSE IF e \in recorded THEN "pending" ELSE "new"
Log == INSTANCE EventLog WITH status <- [e \in Events |-> Status(e)]

\* AuditService implements EventLog.
LogSpec == Log!LogSpec

=============================================================================
