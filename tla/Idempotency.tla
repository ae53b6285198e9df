---------------------------- MODULE Idempotency ----------------------------
(***************************************************************************)
(* The three-state idempotency records of ExecuteOrchestrator (adapters/   *)
(* idempotency.py), one Redis hash per key                                 *)
(* idem:{user}:{integration}:{plan}:{step}:{call}:{args}.                  *)
(*                                                                         *)
(* check_and_claim is not one Redis command: it reads the hash, decides in *)
(* the process, and writes.  The read (ReadRecord) and each write are      *)
(* therefore actions of their own, and any other call of any process may   *)
(* come between them.  seen[c] is what the HGETALL of call c returned.     *)
(*                                                                         *)
(* Time is kept only as far as the code tells it apart: an IN_FLIGHT       *)
(* record is fresh until AgeClaim makes it stale (claimed five minutes     *)
(* ago), and a record disappears when its 24 hours are over.               *)
(***************************************************************************)
EXTENDS Naturals

CONSTANTS Call,    \* executions of a Booker step
          IdemKey, \* idempotency keys
          KeyOf,   \* the key of each call
          NoOwner  \* the execution_id of an absent record, no call

VARIABLES record, \* Redis: the hash of each key
          seen,   \* the hash check_and_claim of a call has read
          idemPc  \* where each call is in check_and_claim

idemVars == <<record, seen, idemPc>>

\* execution_id is stored by a claim and never read again by the adapter.
\* result tells an empty tool result ({}) from any other.
Record == [state  : {"ABSENT", "IN_FLIGHT", "SUCCEEDED", "FAILED"},
           owner  : Call \cup {NoOwner},
           stale  : BOOLEAN,
           result : {"none", "empty", "full"}]

Absent == [state |-> "ABSENT", owner |-> NoOwner, stale |-> FALSE, result |-> "none"]

IdemPc == {"unread", "claiming", "deleting", "claimed", "cached", "conflict"}

IdemTypeOK ==
    /\ record \in [IdemKey -> Record]
    /\ seen \in [Call -> Record]
    /\ idemPc \in [Call -> IdemPc]

IdemInit ==
    /\ record = [k \in IdemKey |-> Absent]
    /\ seen = [c \in Call |-> Absent]
    /\ idemPc = [c \in Call |-> "unread"]

-----------------------------------------------------------------------------
\* HGETALL and the decision taken on what it returned.
ReadRecord(c) ==
    LET r == record[KeyOf[c]] IN
    /\ idemPc[c] = "unread"
    /\ seen' = [seen EXCEPT ![c] = r]
    /\ idemPc' = [idemPc EXCEPT ![c] =
           CASE r.state = "SUCCEEDED"                 -> "cached"
             [] r.state = "IN_FLIGHT" /\ ~r.stale     -> "conflict"
             [] r.state = "FAILED"                    -> "deleting"
             [] r.state = "ABSENT" \/ (r.state = "IN_FLIGHT" /\ r.stale)
                                                      -> "claiming"]
    /\ UNCHANGED record

\* DELETE before the new claim, when the record read was FAILED.
DeleteFailed(c) ==
    /\ idemPc[c] = "deleting"
    /\ record' = [record EXCEPT ![KeyOf[c]] = Absent]
    /\ idemPc' = [idemPc EXCEPT ![c] = "claiming"]
    /\ UNCHANGED seen

\* HSET state, execution_id and claimed_at; the other fields of whatever
\* record is there by now survive.
SetInFlight(c) ==
    /\ idemPc[c] = "claiming"
    /\ record' = [record EXCEPT ![KeyOf[c]] =
           [@ EXCEPT !.state = "IN_FLIGHT", !.owner = c, !.stale = FALSE]]
    /\ idemPc' = [idemPc EXCEPT ![c] = "claimed"]
    /\ UNCHANGED seen

\* The two marks look neither at the state nor at the owner they overwrite.
MarkSucceeded(c, result) ==
    /\ record' = [record EXCEPT ![KeyOf[c]] =
           [@ EXCEPT !.state = "SUCCEEDED", !.result = result]]
    /\ UNCHANGED <<seen, idemPc>>

MarkFailed(c) ==
    /\ record' = [record EXCEPT ![KeyOf[c]].state = "FAILED"]
    /\ UNCHANGED <<seen, idemPc>>

\* claimed_at is five minutes in the past.
AgeClaim(k) ==
    /\ record[k].state = "IN_FLIGHT"
    /\ ~record[k].stale
    /\ record' = [record EXCEPT ![k].stale = TRUE]
    /\ UNCHANGED <<seen, idemPc>>

\* The 24 hour TTL of the record is over.
ExpireRecord(k) ==
    /\ record[k].state # "ABSENT"
    /\ record' = [record EXCEPT ![k] = Absent]
    /\ UNCHANGED <<seen, idemPc>>
=============================================================================
