------------------------------ MODULE EventLog ------------------------------
(***************************************************************************)
(* What an audit log promises: an event is recorded once, then stored or   *)
(* given up, and neither is ever undone.                                   *)
(***************************************************************************)
CONSTANT Events

VARIABLE status  \* of each event: "new", "pending", "stored", "lost"

LogInit == status = [e \in Events |-> "new"]

Accept(e) == status[e] = "new" /\ status' = [status EXCEPT ![e] = "pending"]

\* Some pending events are stored or given up together.
Settle ==
    \E settled \in SUBSET {e \in Events : status[e] = "pending"}, to \in {"stored", "lost"} :
        status' = [e \in Events |-> IF e \in settled THEN to ELSE status[e]]

LogNext == (\E e \in Events : Accept(e)) \/ Settle

LogSpec == LogInit /\ [][LogNext]_status
=============================================================================
