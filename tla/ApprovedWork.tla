---------------------------- MODULE ApprovedWork ----------------------------
(***************************************************************************)
(* What a user may expect of an execution that asks for approvals: work    *)
(* behind a gate happens only after the user granted that gate, the user   *)
(* is never asked again for a gate already granted, what was granted stays *)
(* granted, and nothing happens while the user is asked or after the end.  *)
(***************************************************************************)
CONSTANTS Gates  \* gate identifiers

VARIABLES state,   \* "new", "working", "asking", "ended"
          granted, \* gates the user granted
          active   \* the gates behind which work is in progress

workVars == <<state, granted, active>>

WorkInit == state = "new" /\ granted = {} /\ active = {}

Begin == state = "new" /\ state' = "working" /\ UNCHANGED <<granted, active>>

Work ==
    /\ state = "working"
    /\ active' \subseteq granted
    /\ UNCHANGED <<state, granted>>

Ask ==
    /\ state = "working"
    /\ granted # Gates
    /\ state' = "asking"
    /\ active' = {}
    /\ UNCHANGED granted

Grant(g) ==
    /\ state = "asking"
    /\ g \notin granted
    /\ granted' = granted \cup {g}
    /\ state' = "working"
    /\ UNCHANGED active

End ==
    /\ state \in {"working", "asking"}
    /\ state' = "ended"
    /\ active' = {}
    /\ UNCHANGED granted

WorkNext == Begin \/ Work \/ Ask \/ (\E g \in Gates : Grant(g)) \/ End

WorkSpec == WorkInit /\ [][WorkNext]_workVars
=============================================================================
