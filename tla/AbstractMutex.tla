--------------------------- MODULE AbstractMutex ---------------------------
(***************************************************************************)
(* What a Booker step is promised by its resource lock, without saying how *)
(* the lock is kept: of the calls that want one resource, at most one at a *)
(* time is between its acquire and its release.  The promise is that of a  *)
(* lease: it lapses when the lease of a resource runs out before its       *)
(* holder is done, and is good again once nobody is inside with it.        *)
(* Several calls may leave in one step, because a server process that dies *)
(* takes all of its calls with it.                                         *)
(***************************************************************************)
CONSTANTS Call,    \* acquire ... release pairs
          LockKey, \* the resources
          LockOf   \* the resource a call locks

VARIABLES inside, \* the calls that are inside their critical section
          lapsed  \* the resources whose lease has run out under a holder

vars == <<inside, lapsed>>

Init == inside = {} /\ lapsed = {}

Enter(c) ==
    /\ c \notin inside
    /\ LockOf[c] \in lapsed \/ \A d \in inside : LockOf[d] # LockOf[c]
    /\ inside' = inside \cup {c}
    /\ UNCHANGED lapsed

\* Resources are good again only when nobody is left inside with them.
Heal(K) ==
    /\ K \subseteq lapsed
    /\ \A c \in inside' : LockOf[c] \notin K
    /\ lapsed' = lapsed \ K

Leave(C) ==
    /\ C \subseteq inside
    /\ inside' = inside \ C
    /\ \E K \in SUBSET LockKey : Heal(K)

Lapse(k) ==
    /\ lapsed' = lapsed \cup {k}
    /\ UNCHANGED inside

Next == \/ \E c \in Call : Enter(c)
        \/ \E C \in SUBSET Call : Leave(C)
        \/ \E k \in LockKey : Lapse(k)

Spec == Init /\ [][Next]_vars
=============================================================================
