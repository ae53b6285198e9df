------------------------ MODULE ResourceLock_proofs ------------------------
(***************************************************************************)
(* Proofs about ResourceLock, for any calls, processes, keys and polls,    *)
(* with Redis errors, deaths and keys that expire under their holder: type *)
(* correctness; mutual exclusion and release by the owner for every key    *)
(* that has not lapsed; and the implementation of AbstractMutex.           *)
(*                                                                         *)
(* Mutual exclusion alone is not inductive.  What is: from the moment      *)
(* Redis grants the key until the DELETE of release is sent, Redis names   *)
(* the call as the owner of its key, unless the key has lapsed             *)
(* (OwnerIsInside); and a key stays lapsed only while a call is inside     *)
(* with it (LapsesAreHeld).                                                *)
(***************************************************************************)
EXTENDS ResourceLock, TLAPS

OwnerIsInside ==
    \A c \in Call : Owning(c) /\ LockOf[c] \notin lapsed => lockValue[LockOf[c]] = c

LapsesAreHeld == \A k \in lapsed : \E c \in Call : LockOf[c] = k /\ Owning(c)

ValuesAreOwn == \A k \in LockKey : lockValue[k] # NoOwner => LockOf[lockValue[k]] = k

LockInv == LockTypeOK /\ OwnerIsInside /\ LapsesAreHeld /\ ValuesAreOwn

\* Every step keeps the types of the lock's variables
\* (ResourceLockAdapter, resource_lock.py:24-72).
LEMMA LockTypeInductive == LockTypeOK /\ [Next]_lockVars => LockTypeOK'
  <1>. SUFFICES ASSUME LockTypeOK, [Next]_lockVars PROVE LockTypeOK'
    OBVIOUS
  <1>. USE LockParameters DEF LockTypeOK, Owner, LockPc, LapsesEnd
  <1>1. CASE UNCHANGED lockVars
    BY <1>1 DEF lockVars
  <1>2. ASSUME NEW c \in Call, Step(c) PROVE LockTypeOK'
    <2>1. CASE BeginAcquire(c)  BY <2>1 DEF BeginAcquire, CallAt, MoveCall
    <2>2. CASE PollGranted(c)   BY <2>2 DEF PollGranted, CallAt, MoveCall
    <2>3. CASE PollRefused(c)   BY <2>3 DEF PollRefused, CallAt
    <2>4. CASE RememberOwner(c) BY <2>4 DEF RememberOwner, CallAt, MoveCall
    <2>5. CASE GiveUp(c)        BY <2>5 DEF GiveUp, CallAt, MoveCall
    <2>6. CASE BeginRelease(c)  BY <2>6 DEF BeginRelease, CallAt, MoveCall
    <2>7. CASE CompareOwner(c)  BY <2>7 DEF CompareOwner, CallAt, MoveCall
    <2>8. CASE DeleteLock(c)    BY <2>8 DEF DeleteLock, CallAt, MoveCall
    <2>9. CASE RedisError(c)    BY <2>9 DEF RedisError, MoveCall
    <2>. QED BY <1>2, <2>1, <2>2, <2>3, <2>4, <2>5, <2>6, <2>7, <2>8, <2>9 DEF Step
  <1>3. ASSUME NEW k \in LockKey, ExpireLock(k) PROVE LockTypeOK'
    BY <1>3 DEF ExpireLock
  <1>4. ASSUME NEW p \in Process, Crash(p) PROVE LockTypeOK'
    BY <1>4 DEF Crash
  <1>. QED BY <1>1, <1>2, <1>3, <1>4 DEF Next

\* The variables of the lock keep their types in every behaviour
\* (resource_lock.py:24-72).
THEOREM LockTyping == Spec => []LockTypeOK
  <1>1. LockInit => LockTypeOK
    BY LockParameters DEF LockInit, LockTypeOK, Owner, LockPc
  <1>. QED BY <1>1, LockTypeInductive, PTL DEF Spec

-----------------------------------------------------------------------------
\* What a step changes of one call and its key: it goes on alone, and lapses
\* end (resource_lock.py:32-72).
LEMMA StepsMoveOneCall ==
  ASSUME LockTypeOK, NEW c \in Call, Step(c)
  PROVE  /\ \A d \in Call \ {c} : lockPc'[d] = lockPc[d]
         /\ LapsesEnd \/ (UNCHANGED <<lockPc, lapsed>>)
  BY DEF LockTypeOK, Step, BeginAcquire, PollGranted, PollRefused, RememberOwner, GiveUp,
         BeginRelease, CompareOwner, DeleteLock, RedisError, MoveCall

\* A key that has not lapsed is taken from the call inside by that call's own
\* DELETE only; a lapse ends when the last call has left
\* (resource_lock.py:49-72).
LEMMA LockInvInductive == LockInv /\ [Next]_lockVars => LockInv'
  <1>. SUFFICES ASSUME LockInv, [Next]_lockVars PROVE LockInv'
    OBVIOUS
  <1>1. LockTypeOK'
    BY LockTypeInductive DEF LockInv
  <1>2. ValuesAreOwn'
    <2>. USE LockParameters DEF LockInv, LockTypeOK, ValuesAreOwn, Owner
    <2>1. CASE lockValue' = lockValue
      BY <2>1
    <2>2. ASSUME NEW c \in Call, PollGranted(c) \/ DeleteLock(c) PROVE ValuesAreOwn'
      BY <2>2 DEF PollGranted, DeleteLock
    <2>3. ASSUME NEW k \in LockKey, ExpireLock(k) PROVE ValuesAreOwn'
      BY <2>3 DEF ExpireLock
    <2>. QED BY <2>1, <2>2, <2>3 DEF Next, Step, BeginAcquire, PollRefused, RememberOwner,
                GiveUp, BeginRelease, CompareOwner, RedisError, Crash, lockVars
  <1>3. LapsesAreHeld'
    <2>. USE LockParameters DEF LockInv, LockTypeOK, LapsesAreHeld, Owning
    <2>1. CASE UNCHANGED <<lockPc, lapsed>>
      BY <2>1
    <2>2. CASE LapsesEnd
      BY <2>2 DEF LapsesEnd
    <2>3. ASSUME NEW k \in LockKey, ExpireLock(k) PROVE LapsesAreHeld'
      <3>1. lockValue[k] \in Call /\ LockOf[lockValue[k]] = k
        BY <2>3 DEF ExpireLock, ValuesAreOwn, Owner
      <3>. QED BY <2>3, <3>1 DEF ExpireLock
    <2>. QED BY <2>1, <2>2, <2>3, StepsMoveOneCall DEF Next, Crash, lockVars
  <1>4. OwnerIsInside'
    <2>. SUFFICES ASSUME NEW d \in Call, Owning(d)', LockOf[d] \notin lapsed'
                  PROVE  lockValue'[LockOf[d]] = d
      BY DEF OwnerIsInside
    <2>. USE LockParameters DEF LockInv, LockTypeOK, Owner, OwnerIsInside, Owning, Inside
    <2>1. CASE UNCHANGED lockVars
      BY <2>1 DEF lockVars
    <2>2. ASSUME NEW c \in Call, Step(c) PROVE lockValue'[LockOf[d]] = d
      <3>1. LockOf[d] \notin lapsed
        BY <2>2, StepsMoveOneCall DEF LapsesEnd
      <3>2. CASE BeginAcquire(c)  BY <3>1, <3>2 DEF BeginAcquire, CallAt, MoveCall
      <3>3. CASE PollGranted(c)   BY <3>1, <3>3 DEF PollGranted, CallAt, MoveCall
      <3>4. CASE PollRefused(c)   BY <3>1, <3>4 DEF PollRefused, CallAt
      <3>5. CASE RememberOwner(c) BY <3>1, <3>5 DEF RememberOwner, CallAt, MoveCall
      <3>6. CASE GiveUp(c)        BY <3>1, <3>6 DEF GiveUp, CallAt, MoveCall
      <3>7. CASE BeginRelease(c)  BY <3>1, <3>7 DEF BeginRelease, CallAt, MoveCall
      <3>8. CASE CompareOwner(c)  BY <3>1, <3>8 DEF CompareOwner, CallAt, MoveCall
      <3>9. CASE DeleteLock(c)    BY <3>1, <3>9 DEF DeleteLock, CallAt, MoveCall
      <3>10. CASE RedisError(c)   BY <3>1, <3>10 DEF RedisError, MoveCall
      <3>. QED BY <2>2, <3>2, <3>3, <3>4, <3>5, <3>6, <3>7, <3>8, <3>9, <3>10 DEF Step
    <2>3. ASSUME NEW k \in LockKey, ExpireLock(k) PROVE lockValue'[LockOf[d]] = d
      BY <2>3 DEF ExpireLock
    <2>4. ASSUME NEW p \in Process, Crash(p) PROVE lockValue'[LockOf[d]] = d
      BY <2>4 DEF Crash, Running, CallAt, LapsesEnd
    <2>. QED BY <2>1, <2>2, <2>3, <2>4 DEF Next
  <1>. QED BY <1>1, <1>2, <1>3, <1>4 DEF LockInv

\* The owner recorded in Redis is the call that is inside, for every key that
\* has not lapsed (resource_lock.py:49-56).
THEOREM LockInvariance == Spec => []LockInv
  <1>1. LockInit => LockInv
    BY LockParameters DEF LockInit, LockInv, LockTypeOK, Owner, LockPc, OwnerIsInside, Owning,
       Inside, LapsesAreHeld, ValuesAreOwn
  <1>. QED BY <1>1, LockInvInductive, PTL DEF Spec

\* No two calls are between acquire and release of one resource, but for a
\* key that expired under one of them (resource_lock.py:32-72).
THEOREM LockExcludes == Spec => []MutualExclusion
  <1>1. LockInv => MutualExclusion
    BY DEF LockInv, OwnerIsInside, Owning, Inside, MutualExclusion, CallAt
  <1>. QED BY <1>1, LockInvariance, PTL

\* Releasing and giving up take a lock that has not lapsed from nobody else,
\* over deaths and Redis errors (resource_lock.py:62-72).
THEOREM LockReleasedByOwner == Spec => OnlyOwnLockReleased
  <1>. DEFINE Kept == \A c \in Call :
                /\ CallAt(c, "holding")
                /\ LockOf[c] \notin lapsed
                /\ ~ExpireLock(LockOf[c])
                => lockValue'[LockOf[c]] = c \/ ~CallAt(c, "holding")'
  <1>1. LockInv /\ [Next]_lockVars => [Kept]_lockVars
    <2>. SUFFICES ASSUME LockInv, Next, NEW c \in Call, CallAt(c, "holding"),
                         LockOf[c] \notin lapsed, ~ExpireLock(LockOf[c])
                  PROVE  lockValue'[LockOf[c]] = c \/ ~CallAt(c, "holding")'
      BY DEF Kept
    <2>. USE LockParameters DEF LockInv, LockTypeOK, OwnerIsInside, Owning, Inside, CallAt, MoveCall
    <2>1. lockValue[LockOf[c]] = c
      OBVIOUS
    <2>2. ASSUME NEW d \in Call, DeleteLock(d) PROVE lockValue'[LockOf[c]] = c \/ ~CallAt(c, "holding")'
      BY <2>1, <2>2 DEF DeleteLock
    <2>3. ASSUME NEW d \in Call, PollGranted(d) PROVE lockValue'[LockOf[c]] = c
      BY <2>1, <2>3 DEF PollGranted
    <2>4. ASSUME NEW d \in Call, Step(d), ~DeleteLock(d), ~PollGranted(d)
          PROVE  lockValue' = lockValue
      BY <2>4 DEF Step, BeginAcquire, PollRefused, RememberOwner, GiveUp,
                  BeginRelease, CompareOwner, RedisError
    <2>5. ASSUME NEW k \in LockKey, ExpireLock(k) PROVE lockValue'[LockOf[c]] = c
      BY <2>1, <2>5 DEF ExpireLock
    <2>6. ASSUME NEW p \in Process, Crash(p) PROVE lockValue' = lockValue
      BY <2>6 DEF Crash
    <2>. QED BY <2>1, <2>2, <2>3, <2>4, <2>5, <2>6 DEF Next
  <1>. QED BY <1>1, LockInvariance, PTL DEF Spec, OnlyOwnLockReleased

\* The lock implements AbstractMutex: RememberOwner enters, BeginRelease and
\* Crash leave, an expiry under a holder lapses, and a lapse ends with the
\* last call inside (resource_lock.py:32-72).
THEOREM LockImplementsMutex == Spec => MutexSpec
  <1>. DEFINE In == {c \in Call : CallAt(c, "holding")}
  <1>1. LockInit => Mutex!Init
    BY DEF LockInit, Mutex!Init, CallAt
  <1>2. LockInv /\ [Next]_lockVars => [Mutex!Next]_<<In, lapsed>>
    <2>. SUFFICES ASSUME LockInv, [Next]_lockVars, ~(In' = In /\ lapsed' = lapsed)
                  PROVE  Mutex!Next
      OBVIOUS
    <2>1. \A c \in In' : LapsesEnd => LockOf[c] \notin lapsed \ lapsed'
      BY DEF LapsesEnd, CallAt, Inside
    <2>2. ASSUME LapsesEnd, In' \subseteq In PROVE Mutex!Next
      <3>1. lapsed \ lapsed' \in SUBSET LockKey /\ lapsed' = lapsed \ (lapsed \ lapsed')
        BY <2>2 DEF LockInv, LockTypeOK, LapsesEnd
      <3>2. Mutex!Heal(lapsed \ lapsed')
        BY <2>1, <2>2, <3>1 DEF Mutex!Heal
      <3>3. In' = In \ (In \ In') /\ In \ In' \in SUBSET Call
        BY <2>2
      <3>4. Mutex!Leave(In \ In')
        BY <3>1, <3>2, <3>3 DEF Mutex!Leave
      <3>. QED BY <3>3, <3>4 DEF Mutex!Next
    <2>. USE LockParameters DEF LockInv, LockTypeOK, CallAt
    <2>3. CASE UNCHANGED lockVars
      BY <2>3 DEF lockVars
    <2>4. ASSUME NEW c \in Call, RememberOwner(c) PROVE Mutex!Next
      <3>1. \A d \in In : LockOf[d] # LockOf[c] \/ LockOf[c] \in lapsed
        BY <2>4 DEF RememberOwner, OwnerIsInside, Owning, Inside
      <3>2. In' = In \cup {c} /\ c \notin In
        BY <2>4 DEF RememberOwner, MoveCall
      <3>3. lapsed' = lapsed
        BY <2>4 DEF RememberOwner, MoveCall, LapsesEnd, LapsesAreHeld, Owning, Inside
      <3>. QED BY <3>1, <3>2, <3>3 DEF Mutex!Next, Mutex!Enter
    <2>5. ASSUME NEW c \in Call, Step(c), ~RememberOwner(c) PROVE Mutex!Next
      <3>1. In' \subseteq In
        BY <2>5 DEF Step, BeginAcquire, PollGranted, PollRefused, GiveUp, BeginRelease,
                    CompareOwner, DeleteLock, RedisError, MoveCall
      <3>2. LapsesEnd \/ (UNCHANGED <<lockPc, lapsed>>)
        BY <2>5, StepsMoveOneCall
      <3>. QED BY <2>2, <3>1, <3>2
    <2>6. ASSUME NEW p \in Process, Crash(p) PROVE Mutex!Next
      BY <2>2, <2>6 DEF Crash
    <2>7. ASSUME NEW k \in LockKey, ExpireLock(k) PROVE Mutex!Next
      BY <2>7 DEF ExpireLock, Mutex!Next, Mutex!Lapse
    <2>. QED BY <2>3, <2>4, <2>5, <2>6, <2>7 DEF Next
  <1>. QED BY <1>1, <1>2, LockInvariance, PTL DEF Spec, MutexSpec, Mutex!Spec, Mutex!vars
=============================================================================
