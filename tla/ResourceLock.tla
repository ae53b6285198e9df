---------------------------- MODULE ResourceLock ----------------------------
(***************************************************************************)
(* The Redis resource lock of ExecuteOrchestrator (adapters/               *)
(* resource_lock.py).  A call is one acquire ... release pair made for one *)
(* Booker step; owner values are fresh per call, so a call stands for the  *)
(* value it writes.  Each server process has one adapter, whose            *)
(* _held_locks dictionary is shared by every call of that process.         *)
(*                                                                         *)
(* The lock key expires in Redis after _LOCK_TTL_SECONDS.  A Booker step   *)
(* may hold the lock for longer (the default step timeout alone is 30 s,   *)
(* and up to four attempts are made), and nothing renews it: the key may   *)
(* expire under a running holder.  Such a key has lapsed: Redis grants it  *)
(* to the next call while the first still believes it holds it, and the    *)
(* first release deletes what is there.  lapsed records the keys in that   *)
(* state, until no call is left between the grant and the DELETE.          *)
(***************************************************************************)
EXTENDS Naturals

CONSTANTS Call,             \* acquire ... release pairs
          Process,          \* server processes
          LockKey,          \* lock:resource:{user}:{uses}:{call} keys
          ProcOf, LockOf,   \* process and lock key of a call
          MaxPolls,         \* polls before acquire gives up (60 in the code)
          RedisFails,       \* may a Redis command raise?
          NoOwner           \* a key that is absent

ASSUME LockParameters ==
    /\ ProcOf \in [Call -> Process]
    /\ LockOf \in [Call -> LockKey]
    /\ MaxPolls \in Nat
    /\ RedisFails \in BOOLEAN
    /\ NoOwner \notin Call

VARIABLES lockValue, \* Redis: lock key -> owner value, or NoOwner
          heldLocks, \* _held_locks of each process: lock key -> owner value
          lockPc,    \* where each call is
          polls,     \* refused polls of the current acquire
          popped,    \* owner value release took out of _held_locks
          lapsed     \* history: keys that expired under a call still inside

lockVars == <<lockValue, heldLocks, lockPc, polls, popped, lapsed>>

Owner == Call \cup {NoOwner}

LockPc == {"outside", "polling", "granted", "holding", "comparing",
           "deleting", "released", "timedOut", "error", "dead"}

LockTypeOK ==
    /\ lockValue \in [LockKey -> Owner]
    /\ heldLocks \in [Process -> [LockKey -> Owner]]
    /\ lockPc \in [Call -> LockPc]
    /\ polls \in [Call -> 0 .. MaxPolls]
    /\ popped \in [Call -> Owner]
    /\ lapsed \subseteq LockKey

LockInit ==
    /\ lockValue = [k \in LockKey |-> NoOwner]
    /\ heldLocks = [p \in Process |-> [k \in LockKey |-> NoOwner]]
    /\ lockPc = [c \in Call |-> "outside"]
    /\ polls = [c \in Call |-> 0]
    /\ popped = [c \in Call |-> NoOwner]
    /\ lapsed = {}

\* Between the grant of the key and the end of its release.
Inside == {"granted", "holding", "comparing", "deleting"}

CallAt(c, pc) == lockPc[c] = pc
Owning(c) == lockPc[c] \in Inside

\* A call that has begun to acquire and has not finished releasing.
Running(c) == CallAt(c, "polling") \/ Owning(c)

\* A lapse is over when no call is inside with the key any more.
LapsesEnd == lapsed' = {k \in lapsed : \E c \in Call : LockOf[c] = k /\ lockPc'[c] \in Inside}

MoveCall(c, pc) == lockPc' = [lockPc EXCEPT ![c] = pc] /\ LapsesEnd

-----------------------------------------------------------------------------
(* acquire *)

BeginAcquire(c) ==
    /\ CallAt(c, "outside")
    /\ MoveCall(c, "polling")
    /\ UNCHANGED <<lockValue, heldLocks, polls, popped>>

\* Mutant: SET without NX.
PollGrantedWithoutNX(c) ==
    /\ CallAt(c, "polling")
    /\ polls[c] < MaxPolls
    /\ lockValue' = [lockValue EXCEPT ![LockOf[c]] = c]
    /\ MoveCall(c, "granted")
    /\ UNCHANGED <<heldLocks, polls, popped>>

\* SET key value NX EX 30 on a free key.  The reply reaches the call later.
PollGranted(c) ==
    /\ CallAt(c, "polling")
    /\ polls[c] < MaxPolls
    /\ lockValue[LockOf[c]] = NoOwner
    /\ lockValue' = [lockValue EXCEPT ![LockOf[c]] = c]
    /\ MoveCall(c, "granted")
    /\ UNCHANGED <<heldLocks, polls, popped>>

\* SET NX on a key that exists: sleep, then poll again.
PollRefused(c) ==
    /\ CallAt(c, "polling")
    /\ polls[c] < MaxPolls
    /\ lockValue[LockOf[c]] # NoOwner
    /\ polls' = [polls EXCEPT ![c] = @ + 1]
    /\ UNCHANGED <<lockValue, heldLocks, lockPc, popped, lapsed>>

\* The reply arrives: acquire records the value it holds and returns True.
RememberOwner(c) ==
    /\ CallAt(c, "granted")
    /\ heldLocks' = [heldLocks EXCEPT ![ProcOf[c]][LockOf[c]] = c]
    /\ MoveCall(c, "holding")
    /\ UNCHANGED <<lockValue, polls, popped>>

\* Mutant: giving up deletes the key, as a release without an owner would.
GiveUpDeleting(c) ==
    /\ CallAt(c, "polling")
    /\ polls[c] = MaxPolls
    /\ lockValue' = [lockValue EXCEPT ![LockOf[c]] = NoOwner]
    /\ MoveCall(c, "timedOut")
    /\ UNCHANGED <<heldLocks, polls, popped>>

\* The time budget is used up: ResourceLockTimeout.
GiveUp(c) ==
    /\ CallAt(c, "polling")
    /\ polls[c] = MaxPolls
    /\ MoveCall(c, "timedOut")
    /\ UNCHANGED <<lockValue, heldLocks, polls, popped>>

-----------------------------------------------------------------------------
(* release *)

\* release pops whatever value its process remembers for the key: that of
\* the last call of the process to acquire it, which need not be c.
BeginRelease(c) ==
    LET p == ProcOf[c]  k == LockOf[c] IN
    /\ CallAt(c, "holding")
    /\ popped' = [popped EXCEPT ![c] = heldLocks[p][k]]
    /\ heldLocks' = [heldLocks EXCEPT ![p][k] = NoOwner]
    /\ MoveCall(c, IF heldLocks[p][k] = NoOwner THEN "released" ELSE "comparing")
    /\ UNCHANGED <<lockValue, polls>>

\* GET key, compared with the popped value in the process.
CompareOwner(c) ==
    /\ CallAt(c, "comparing")
    /\ MoveCall(c, IF lockValue[LockOf[c]] = popped[c] THEN "deleting" ELSE "released")
    /\ UNCHANGED <<lockValue, heldLocks, polls, popped>>

\* DELETE key, whoever owns it by now.
DeleteLock(c) ==
    /\ CallAt(c, "deleting")
    /\ lockValue' = [lockValue EXCEPT ![LockOf[c]] = NoOwner]
    /\ MoveCall(c, "released")
    /\ UNCHANGED <<heldLocks, polls, popped>>

\* A Redis command of acquire or release raises: nothing is caught here,
\* and the key keeps its owner until it expires.
RedisError(c) ==
    /\ RedisFails
    /\ lockPc[c] \in {"polling", "comparing", "deleting"}
    /\ MoveCall(c, "error")
    /\ UNCHANGED <<lockValue, heldLocks, polls, popped>>

-----------------------------------------------------------------------------
(* The environment: Redis expires keys, processes die and come back. *)

ExpireLock(k) ==
    /\ lockValue[k] # NoOwner
    /\ lockValue' = [lockValue EXCEPT ![k] = NoOwner]
    /\ lapsed' = IF Owning(lockValue[k]) THEN lapsed \cup {k} ELSE lapsed
    /\ UNCHANGED <<heldLocks, lockPc, polls, popped>>

\* The calls under way in p are gone, and so is its _held_locks; calls that
\* have not started are those of its successor.
Crash(p) ==
    /\ \E c \in Call : ProcOf[c] = p /\ Running(c)
    /\ lockPc' = [c \in Call |-> IF ProcOf[c] = p /\ Running(c)
                                 THEN "dead" ELSE lockPc[c]]
    /\ LapsesEnd
    /\ heldLocks' = [heldLocks EXCEPT ![p] = [k \in LockKey |-> NoOwner]]
    /\ UNCHANGED <<lockValue, polls, popped>>

-----------------------------------------------------------------------------
Step(c) ==
    \/ BeginAcquire(c)
    \/ PollGranted(c)
    \/ PollRefused(c)
    \/ RememberOwner(c)
    \/ GiveUp(c)
    \/ BeginRelease(c)
    \/ CompareOwner(c)
    \/ DeleteLock(c)
    \/ RedisError(c)

Next ==
    \/ \E c \in Call : Step(c)
    \/ \E k \in LockKey : ExpireLock(k)
    \/ \E p \in Process : Crash(p)

Spec == LockInit /\ [][Next]_lockVars
-----------------------------------------------------------------------------
\* Two calls are never both between acquire and release of one resource,
\* but for a key that expired under one of those inside and until they have
\* all left: once they have, the lock excludes again, whatever _held_locks
\* still remembers (the purpose of acquire/release, resource_lock.py:32-72).
MutualExclusion ==
    \A c, d \in Call :
        /\ c # d
        /\ LockOf[c] = LockOf[d]
        /\ CallAt(c, "holding")
        /\ CallAt(d, "holding")
        => LockOf[c] \in lapsed

\* Releasing or giving up takes the lock from nobody else: while c holds a
\* key that has not lapsed, only its expiry can take it away
\* (resource_lock.py:32-72).
OnlyOwnLockReleased ==
    [][\A c \in Call :
          /\ CallAt(c, "holding")
          /\ LockOf[c] \notin lapsed
          /\ ~ExpireLock(LockOf[c])
          => lockValue'[LockOf[c]] = c \/ ~CallAt(c, "holding")']_lockVars

\* The value release compares with Redis and deletes is the one its own
\* acquire wrote (resource_lock.py:64-72).
ReleasesOwnValue == \A c \in Call : CallAt(c, "deleting") => popped[c] = c

\* The promise, kept by the calls that are in "holding".
Mutex == INSTANCE AbstractMutex WITH inside <- {c \in Call : CallAt(c, "holding")}
MutexSpec == Mutex!Spec
=============================================================================
