-------------------------- MODULE ToolCalls_proofs --------------------------
(***************************************************************************)
(* Proofs about BookerStep, for any calls, processes, keys, retries and    *)
(* polls and with every fault allowed: type correctness, no success        *)
(* without a booking, failures release their claim, no second booking but  *)
(* for a doubt; and one writer per resource, but for a lock that expired   *)
(* under a writer.  And about Sessions, in which the tools of such    *)
(* steps are called: for any requests and auth configs a session is set up *)
(* again, and a call repeated, only after a refusal, and an undisturbed    *)
(* listing brings the tools.  And about Connections, which decide what     *)
(* tools there are: a listing of them that ran alone is true.              *)
(***************************************************************************)
EXTENDS BookerStep, Sessions, Connections, FiniteSetTheorems, TLAPS

\* The part of TypeOK about the variables BookerStep adds.
OwnTypeOK ==
    /\ stage \in [Call -> Stage]
    /\ attempts \in [Call -> 0 .. MaxRetries]
    /\ answer \in [Call -> {"none", "empty", "full"}]
    /\ outcome \in [Call -> Outcome]
    /\ effects \in [IdemKey -> Nat]
    /\ doubt \in [IdemKey -> Nat]

\* Where the lock is, for each stage of the step.
LockFollowsStage ==
    \A c \in Call :
        /\ stage[c] \in {"idle", "claiming"} => lockPc[c] = "outside"
        /\ stage[c] = "locking" => lockPc[c] \in {"outside", "polling", "granted"}
        /\ Writing(c) => lockPc[c] = "holding"
        /\ stage[c] = "unlocking" => lockPc[c] \in {"holding", "comparing", "deleting"}
        /\ stage[c] = "done" => lockPc[c] \notin {"granted", "holding", "comparing", "deleting"}

\* Everything that says a step was booked is preceded by its booking.
SuccessIsBooked ==
    /\ \A k \in IdemKey : record[k].state = "SUCCEEDED" => effects[k] > 0
    /\ \A c \in Call : In(c, "marking") => effects[KeyOf[c]] > 0
    /\ NoSuccessWithoutBooking

\* A step has an outcome only once it has left its try block, and one that
\* failed does not own a claim.
FailuresAreReleased ==
    \A c \in Call :
        outcome[c] = "failed" =>
            /\ stage[c] \in {"unlocking", "done"}
            /\ ~(record[KeyOf[c]].state = "IN_FLIGHT" /\ record[KeyOf[c]].owner = c)

Inv == TypeOK /\ LockFollowsStage /\ SuccessIsBooked /\ FailuresAreReleased

-----------------------------------------------------------------------------
LockProofs == INSTANCE ResourceLock_proofs

\* Every step of a Booker call is a step of its lock or leaves it alone
\* (execute_service.py:540-542, 597-599).
LEMMA StepsDriveLock == [Next]_vars => [Lock!Next]_lockVars
  <1>. SUFFICES ASSUME [Next]_vars, ~UNCHANGED lockVars PROVE Lock!Next
    OBVIOUS
  <1>1. ASSUME NEW c \in Call, Step(c) PROVE Lock!Next
    <2>1. CASE Acquire(c)
      BY <2>1 DEF Acquire, Lock!Next, Lock!Step
    <2>2. CASE Unlock(c)
      BY <2>2 DEF Unlock, Lock!Next, Lock!Step
    <2>. QED
      BY <1>1, <2>1, <2>2 DEF Step, Check, ForgetFailure, Claim, ClaimError, DecryptFails,
         Invoke, InvokeSucceeds, InvokeRefused, InvokeLost, MarkSucceeded,
         MarkSucceededError, MarkFailed, MarkFailedError
  <1>2. ASSUME NEW p \in Process, CrashProcess(p) PROVE Lock!Next
    BY <1>2 DEF CrashProcess, Lock!Next
  <1>3. ASSUME NEW k \in LockKey, ExpireLock(k) PROVE Lock!Next
    BY <1>3 DEF ExpireLock, Lock!Next
  <1>. QED BY <1>1, <1>2, <1>3 DEF Next, AgeClaim, ExpireRecord, vars

\* The lock of BookerStep is the lock ResourceLock_proofs is about
\* (resource_lock.py:24-72).
LEMMA SameLock ==
  /\ LockProofs!LockTypeOK <=> Lock!LockTypeOK
  /\ [LockProofs!Next]_LockProofs!lockVars <=> [Lock!Next]_lockVars
  <1>1. LockProofs!LockTypeOK <=> Lock!LockTypeOK
    BY DEF LockProofs!LockTypeOK, Lock!LockTypeOK, LockProofs!Owner, Lock!Owner,
           LockProofs!LockPc, Lock!LockPc
  <1>2. \A c \in Call : LockProofs!Step(c) <=> Lock!Step(c)
    BY DEF LockProofs!Step, Lock!Step, LockProofs!CallAt, Lock!CallAt, LockProofs!MoveCall, Lock!MoveCall,
           LockProofs!LapsesEnd, Lock!LapsesEnd, LockProofs!Inside, Lock!Inside,
           LockProofs!BeginAcquire, Lock!BeginAcquire, LockProofs!PollGranted,
           Lock!PollGranted, LockProofs!PollRefused, Lock!PollRefused,
           LockProofs!RememberOwner, Lock!RememberOwner, LockProofs!GiveUp, Lock!GiveUp,
           LockProofs!BeginRelease, Lock!BeginRelease, LockProofs!CompareOwner,
           Lock!CompareOwner, LockProofs!DeleteLock, Lock!DeleteLock,
           LockProofs!RedisError, Lock!RedisError
  <1>3. \A k \in LockKey : LockProofs!ExpireLock(k) <=> Lock!ExpireLock(k)
    BY DEF LockProofs!ExpireLock, Lock!ExpireLock, LockProofs!Owning, Lock!Owning,
           LockProofs!Inside, Lock!Inside
  <1>4. \A p \in Process : LockProofs!Crash(p) <=> Lock!Crash(p)
    BY DEF LockProofs!Crash, Lock!Crash, LockProofs!Running, Lock!Running, LockProofs!CallAt,
           Lock!CallAt, LockProofs!Owning, Lock!Owning, LockProofs!Inside, Lock!Inside,
           LockProofs!LapsesEnd, Lock!LapsesEnd
  <1>. QED BY <1>1, <1>2, <1>3, <1>4 DEF LockProofs!Next, Lock!Next, LockProofs!lockVars, lockVars

\* The claim keeps the types of the records (idempotency.py:47-134).
LEMMA RecordsKeepTypes ==
  ASSUME Idem!IdemTypeOK,
         \/ \E c \in Call : \/ Idem!ReadRecord(c)
                            \/ Idem!DeleteFailed(c)
                            \/ Idem!SetInFlight(c)
                            \/ \E r \in {"none", "empty", "full"} : Idem!MarkSucceeded(c, r)
                            \/ Idem!MarkFailed(c)
         \/ \E k \in IdemKey : Idem!AgeClaim(k) \/ Idem!ExpireRecord(k)
         \/ UNCHANGED idemVars
  PROVE  Idem!IdemTypeOK'
  <1>. USE BookerParameters DEF Idem!IdemTypeOK, Idem!IdemPc
  <1>0. Idem!Absent \in Idem!Record
    BY DEF Idem!Absent, Idem!Record
  <1>1. ASSUME NEW c \in Call, Idem!ReadRecord(c) PROVE Idem!IdemTypeOK'
    BY <1>1 DEF Idem!ReadRecord, Idem!Record
  <1>2. ASSUME NEW c \in Call, Idem!DeleteFailed(c) PROVE Idem!IdemTypeOK'
    BY <1>0, <1>2 DEF Idem!DeleteFailed
  <1>3. ASSUME NEW c \in Call, Idem!SetInFlight(c) PROVE Idem!IdemTypeOK'
    <2>. DEFINE r == record[KeyOf[c]]
    <2>1. r \in Idem!Record
      OBVIOUS
    <2>2. [r EXCEPT !.state = "IN_FLIGHT", !.owner = c] \in Idem!Record
      BY <2>1 DEF Idem!Record
    <2>3. [r EXCEPT !.state = "IN_FLIGHT", !.owner = c, !.stale = FALSE] \in Idem!Record
      BY <2>2, Zenon DEF Idem!Record
    <2>. QED BY <1>3, <2>3 DEF Idem!SetInFlight
  <1>4. ASSUME NEW c \in Call, NEW r \in {"none", "empty", "full"}, Idem!MarkSucceeded(c, r)
        PROVE Idem!IdemTypeOK'
    <2>1. record[KeyOf[c]] \in Idem!Record
      OBVIOUS
    <2>2. [record[KeyOf[c]] EXCEPT !.state = "SUCCEEDED"] \in Idem!Record
      BY <2>1 DEF Idem!Record
    <2>3. [record[KeyOf[c]] EXCEPT !.state = "SUCCEEDED", !.result = r] \in Idem!Record
      BY <2>2, Zenon DEF Idem!Record
    <2>. QED BY <1>4, <2>3 DEF Idem!MarkSucceeded
  <1>5. ASSUME NEW c \in Call, Idem!MarkFailed(c) PROVE Idem!IdemTypeOK'
    <2>1. record[KeyOf[c]] \in Idem!Record
      OBVIOUS
    <2>2. [record[KeyOf[c]] EXCEPT !.state = "FAILED"] \in Idem!Record
      BY <2>1 DEF Idem!Record
    <2>. QED BY <1>5, <2>2 DEF Idem!MarkFailed
  <1>6. ASSUME NEW k \in IdemKey, Idem!AgeClaim(k) PROVE Idem!IdemTypeOK'
    BY <1>6 DEF Idem!AgeClaim, Idem!Record
  <1>7. ASSUME NEW k \in IdemKey, Idem!ExpireRecord(k) PROVE Idem!IdemTypeOK'
    BY <1>0, <1>7 DEF Idem!ExpireRecord
  <1>8. CASE UNCHANGED idemVars
    BY <1>8 DEF idemVars
  <1>. QED BY <1>1, <1>2, <1>3, <1>4, <1>5, <1>6, <1>7, <1>8

\* The variables keep their types under every step of a Booker call
\* (execute_service.py:466-599).
LEMMA TypeInductive == TypeOK /\ [Next]_vars => TypeOK'
  <1>. SUFFICES ASSUME TypeOK, [Next]_vars PROVE TypeOK'
    OBVIOUS
  <1>1. Lock!LockTypeOK'
    BY SameLock, LockProofs!LockTypeInductive, StepsDriveLock, BookerParameters
       DEF TypeOK, LockProofs!LockTypeOK, Lock!LockTypeOK, LockProofs!Owner, Lock!Owner,
           LockProofs!LockPc, Lock!LockPc, LockProofs!LockParameters
  <1>2. Idem!IdemTypeOK'
    <2>1. CASE UNCHANGED idemVars
      BY <2>1, RecordsKeepTypes DEF TypeOK
    <2>2. ASSUME NEW c \in Call, Step(c), ~UNCHANGED idemVars PROVE Idem!IdemTypeOK'
      BY <2>2, RecordsKeepTypes DEF TypeOK, Step, Check, ForgetFailure, Claim, ClaimError,
         Acquire, DecryptFails, Invoke, InvokeSucceeds, InvokeRefused, InvokeLost,
         MarkSucceeded, MarkSucceededError, MarkFailed, MarkFailedError, Unlock
    <2>3. ASSUME NEW k \in IdemKey, AgeClaim(k) \/ ExpireRecord(k) PROVE Idem!IdemTypeOK'
      BY <2>3, RecordsKeepTypes DEF TypeOK, AgeClaim, ExpireRecord
    <2>. QED BY <2>1, <2>2, <2>3 DEF Next, vars, CrashProcess, ExpireLock
  <1>3. OwnTypeOK'
    <2>. USE BookerParameters DEF TypeOK, OwnTypeOK, Stage, Outcome, stepVars, worldVars,
             Move, Finish, DoubtIf, Doubt, Book, In
    <2>1. CASE UNCHANGED vars
      BY <2>1 DEF vars
    <2>2. ASSUME NEW c \in Call, Step(c) PROVE OwnTypeOK'
      <3>1. CASE Check(c)              BY <3>1 DEF Check
      <3>2. CASE ForgetFailure(c)      BY <3>2 DEF ForgetFailure
      <3>3. CASE Claim(c)              BY <3>3 DEF Claim
      <3>4. CASE ClaimError(c)         BY <3>4 DEF ClaimError
      <3>5. CASE Acquire(c)            BY <3>5 DEF Acquire
      <3>6. CASE DecryptFails(c)       BY <3>6 DEF DecryptFails
      <3>7. CASE Invoke(c)
        BY <3>7 DEF Invoke, InvokeSucceeds, InvokeRefused, InvokeLost, AttemptFailed
      <3>8. CASE MarkSucceeded(c)      BY <3>8 DEF MarkSucceeded
      <3>9. CASE MarkSucceededError(c) BY <3>9 DEF MarkSucceededError
      <3>10. CASE MarkFailed(c)        BY <3>10 DEF MarkFailed
      <3>11. CASE MarkFailedError(c)   BY <3>11 DEF MarkFailedError
      <3>12. CASE Unlock(c)            BY <3>12 DEF Unlock
      <3>. QED BY <2>2, <3>1, <3>2, <3>3, <3>4, <3>5, <3>6, <3>7, <3>8, <3>9, <3>10,
                  <3>11, <3>12 DEF Step
    <2>3. ASSUME NEW p \in Process, CrashProcess(p) PROVE OwnTypeOK'
      BY <2>3 DEF CrashProcess
    <2>4. ASSUME NEW k \in IdemKey, AgeClaim(k) \/ ExpireRecord(k) PROVE OwnTypeOK'
      BY <2>4 DEF AgeClaim, ExpireRecord
    <2>5. ASSUME NEW k \in LockKey, ExpireLock(k) PROVE OwnTypeOK'
      BY <2>5 DEF ExpireLock
    <2>. QED BY <2>1, <2>2, <2>3, <2>4, <2>5 DEF Next
  <1>. QED BY <1>1, <1>2, <1>3 DEF TypeOK, OwnTypeOK

-----------------------------------------------------------------------------
\* The stage of a call fixes where it is with its lock
\* (execute_service.py:538-599).
LEMMA StageInductive == TypeOK /\ LockFollowsStage /\ [Next]_vars => LockFollowsStage'
  <1>. SUFFICES ASSUME TypeOK, LockFollowsStage, [Next]_vars PROVE LockFollowsStage'
    OBVIOUS
  <1>. USE BookerParameters DEF TypeOK, Lock!LockTypeOK, LockFollowsStage, Writing, Stage,
           Lock!LockPc, lockVars, Move, Finish, In, Live, Lock!CallAt, Lock!MoveCall
  <1>1. CASE UNCHANGED vars
    BY <1>1 DEF vars, stepVars
  <1>2. ASSUME NEW c \in Call, Step(c) PROVE LockFollowsStage'
    <2>1. CASE Check(c)              BY <2>1 DEF Check
    <2>2. CASE ForgetFailure(c)      BY <2>2 DEF ForgetFailure, stepVars
    <2>3. CASE Claim(c)              BY <2>3 DEF Claim
    <2>4. CASE ClaimError(c)         BY <2>4 DEF ClaimError
    <2>5. CASE Acquire(c)
      BY <2>5 DEF Acquire, stepVars, Lock!BeginAcquire, Lock!PollGranted, Lock!PollRefused,
                  Lock!RememberOwner, Lock!GiveUp, Lock!RedisError
    <2>6. CASE DecryptFails(c)       BY <2>6 DEF DecryptFails
    <2>7. CASE Invoke(c)
      BY <2>7 DEF Invoke, InvokeSucceeds, InvokeRefused, InvokeLost, AttemptFailed
    <2>8. CASE MarkSucceeded(c)      BY <2>8 DEF MarkSucceeded
    <2>9. CASE MarkSucceededError(c) BY <2>9 DEF MarkSucceededError
    <2>10. CASE MarkFailed(c)        BY <2>10 DEF MarkFailed
    <2>11. CASE MarkFailedError(c)   BY <2>11 DEF MarkFailedError
    <2>12. CASE Unlock(c)
      BY <2>12 DEF Unlock, Lock!BeginRelease, Lock!CompareOwner, Lock!DeleteLock,
                   Lock!RedisError
    <2>. QED BY <1>2, <2>1, <2>2, <2>3, <2>4, <2>5, <2>6, <2>7, <2>8, <2>9, <2>10,
                <2>11, <2>12 DEF Step
  <1>3. ASSUME NEW p \in Process, CrashProcess(p) PROVE LockFollowsStage'
    BY <1>3 DEF CrashProcess, Lock!Crash, Lock!Running, Lock!Owning, Lock!Inside
  <1>4. ASSUME NEW k \in IdemKey, AgeClaim(k) \/ ExpireRecord(k) PROVE LockFollowsStage'
    BY <1>4 DEF AgeClaim, ExpireRecord, stepVars
  <1>5. ASSUME NEW k \in LockKey, ExpireLock(k) PROVE LockFollowsStage'
    BY <1>5 DEF ExpireLock, Lock!ExpireLock, stepVars
  <1>. QED BY <1>1, <1>2, <1>3, <1>4, <1>5 DEF Next

\* What the records and outcomes say about bookings is preserved
\* (execute_service.py:534-536, 587-596).
LEMMA SuccessInductive == TypeOK /\ SuccessIsBooked /\ [Next]_vars => SuccessIsBooked'
  <1>. SUFFICES ASSUME TypeOK, SuccessIsBooked, [Next]_vars PROVE SuccessIsBooked'
    OBVIOUS
  <1>. USE BookerParameters DEF TypeOK, Idem!IdemTypeOK, Idem!Record, Stage, Outcome,
           SuccessIsBooked, NoSuccessWithoutBooking, idemVars, stepVars, worldVars,
           Move, Finish, In, Live, Book, Idem!Absent
  <1>1. CASE UNCHANGED vars
    BY <1>1 DEF vars
  <1>2. ASSUME NEW c \in Call, Step(c) PROVE SuccessIsBooked'
    <2>1. CASE Check(c)
      BY <2>1, SMTT(60) DEF Check, Idem!ReadRecord, Idem!IdemPc
    <2>2. CASE ForgetFailure(c)      BY <2>2, SMTT(60) DEF ForgetFailure, Idem!DeleteFailed
    <2>3. CASE Claim(c)              BY <2>3, SMTT(60) DEF Claim, Idem!SetInFlight
    <2>4. CASE ClaimError(c)         BY <2>4 DEF ClaimError
    <2>5. CASE Acquire(c)            BY <2>5 DEF Acquire
    <2>6. CASE DecryptFails(c)       BY <2>6 DEF DecryptFails
    <2>7. CASE Invoke(c)
      <3>1. effects' \in [IdemKey -> Nat] /\ (\A k \in IdemKey : effects'[k] >= effects[k])
        <4>1. effects' = [effects EXCEPT ![KeyOf[c]] = @ + 1] \/ effects' = effects
          BY <2>7 DEF Invoke, InvokeSucceeds, InvokeRefused, InvokeLost
        <4>2. CASE effects' = effects
          BY <4>2
        <4>3. ASSUME effects' = [effects EXCEPT ![KeyOf[c]] = @ + 1], NEW k \in IdemKey
              PROVE  effects'[k] \in Nat /\ effects'[k] >= effects[k]
          <5>1. KeyOf[c] \in IdemKey /\ effects[k] \in Nat
            OBVIOUS
          <5>2. effects'[k] = IF k = KeyOf[c] THEN effects[k] + 1 ELSE effects[k]
            BY <4>3
          <5>. QED BY <5>1, <5>2
        <4>. QED BY <4>1, <4>2, <4>3
      <3>2. record' = record /\ outcome' = outcome
        BY <2>7 DEF Invoke, InvokeSucceeds, InvokeRefused, InvokeLost
      <3>3. ASSUME NEW d \in Call, In(d, "marking")' PROVE effects'[KeyOf[d]] > 0
        <4>1. CASE \E r \in {"empty", "full"} : InvokeSucceeds(c, r)
          <5>1. effects'[KeyOf[c]] > 0
            BY <4>1 DEF InvokeSucceeds
          <5>2. d # c => In(d, "marking")
            BY <4>1, <3>3 DEF InvokeSucceeds
          <5>. QED BY <3>1, <5>1, <5>2
        <4>2. CASE \E b \in BOOLEAN : InvokeRefused(c, b) \/ InvokeLost(c, b)
          <5>1. In(d, "marking")
            BY <4>2, <3>3 DEF InvokeRefused, InvokeLost, AttemptFailed
          <5>. QED BY <3>1, <5>1
        <4>. QED BY <2>7, <4>1, <4>2 DEF Invoke
      <3>. QED BY <3>1, <3>2, <3>3
    <2>8. CASE MarkSucceeded(c)      BY <2>8, SMTT(60) DEF MarkSucceeded, Idem!MarkSucceeded
    <2>9. CASE MarkSucceededError(c) BY <2>9 DEF MarkSucceededError
    <2>10. CASE MarkFailed(c)        BY <2>10, SMTT(60) DEF MarkFailed, Idem!MarkFailed
    <2>11. CASE MarkFailedError(c)   BY <2>11 DEF MarkFailedError
    <2>12. CASE Unlock(c)            BY <2>12 DEF Unlock
    <2>. QED BY <1>2, <2>1, <2>2, <2>3, <2>4, <2>5, <2>6, <2>7, <2>8, <2>9, <2>10,
                <2>11, <2>12 DEF Step
  <1>3. ASSUME NEW p \in Process, CrashProcess(p) PROVE SuccessIsBooked'
    BY <1>3 DEF CrashProcess
  <1>4. ASSUME NEW k \in IdemKey, AgeClaim(k) \/ ExpireRecord(k) PROVE SuccessIsBooked'
    BY <1>4 DEF AgeClaim, ExpireRecord, Idem!AgeClaim, Idem!ExpireRecord
  <1>5. ASSUME NEW k \in LockKey, ExpireLock(k) PROVE SuccessIsBooked'
    BY <1>5 DEF ExpireLock
  <1>. QED BY <1>1, <1>2, <1>3, <1>4, <1>5 DEF Next

\* A failed step never gets its claim back (execute_service.py:593-599).
LEMMA FailureInductive == TypeOK /\ FailuresAreReleased /\ [Next]_vars => FailuresAreReleased'
  <1>. SUFFICES ASSUME TypeOK, FailuresAreReleased, [Next]_vars PROVE FailuresAreReleased'
    OBVIOUS
  <1>. USE BookerParameters DEF TypeOK, Idem!IdemTypeOK, Idem!Record, Stage, Outcome,
           FailuresAreReleased, idemVars, stepVars, worldVars, Move, Finish, In, Live,
           Idem!Absent
  <1>1. CASE UNCHANGED vars
    BY <1>1 DEF vars
  <1>2. ASSUME NEW c \in Call, Step(c) PROVE FailuresAreReleased'
    <2>1. CASE Check(c)              BY <2>1, SMTT(60) DEF Check, Idem!ReadRecord
    <2>2. CASE ForgetFailure(c)      BY <2>2, SMTT(60) DEF ForgetFailure, Idem!DeleteFailed
    <2>3. CASE Claim(c)              BY <2>3, SMTT(60) DEF Claim, Idem!SetInFlight
    <2>4. CASE ClaimError(c)         BY <2>4 DEF ClaimError
    <2>5. CASE Acquire(c)            BY <2>5 DEF Acquire
    <2>6. CASE DecryptFails(c)       BY <2>6 DEF DecryptFails
    <2>7. CASE Invoke(c)
      BY <2>7 DEF Invoke, InvokeSucceeds, InvokeRefused, InvokeLost, AttemptFailed
    <2>8. CASE MarkSucceeded(c)      BY <2>8, SMTT(60) DEF MarkSucceeded, Idem!MarkSucceeded
    <2>9. CASE MarkSucceededError(c) BY <2>9 DEF MarkSucceededError
    <2>10. CASE MarkFailed(c)        BY <2>10, SMTT(60) DEF MarkFailed, Idem!MarkFailed
    <2>11. CASE MarkFailedError(c)   BY <2>11 DEF MarkFailedError
    <2>12. CASE Unlock(c)            BY <2>12 DEF Unlock
    <2>. QED BY <1>2, <2>1, <2>2, <2>3, <2>4, <2>5, <2>6, <2>7, <2>8, <2>9, <2>10,
                <2>11, <2>12 DEF Step
  <1>3. ASSUME NEW p \in Process, CrashProcess(p) PROVE FailuresAreReleased'
    BY <1>3 DEF CrashProcess
  <1>4. ASSUME NEW k \in IdemKey, AgeClaim(k) \/ ExpireRecord(k) PROVE FailuresAreReleased'
    <2>1. CASE AgeClaim(k)     BY <2>1 DEF AgeClaim, Idem!AgeClaim
    <2>2. CASE ExpireRecord(k) BY <2>2 DEF ExpireRecord, Idem!ExpireRecord
    <2>. QED BY <1>4, <2>1, <2>2
  <1>5. ASSUME NEW k \in LockKey, ExpireLock(k) PROVE FailuresAreReleased'
    BY <1>5 DEF ExpireLock
  <1>. QED BY <1>1, <1>2, <1>3, <1>4, <1>5 DEF Next

\* The invariant of the Booker path holds in every behaviour, whatever
\* faults are allowed (execute_service.py:466-599).
THEOREM Invariance == Spec => []Inv
  <1>1. Init => Inv
    <2>1. Init => TypeOK
      BY BookerParameters DEF Init, TypeOK, Stage, Outcome, Lock!LockTypeOK, Lock!Owner,
         Lock!LockPc, Lock!LockInit, Idem!IdemInit, Idem!IdemTypeOK, Idem!Record,
         Idem!IdemPc, Idem!Absent
    <2>2. Init => LockFollowsStage
      BY DEF Init, LockFollowsStage, Writing, Lock!LockInit
    <2>3. Init => SuccessIsBooked /\ FailuresAreReleased
      BY BookerParameters DEF Init, SuccessIsBooked, NoSuccessWithoutBooking, In,
         FailuresAreReleased, Idem!IdemInit, Idem!Absent
    <2>. QED BY <2>1, <2>2, <2>3 DEF Inv
  <1>2. Inv /\ [Next]_vars => Inv'
    BY TypeInductive, StageInductive, SuccessInductive, FailureInductive DEF Inv
  <1>. QED BY <1>1, <1>2, PTL DEF Spec

\* Type correctness of the Booker path (execute_service.py:466-599).
THEOREM Typing == Spec => []TypeOK
  <1>1. Inv => TypeOK
    BY DEF Inv
  <1>. QED BY <1>1, Invariance, PTL

\* A step that reports success was booked (execute_service.py:534-536,
\* 587-591).
THEOREM SuccessMeansBooked == Spec => []NoSuccessWithoutBooking
  <1>1. Inv => NoSuccessWithoutBooking
    BY DEF Inv, SuccessIsBooked
  <1>. QED BY <1>1, Invariance, PTL

\* A step that failed leaves no claim of its own behind
\* (execute_service.py:593-596).
THEOREM FailureLeavesNoClaim == Spec => []FailureReleasesClaim
  <1>1. Inv => FailureReleasesClaim
    BY DEF Inv, FailuresAreReleased, FailureReleasesClaim
  <1>. QED BY <1>1, Invariance, PTL

\* Two writes to one resource never overlap, unless the lock's TTL ran out
\* under one of the calls that are inside (execute_service.py:538-599).
THEOREM WritersExclude == Spec => []OneWriterPerResource
  <1>1. Init => LockProofs!LockInv
    BY BookerParameters DEF Init, Lock!LockInit, LockProofs!LockInv, LockProofs!LockTypeOK,
       LockProofs!Owner, LockProofs!LockPc, LockProofs!OwnerIsInside, LockProofs!Owning,
       LockProofs!Inside, LockProofs!LapsesAreHeld, LockProofs!ValuesAreOwn
  <1>2. LockProofs!LockInv /\ [Next]_vars => LockProofs!LockInv'
    BY StepsDriveLock, SameLock, LockProofs!LockInvInductive, BookerParameters
       DEF LockProofs!LockParameters
  <1>3. LockProofs!LockInv /\ Inv => OneWriterPerResource
    BY DEF LockProofs!LockInv, LockProofs!OwnerIsInside, LockProofs!Owning, LockProofs!Inside,
       Inv, LockFollowsStage, OneWriterPerResource
  <1>. QED BY <1>1, <1>2, <1>3, Invariance, PTL DEF Spec
-----------------------------------------------------------------------------
\* The calls that may still book without leaving a doubt, or that will
\* release the claim under which another one may.
Permits(k) == {c \in Call : KeyOf[c] = k /\ stage[c] \in {"locking", "calling", "failing"}}

\* A record that any call may claim without leaving a doubt.
Spare(k) == IF record[k].state \in {"ABSENT", "FAILED"} THEN 1 ELSE 0

\* The bookings that were made and those that can still be made without a
\* doubt are never more than one, but for the doubts.
Budget ==
    \A k \in IdemKey :
        /\ IsFiniteSet(Permits(k))
        /\ effects[k] + Cardinality(Permits(k)) + Spare(k) <= 1 + doubt[k]

\* What check_and_claim does next was decided by what it has read.
ReadDecides ==
    \A c \in Call :
        /\ idemPc[c] = "deleting" => seen[c].state = "FAILED"
        /\ idemPc[c] = "claiming" => seen[c].state \in {"ABSENT", "FAILED", "IN_FLIGHT"}

BudgetInv == ReadDecides /\ Budget

\* A call that goes on changes the permits of its own key only, by one
\* (execute_service.py:523-599).
LEMMA PermitMoves ==
  ASSUME TypeOK, NEW c \in Call, NEW s \in Stage, Move(c, s),
         NEW k \in IdemKey, IsFiniteSet(Permits(k))
  PROVE  /\ IsFiniteSet(Permits(k)')
         /\ Cardinality(Permits(k)) \in Nat
         /\ Cardinality(Permits(k)') =
                Cardinality(Permits(k))
                + (IF KeyOf[c] = k /\ s \in {"locking", "calling", "failing"} THEN 1 ELSE 0)
                - (IF c \in Permits(k) THEN 1 ELSE 0)
  <1>. DEFINE rest == Permits(k) \ {c}
  <1>. DEFINE stays == KeyOf[c] = k /\ s \in {"locking", "calling", "failing"}
  <1>1. \A d \in Call : stage'[d] = IF d = c THEN s ELSE stage[d]
    BY DEF TypeOK, Move
  <1>2. Permits(k)' = IF stays THEN rest \cup {c} ELSE rest
    BY <1>1 DEF Permits
  <1>3. Cardinality(Permits(k)) \in Nat
    BY FS_CardinalityType
  <1>4. /\ IsFiniteSet(rest)
        /\ Cardinality(rest) = Cardinality(Permits(k)) - (IF c \in Permits(k) THEN 1 ELSE 0)
    BY <1>3, FS_RemoveElement
  <1>5. /\ IsFiniteSet(rest \cup {c})
        /\ Cardinality(rest \cup {c}) = Cardinality(rest) + 1
    BY <1>4, FS_AddElement
  <1>. HIDE DEF rest
  <1>. QED BY <1>2, <1>3, <1>4, <1>5

\* A step of a call that changes nothing of another key, and makes the sum for
\* its own key grow no more than its doubts, keeps the budget.
LEMMA BudgetOfOneKey ==
  ASSUME TypeOK, Budget, NEW c \in Call, NEW s \in Stage, Move(c, s),
         NEW more \in 0 .. 1, NEW unsure \in 0 .. 1,
         \A k \in IdemKey : effects'[k] = effects[k] + (IF k = KeyOf[c] THEN more ELSE 0),
         \A k \in IdemKey : doubt'[k] = doubt[k] + (IF k = KeyOf[c] THEN unsure ELSE 0),
         \A k \in IdemKey \ {KeyOf[c]} : record'[k] = record[k],
         more + (IF s \in {"locking", "calling", "failing"} THEN 1 ELSE 0) + Spare(KeyOf[c])'
           <= (IF stage[c] \in {"locking", "calling", "failing"} THEN 1 ELSE 0)
              + Spare(KeyOf[c]) + unsure
  PROVE  Budget'
  <1>. SUFFICES ASSUME NEW k \in IdemKey
                PROVE  /\ IsFiniteSet(Permits(k)')
                       /\ effects'[k] + Cardinality(Permits(k)') + Spare(k)' <= 1 + doubt'[k]
    BY DEF Budget
  <1>1. /\ IsFiniteSet(Permits(k))
        /\ effects[k] + Cardinality(Permits(k)) + Spare(k) <= 1 + doubt[k]
    BY DEF Budget
  <1>2. /\ IsFiniteSet(Permits(k)')
        /\ Cardinality(Permits(k)) \in Nat
        /\ Cardinality(Permits(k)') =
               Cardinality(Permits(k))
               + (IF KeyOf[c] = k /\ s \in {"locking", "calling", "failing"} THEN 1 ELSE 0)
               - (IF c \in Permits(k) THEN 1 ELSE 0)
    BY <1>1, PermitMoves
  <1>3. KeyOf[c] \in IdemKey /\ effects[k] \in Nat /\ doubt[k] \in Nat
    BY BookerParameters DEF TypeOK
  <1>4. Spare(k) \in 0 .. 1 /\ Spare(k)' \in 0 .. 1
    BY DEF Spare
  <1>5. CASE k # KeyOf[c]
    <2>1. effects'[k] = effects[k] /\ doubt'[k] = doubt[k] /\ Spare(k)' = Spare(k)
      BY <1>3, <1>5 DEF Spare
    <2>2. c \notin Permits(k)
      BY <1>5 DEF Permits
    <2>. QED BY <1>1, <1>2, <1>3, <1>4, <1>5, <2>1, <2>2
  <1>6. CASE k = KeyOf[c]
    <2>1. effects'[k] = effects[k] + more /\ doubt'[k] = doubt[k] + unsure
      BY <1>3, <1>6
    <2>2. c \in Permits(k) <=> stage[c] \in {"locking", "calling", "failing"}
      BY <1>6 DEF Permits
    <2>. QED BY <1>1, <1>2, <1>3, <1>4, <1>6, <2>1, <2>2
  <1>. QED BY <1>5, <1>6

\* check_and_claim follows what it has read (idempotency.py:47-103).
LEMMA ReadInductive == TypeOK /\ ReadDecides /\ [Next]_vars => ReadDecides'
  <1>. SUFFICES ASSUME TypeOK, ReadDecides, [Next]_vars PROVE ReadDecides'
    OBVIOUS
  <1>. USE BookerParameters DEF TypeOK, Idem!IdemTypeOK, Idem!IdemPc, ReadDecides, idemVars
  <1>1. CASE UNCHANGED vars
    BY <1>1 DEF vars
  <1>2. ASSUME NEW c \in Call, Step(c) PROVE ReadDecides'
    <2>1. CASE Check(c)
      <3>1. record[KeyOf[c]] \in Idem!Record
        OBVIOUS
      <3>2. record[KeyOf[c]].state \in {"ABSENT", "IN_FLIGHT", "SUCCEEDED", "FAILED"}
        BY <3>1 DEF Idem!Record
      <3>. QED BY <2>1, <3>2 DEF Check, Idem!ReadRecord
    <2>2. CASE ForgetFailure(c)      BY <2>2 DEF ForgetFailure, Idem!DeleteFailed
    <2>3. CASE Claim(c)              BY <2>3 DEF Claim, Idem!SetInFlight
    <2>4. CASE ClaimError(c)         BY <2>4 DEF ClaimError
    <2>5. CASE Acquire(c)            BY <2>5 DEF Acquire
    <2>6. CASE DecryptFails(c)       BY <2>6 DEF DecryptFails
    <2>7. CASE Invoke(c)
      BY <2>7 DEF Invoke, InvokeSucceeds, InvokeRefused, InvokeLost
    <2>8. CASE MarkSucceeded(c)      BY <2>8 DEF MarkSucceeded, Idem!MarkSucceeded
    <2>9. CASE MarkSucceededError(c) BY <2>9 DEF MarkSucceededError
    <2>10. CASE MarkFailed(c)        BY <2>10 DEF MarkFailed, Idem!MarkFailed
    <2>11. CASE MarkFailedError(c)   BY <2>11 DEF MarkFailedError
    <2>12. CASE Unlock(c)            BY <2>12 DEF Unlock
    <2>. QED BY <1>2, <2>1, <2>2, <2>3, <2>4, <2>5, <2>6, <2>7, <2>8, <2>9, <2>10,
                <2>11, <2>12 DEF Step
  <1>3. ASSUME NEW p \in Process, CrashProcess(p) PROVE ReadDecides'
    BY <1>3 DEF CrashProcess
  <1>4. ASSUME NEW k \in IdemKey, AgeClaim(k) \/ ExpireRecord(k) PROVE ReadDecides'
    BY <1>4 DEF AgeClaim, ExpireRecord, Idem!AgeClaim, Idem!ExpireRecord
  <1>5. ASSUME NEW k \in LockKey, ExpireLock(k) PROVE ReadDecides'
    BY <1>5 DEF ExpireLock
  <1>. QED BY <1>1, <1>2, <1>3, <1>4, <1>5 DEF Next

\* Moves that touch neither records nor the world, and win no permit, keep the
\* budget (execute_service.py:538-599).
LEMMA BudgetOfMove ==
  ASSUME TypeOK, Budget, NEW c \in Call, NEW s \in Stage, Move(c, s),
         UNCHANGED <<record, effects, doubt>>,
         s \in {"locking", "calling", "failing"} => stage[c] \in {"locking", "calling", "failing"}
  PROVE  Budget'
  <1>1. \A k \in IdemKey : effects[k] \in Nat /\ doubt[k] \in Nat
    BY DEF TypeOK
  <1>2. KeyOf[c] \in IdemKey /\ Spare(KeyOf[c]) \in 0 .. 1 /\ Spare(KeyOf[c])' = Spare(KeyOf[c])
    BY BookerParameters DEF Spare
  <1>3. /\ \A k \in IdemKey : effects'[k] = effects[k] + (IF k = KeyOf[c] THEN 0 ELSE 0)
        /\ \A k \in IdemKey : doubt'[k] = doubt[k] + (IF k = KeyOf[c] THEN 0 ELSE 0)
    BY <1>1
  <1>4. 0 + (IF s \in {"locking", "calling", "failing"} THEN 1 ELSE 0) + Spare(KeyOf[c])'
          <= (IF stage[c] \in {"locking", "calling", "failing"} THEN 1 ELSE 0)
             + Spare(KeyOf[c]) + 0
    BY <1>2
  <1>. QED BY <1>3, <1>4, BudgetOfOneKey

\* Every step of a call keeps the budget: whatever lets a second booking
\* through leaves a doubt first (execute_service.py:523-599).
LEMMA StepKeepsBudget ==
  ASSUME TypeOK, ReadDecides, Budget, NEW c \in Call, Step(c)
  PROVE  Budget'
  <1>. DEFINE k == KeyOf[c]
  <1>. DEFINE permitted == {"locking", "calling", "failing"}
  <1>0. /\ k \in IdemKey /\ stage[c] \in Stage
        /\ record[k] \in Idem!Record /\ seen[c] \in Idem!Record
        /\ Spare(k) \in 0 .. 1 /\ Spare(k)' \in 0 .. 1
        /\ \A j \in IdemKey : effects[j] \in Nat /\ doubt[j] \in Nat
    BY BookerParameters DEF TypeOK, Idem!IdemTypeOK, Spare
  <1>1. CASE Check(c)
    <2>1. PICK s \in {"done", "locking", "claiming"} : Move(c, s)
      BY <1>1 DEF Check, Finish
    <2>2. UNCHANGED <<record, effects>>
      BY <1>1 DEF Check, Idem!ReadRecord
    <2>. DEFINE unsure == IF idemPc'[c] = "cached" /\ record[k].result # "full" THEN 1 ELSE 0
    <2>3. \A j \in IdemKey : doubt'[j] = doubt[j] + (IF j = k THEN unsure ELSE 0)
      BY <1>0, <1>1 DEF Check, DoubtIf, TypeOK
    <2>4. s = "locking" => unsure = 1
      BY <1>1, <2>1 DEF Check, Finish, Move, In, TypeOK
    <2>5. stage[c] = "idle" /\ Spare(k)' = Spare(k)
      BY <1>1, <2>2 DEF Check, In, Spare
    <2>6. \A j \in IdemKey : effects'[j] = effects[j] + (IF j = k THEN 0 ELSE 0)
      BY <1>0, <2>2
    <2>7. 0 + (IF s \in permitted THEN 1 ELSE 0) + Spare(k)'
            <= (IF stage[c] \in permitted THEN 1 ELSE 0) + Spare(k) + unsure
      BY <1>0, <2>4, <2>5
    <2>8. s \in Stage /\ unsure \in 0 .. 1
      BY DEF Stage
    <2>. HIDE DEF unsure, k
    <2>. QED BY <2>1, <2>2, <2>3, <2>6, <2>7, <2>8, BudgetOfOneKey DEF k
  <1>2. CASE ForgetFailure(c)
    <2>. DEFINE unsure == IF record[k] # seen[c] THEN 1 ELSE 0
    <2>1. Move(c, stage[c]) /\ stage[c] = "claiming" /\ effects' = effects
      BY <1>2 DEF ForgetFailure, stepVars, Move, TypeOK, In
    <2>2. \A j \in IdemKey : doubt'[j] = doubt[j] + (IF j = k THEN unsure ELSE 0)
      BY <1>0, <1>2 DEF ForgetFailure, DoubtIf, TypeOK
    <2>3. \A j \in IdemKey \ {k} : record'[j] = record[j]
      BY <1>2 DEF ForgetFailure, Idem!DeleteFailed, TypeOK, Idem!IdemTypeOK
    <2>4. Spare(k)' <= Spare(k) + unsure
      <3>1. seen[c].state = "FAILED"
        BY <1>2 DEF ForgetFailure, Idem!DeleteFailed, ReadDecides
      <3>2. unsure = 0 => Spare(k) = 1
        BY <3>1 DEF Spare
      <3>. QED BY <1>0, <3>2
    <2>5. \A j \in IdemKey : effects'[j] = effects[j] + (IF j = k THEN 0 ELSE 0)
      BY <1>0, <2>1
    <2>6. 0 + (IF stage[c] \in permitted THEN 1 ELSE 0) + Spare(k)'
            <= (IF stage[c] \in permitted THEN 1 ELSE 0) + Spare(k) + unsure
      BY <1>0, <2>1, <2>4
    <2>7. unsure \in 0 .. 1
      OBVIOUS
    <2>. HIDE DEF unsure, k
    <2>. QED BY <1>0, <2>1, <2>2, <2>3, <2>5, <2>6, <2>7, BudgetOfOneKey DEF k
  <1>3. CASE Claim(c)
    <2>. DEFINE expected == IF seen[c].state = "FAILED" THEN Idem!Absent ELSE seen[c]
    <2>. DEFINE unsure == IF record[k] # expected \/ seen[c].state = "IN_FLIGHT" THEN 1 ELSE 0
    <2>1. Move(c, "locking") /\ stage[c] = "claiming" /\ effects' = effects
      BY <1>3 DEF Claim, In
    <2>2. \A j \in IdemKey : doubt'[j] = doubt[j] + (IF j = k THEN unsure ELSE 0)
      BY <1>0, <1>3 DEF Claim, DoubtIf, TypeOK
    <2>3. \A j \in IdemKey \ {k} : record'[j] = record[j]
      BY <1>3 DEF Claim, Idem!SetInFlight, TypeOK, Idem!IdemTypeOK
    <2>4. Spare(k)' = 0
      BY <1>0, <1>3 DEF Claim, Idem!SetInFlight, Idem!Record, Spare, TypeOK, Idem!IdemTypeOK
    <2>5. unsure = 0 => Spare(k) = 1
      <3>1. seen[c].state \in {"ABSENT", "FAILED", "IN_FLIGHT"}
        BY <1>3 DEF Claim, Idem!SetInFlight, ReadDecides
      <3>. QED BY <3>1 DEF Spare, Idem!Absent
    <2>6. \A j \in IdemKey : effects'[j] = effects[j] + (IF j = k THEN 0 ELSE 0)
      BY <1>0, <2>1
    <2>7. unsure \in 0 .. 1
      OBVIOUS
    <2>. HIDE DEF unsure, k
    <2>8. 0 + (IF "locking" \in permitted THEN 1 ELSE 0) + Spare(k)'
            <= (IF stage[c] \in permitted THEN 1 ELSE 0) + Spare(k) + unsure
      BY <1>0, <2>1, <2>4, <2>5, <2>7
    <2>9. "locking" \in Stage
      BY DEF Stage
    <2>. QED BY <2>1, <2>2, <2>3, <2>6, <2>7, <2>8, <2>9, BudgetOfOneKey DEF k
  <1>4. CASE ClaimError(c)
    <2>1. Move(c, "done") /\ UNCHANGED <<record, effects, doubt>>
      BY <1>4 DEF ClaimError, Finish, idemVars, worldVars
    <2>. QED BY <2>1, BudgetOfMove DEF Stage
  <1>5. CASE Acquire(c)
    <2>1. stage[c] = "locking" /\ UNCHANGED <<record, effects, doubt>>
      BY <1>5 DEF Acquire, In, idemVars, worldVars
    <2>2. PICK s \in {"locking", "calling", "done"} : Move(c, s)
      <3>1. stage' = stage => Move(c, "locking")
        BY <2>1 DEF Move, TypeOK
      <3>. QED BY <1>5, <3>1 DEF Acquire, Finish, stepVars
    <2>. QED BY <2>1, <2>2, BudgetOfMove DEF Stage
  <1>6. CASE DecryptFails(c)
    <2>1. stage[c] = "calling" /\ Move(c, "failing") /\ UNCHANGED <<record, effects, doubt>>
      BY <1>6 DEF DecryptFails, In, idemVars, worldVars
    <2>. QED BY <2>1, BudgetOfMove DEF Stage
  <1>7. CASE \E result \in {"empty", "full"} : InvokeSucceeds(c, result)
    <2>1. /\ stage[c] = "calling" /\ Move(c, "marking") /\ UNCHANGED <<record, doubt>>
          /\ effects' = [effects EXCEPT ![k] = @ + 1]
      BY <1>7 DEF InvokeSucceeds, In, Book, idemVars
    <2>2. /\ \A j \in IdemKey : effects'[j] = effects[j] + (IF j = k THEN 1 ELSE 0)
          /\ \A j \in IdemKey : doubt'[j] = doubt[j] + (IF j = k THEN 0 ELSE 0)
      BY <1>0, <2>1 DEF TypeOK
    <2>3. 1 + (IF "marking" \in permitted THEN 1 ELSE 0) + Spare(k)'
            <= (IF stage[c] \in permitted THEN 1 ELSE 0) + Spare(k) + 0
      BY <1>0, <2>1 DEF Spare
    <2>. HIDE DEF k
    <2>. QED BY <2>1, <2>2, <2>3, BudgetOfOneKey DEF Stage, k
  <1>8. ASSUME NEW retryable \in BOOLEAN, InvokeRefused(c, retryable) \/ InvokeLost(c, retryable)
        PROVE  Budget'
    <2>1. PICK s \in {"calling", "failing"} : Move(c, s)
      BY <1>8 DEF InvokeRefused, InvokeLost, AttemptFailed, Move, TypeOK, In
    <2>2. stage[c] = "calling" /\ record' = record
      BY <1>8 DEF InvokeRefused, InvokeLost, In, idemVars
    <2>3. CASE InvokeRefused(c, retryable)
      BY <2>1, <2>2, <2>3, BudgetOfMove DEF InvokeRefused, worldVars, Stage
    <2>4. CASE InvokeLost(c, retryable)
      <3>1. /\ \A j \in IdemKey : effects'[j] = effects[j] + (IF j = k THEN 1 ELSE 0)
            /\ \A j \in IdemKey : doubt'[j] = doubt[j] + (IF j = k THEN 1 ELSE 0)
        BY <1>0, <2>4 DEF InvokeLost, Book, Doubt, TypeOK
      <3>2. 1 + (IF s \in permitted THEN 1 ELSE 0) + Spare(k)'
              <= (IF stage[c] \in permitted THEN 1 ELSE 0) + Spare(k) + 1
        BY <1>0, <2>1, <2>2 DEF Spare
      <3>. HIDE DEF k
      <3>. QED BY <2>1, <2>2, <3>1, <3>2, BudgetOfOneKey DEF Stage, k
    <2>. QED BY <1>8, <2>3, <2>4
  <1>9. CASE MarkSucceeded(c)
    <2>1. /\ stage[c] = "marking" /\ Move(c, "unlocking") /\ UNCHANGED <<effects, doubt>>
          /\ \A j \in IdemKey \ {k} : record'[j] = record[j]
      BY <1>9 DEF MarkSucceeded, Idem!MarkSucceeded, In, worldVars, TypeOK, Idem!IdemTypeOK
    <2>2. Spare(k)' = 0
      BY <1>0, <1>9 DEF MarkSucceeded, Idem!MarkSucceeded, Idem!Record, Spare, TypeOK,
                        Idem!IdemTypeOK
    <2>3. /\ \A j \in IdemKey : effects'[j] = effects[j] + (IF j = k THEN 0 ELSE 0)
          /\ \A j \in IdemKey : doubt'[j] = doubt[j] + (IF j = k THEN 0 ELSE 0)
      BY <1>0, <2>1
    <2>4. 0 + (IF "unlocking" \in permitted THEN 1 ELSE 0) + Spare(k)'
            <= (IF stage[c] \in permitted THEN 1 ELSE 0) + Spare(k) + 0
      BY <1>0, <2>1, <2>2
    <2>. HIDE DEF k
    <2>. QED BY <2>1, <2>3, <2>4, BudgetOfOneKey DEF Stage, k
  <1>10. CASE MarkSucceededError(c)
    <2>1. /\ stage[c] = "marking" /\ Move(c, "failing") /\ UNCHANGED <<record, effects>>
          /\ doubt' = [doubt EXCEPT ![k] = @ + 1]
      BY <1>10 DEF MarkSucceededError, In, Doubt, idemVars
    <2>2. /\ \A j \in IdemKey : effects'[j] = effects[j] + (IF j = k THEN 0 ELSE 0)
          /\ \A j \in IdemKey : doubt'[j] = doubt[j] + (IF j = k THEN 1 ELSE 0)
      BY <1>0, <2>1 DEF TypeOK
    <2>3. 0 + (IF "failing" \in permitted THEN 1 ELSE 0) + Spare(k)'
            <= (IF stage[c] \in permitted THEN 1 ELSE 0) + Spare(k) + 1
      BY <1>0, <2>1 DEF Spare
    <2>. HIDE DEF k
    <2>. QED BY <2>1, <2>2, <2>3, BudgetOfOneKey DEF Stage, k
  <1>11. CASE MarkFailed(c)
    <2>1. /\ stage[c] = "failing" /\ Move(c, "unlocking") /\ UNCHANGED <<effects, doubt>>
          /\ \A j \in IdemKey \ {k} : record'[j] = record[j]
      BY <1>11 DEF MarkFailed, Idem!MarkFailed, In, worldVars, TypeOK, Idem!IdemTypeOK
    <2>2. /\ \A j \in IdemKey : effects'[j] = effects[j] + (IF j = k THEN 0 ELSE 0)
          /\ \A j \in IdemKey : doubt'[j] = doubt[j] + (IF j = k THEN 0 ELSE 0)
      BY <1>0, <2>1
    <2>3. 0 + (IF "unlocking" \in permitted THEN 1 ELSE 0) + Spare(k)'
            <= (IF stage[c] \in permitted THEN 1 ELSE 0) + Spare(k) + 0
      BY <1>0, <2>1
    <2>. HIDE DEF k
    <2>. QED BY <2>1, <2>2, <2>3, BudgetOfOneKey DEF Stage, k
  <1>12. CASE MarkFailedError(c)
    <2>1. Move(c, "unlocking") /\ UNCHANGED <<record, effects, doubt>>
      BY <1>12 DEF MarkFailedError, idemVars, worldVars
    <2>. QED BY <2>1, BudgetOfMove DEF Stage
  <1>13. CASE Unlock(c)
    <2>1. stage[c] = "unlocking" /\ UNCHANGED <<record, effects, doubt>>
      BY <1>13 DEF Unlock, In, idemVars, worldVars
    <2>2. PICK s \in {"unlocking", "done"} : Move(c, s)
      BY <1>13, <2>1 DEF Unlock, Move
    <2>. QED BY <2>1, <2>2, BudgetOfMove DEF Stage
  <1>. QED BY <1>1, <1>2, <1>3, <1>4, <1>5, <1>6, <1>7, <1>8, <1>9, <1>10, <1>11, <1>12,
              <1>13 DEF Step, Invoke

\* The environment keeps the budget: a process that dies gives up its permits,
\* and a record that expires leaves a doubt (idempotency.py:36-45).
LEMMA BudgetInductive == TypeOK /\ BudgetInv /\ [Next]_vars => BudgetInv'
  <1>. SUFFICES ASSUME TypeOK, ReadDecides, Budget, [Next]_vars PROVE Budget'
    BY ReadInductive DEF BudgetInv
  <1>1. CASE UNCHANGED vars
    BY <1>1 DEF vars, idemVars, stepVars, worldVars, Budget, Permits, Spare
  <1>2. ASSUME NEW c \in Call, Step(c) PROVE Budget'
    BY <1>2, StepKeepsBudget
  <1>3. ASSUME NEW p \in Process, CrashProcess(p) PROVE Budget'
    <2>. SUFFICES ASSUME NEW k \in IdemKey
                  PROVE  /\ IsFiniteSet(Permits(k)')
                         /\ effects'[k] + Cardinality(Permits(k)') + Spare(k)' <= 1 + doubt'[k]
      BY DEF Budget
    <2>1. Permits(k)' \subseteq Permits(k)
      BY <1>3 DEF CrashProcess, Permits
    <2>2. /\ IsFiniteSet(Permits(k)) /\ Cardinality(Permits(k)) \in Nat
          /\ effects[k] + Cardinality(Permits(k)) + Spare(k) <= 1 + doubt[k]
      BY FS_CardinalityType DEF Budget
    <2>3. /\ IsFiniteSet(Permits(k)') /\ Cardinality(Permits(k)') \in Nat
          /\ Cardinality(Permits(k)') <= Cardinality(Permits(k))
      BY <2>1, <2>2, FS_Subset, FS_CardinalityType
    <2>4. effects'[k] = effects[k] /\ doubt'[k] = doubt[k] /\ Spare(k)' = Spare(k)
      BY <1>3 DEF CrashProcess, idemVars, worldVars, Spare
    <2>5. effects[k] \in Nat /\ doubt[k] \in Nat /\ Spare(k) \in 0 .. 1
      BY DEF TypeOK, Spare
    <2>. QED BY <2>2, <2>3, <2>4, <2>5
  <1>4. ASSUME NEW j \in IdemKey, AgeClaim(j) PROVE Budget'
    <2>1. \A k \in IdemKey : Permits(k)' = Permits(k)
      BY <1>4 DEF AgeClaim, stepVars, Permits
    <2>2. \A k \in IdemKey : record'[k].state = record[k].state
      BY <1>4, BookerParameters DEF AgeClaim, Idem!AgeClaim, TypeOK, Idem!IdemTypeOK, Idem!Record
    <2>. QED BY <1>4, <2>1, <2>2 DEF AgeClaim, worldVars, Budget, Spare
  <1>5. ASSUME NEW j \in IdemKey, ExpireRecord(j) PROVE Budget'
    <2>. SUFFICES ASSUME NEW k \in IdemKey
                  PROVE  /\ IsFiniteSet(Permits(k)')
                         /\ effects'[k] + Cardinality(Permits(k)') + Spare(k)' <= 1 + doubt'[k]
      BY DEF Budget
    <2>1. Permits(k)' = Permits(k)
      BY <1>5 DEF ExpireRecord, stepVars, Permits
    <2>2. /\ IsFiniteSet(Permits(k)) /\ Cardinality(Permits(k)) \in Nat
          /\ effects[k] + Cardinality(Permits(k)) + Spare(k) <= 1 + doubt[k]
      BY FS_CardinalityType DEF Budget
    <2>3. effects'[k] = effects[k] /\ effects[k] \in Nat /\ doubt[k] \in Nat
      BY <1>5 DEF ExpireRecord, TypeOK
    <2>4. doubt'[k] = IF k = j THEN doubt[k] + 1 ELSE doubt[k]
      BY <1>5 DEF ExpireRecord, Doubt, TypeOK
    <2>5. k # j => Spare(k)' = Spare(k)
      BY <1>5 DEF ExpireRecord, Idem!ExpireRecord, Spare, TypeOK, Idem!IdemTypeOK
    <2>6. Spare(k) \in 0 .. 1 /\ Spare(k)' \in 0 .. 1
      BY DEF Spare
    <2>. QED BY <2>1, <2>2, <2>3, <2>4, <2>5, <2>6
  <1>6. ASSUME NEW j \in LockKey, ExpireLock(j) PROVE Budget'
    BY <1>6 DEF ExpireLock, idemVars, stepVars, worldVars, Budget, Permits, Spare
  <1>. QED BY <1>1, <1>2, <1>3, <1>4, <1>5, <1>6 DEF Next

\* Idempotency of the Booker path: no more bookings of a step than one, and one
\* for each event that made its record unreliable (execute_service.py:523-596).
THEOREM RepeatsDoNotBook == Spec => []BookingsAccountedFor
  <1>1. Init => BudgetInv
    <2>. SUFFICES ASSUME Init PROVE BudgetInv
      OBVIOUS
    <2>1. \A c \in Call : stage[c] = "idle" /\ idemPc[c] = "unread"
      BY DEF Init, Idem!IdemInit
    <2>2. \A k \in IdemKey : effects[k] = 0 /\ doubt[k] = 0 /\ Spare(k) = 1 /\ Permits(k) = {}
      BY <2>1 DEF Init, Idem!IdemInit, Idem!Absent, Spare, Permits
    <2>. QED BY <2>1, <2>2, FS_EmptySet DEF BudgetInv, ReadDecides, Budget
  <1>2. Inv /\ BudgetInv => BookingsAccountedFor
    <2>. SUFFICES ASSUME Inv, BudgetInv, NEW k \in IdemKey PROVE effects[k] <= 1 + doubt[k]
      BY DEF BookingsAccountedFor
    <2>1. Cardinality(Permits(k)) \in Nat /\ Spare(k) \in 0 .. 1
      BY FS_CardinalityType DEF BudgetInv, Budget, Spare
    <2>2. effects[k] \in Nat /\ doubt[k] \in Nat
      BY DEF Inv, TypeOK
    <2>. QED BY <2>1, <2>2 DEF BudgetInv, Budget
  <1>3. Inv /\ BudgetInv /\ [Next]_vars => BudgetInv'
    BY BudgetInductive DEF Inv
  <1>. QED BY <1>1, <1>2, <1>3, Invariance, PTL DEF Spec
-----------------------------------------------------------------------------
(* The sessions in which a user's tools are listed and called *)

Places == {"done", "session", "wait", "initialize", "send", "store", "heal", "validate", "patch"}
Visit == [pc : Places, key : Key, id : Nat, round : {1, 2}, sent : Nat, misread : Nat,
          found : SUBSET AuthConfig,
          answer : SUBSET (SUBSET AuthConfig), clean : BOOLEAN]

SessionTypes ==
    /\ sessions \in [Key -> SUBSET Nat] /\ lock \in [Key -> SUBSET Request]
    /\ made \in [Key -> Nat] /\ refused \in [Key -> Nat] /\ expired \in [Key -> SUBSET Nat]
    /\ listed \subseteq AuthConfig /\ tools \subseteq SUBSET AuthConfig
    /\ request \in [Request -> Visit]

\* Who sets up a session holds the lock of its key, which has none.
HolderInitializes ==
    \A r \in Request : At(r, "initialize") => lock[key(r)] = {r} /\ sessions[key(r)] = {}

\* A key without a session has had one refused for each it was given.
MadeForReason ==
    \A k \in Key : /\ sessions[k] = {} => made[k] <= refused[k]
                   /\ made[k] <= refused[k] + 1 /\ made[k] <= MaxSessions

\* A call has run its tool no more often than it may, before its last attempt
\* one time less; and it is in its second round once an answer was misread.
RunsFit(v) ==
    /\ v.misread <= 1 /\ v.sent <= 1 + v.misread
    /\ v.pc # "done" => v.sent <= v.misread /\ (v.misread > 0 => v.round = 2)

\* Who has met nobody is alone as long as it runs.
AloneIfClean ==
    \A r, q \in Request : request[r].clean /\ ~At(r, "done") /\ q # r => At(q, "done")

\* A listing v that nothing has disturbed, with the auth configs L in the
\* config and the sessions X expired: it has its answer or still gets there.
Hopeful(v, L, X) ==
    v.clean /\ v.key = "tools" =>
        /\ v.round = 2 /\ v.pc \in {"session", "wait", "initialize", "send"} => L \subseteq Sound
        /\ v.pc \in {"heal", "validate"} => v.id \in X \/ ~(L \subseteq Sound)
        /\ v.pc = "validate" => v.found = L
        /\ v.pc = "patch" => v.found \subseteq Sound
        /\ v.pc = "store" => v.answer # {}
        /\ v.pc = "done" => v.id \in X \/ v.answer # {}

VisitsFit ==
    \A r \in Request : RunsFit(request[r]) /\ Hopeful(request[r], listed, expired["tools"])

SessionInv == SessionTypes /\ HolderInitializes /\ MadeForReason /\ AloneIfClean /\ VisitsFit

-----------------------------------------------------------------------------
\* What a request leaves when it is done: what it has sent and brought.
LEMMA EndedRecord ==
  ASSUME NEW v \in Visit
  PROVE  /\ Ended(v) \in Visit /\ Ended(v).pc = "done" /\ Ended(v).sent = v.sent
         /\ Ended(v).misread = v.misread
         /\ Ended(v).key = v.key /\ Ended(v).answer = v.answer
         /\ v.key = "tools" => Ended(v).id = v.id
         /\ Ended(v).clean => v.clean
  <1>1. Done \in Visit
    BY Zenon DEF Done, New, Visit, Places, Key
  <1>2. PICK i \in Nat : i = IF v.key = "tools" THEN v.id ELSE 0
    BY DEF Visit
  <1>3. PICK b \in BOOLEAN : b = (v.clean /\ v.key = "tools")
    OBVIOUS
  <1>4. /\ v.sent \in Nat /\ v.misread \in Nat /\ v.answer \in SUBSET (SUBSET AuthConfig) /\ v.key \in Key
    BY DEF Visit
  <1>5. Ended(v) = [Done EXCEPT !.id = i, !.sent = v.sent, !.misread = v.misread, !.answer = v.answer,
                              !.key = v.key, !.clean = b]
    BY <1>2, <1>3, Zenon DEF Ended
  <1>6. /\ Ended(v) \in Visit /\ Ended(v).pc = Done.pc /\ Ended(v).sent = v.sent
        /\ Ended(v).key = v.key /\ Ended(v).answer = v.answer /\ Ended(v).id = i
        /\ Ended(v).clean = b /\ Ended(v).misread = v.misread
    BY <1>1, <1>4, <1>5, Zenon DEF Visit
  <1>7. Done.pc = "done"
    BY DEF Done, New
  <1>. QED BY <1>2, <1>3, <1>6, <1>7

\* A request that goes on becomes v, or what is left of v.
Advances(r, v) ==
    /\ v \in Visit /\ Goes(r, v) /\ v.key = key(r)
    /\ v.clean => request[r].clean
    /\ RunsFit(v) /\ Hopeful(v, listed', expired'["tools"])

LEMMA GoesTo ==
  ASSUME SessionTypes, NEW r \in Request, NEW v \in Visit, Goes(r, v)
  PROVE  /\ request' \in [Request -> Visit]
         /\ \A q \in Request \ {r} : request'[q] = request[q]
         /\ request'[r].pc = v.pc /\ request'[r].key = v.key /\ request'[r].sent = v.sent /\ request'[r].misread = v.misread
         /\ request'[r].answer = v.answer /\ (request'[r].clean => v.clean)
         /\ v.pc # "done" => request'[r] = v
         /\ v.key = "tools" => request'[r].id = v.id
  <1>1. PICK w : w = IF v.pc = "done" THEN Ended(v) ELSE v
    OBVIOUS
  <1>2. /\ w \in Visit /\ w.pc = v.pc /\ w.sent = v.sent /\ w.misread = v.misread /\ w.key = v.key /\ w.answer = v.answer
        /\ v.key = "tools" => w.id = v.id
        /\ w.clean => v.clean
    BY <1>1, EndedRecord
  <1>3. request' = [request EXCEPT ![r] = w] /\ request \in [Request -> Visit]
    BY <1>1 DEF Goes, SessionTypes
  <1>4. /\ request' \in [Request -> Visit] /\ request'[r] = w
        /\ \A q \in Request \ {r} : request'[q] = request[q]
    BY <1>2, <1>3
  <1>. QED BY <1>1, <1>2, <1>4

\* A step of a request leaves the others as they are: who was clean was not
\* under way beside it.
LEMMA AdvanceKeeps ==
  ASSUME SessionInv, NEW r \in Request, ~At(r, "done"), NEW v, Advances(r, v),
         expired["tools"] \subseteq expired'["tools"]
  PROVE  /\ request' \in [Request -> Visit] /\ AloneIfClean' /\ VisitsFit'
         /\ \A q \in Request \ {r} : request'[q] = request[q]
         /\ request'[r].pc = v.pc /\ request'[r].key = v.key
  <1>1. /\ request' \in [Request -> Visit]
        /\ \A q \in Request \ {r} : request'[q] = request[q]
        /\ request'[r].pc = v.pc /\ request'[r].key = v.key /\ request'[r].sent = v.sent /\ request'[r].misread = v.misread
        /\ request'[r].answer = v.answer /\ (request'[r].clean => v.clean)
        /\ v.pc # "done" => request'[r] = v
        /\ v.key = "tools" => request'[r].id = v.id
    BY GoesTo DEF Advances, SessionInv
  <1>2. AloneIfClean'
    BY <1>1 DEF SessionInv, AloneIfClean, At, Advances
  <1>3. VisitsFit'
    <2>. SUFFICES ASSUME NEW q \in Request
                  PROVE  RunsFit(request'[q]) /\ Hopeful(request'[q], listed', expired'["tools"])
      BY DEF VisitsFit, RunsFit, Hopeful
    <2>1. CASE q = r
      <3>1. RunsFit(v) /\ Hopeful(v, listed', expired'["tools"])
        BY DEF Advances
      <3>2. CASE v.pc # "done"
        BY <1>1, <2>1, <3>1, <3>2
      <3>3. CASE v.pc = "done"
        <4>1. RunsFit(request'[r])
          BY <1>1, <3>1, <3>3 DEF RunsFit
        <4>2. v.clean /\ v.key = "tools" => v.id \in expired'["tools"] \/ v.answer # {}
          BY <3>1, <3>3 DEF Hopeful
        <4>3. Hopeful(request'[r], listed', expired'["tools"])
          BY <1>1, <3>3, <4>2 DEF Hopeful
        <4>. QED BY <2>1, <4>1, <4>3
      <3>. QED BY <3>2, <3>3
    <2>2. CASE q # r
      <3>1. request'[q] = request[q] /\ RunsFit(request[q]) /\ Hopeful(request[q], listed, expired["tools"])
        BY <1>1, <2>2 DEF SessionInv, VisitsFit
      <3>2. request[q].clean => request[q].pc = "done"
        BY <2>2 DEF SessionInv, AloneIfClean, At
      <3>. QED BY <3>1, <3>2 DEF Hopeful
    <2>. QED BY <2>1, <2>2
  <1>. QED BY <1>1, <1>2, <1>3

\* A request starts: it is alone if it is clean, and nobody else is clean now
\* (MCPInvoker.invoke, ToolCatalog.get_user_tools).
LEMMA StartKeeps ==
  ASSUME SessionInv, NEW r \in Request, NEW k \in Key, Start(r, k, "session"),
         UNCHANGED <<held, server, listed, tools>>
  PROVE  SessionInv'
  <1>0. request \in [Request -> Visit]
    BY DEF SessionInv, SessionTypes
  <1>1. PICK others \in BOOLEAN : others = (\A q \in Request \ {r} : At(q, "done"))
    OBVIOUS
  <1>2. PICK v : v = [New(k) EXCEPT !.pc = "session", !.clean = others]
    OBVIOUS
  <1>3. /\ v \in Visit /\ v.pc = "session" /\ v.round = 1 /\ v.sent = 0 /\ v.misread = 0
        /\ v.clean = others
    BY <1>2, Zenon DEF New, Visit, Places
  <1>4. request' = [s \in Request |-> IF s = r THEN v ELSE [request[s] EXCEPT !.clean = FALSE]]
    BY <1>1, <1>2 DEF Start
  <1>5. ASSUME NEW q \in Request \ {r}
        PROVE  /\ request'[q] \in Visit /\ ~request'[q].clean
               /\ request'[q].pc = request[q].pc /\ request'[q].key = request[q].key
               /\ request'[q].sent = request[q].sent /\ request'[q].misread = request[q].misread
               /\ request'[q].round = request[q].round
    <2>1. request'[q] = [request[q] EXCEPT !.clean = FALSE] /\ request[q] \in Visit
      BY <1>0, <1>4
    <2>. QED BY <2>1, Zenon DEF Visit
  <1>6. request'[r] = v
    BY <1>4
  <1>7. SessionTypes'
    <2>1. request' \in [Request -> Visit]
      BY <1>3, <1>4, <1>5, <1>6
    <2>. QED BY <2>1 DEF SessionInv, SessionTypes, held, server
  <1>8. HolderInitializes'
    BY <1>3, <1>5, <1>6 DEF SessionInv, HolderInitializes, At, key, held
  <1>9. MadeForReason'
    BY DEF SessionInv, MadeForReason, held, server
  <1>10. AloneIfClean'
    <2>1. v.clean => \A q \in Request \ {r} : request'[q].pc = "done"
      BY <1>1, <1>3, <1>5 DEF At
    <2>2. \A q \in Request : request'[q].clean => q = r
      BY <1>5
    <2>. QED BY <1>6, <2>1, <2>2 DEF AloneIfClean, At
  <1>11. VisitsFit'
    <2>. SUFFICES ASSUME NEW q \in Request
                  PROVE  RunsFit(request'[q]) /\ Hopeful(request'[q], listed', expired'["tools"])
      BY DEF VisitsFit, RunsFit, Hopeful
    <2>1. CASE q = r
      BY <1>3, <1>6, <2>1 DEF RunsFit, Hopeful
    <2>2. CASE q # r
      <3>1. RunsFit(request[q])
        BY DEF SessionInv, VisitsFit
      <3>. QED BY <1>5, <2>2, <3>1 DEF RunsFit, Hopeful
    <2>. QED BY <2>1, <2>2
  <1>. QED BY <1>7, <1>8, <1>9, <1>10, <1>11 DEF SessionInv

\* All but where a request is, and whether it is clean.
Alike(v, w) ==
    /\ v.key = w.key /\ v.id = w.id /\ v.round = w.round /\ v.sent = w.sent /\ v.misread = w.misread
    /\ v.found = w.found /\ v.answer = w.answer

LEMMA Moved ==
  ASSUME SessionTypes, NEW r \in Request, NEW pc \in Places, NEW e, MovesOn(r, pc, e)
  PROVE  \E v \in Visit : /\ Goes(r, v) /\ v.pc = pc /\ Alike(v, request[r])
                          /\ v.clean => request[r].clean /\ e = "ok"
  <1>1. PICK b \in BOOLEAN : b = (request[r].clean /\ e = "ok")
    OBVIOUS
  <1>2. PICK v : v = [request[r] EXCEPT !.pc = pc, !.clean = b]
    OBVIOUS
  <1>3. request[r] \in Visit
    BY DEF SessionTypes
  <1>4. v \in Visit /\ v.pc = pc /\ v.clean = b
    BY <1>2, <1>3, Zenon DEF Visit
  <1>5. Alike(v, request[r])
    BY <1>2, <1>3, Zenon DEF Visit, Alike
  <1>6. v = [request[r] EXCEPT !.pc = pc, !.clean = @ /\ e = "ok"]
    BY <1>1, <1>2, Zenon
  <1>. QED BY <1>1, <1>4, <1>5, <1>6 DEF MovesOn

\* A step that sets up and drops no session.
LEMMA ProgressKeeps ==
  ASSUME SessionInv, NEW r \in Request, ~At(r, "done"), NEW v, Advances(r, v), v.pc # "initialize",
         UNCHANGED <<held, expired>>, refused' \in [Key -> Nat], \A k \in Key : refused[k] <= refused'[k],
         listed' \subseteq AuthConfig, tools' \subseteq SUBSET AuthConfig
  PROVE  SessionInv'
  <1>1. /\ request' \in [Request -> Visit] /\ AloneIfClean' /\ VisitsFit'
        /\ \A q \in Request \ {r} : request'[q] = request[q]
        /\ request'[r].pc = v.pc /\ request'[r].key = v.key
    BY AdvanceKeeps
  <1>2. SessionTypes'
    BY <1>1 DEF SessionInv, SessionTypes, held
  <1>3. HolderInitializes'
    BY <1>1 DEF SessionInv, HolderInitializes, At, key, held
  <1>4. MadeForReason'
    <2>1. \A k \in Key : made[k] \in Nat /\ refused[k] \in Nat /\ refused'[k] \in Nat
      BY DEF SessionInv, SessionTypes
    <2>. QED BY <2>1 DEF SessionInv, MadeForReason, held
  <1>. QED BY <1>1, <1>2, <1>3, <1>4 DEF SessionInv

-----------------------------------------------------------------------------
(* The steps of a listing *)

\* A request that goes on as it is, but for where it is, keeps the count of
\* what it sent.
LEMMA MovedAdvances ==
  ASSUME SessionInv, NEW r \in Request, NEW pc \in Places, NEW e, MovesOn(r, pc, e), ~At(r, "done"),
         \A v \in Visit : v.pc = pc /\ Alike(v, request[r]) /\ request[r].clean /\ e = "ok"
                            => Hopeful(v, listed', expired'["tools"])
  PROVE  \E v : Advances(r, v) /\ v.pc = pc
  <1>1. PICK v \in Visit : /\ Goes(r, v) /\ v.pc = pc /\ Alike(v, request[r])
                           /\ v.clean => request[r].clean /\ e = "ok"
    BY Moved DEF SessionInv
  <1>2. RunsFit(v)
    BY <1>1 DEF SessionInv, VisitsFit, RunsFit, Alike, At
  <1>3. Hopeful(v, listed', expired'["tools"])
    <2>1. CASE v.clean
      BY <1>1, <2>1
    <2>2. CASE ~v.clean
      BY <2>2 DEF Hopeful
    <2>. QED BY <2>1, <2>2
  <1>. QED BY <1>1, <1>2, <1>3 DEF Advances, Alike, key

LEMMA FetchKeeps ==
  ASSUME SessionInv, NEW r \in Request, NEW e, _fetch_tools_for_user(r, e)
  PROVE  SessionInv'
  <1>1. request[r] \in Visit /\ request[r].pc = "send" /\ request[r].key = "tools"
    BY DEF SessionInv, SessionTypes, _fetch_tools_for_user, At, key
  <1>2. RunsFit(request[r]) /\ Hopeful(request[r], listed, expired["tools"])
    BY DEF SessionInv, VisitsFit
  <1>3. UNCHANGED <<held, server, listed, tools>>
    BY DEF _fetch_tools_for_user
  <1>4. \E v : Advances(r, v) /\ v.pc # "initialize"
    <2>1. CASE e = "ok" /\ listed \subseteq Sound
      <3>1. PICK v : v = [request[r] EXCEPT !.pc = "store", !.answer = {listed}]
        OBVIOUS
      <3>2. {listed} \in SUBSET (SUBSET AuthConfig)
        BY DEF SessionInv, SessionTypes
      <3>3. /\ v \in Visit /\ v.pc = "store" /\ v.answer = {listed} /\ v.key = request[r].key
            /\ v.round = request[r].round
            /\ v.sent = request[r].sent /\ v.misread = request[r].misread
            /\ (v.clean => request[r].clean)
        BY <1>1, <3>1, <3>2, Zenon DEF Visit, Places
      <3>4. Goes(r, v)
        BY <2>1, <3>1 DEF _fetch_tools_for_user
      <3>. QED BY <1>1, <1>2, <3>3, <3>4 DEF Advances, RunsFit, Hopeful, key
    <2>2. CASE ~(e = "ok" /\ listed \subseteq Sound)
      <3>1. MovesOn(r, Raise(r), e)
        BY <2>2 DEF _fetch_tools_for_user
      <3>2. Raise(r) \in Places /\ Raise(r) # "initialize"
        BY DEF Raise, Places
      <3>3. ASSUME NEW v \in Visit, v.pc = Raise(r), Alike(v, request[r]), request[r].clean, e = "ok"
            PROVE  Hopeful(v, listed', expired'["tools"])
        <4>1. ~(listed \subseteq Sound)
          BY <2>2, <3>3
        <4>2. request[r].round = 1 /\ v.pc = "heal"
          BY <1>1, <1>2, <3>3, <4>1 DEF Hopeful, Visit, Raise, key
        <4>. QED BY <1>3, <4>1, <4>2 DEF Hopeful
      <3>4. ~At(r, "done")
        BY <1>1 DEF At
      <3>. QED BY <3>1, <3>2, <3>3, <3>4, MovedAdvances
    <2>. QED BY <2>1, <2>2
  <1>5. ~At(r, "done")
    BY <1>1 DEF At
  <1>6. /\ refused' \in [Key -> Nat] /\ \A k \in Key : refused[k] \in Nat /\ refused'[k] = refused[k]
        /\ listed' \subseteq AuthConfig /\ tools' \subseteq SUBSET AuthConfig
    BY <1>3 DEF SessionInv, SessionTypes, server
  <1>. QED BY <1>3, <1>4, <1>5, <1>6, ProgressKeeps DEF server

\* A refusal is counted; it leaves a listing without its answer.
LEMMA RefusedCounts ==
  ASSUME SessionTypes, NEW k \in Key, Counted(k)
  PROVE  /\ refused' \in [Key -> Nat]
         /\ \A j \in Key : refused[j] <= refused'[j]
         /\ \A j \in Key : j # k => refused'[j] = refused[j]
         /\ refused'[k] = IF refused[k] < MaxSessions THEN refused[k] + 1 ELSE refused[k]
  <1>1. PICK n \in Nat : n = IF refused[k] < MaxSessions THEN refused[k] + 1 ELSE refused[k]
    BY SessionParameters DEF SessionTypes
  <1>2. refused' = [refused EXCEPT ![k] = n] /\ refused \in [Key -> Nat]
    BY <1>1 DEF Counted, SessionTypes
  <1>. QED BY <1>1, <1>2, SessionParameters

LEMMA FetchRefusedKeeps ==
  ASSUME SessionInv, NEW r \in Request, FetchRefused(r)
  PROVE  SessionInv'
  <1>1. request[r] \in Visit /\ request[r].pc = "send" /\ request[r].key = "tools"
    BY DEF SessionInv, SessionTypes, FetchRefused, At, key
  <1>2. /\ MovesOn(r, Raise(r), "ok") /\ UNCHANGED <<held, expired, listed, tools>>
        /\ request[r].id \in expired["tools"] /\ Counted("tools") /\ "tools" \in Key
    BY <1>1 DEF FetchRefused, Key
  <1>3. Raise(r) \in Places /\ Raise(r) \in {"heal", "done"}
    BY DEF Raise, Places
  <1>4. ASSUME NEW v \in Visit, v.pc = Raise(r), Alike(v, request[r])
        PROVE  Hopeful(v, listed', expired'["tools"])
    BY <1>2, <1>3, <1>4 DEF Hopeful, Alike
  <1>5. ~At(r, "done")
    BY <1>1 DEF At
  <1>6. \E v : Advances(r, v) /\ v.pc # "initialize"
    BY <1>2, <1>3, <1>4, <1>5, MovedAdvances
  <1>7. /\ refused' \in [Key -> Nat] /\ \A k \in Key : refused[k] <= refused'[k]
        /\ listed' \subseteq AuthConfig /\ tools' \subseteq SUBSET AuthConfig
    BY <1>2, RefusedCounts DEF SessionInv, SessionTypes
  <1>. QED BY <1>2, <1>5, <1>6, <1>7, ProgressKeeps

LEMMA StoreKeeps ==
  ASSUME SessionInv, NEW r \in Request, NEW e, Store(r, e)
  PROVE  SessionInv'
  <1>1. request[r] \in Visit /\ request[r].pc = "store"
    BY DEF SessionInv, SessionTypes, Store, At
  <1>2. Hopeful(request[r], listed, expired["tools"])
    BY DEF SessionInv, VisitsFit
  <1>3. MovesOn(r, "done", e) /\ UNCHANGED <<held, server, listed>>
    BY DEF Store
  <1>4. ASSUME NEW v \in Visit, v.pc = "done", Alike(v, request[r]), request[r].clean
        PROVE  Hopeful(v, listed', expired'["tools"])
    BY <1>1, <1>2, <1>4 DEF Hopeful, Alike
  <1>5. ~At(r, "done") /\ "done" \in Places
    BY <1>1 DEF At, Places
  <1>6. \E v : Advances(r, v) /\ v.pc # "initialize"
    BY <1>3, <1>4, <1>5, MovedAdvances
  <1>7. /\ refused' \in [Key -> Nat] /\ \A k \in Key : refused[k] \in Nat /\ refused'[k] = refused[k]
        /\ listed' \subseteq AuthConfig
    BY <1>3 DEF SessionInv, SessionTypes, server
  <1>8. tools' \subseteq SUBSET AuthConfig
    BY <1>1 DEF Store, SessionInv, SessionTypes, Visit
  <1>. QED BY <1>3, <1>5, <1>6, <1>7, <1>8, ProgressKeeps DEF server

LEMMA ReadConfigKeeps ==
  ASSUME SessionInv, NEW r \in Request, NEW e, ReadConfig(r, e)
  PROVE  SessionInv'
  <1>1. request[r] \in Visit /\ request[r].pc = "heal" /\ listed \subseteq AuthConfig
    BY DEF SessionInv, SessionTypes, ReadConfig, At
  <1>2. RunsFit(request[r]) /\ Hopeful(request[r], listed, expired["tools"])
    BY DEF SessionInv, VisitsFit
  <1>3. UNCHANGED <<held, server, listed, tools>>
    BY DEF ReadConfig
  <1>4. ~At(r, "done") /\ "done" \in Places
    BY <1>1 DEF At, Places
  <1>5. \E v : Advances(r, v) /\ v.pc # "initialize"
    <2>1. CASE e = "ok" /\ listed # {}
      <3>1. PICK v : v = [request[r] EXCEPT !.pc = "validate", !.found = listed]
        OBVIOUS
      <3>2. /\ v \in Visit /\ v.pc = "validate" /\ v.found = listed /\ v.key = request[r].key
            /\ v.round = request[r].round
            /\ v.id = request[r].id /\ v.sent = request[r].sent /\ v.misread = request[r].misread
            /\ (v.clean => request[r].clean)
        BY <1>1, <3>1, Zenon DEF Visit, Places
      <3>3. Goes(r, v)
        BY <2>1, <3>1 DEF ReadConfig
      <3>. QED BY <1>1, <1>2, <1>3, <3>2, <3>3 DEF Advances, RunsFit, Hopeful, key, server
    <2>2. CASE ~(e = "ok" /\ listed # {})
      <3>1. MovesOn(r, "done", e)
        BY <2>2 DEF ReadConfig
      <3>2. ASSUME NEW v \in Visit, v.pc = "done", Alike(v, request[r]), request[r].clean, e = "ok"
            PROVE  Hopeful(v, listed', expired'["tools"])
        <4>1. listed \subseteq Sound
          BY <2>2, <3>2
        <4>. QED BY <1>1, <1>2, <1>3, <3>2, <4>1 DEF Hopeful, Alike, server
      <3>. QED BY <1>4, <3>1, <3>2, MovedAdvances
    <2>. QED BY <2>1, <2>2
  <1>6. /\ refused' \in [Key -> Nat] /\ \A k \in Key : refused[k] \in Nat /\ refused'[k] = refused[k]
        /\ listed' \subseteq AuthConfig /\ tools' \subseteq SUBSET AuthConfig
    BY <1>3 DEF SessionInv, SessionTypes, server
  <1>. QED BY <1>3, <1>4, <1>5, <1>6, ProgressKeeps DEF server

\* What is left of the config after the healing works, if nothing failed.
LEMMA ValidateKeeps ==
  ASSUME SessionInv, NEW r \in Request, NEW failing, Validate(r, failing)
  PROVE  SessionInv'
  <1>1. request[r] \in Visit /\ request[r].pc = "validate" /\ request[r].found \subseteq AuthConfig
    BY DEF SessionInv, SessionTypes, Validate, At, Visit
  <1>2. RunsFit(request[r]) /\ Hopeful(request[r], listed, expired["tools"])
    BY DEF SessionInv, VisitsFit
  <1>3. UNCHANGED <<held, server, listed, tools>>
    BY DEF Validate
  <1>4. ~At(r, "done")
    BY <1>1 DEF At
  <1>5. \E v : Advances(r, v) /\ v.pc # "initialize"
    <2>1. PICK valid : valid = (request[r].found \cap Sound) \ failing
      OBVIOUS
    <2>2. PICK b \in BOOLEAN : b = (request[r].clean /\ failing = {})
      OBVIOUS
    <2>3. PICK pc \in {"done", "patch"} : pc = IF valid = request[r].found THEN "done" ELSE "patch"
      OBVIOUS
    <2>4. PICK v : v = [request[r] EXCEPT !.pc = pc, !.found = valid, !.clean = b]
      OBVIOUS
    <2>5. valid \in SUBSET AuthConfig /\ pc \in Places
      BY <1>1, <2>1 DEF Places
    <2>6. /\ v \in Visit /\ v.pc = pc /\ v.found = valid /\ v.key = request[r].key
          /\ v.round = request[r].round
          /\ v.id = request[r].id /\ v.sent = request[r].sent /\ v.misread = request[r].misread
          /\ v.clean = b
      BY <1>1, <2>4, <2>5, Zenon DEF Visit
    <2>7. Goes(r, v)
      <3>1. v = [request[r] EXCEPT !.pc = pc, !.found = valid, !.clean = @ /\ failing = {}]
        BY <2>2, <2>4, Zenon
      <3>. QED BY <2>1, <2>3, <3>1 DEF Validate
    <2>8. Hopeful(v, listed', expired'["tools"])
      <3>1. CASE ~b
        BY <2>6, <3>1 DEF Hopeful
      <3>2. CASE b /\ v.key = "tools"
        <4>1. /\ request[r].found = listed
              /\ request[r].id \in expired["tools"] \/ ~(listed \subseteq Sound)
          BY <1>1, <1>2, <2>2, <2>6, <3>2 DEF Hopeful
        <4>2. valid \subseteq Sound
          BY <2>1
        <4>. QED BY <1>3, <2>3, <2>6, <4>1, <4>2 DEF Hopeful, server
      <3>3. CASE v.key # "tools"
        BY <3>3 DEF Hopeful
      <3>. QED BY <3>1, <3>2, <3>3
    <2>9. RunsFit(v)
      BY <1>1, <1>2, <2>6 DEF RunsFit
    <2>10. v.clean => request[r].clean
      BY <2>2, <2>6
    <2>. QED BY <2>3, <2>6, <2>7, <2>8, <2>9, <2>10 DEF Advances, key
  <1>6. /\ refused' \in [Key -> Nat] /\ \A k \in Key : refused[k] \in Nat /\ refused'[k] = refused[k]
        /\ listed' \subseteq AuthConfig /\ tools' \subseteq SUBSET AuthConfig
    BY <1>3 DEF SessionInv, SessionTypes, server
  <1>. QED BY <1>3, <1>4, <1>5, <1>6, ProgressKeeps DEF server

LEMMA PatchKeeps ==
  ASSUME SessionInv, NEW r \in Request, NEW e, Patch(r, e)
  PROVE  SessionInv'
  <1>1. request[r] \in Visit /\ request[r].pc = "patch" /\ request[r].found \subseteq AuthConfig
    BY DEF SessionInv, SessionTypes, Patch, At, Visit
  <1>2. RunsFit(request[r]) /\ Hopeful(request[r], listed, expired["tools"])
    BY DEF SessionInv, VisitsFit
  <1>3. UNCHANGED <<held, server, tools>> /\ listed' = IF e = "error" THEN listed ELSE request[r].found
    BY DEF Patch
  <1>4. ~At(r, "done") /\ "done" \in Places
    BY <1>1 DEF At, Places
  <1>5. \E v : Advances(r, v) /\ v.pc # "initialize"
    <2>1. CASE e = "ok"
      <3>1. PICK v : v = [request[r] EXCEPT !.pc = "session", !.round = 2]
        OBVIOUS
      <3>2. /\ v \in Visit /\ v.pc = "session" /\ v.key = request[r].key /\ v.round = 2
            /\ v.sent = request[r].sent /\ v.misread = request[r].misread
            /\ (v.clean => request[r].clean)
        BY <1>1, <3>1, Zenon DEF Visit, Places
      <3>3. Goes(r, v)
        BY <2>1, <3>1 DEF Patch
      <3>. QED BY <1>1, <1>2, <1>3, <2>1, <3>2, <3>3 DEF Advances, RunsFit, Hopeful, key
    <2>2. CASE e # "ok"
      <3>1. MovesOn(r, "done", e)
        BY <2>2 DEF Patch
      <3>. QED BY <1>4, <2>2, <3>1, MovedAdvances
    <2>. QED BY <2>1, <2>2
  <1>6. /\ refused' \in [Key -> Nat] /\ \A k \in Key : refused[k] \in Nat /\ refused'[k] = refused[k]
        /\ listed' \subseteq AuthConfig /\ tools' \subseteq SUBSET AuthConfig
    BY <1>1, <1>3 DEF SessionInv, SessionTypes, server
  <1>. QED BY <1>3, <1>4, <1>5, <1>6, ProgressKeeps DEF server


-----------------------------------------------------------------------------
(* The steps to a session, and those of a call *)

\* A request that looks for a session, waits for one or sets one up.
LEMMA LooksAdvance ==
  ASSUME SessionInv, NEW r \in Request, request[r].pc \in {"session", "wait", "initialize"},
         NEW v \in Visit, Goes(r, v), v.pc \in {"wait", "initialize", "send"},
         v.key = request[r].key, v.round = request[r].round, v.sent = request[r].sent, v.misread = request[r].misread,
         v.clean => request[r].clean, UNCHANGED <<listed, expired>>
  PROVE  Advances(r, v)
  <1>1. RunsFit(request[r]) /\ Hopeful(request[r], listed, expired["tools"])
    BY DEF SessionInv, VisitsFit
  <1>2. RunsFit(v)
    BY <1>1 DEF RunsFit
  <1>3. Hopeful(v, listed', expired'["tools"])
    BY <1>1 DEF Hopeful
  <1>. QED BY <1>2, <1>3 DEF Advances, key

\* A session that is there is taken.
LEMMA TakeKeeps ==
  ASSUME SessionInv, NEW r \in Request, request[r].pc \in {"session", "wait"}, sessions[key(r)] # {},
         Goes(r, [request[r] EXCEPT !.pc = "send", !.id = CHOOSE i \in sessions[key(r)] : TRUE]),
         UNCHANGED <<held, server, listed, tools>>
  PROVE  SessionInv'
  <1>1. request[r] \in Visit /\ key(r) \in Key
    BY DEF SessionInv, SessionTypes, Visit, key
  <1>2. sessions[key(r)] \subseteq Nat
    BY <1>1 DEF SessionInv, SessionTypes
  <1>3. PICK i \in Nat : i = CHOOSE j \in sessions[key(r)] : TRUE
    BY <1>2
  <1>4. PICK v : v = [request[r] EXCEPT !.pc = "send", !.id = i]
    OBVIOUS
  <1>5. /\ v \in Visit /\ v.pc = "send" /\ v.key = request[r].key /\ v.round = request[r].round
        /\ v.sent = request[r].sent /\ v.misread = request[r].misread
        /\ (v.clean => request[r].clean)
    BY <1>1, <1>4, Zenon DEF Visit, Places
  <1>6. Goes(r, v)
    BY <1>3, <1>4
  <1>7. Advances(r, v)
    BY <1>5, <1>6, LooksAdvance DEF server
  <1>8. /\ refused' \in [Key -> Nat] /\ \A k \in Key : refused[k] \in Nat /\ refused'[k] = refused[k]
        /\ listed' \subseteq AuthConfig /\ tools' \subseteq SUBSET AuthConfig
    BY DEF SessionInv, SessionTypes, server
  <1>. QED BY <1>5, <1>7, <1>8, ProgressKeeps DEF At, server

\* A request waits for the lock.
LEMMA WaitKeeps ==
  ASSUME SessionInv, NEW r \in Request, request[r].pc = "session",
         Goes(r, [request[r] EXCEPT !.pc = "wait"]), UNCHANGED <<held, server, listed, tools>>
  PROVE  SessionInv'
  <1>1. request[r] \in Visit
    BY DEF SessionInv, SessionTypes
  <1>2. PICK v : v = [request[r] EXCEPT !.pc = "wait"]
    OBVIOUS
  <1>3. /\ v \in Visit /\ v.pc = "wait" /\ v.key = request[r].key /\ v.round = request[r].round
        /\ v.sent = request[r].sent /\ v.misread = request[r].misread
        /\ (v.clean => request[r].clean)
    BY <1>1, <1>2, Zenon DEF Visit, Places
  <1>4. Advances(r, v)
    BY <1>2, <1>3, LooksAdvance DEF server
  <1>5. /\ refused' \in [Key -> Nat] /\ \A k \in Key : refused[k] \in Nat /\ refused'[k] = refused[k]
        /\ listed' \subseteq AuthConfig /\ tools' \subseteq SUBSET AuthConfig
    BY DEF SessionInv, SessionTypes, server
  <1>. QED BY <1>3, <1>4, <1>5, ProgressKeeps DEF At, server

\* A request takes the lock of its key, which has no session, and holds it alone.
LEMMA LockKeeps ==
  ASSUME SessionInv, NEW r \in Request, request[r].pc \in {"session", "wait"},
         sessions[key(r)] = {}, lock[key(r)] = {}, lock' = [lock EXCEPT ![key(r)] = {r}],
         Goes(r, [request[r] EXCEPT !.pc = "initialize"]),
         UNCHANGED <<sessions, made, server, listed, tools>>
  PROVE  SessionInv'
  <1>1. request[r] \in Visit /\ key(r) \in Key /\ key(r) = request[r].key
    BY DEF SessionInv, SessionTypes, Visit, key
  <1>2. PICK v : v = [request[r] EXCEPT !.pc = "initialize"]
    OBVIOUS
  <1>3. /\ v \in Visit /\ v.pc = "initialize" /\ v.key = request[r].key /\ v.round = request[r].round
        /\ v.sent = request[r].sent /\ v.misread = request[r].misread
        /\ (v.clean => request[r].clean)
    BY <1>1, <1>2, Zenon DEF Visit, Places
  <1>4. Advances(r, v)
    BY <1>2, <1>3, LooksAdvance DEF server
  <1>5. /\ request' \in [Request -> Visit] /\ AloneIfClean' /\ VisitsFit'
        /\ \A q \in Request \ {r} : request'[q] = request[q]
        /\ request'[r].pc = v.pc /\ request'[r].key = v.key
    BY <1>4, AdvanceKeeps DEF At, server
  <1>6. /\ lock' \in [Key -> SUBSET Request] /\ lock'[key(r)] = {r}
        /\ \A k \in Key : k # key(r) => lock'[k] = lock[k]
    BY <1>1 DEF SessionInv, SessionTypes
  <1>7. SessionTypes'
    BY <1>5, <1>6 DEF SessionInv, SessionTypes, server
  <1>8. HolderInitializes'
    <2>. SUFFICES ASSUME NEW q \in Request, request'[q].pc = "initialize"
                  PROVE  lock'[request'[q].key] = {q} /\ sessions'[request'[q].key] = {}
      BY DEF HolderInitializes, At, key
    <2>1. CASE q = r
      BY <1>1, <1>3, <1>5, <1>6, <2>1
    <2>2. CASE q # r
      <3>1. request'[q] = request[q] /\ request[q].key \in Key
        BY <1>5, <2>2 DEF SessionInv, SessionTypes, Visit
      <3>2. lock[request[q].key] = {q} /\ sessions[request[q].key] = {}
        BY <3>1 DEF SessionInv, HolderInitializes, At, key
      <3>. QED BY <1>6, <3>1, <3>2
    <2>. QED BY <2>1, <2>2
  <1>9. MadeForReason'
    BY DEF SessionInv, MadeForReason, server
  <1>. QED BY <1>5, <1>7, <1>8, <1>9 DEF SessionInv

\* The holder of the lock sets up the only session of its key, and lets go.
LEMMA InitializeKeeps ==
  ASSUME SessionInv, NEW r \in Request, _initialize(r)
  PROVE  SessionInv'
  <1>1. /\ request[r] \in Visit /\ key(r) \in Key /\ key(r) = request[r].key
        /\ request[r].pc = "initialize" /\ made[key(r)] \in Nat
        /\ UNCHANGED <<server, listed, tools>>
    BY DEF SessionInv, SessionTypes, Visit, key, _initialize, At
  <1>2. PICK n \in Nat : n = made[key(r)] + 1
    BY <1>1
  <1>3. /\ made' = [made EXCEPT ![key(r)] = n] /\ made[key(r)] < MaxSessions
        /\ lock' = [lock EXCEPT ![key(r)] = {}]
    BY <1>2 DEF _initialize
  <1>4. /\ made' \in [Key -> Nat] /\ made'[key(r)] = n
        /\ lock' \in [Key -> SUBSET Request]
        /\ \A k \in Key : k # key(r) => made'[k] = made[k] /\ lock'[k] = lock[k]
    BY <1>1, <1>2, <1>3 DEF SessionInv, SessionTypes
  <1>5. sessions' = [sessions EXCEPT ![key(r)] = {n}]
    BY <1>4 DEF _initialize
  <1>6. /\ sessions' \in [Key -> SUBSET Nat] /\ sessions'[key(r)] = {n}
        /\ \A k \in Key : k # key(r) => sessions'[k] = sessions[k]
    BY <1>1, <1>2, <1>5 DEF SessionInv, SessionTypes
  <1>7. PICK v : v = [request[r] EXCEPT !.pc = "send", !.id = n]
    OBVIOUS
  <1>8. /\ v \in Visit /\ v.pc = "send" /\ v.key = request[r].key /\ v.round = request[r].round
        /\ v.sent = request[r].sent /\ v.misread = request[r].misread
        /\ (v.clean => request[r].clean)
    BY <1>1, <1>7, Zenon DEF Visit, Places
  <1>9. Goes(r, v)
    BY <1>4, <1>7 DEF _initialize
  <1>10. Advances(r, v)
    BY <1>1, <1>8, <1>9, LooksAdvance DEF server
  <1>11. /\ request' \in [Request -> Visit] /\ AloneIfClean' /\ VisitsFit'
         /\ \A q \in Request \ {r} : request'[q] = request[q]
         /\ request'[r].pc = v.pc /\ request'[r].key = v.key
    BY <1>1, <1>10, AdvanceKeeps DEF At, server
  <1>12. SessionTypes'
    BY <1>1, <1>4, <1>6, <1>11 DEF SessionInv, SessionTypes, server
  <1>13. HolderInitializes'
    <2>. SUFFICES ASSUME NEW q \in Request, request'[q].pc = "initialize"
                  PROVE  lock'[request'[q].key] = {q} /\ sessions'[request'[q].key] = {}
      BY DEF HolderInitializes, At, key
    <2>1. q # r /\ request'[q] = request[q] /\ request[q].key \in Key
      BY <1>8, <1>11 DEF SessionInv, SessionTypes, Visit
    <2>2. lock[request[q].key] = {q} /\ sessions[request[q].key] = {} /\ lock[key(r)] = {r}
      BY <1>1, <2>1 DEF SessionInv, HolderInitializes, At, key
    <2>. QED BY <1>4, <1>6, <2>1, <2>2
  <1>14. MadeForReason'
    <2>1. sessions[key(r)] = {}
      BY <1>1 DEF SessionInv, HolderInitializes, At
    <2>2. made[key(r)] <= refused[key(r)]
      BY <1>1, <2>1 DEF SessionInv, MadeForReason
    <2>3. refused' = refused /\ \A k \in Key : refused[k] \in Nat /\ made[k] \in Nat
      BY <1>1 DEF SessionInv, SessionTypes, server
    <2>4. n <= refused[key(r)] + 1 /\ n <= MaxSessions /\ {n} # {}
      BY <1>1, <1>2, <1>3, <2>2, <2>3, SessionParameters
    <2>. QED BY <1>4, <1>6, <2>3, <2>4 DEF SessionInv, MadeForReason
  <1>. QED BY <1>11, <1>12, <1>13, <1>14 DEF SessionInv

\* A session that cannot be set up leaves the lock free.
LEMMA SessionErrorKeeps ==
  ASSUME SessionInv, NEW r \in Request, MCPSessionError(r)
  PROVE  SessionInv'
  <1>1. /\ request[r] \in Visit /\ key(r) \in Key /\ key(r) = request[r].key
        /\ request[r].pc = "initialize" /\ UNCHANGED <<sessions, made, server, listed, tools>>
        /\ MovesOn(r, Raise(r), "error") /\ lock' = [lock EXCEPT ![key(r)] = {}]
    BY DEF SessionInv, SessionTypes, Visit, key, MCPSessionError, At
  <1>2. Raise(r) \in Places /\ Raise(r) # "initialize"
    BY DEF Raise, Places
  <1>3. ~At(r, "done") /\ "error" # "ok"
    BY <1>1 DEF At
  <1>4. PICK v : Advances(r, v) /\ v.pc = Raise(r)
    BY <1>1, <1>2, <1>3, MovedAdvances
  <1>5. /\ request' \in [Request -> Visit] /\ AloneIfClean' /\ VisitsFit'
        /\ \A q \in Request \ {r} : request'[q] = request[q]
        /\ request'[r].pc = v.pc /\ request'[r].key = v.key
    BY <1>1, <1>3, <1>4, AdvanceKeeps DEF server
  <1>6. /\ lock' \in [Key -> SUBSET Request]
        /\ \A k \in Key : k # key(r) => lock'[k] = lock[k]
    BY <1>1 DEF SessionInv, SessionTypes
  <1>7. SessionTypes'
    BY <1>1, <1>5, <1>6 DEF SessionInv, SessionTypes, server
  <1>8. HolderInitializes'
    <2>. SUFFICES ASSUME NEW q \in Request, request'[q].pc = "initialize"
                  PROVE  lock'[request'[q].key] = {q} /\ sessions'[request'[q].key] = {}
      BY DEF HolderInitializes, At, key
    <2>1. q # r /\ request'[q] = request[q] /\ request[q].key \in Key
      BY <1>2, <1>4, <1>5 DEF SessionInv, SessionTypes, Visit
    <2>2. lock[request[q].key] = {q} /\ sessions[request[q].key] = {} /\ lock[key(r)] = {r}
      BY <1>1, <2>1 DEF SessionInv, HolderInitializes, At, key
    <2>. QED BY <1>1, <1>6, <2>1, <2>2
  <1>9. MadeForReason'
    BY <1>1 DEF SessionInv, MadeForReason, server
  <1>. QED BY <1>5, <1>7, <1>8, <1>9 DEF SessionInv

\* A call that has run its tool n times more goes on, or ends.
LEMMA CallAdvances ==
  ASSUME SessionInv, NEW r \in Request, request[r].pc = "send", request[r].key = "calls",
         NEW v \in Visit, Goes(r, v), v.key = "calls", v.clean => request[r].clean,
         NEW n \in {0, 1}, v.sent = request[r].sent + n,
         \/ v.pc = "done" /\ v.misread = request[r].misread
         \/ /\ v.pc = "session" /\ request[r].round = 1 /\ v.round = 2
            /\ (v.misread = request[r].misread /\ n = 0) \/ v.misread = request[r].misread + 1
  PROVE  Advances(r, v)
  <1>1. RunsFit(request[r]) /\ request[r] \in Visit
    BY DEF SessionInv, SessionTypes, VisitsFit
  <1>2. request[r].sent \in Nat /\ request[r].misread \in Nat
    BY <1>1 DEF Visit
  <1>3. RunsFit(v)
    BY <1>1, <1>2 DEF RunsFit
  <1>4. Hopeful(v, listed', expired'["tools"])
    BY DEF Hopeful
  <1>. QED BY <1>3, <1>4 DEF Advances, key

\* A call ends, with its effect or without: it had none before, or its answer
\* was misread.
LEMMA SendKeeps ==
  ASSUME SessionInv, NEW r \in Request, NEW e, Send(r, e)
  PROVE  SessionInv'
  <1>1. /\ request[r] \in Visit /\ request[r].pc = "send" /\ request[r].key = "calls"
        /\ request[r].sent \in Nat /\ UNCHANGED <<held, server, listed, tools>>
    BY DEF SessionInv, SessionTypes, Send, At, key, Visit
  <1>2. PICK n \in {0, 1} : n = IF e = "error" THEN 0 ELSE 1
    OBVIOUS
  <1>3. PICK m \in Nat : m = request[r].sent + n
    BY <1>1
  <1>4. PICK v : v = [request[r] EXCEPT !.pc = "done", !.sent = m]
    OBVIOUS
  <1>5. /\ v \in Visit /\ v.pc = "done" /\ v.key = request[r].key /\ v.sent = m
        /\ v.misread = request[r].misread /\ (v.clean => request[r].clean)
    BY <1>1, <1>4, Zenon DEF Visit, Places
  <1>6. Goes(r, v)
    BY <1>2, <1>3, <1>4 DEF Send
  <1>7. Advances(r, v)
    BY <1>1, <1>3, <1>5, <1>6, CallAdvances
  <1>8. /\ refused' \in [Key -> Nat] /\ \A k \in Key : refused[k] \in Nat /\ refused'[k] = refused[k]
        /\ listed' \subseteq AuthConfig /\ tools' \subseteq SUBSET AuthConfig
    BY <1>1 DEF SessionInv, SessionTypes, server
  <1>. QED BY <1>1, <1>5, <1>7, <1>8, ProgressKeeps DEF At, server

\* A misread answer repeats a call once, whether its tool was run or not.
LEMMA SendMisreadKeeps ==
  ASSUME SessionInv, NEW r \in Request, NEW n \in {0, 1}, SendMisread(r, n)
  PROVE  SessionInv'
  <1>1. /\ request[r] \in Visit /\ request[r].pc = "send" /\ request[r].key = "calls"
        /\ request[r].sent \in Nat /\ request[r].misread \in Nat /\ request[r].round \in {1, 2}
        /\ UNCHANGED <<held, server, listed, tools>>
    BY DEF SessionInv, SessionTypes, SendMisread, At, key, Visit
  <1>2. PICK m \in Nat : m = request[r].sent + n
    BY <1>1
  <1>3. PICK w \in Nat : w = IF request[r].round = 1 THEN request[r].misread + 1 ELSE request[r].misread
    BY <1>1
  <1>4. PICK pc \in {"session", "done"} : pc = Repeat(r)
    BY DEF Repeat
  <1>5. PICK v : v = [request[r] EXCEPT !.pc = pc, !.round = 2, !.sent = m, !.misread = w]
    OBVIOUS
  <1>6. /\ v \in Visit /\ v.pc = pc /\ v.key = request[r].key /\ v.sent = m /\ v.round = 2
        /\ v.misread = w /\ (v.clean => request[r].clean)
    BY <1>1, <1>4, <1>5, Zenon DEF Visit, Places
  <1>7. Goes(r, v)
    BY <1>2, <1>3, <1>4, <1>5 DEF SendMisread
  <1>8. Advances(r, v)
    BY <1>1, <1>2, <1>3, <1>4, <1>6, <1>7, CallAdvances DEF Repeat
  <1>9. /\ refused' \in [Key -> Nat] /\ \A k \in Key : refused[k] \in Nat /\ refused'[k] = refused[k]
        /\ listed' \subseteq AuthConfig /\ tools' \subseteq SUBSET AuthConfig
    BY <1>1 DEF SessionInv, SessionTypes, server
  <1>. QED BY <1>1, <1>4, <1>6, <1>8, <1>9, ProgressKeeps DEF At, server

\* A refused call drops the session, which was one that some refusal ends.
LEMMA SendRefusedKeeps ==
  ASSUME SessionInv, NEW r \in Request, SendRefused(r)
  PROVE  SessionInv'
  <1>1. /\ request[r] \in Visit /\ request[r].pc = "send" /\ request[r].key = "calls" /\ key(r) = "calls"
        /\ Counted("calls") /\ "calls" \in Key /\ UNCHANGED <<lock, made, expired, listed, tools>>
        /\ sessions' = [sessions EXCEPT !["calls"] = {}]
    BY DEF SessionInv, SessionTypes, SendRefused, At, key, Key
  <1>2. PICK pc \in Places : pc = Repeat(r) /\ pc # "initialize"
    BY DEF Places, Repeat
  <1>3. PICK v : v = [request[r] EXCEPT !.pc = pc, !.round = 2]
    OBVIOUS
  <1>4. /\ v \in Visit /\ v.pc = pc /\ v.key = request[r].key /\ v.sent = request[r].sent
        /\ v.misread = request[r].misread /\ v.round = 2 /\ (v.clean => request[r].clean)
    BY <1>1, <1>3, Zenon DEF Visit
  <1>5. Goes(r, v)
    BY <1>2, <1>3 DEF SendRefused
  <1>6. Advances(r, v)
    <2>1. request[r].sent + 0 = request[r].sent
      BY <1>1 DEF Visit
    <2>. QED BY <1>1, <1>2, <1>4, <1>5, <2>1, CallAdvances DEF Repeat
  <1>7. /\ request' \in [Request -> Visit] /\ AloneIfClean' /\ VisitsFit'
        /\ \A q \in Request \ {r} : request'[q] = request[q]
        /\ request'[r].pc = v.pc /\ request'[r].key = v.key
    BY <1>1, <1>6, AdvanceKeeps DEF At
  <1>8. /\ sessions' \in [Key -> SUBSET Nat] /\ sessions'["calls"] = {}
        /\ \A k \in Key : k # "calls" => sessions'[k] = sessions[k]
    BY <1>1 DEF SessionInv, SessionTypes, Key
  <1>9. /\ refused' \in [Key -> Nat] /\ \A k \in Key : refused[k] <= refused'[k]
        /\ \A k \in Key : k # "calls" => refused'[k] = refused[k]
        /\ refused'["calls"] = IF refused["calls"] < MaxSessions THEN refused["calls"] + 1
                               ELSE refused["calls"]
    BY <1>1, RefusedCounts DEF SessionInv
  <1>10. SessionTypes'
    BY <1>1, <1>7, <1>8, <1>9 DEF SessionInv, SessionTypes
  <1>11. HolderInitializes'
    BY <1>1, <1>2, <1>4, <1>7, <1>8 DEF SessionInv, SessionTypes, Visit, HolderInitializes, At, key
  <1>12. MadeForReason'
    <2>. SUFFICES ASSUME NEW k \in Key
                  PROVE  /\ sessions'[k] = {} => made[k] <= refused'[k]
                         /\ made[k] <= refused'[k] + 1 /\ made[k] <= MaxSessions
      BY <1>1 DEF MadeForReason
    <2>1. /\ made[k] \in Nat /\ refused[k] \in Nat /\ refused'[k] \in Nat
          /\ sessions[k] = {} => made[k] <= refused[k]
          /\ made[k] <= refused[k] + 1 /\ made[k] <= MaxSessions
      BY <1>9 DEF SessionInv, SessionTypes, MadeForReason
    <2>2. CASE k = "calls"
      BY <1>9, <2>1, <2>2, SessionParameters
    <2>3. CASE k # "calls"
      BY <1>8, <1>9, <2>1, <2>3
    <2>. QED BY <2>2, <2>3
  <1>. QED BY <1>7, <1>10, <1>11, <1>12 DEF SessionInv

-----------------------------------------------------------------------------
(* The world *)

\* Fewer sessions known to the server promise less.
LEMMA ForgetsKeeps ==
  ASSUME SessionInv, NEW k \in Key, Forgets(k)
  PROVE  SessionInv'
  <1>1. UNCHANGED <<held, refused, listed, tools, request>>
    BY DEF Forgets
  <1>2. PICK i \in 1 .. made[k] : expired' = [expired EXCEPT ![k] = @ \cup {i}]
    BY DEF Forgets
  <1>3. PICK more : more = expired[k] \cup {i}
    OBVIOUS
  <1>4. expired' = [expired EXCEPT ![k] = more] /\ more \subseteq Nat /\ expired[k] \subseteq more
    BY <1>2, <1>3 DEF SessionInv, SessionTypes
  <1>5. expired' \in [Key -> SUBSET Nat] /\ expired["tools"] \subseteq expired'["tools"]
    BY <1>4 DEF SessionInv, SessionTypes, Key
  <1>6. SessionTypes'
    BY <1>1, <1>5 DEF SessionInv, SessionTypes, held
  <1>7. HolderInitializes' /\ MadeForReason' /\ AloneIfClean'
    BY <1>1 DEF SessionInv, HolderInitializes, MadeForReason, AloneIfClean, At, key, held
  <1>8. VisitsFit'
    BY <1>1, <1>5 DEF SessionInv, VisitsFit, Hopeful
  <1>. QED BY <1>6, <1>7, <1>8 DEF SessionInv

\* A change of the config disturbs every request.
LEMMA ListConfigKeeps ==
  ASSUME SessionInv, NEW a \in AuthConfig, ListConfig(a)
  PROVE  SessionInv'
  <1>1. /\ UNCHANGED <<held, server, tools>> /\ listed' = listed \cup {a}
        /\ request' = [r \in Request |-> [request[r] EXCEPT !.clean = FALSE]]
    BY DEF ListConfig
  <1>2. ASSUME NEW q \in Request
        PROVE  /\ request'[q] \in Visit /\ ~request'[q].clean
               /\ request'[q].pc = request[q].pc /\ request'[q].key = request[q].key
               /\ request'[q].sent = request[q].sent /\ request'[q].misread = request[q].misread
               /\ request'[q].round = request[q].round
    <2>1. request'[q] = [request[q] EXCEPT !.clean = FALSE] /\ request[q] \in Visit
      BY <1>1 DEF SessionInv, SessionTypes
    <2>. QED BY <2>1, Zenon DEF Visit
  <1>3. SessionTypes'
    <2>1. request' \in [Request -> Visit]
      BY <1>1, <1>2
    <2>. QED BY <1>1, <2>1 DEF SessionInv, SessionTypes, held, server
  <1>4. HolderInitializes' /\ MadeForReason'
    BY <1>1, <1>2 DEF SessionInv, HolderInitializes, MadeForReason, At, key, held, server
  <1>5. AloneIfClean'
    BY <1>2 DEF AloneIfClean
  <1>6. VisitsFit'
    <2>. SUFFICES ASSUME NEW q \in Request
                  PROVE  RunsFit(request'[q]) /\ Hopeful(request'[q], listed', expired'["tools"])
      BY DEF VisitsFit, RunsFit, Hopeful
    <2>1. RunsFit(request[q])
      BY DEF SessionInv, VisitsFit
    <2>. QED BY <1>2, <2>1 DEF RunsFit, Hopeful
  <1>. QED BY <1>3, <1>4, <1>5, <1>6 DEF SessionInv

LEMMA SessionsStart == SessionsInit => SessionInv
  <1>. SUFFICES ASSUME SessionsInit PROVE SessionInv
    OBVIOUS
  <1>1. Done \in Visit /\ Done.pc = "done" /\ Done.sent = 0 /\ Done.misread = 0 /\ ~Done.clean
    BY Zenon DEF Done, New, Visit, Places, Key
  <1>2. \A r \in Request : request[r] = Done
    BY DEF SessionsInit
  <1>3. SessionTypes
    BY <1>1 DEF SessionsInit, SessionTypes
  <1>4. HolderInitializes /\ AloneIfClean
    BY <1>1, <1>2 DEF HolderInitializes, AloneIfClean, At
  <1>5. MadeForReason
    BY SessionParameters DEF SessionsInit, MadeForReason
  <1>6. VisitsFit
    BY <1>1, <1>2 DEF VisitsFit, RunsFit, Hopeful
  <1>. QED BY <1>3, <1>4, <1>5, <1>6 DEF SessionInv

LEMMA SessionsStep == SessionInv /\ [SessionsNext]_sessionVars => SessionInv'
  <1>. SUFFICES ASSUME SessionInv, [SessionsNext]_sessionVars PROVE SessionInv'
    OBVIOUS
  <1>1. CASE ToolsExpire
    BY <1>1 DEF ToolsExpire, held, server, SessionInv, SessionTypes, HolderInitializes, MadeForReason,
                AloneIfClean, VisitsFit, At, key
  <1>2. ASSUME NEW k \in Key, Forgets(k) PROVE SessionInv'
    BY <1>2, ForgetsKeeps
  <1>3. ASSUME NEW a \in AuthConfig, ListConfig(a) PROVE SessionInv'
    BY <1>3, ListConfigKeeps
  <1>4. ASSUME NEW r \in Request, Discover(r) \/ invoke(r) PROVE SessionInv'
    BY <1>4, StartKeeps DEF Discover, invoke, Key
  <1>5. ASSUME NEW r \in Request, get_session(r) PROVE SessionInv'
    BY <1>5, TakeKeeps, WaitKeeps, LockKeeps DEF get_session, At, held, server
  <1>6. ASSUME NEW r \in Request, DoubleCheck(r) PROVE SessionInv'
    BY <1>6, TakeKeeps, LockKeeps DEF DoubleCheck, At, held, server
  <1>7. ASSUME NEW r \in Request, _initialize(r) \/ MCPSessionError(r) \/ FetchRefused(r) \/ SendRefused(r)
        PROVE  SessionInv'
    BY <1>7, InitializeKeeps, SessionErrorKeeps, FetchRefusedKeeps, SendRefusedKeeps
  <1>0. ASSUME NEW r \in Request, NEW ran \in 0 .. 1, SendMisread(r, ran) PROVE SessionInv'
    <2>1. ran \in {0, 1}
      OBVIOUS
    <2>. QED BY <1>0, <2>1, SendMisreadKeeps
  <1>8. ASSUME NEW r \in Request, NEW failing, Validate(r, failing) PROVE SessionInv'
    BY <1>8, ValidateKeeps
  <1>9. ASSUME NEW r \in Request, NEW e,
               _fetch_tools_for_user(r, e) \/ Store(r, e) \/ ReadConfig(r, e) \/ Patch(r, e) \/ Send(r, e)
        PROVE  SessionInv'
    BY <1>9, FetchKeeps, StoreKeeps, ReadConfigKeeps, PatchKeeps, SendKeeps
  <1>10. CASE UNCHANGED sessionVars
    BY <1>10 DEF sessionVars, SessionInv, SessionTypes, HolderInitializes, MadeForReason,
                 AloneIfClean, VisitsFit, At, key
  <1>. QED BY <1>0, <1>1, <1>2, <1>3, <1>4, <1>5, <1>6, <1>7, <1>8, <1>9, <1>10 DEF SessionsNext

\* The inductive invariant of Sessions: whoever sets up a session is the only
\* one to (MCPSessionManager.get_session), and an undisturbed listing is on its
\* way to an answer (ToolCatalog.refresh_user).
THEOREM SessionInvariance == SessionsSpec => []SessionInv
  BY SessionsStart, SessionsStep, PTL DEF SessionsSpec

\* However requests, refusals, misread and lost answers are interleaved, a
\* session is set up again only for a refusal, and a tool is run for a call a
\* second time only if the text of an answer was taken for a refusal, never a
\* third time (MCPClientAdapter.invoke with MCPSessionManager).
THEOREM CallsAreSentOnce == SessionsSpec => []OnlyRefusalsRepeat
  <1>1. SessionInv => OnlyRefusalsRepeat
    <2>1. SessionInv => \A k \in Key : made[k] \in Nat /\ refused[k] \in Nat /\ made[k] <= 1 + refused[k]
      BY DEF SessionInv, SessionTypes, MadeForReason
    <2>. QED BY <2>1 DEF SessionInv, VisitsFit, RunsFit, OnlyRefusalsRepeat
  <1>. QED BY <1>1, SessionInvariance, PTL

\* A listing that nothing disturbs brings the tools, if need be after it has
\* healed the config (ToolCatalog._heal_mcp_auth_configs).
THEOREM UndisturbedListingsAnswer == SessionsSpec => []EmptyOnlyIfTroubled
  <1>1. SessionInv => EmptyOnlyIfTroubled
    BY DEF SessionInv, VisitsFit, Hopeful, EmptyOnlyIfTroubled, At, key
  <1>. QED BY <1>1, SessionInvariance, PTL

-----------------------------------------------------------------------------
(* The connections of a user *)

\* What a request holds, by where it is.
Passing == [pc : {"idle", "remote", "rows", "show", "forget"}]
Syncing == [pc : {"active"}, todo : SUBSET Accounts, active : BOOLEAN]
Cleaning == [pc : {"inactive"}, todo : SUBSET Spellings]
Warming == [pc : {"cache"}, names : SUBSET Spellings]
Leaving == [pc : {"find", "off"}, name : Spellings]
Revoking == [pc : {"revoke"}, name : Spellings, account : Accounts]
Standing == Passing \cup Syncing \cup Cleaning \cup Warming \cup Leaving \cup Revoking

ConnectionTypes ==
    /\ remote \subseteq Accounts /\ rows \in [Spellings -> {"none", "on", "off"}]
    /\ call \in [ApiCall -> Standing]

\* What should be connected, with these accounts there.
Expected(there) == IF there = {} THEN {} ELSE {App}

\* A listing v that has run alone, with the rows that are on and the accounts
\* there: what is left to do is what the rows are wrong by.
TrueSoFar(v, on, there) ==
    /\ v.pc = "active" => /\ v.active <=> there # {}
                          /\ v.todo \subseteq there
                          /\ there # {} /\ v.todo = {} => App \in on
    /\ v.pc = "inactive" => v.todo = on \ Expected(there) /\ Expected(there) \subseteq on
    /\ v.pc \in {"rows", "cache", "show"} => on = Expected(there)
    /\ v.pc = "cache" => v.names = on

AloneIsTrue == \A c \in ApiCall : c \in alone => TrueSoFar(call[c], Connected, remote)

ConnectionInv ==
    /\ ConnectionTypes /\ AloneIsTrue
    /\ shown.alone => shown.on = Expected(shown.there)
    /\ settled => cached \subseteq {Connected}

-----------------------------------------------------------------------------
\* What a request holds follows from where it is.
LEMMA StandingByPlace ==
  ASSUME NEW v \in Standing
  PROVE  /\ v.pc = "active" => v \in Syncing
         /\ v.pc = "inactive" => v \in Cleaning
         /\ v.pc = "cache" => v \in Warming
         /\ v.pc \in {"find", "off"} => v \in Leaving
         /\ v.pc = "revoke" => v \in Revoking
  BY DEF Standing, Passing, Syncing, Cleaning, Warming, Leaving, Revoking

LEMMA PassingStands ==
  ASSUME NEW pc \in {"idle", "remote", "rows", "show", "forget"}
  PROVE  [pc |-> pc] \in Standing
  BY DEF Standing, Passing

\* A request c goes on to v; nobody else stays alone.
LEMMA ConnectionStep ==
  ASSUME ConnectionInv, NEW c \in ApiCall, NEW v \in Standing, Goto(c, v),
         alone' \subseteq {c}, c \in alone' => TrueSoFar(v, Connected', remote'),
         remote' \subseteq Accounts, rows' \in [Spellings -> {"none", "on", "off"}],
         settled' => cached' \subseteq {Connected'},
         shown'.alone => shown'.on = Expected(shown'.there)
  PROVE  ConnectionInv'
  <1>1. /\ call' \in [ApiCall -> Standing] /\ call'[c] = v
    BY DEF ConnectionInv, ConnectionTypes, Goto
  <1>2. ConnectionTypes'
    BY <1>1 DEF ConnectionTypes
  <1>3. AloneIsTrue'
    BY <1>1 DEF AloneIsTrue, TrueSoFar, Connected
  <1>. QED BY <1>2, <1>3 DEF ConnectionInv, Expected, Connected

\* A request goes on to v and changes nothing else.
LEMMA QuietStep ==
  ASSUME ConnectionInv, NEW c \in ApiCall, NEW v \in Standing, Goto(c, v),
         alone' \subseteq {c}, c \in alone' => TrueSoFar(v, Connected, remote),
         UNCHANGED connectionVars
  PROVE  ConnectionInv'
  <1>1. UNCHANGED <<remote, rows, cached, shown, settled>> /\ Connected' = Connected
    BY DEF connectionVars, Connected
  <1>2. remote' \subseteq Accounts /\ rows' \in [Spellings -> {"none", "on", "off"}]
    BY <1>1 DEF ConnectionInv, ConnectionTypes
  <1>3. /\ settled' => cached' \subseteq {Connected'}
        /\ shown'.alone => shown'.on = Expected(shown'.there)
    BY <1>1 DEF ConnectionInv, Expected
  <1>. QED BY <1>1, <1>2, <1>3, ConnectionStep

\* Alone is who was alone before a step of its own that did not fail.
LEMMA StaysAlone ==
  ASSUME NEW c, NEW a, Answers(c, a)
  PROVE  alone' \subseteq {c} /\ (c \in alone' => c \in alone /\ a = "ok")
  BY DEF Answers

LEMMA ListRemoteKeeps ==
  ASSUME ConnectionInv, NEW c \in ApiCall, NEW a, ListRemote(c, a)
  PROVE  ConnectionInv'
  <1>1. PICK b \in BOOLEAN : b = (remote # {})
    OBVIOUS
  <1>2. PICK v : v = IF a = "ok" THEN [pc |-> "active", todo |-> remote, active |-> b]
                     ELSE [pc |-> "rows"]
    OBVIOUS
  <1>3. v \in Standing
    <2>1. CASE a = "ok"
      <3>1. [pc |-> "active", todo |-> remote, active |-> b] \in Syncing
        BY Zenon DEF ConnectionInv, ConnectionTypes, Syncing
      <3>. QED BY <1>2, <2>1, <3>1 DEF Standing
    <2>2. CASE a # "ok"
      BY <1>2, <2>2, PassingStands
    <2>. QED BY <2>1, <2>2
  <1>4. Goto(c, v) /\ Answers(c, a) /\ UNCHANGED connectionVars
    BY <1>1, <1>2 DEF ListRemote
  <1>5. a = "ok" => TrueSoFar(v, Connected, remote)
    BY <1>1, <1>2 DEF TrueSoFar
  <1>. QED BY <1>3, <1>4, <1>5, StaysAlone, QuietStep

\* What a written row changes.
LEMMA Upsert ==
  ASSUME ConnectionInv, NEW n \in Spellings, NEW status \in {"on", "off"}, NEW a,
         upsert_connection(n, status, a), cached' = cached
  PROVE  /\ rows' \in [Spellings -> {"none", "on", "off"}]
         /\ settled' => cached' \subseteq {Connected'}
         /\ a = "ok" => Connected' = IF status = "on" THEN Connected \cup {n} ELSE Connected \ {n}
  <1>1. rows \in [Spellings -> {"none", "on", "off"}]
    BY DEF ConnectionInv, ConnectionTypes
  <1>2. rows' = (IF a # "error" THEN [rows EXCEPT ![n] = status] ELSE rows) /\ settled' = (settled /\ rows' = rows)
    BY DEF upsert_connection, TakesEffect
  <1>3. settled' => cached' \subseteq {Connected'}
    BY <1>2 DEF ConnectionInv, Connected
  <1>. QED BY <1>1, <1>2, <1>3 DEF Connected

LEMMA SetActiveKeeps ==
  ASSUME ConnectionInv, NEW c \in ApiCall, NEW a, SetActive(c, a)
  PROVE  ConnectionInv'
  <1>1. /\ call[c].pc = "active" /\ Answers(c, a) /\ upsert_connection(App, "on", a)
        /\ UNCHANGED <<remote, cached, shown>>
    BY DEF SetActive, _normalize_provider
  <1>2. PICK x \in call[c].todo :
            Goto(c, IF a = "ok" THEN [call[c] EXCEPT !.todo = @ \ {x}] ELSE [pc |-> "rows"])
    BY DEF SetActive
  <1>3. call[c] \in Syncing
    BY <1>1, StandingByPlace DEF ConnectionInv, ConnectionTypes
  <1>4. PICK left : left = call[c].todo \ {x}
    OBVIOUS
  <1>5. PICK w : w = [call[c] EXCEPT !.todo = left]
    OBVIOUS
  <1>6. left \in SUBSET Accounts
    BY <1>3, <1>4 DEF Syncing
  <1>7. w \in Syncing /\ w.pc = "active" /\ w.todo = left /\ w.active = call[c].active
    BY <1>1, <1>3, <1>5, <1>6, Zenon DEF Syncing
  <1>8. PICK v : v = IF a = "ok" THEN w ELSE [pc |-> "rows"]
    OBVIOUS
  <1>9. v \in Standing /\ Goto(c, v)
    BY <1>2, <1>4, <1>5, <1>7, <1>8, PassingStands DEF Standing
  <1>10. /\ rows' \in [Spellings -> {"none", "on", "off"}]
         /\ settled' => cached' \subseteq {Connected'}
         /\ a = "ok" => Connected' = Connected \cup {App}
    BY <1>1, Upsert, ConnectionParameters
  <1>11. c \in alone' => TrueSoFar(v, Connected', remote')
    <2>. SUFFICES ASSUME c \in alone' PROVE TrueSoFar(v, Connected', remote')
      OBVIOUS
    <2>1. a = "ok" /\ c \in alone
      BY <1>1, StaysAlone
    <2>2. TrueSoFar(call[c], Connected, remote)
      BY <2>1 DEF ConnectionInv, AloneIsTrue
    <2>. QED BY <1>1, <1>4, <1>7, <1>8, <1>10, <2>1, <2>2 DEF TrueSoFar
  <1>12. /\ remote' \subseteq Accounts /\ alone' \subseteq {c}
         /\ shown'.alone => shown'.on = Expected(shown'.there)
    BY <1>1, StaysAlone DEF ConnectionInv, ConnectionTypes, Expected
  <1>. QED BY <1>9, <1>10, <1>11, <1>12, ConnectionStep

LEMMA ReadLocalKeeps ==
  ASSUME ConnectionInv, NEW c \in ApiCall, NEW a, ReadLocal(c, a)
  PROVE  ConnectionInv'
  <1>1. /\ call[c].pc = "active" /\ call[c].todo = {} /\ Answers(c, a) /\ UNCHANGED connectionVars
    BY DEF ReadLocal
  <1>2. PICK v : v = IF a = "ok"
                     THEN [pc |-> "inactive", todo |-> Connected \ (IF call[c].active THEN {App} ELSE {})]
                     ELSE [pc |-> "rows"]
    OBVIOUS
  <1>3. v \in Standing
    BY <1>2, PassingStands DEF Standing, Cleaning, Connected
  <1>4. Goto(c, v)
    BY <1>2 DEF ReadLocal, get_user_connections
  <1>5. c \in alone' => TrueSoFar(v, Connected, remote)
    <2>. SUFFICES ASSUME c \in alone' PROVE TrueSoFar(v, Connected, remote)
      OBVIOUS
    <2>1. a = "ok" /\ c \in alone
      BY <1>1, StaysAlone
    <2>2. TrueSoFar(call[c], Connected, remote)
      BY <2>1 DEF ConnectionInv, AloneIsTrue
    <2>. QED BY <1>1, <1>2, <2>1, <2>2 DEF TrueSoFar, Expected
  <1>. QED BY <1>1, <1>3, <1>4, <1>5, StaysAlone, QuietStep

LEMMA SetInactiveKeeps ==
  ASSUME ConnectionInv, NEW c \in ApiCall, NEW a, SetInactive(c, a)
  PROVE  ConnectionInv'
  <1>1. call[c].pc = "inactive" /\ Answers(c, a) /\ UNCHANGED <<remote, cached, shown>>
    BY DEF SetInactive
  <1>2. PICK n \in call[c].todo :
            /\ upsert_connection(n, "off", a)
            /\ Goto(c, IF a = "ok" THEN [call[c] EXCEPT !.todo = @ \ {n}] ELSE [pc |-> "rows"])
    BY DEF SetInactive
  <1>3. call[c] \in Cleaning
    BY <1>1, StandingByPlace DEF ConnectionInv, ConnectionTypes
  <1>4. PICK v : v = IF a = "ok" THEN [call[c] EXCEPT !.todo = @ \ {n}] ELSE [pc |-> "rows"]
    OBVIOUS
  <1>5. /\ v \in Standing /\ Goto(c, v) /\ n \in Spellings
        /\ a = "ok" => v.pc = "inactive" /\ v.todo = call[c].todo \ {n}
    BY <1>2, <1>3, <1>4, PassingStands DEF Standing, Cleaning
  <1>6. /\ rows' \in [Spellings -> {"none", "on", "off"}]
        /\ settled' => cached' \subseteq {Connected'}
        /\ a = "ok" => Connected' = Connected \ {n}
    BY <1>1, <1>2, <1>5, Upsert
  <1>7. c \in alone' => TrueSoFar(v, Connected', remote')
    <2>. SUFFICES ASSUME c \in alone' PROVE TrueSoFar(v, Connected', remote')
      OBVIOUS
    <2>1. a = "ok" /\ c \in alone
      BY <1>1, StaysAlone
    <2>2. TrueSoFar(call[c], Connected, remote)
      BY <2>1 DEF ConnectionInv, AloneIsTrue
    <2>. QED BY <1>1, <1>2, <1>5, <1>6, <2>1, <2>2 DEF TrueSoFar
  <1>8. /\ remote' \subseteq Accounts /\ alone' \subseteq {c}
        /\ shown'.alone => shown'.on = Expected(shown'.there)
    BY <1>1, StaysAlone DEF ConnectionInv, ConnectionTypes, Expected
  <1>. QED BY <1>5, <1>6, <1>7, <1>8, ConnectionStep

\* The three steps that write or drop the cached set.
LEMMA CacheStep ==
  ASSUME ConnectionInv, NEW c \in ApiCall, NEW a, Answers(c, a), NEW pc \in {"rows", "show", "idle"},
         Goto(c, [pc |-> pc]), UNCHANGED <<remote, rows, shown>>,
         settled' = (a = "ok" /\ alone = {c}),
         c \in alone /\ a = "ok" => cached' \subseteq {Connected},
         c \in alone /\ pc # "idle" => Connected = Expected(remote)
  PROVE  ConnectionInv'
  <1>1. [pc |-> pc] \in Standing
    BY PassingStands
  <1>2. Connected' = Connected
    BY DEF Connected
  <1>3. settled' => cached' \subseteq {Connected'}
    BY <1>2
  <1>4. c \in alone' => TrueSoFar([pc |-> pc], Connected', remote')
    BY <1>2, StaysAlone DEF TrueSoFar
  <1>5. /\ remote' \subseteq Accounts /\ rows' \in [Spellings -> {"none", "on", "off"}]
        /\ alone' \subseteq {c}
        /\ shown'.alone => shown'.on = Expected(shown'.there)
    BY StaysAlone DEF ConnectionInv, ConnectionTypes, Expected
  <1>. QED BY <1>1, <1>3, <1>4, <1>5, ConnectionStep

LEMMA CacheKeeps ==
  ASSUME ConnectionInv, NEW c \in ApiCall, NEW a, Invalidate(c, a) \/ Warm(c, a) \/ Forget(c, a)
  PROVE  ConnectionInv'
  <1>1. c \in alone => TrueSoFar(call[c], Connected, remote)
    BY DEF ConnectionInv, AloneIsTrue
  <1>2. CASE Invalidate(c, a)
    <2>1. a = "ok" => cached' \subseteq {Connected}
      BY <1>2 DEF Invalidate, invalidate, TakesEffect
    <2>2. c \in alone => Connected = Expected(remote)
      BY <1>1, <1>2 DEF Invalidate, TrueSoFar
    <2>. QED BY <1>2, <2>1, <2>2, CacheStep DEF Invalidate
  <1>3. CASE Warm(c, a)
    <2>1. c \in alone /\ a = "ok" => cached' \subseteq {Connected}
      BY <1>1, <1>3 DEF Warm, set, TakesEffect, TrueSoFar
    <2>2. c \in alone => Connected = Expected(remote)
      BY <1>1, <1>3 DEF Warm, TrueSoFar
    <2>. QED BY <1>3, <2>1, <2>2, CacheStep DEF Warm
  <1>4. CASE Forget(c, a)
    <2>1. a = "ok" => cached' \subseteq {Connected}
      BY <1>4 DEF Forget, invalidate, TakesEffect
    <2>. QED BY <1>4, <2>1, CacheStep DEF Forget, Idle
  <1>. QED BY <1>2, <1>3, <1>4

LEMMA ReadRowsKeeps ==
  ASSUME ConnectionInv, NEW c \in ApiCall, NEW a, ReadRows(c, a)
  PROVE  ConnectionInv'
  <1>1. call[c].pc = "rows" /\ Answers(c, a) /\ UNCHANGED connectionVars
    BY DEF ReadRows
  <1>2. PICK v : v = IF a = "ok" THEN [pc |-> "cache", names |-> Connected] ELSE [pc |-> "show"]
    OBVIOUS
  <1>3. v \in Standing /\ Goto(c, v)
    BY <1>2, PassingStands DEF Standing, Warming, Connected, ReadRows, get_user_connections
  <1>4. c \in alone /\ a = "ok" => TrueSoFar(v, Connected, remote)
    BY <1>1, <1>2 DEF ConnectionInv, AloneIsTrue, TrueSoFar
  <1>. QED BY <1>1, <1>3, <1>4, StaysAlone, QuietStep

LEMMA ShowKeeps ==
  ASSUME ConnectionInv, NEW c \in ApiCall, Show(c)
  PROVE  ConnectionInv'
  <1>1. /\ call[c].pc = "show" /\ Goto(c, [pc |-> "idle"]) /\ alone' = alone \cap {c}
        /\ UNCHANGED <<remote, rows, cached, settled>>
    BY DEF Show, Idle
  <1>2. shown' = [on |-> Connected, there |-> remote, alone |-> c \in alone]
    BY DEF Show, get_user_connections
  <1>3. shown'.on = Connected /\ shown'.there = remote /\ shown'.alone = (c \in alone)
    BY <1>2, Zenon
  <1>4. c \in alone => Connected = Expected(remote)
    BY <1>1 DEF ConnectionInv, AloneIsTrue, TrueSoFar
  <1>5. Connected' = Connected /\ [pc |-> "idle"] \in Standing
    BY <1>1, PassingStands DEF Connected
  <1>6. TrueSoFar([pc |-> "idle"], Connected', remote')
    BY DEF TrueSoFar
  <1>7. /\ remote' \subseteq Accounts /\ rows' \in [Spellings -> {"none", "on", "off"}]
        /\ settled' => cached' \subseteq {Connected'}
        /\ shown'.alone => shown'.on = Expected(shown'.there)
    BY <1>1, <1>3, <1>4, <1>5 DEF ConnectionInv, ConnectionTypes, Expected
  <1>. QED BY <1>1, <1>5, <1>6, <1>7, ConnectionStep

\* A request begins: nothing is known yet.
LEMMA BeginKeeps ==
  ASSUME ConnectionInv, NEW c \in ApiCall, List(c) \/ \E n \in Spellings : Disconnect(c, n)
  PROVE  ConnectionInv'
  <1>1. PICK v \in Standing : /\ Begins(c, v) /\ UNCHANGED connectionVars
                              /\ v.pc \in {"remote", "find"}
    <2>1. CASE List(c)
      BY <2>1, PassingStands DEF List
    <2>2. CASE \E n \in Spellings : Disconnect(c, n)
      <3>1. PICK n \in Spellings : Disconnect(c, n)
        BY <2>2
      <3>2. [pc |-> "find", name |-> n] \in Standing
        BY DEF Standing, Leaving
      <3>. QED BY <3>1, <3>2 DEF Disconnect
    <2>. QED BY <2>1, <2>2
  <1>2. Goto(c, v) /\ alone' \subseteq {c}
    BY <1>1 DEF Begins, Goto
  <1>3. TrueSoFar(v, Connected, remote)
    BY <1>1 DEF TrueSoFar
  <1>. QED BY <1>1, <1>2, <1>3, QuietStep

LEMMA FindAccountKeeps ==
  ASSUME ConnectionInv, NEW c \in ApiCall, NEW a, FindAccount(c, a)
  PROVE  ConnectionInv'
  <1>1. call[c].pc = "find" /\ Answers(c, a) /\ UNCHANGED connectionVars
    BY DEF FindAccount
  <1>2. call[c].name \in Spellings
    BY <1>1, StandingByPlace DEF ConnectionInv, ConnectionTypes, Leaving
  <1>3. PICK v \in Standing : Goto(c, v) /\ v.pc \in {"revoke", "off"}
    <2>1. CASE Goto(c, [pc |-> "off", name |-> call[c].name])
      BY <1>2, <2>1 DEF Standing, Leaving
    <2>2. CASE \E x \in remote : Goto(c, [pc |-> "revoke", name |-> call[c].name, account |-> x])
      <3>1. PICK x \in remote : Goto(c, [pc |-> "revoke", name |-> call[c].name, account |-> x])
        BY <2>2
      <3>2. [pc |-> "revoke", name |-> call[c].name, account |-> x] \in Revoking
        BY <1>2 DEF Revoking, ConnectionInv, ConnectionTypes
      <3>. QED BY <3>1, <3>2 DEF Standing
    <2>. QED BY <2>1, <2>2 DEF FindAccount
  <1>4. TrueSoFar(v, Connected, remote)
    BY <1>3 DEF TrueSoFar
  <1>. QED BY <1>1, <1>3, <1>4, StaysAlone, QuietStep

LEMMA RevokeKeeps ==
  ASSUME ConnectionInv, NEW c \in ApiCall, NEW a, Revoke(c, a)
  PROVE  ConnectionInv'
  <1>1. /\ call[c].pc = "revoke" /\ Answers(c, a) /\ UNCHANGED <<rows, cached, shown, settled>>
        /\ Goto(c, [pc |-> "off", name |-> call[c].name]) /\ remote' \subseteq remote
    BY DEF Revoke, revoke_connection
  <1>2. call[c].name \in Spellings
    BY <1>1, StandingByPlace DEF ConnectionInv, ConnectionTypes, Revoking
  <1>3. PICK v : v = [pc |-> "off", name |-> call[c].name]
    OBVIOUS
  <1>4. v \in Standing /\ v.pc = "off"
    BY <1>2, <1>3 DEF Standing, Leaving
  <1>5. TrueSoFar(v, Connected', remote') /\ Connected' = Connected
    BY <1>1, <1>4 DEF TrueSoFar, Connected
  <1>6. /\ remote' \subseteq Accounts /\ rows' \in [Spellings -> {"none", "on", "off"}]
        /\ alone' \subseteq {c}
        /\ settled' => cached' \subseteq {Connected'}
        /\ shown'.alone => shown'.on = Expected(shown'.there)
    BY <1>1, <1>5, StaysAlone DEF ConnectionInv, ConnectionTypes, Expected
  <1>. QED BY <1>1, <1>3, <1>4, <1>5, <1>6, ConnectionStep

LEMMA SetOffKeeps ==
  ASSUME ConnectionInv, NEW c \in ApiCall, NEW a, SetOff(c, a)
  PROVE  ConnectionInv'
  <1>1. /\ call[c].pc = "off" /\ Answers(c, a) /\ upsert_connection(call[c].name, "off", a)
        /\ UNCHANGED <<remote, cached, shown>>
        /\ Goto(c, IF a = "ok" THEN [pc |-> "forget"] ELSE [pc |-> "idle"])
    BY DEF SetOff, Idle
  <1>2. call[c].name \in Spellings
    BY <1>1, StandingByPlace DEF ConnectionInv, ConnectionTypes, Leaving
  <1>3. PICK v \in Standing : Goto(c, v) /\ v.pc \in {"forget", "idle"}
    BY <1>1, PassingStands
  <1>4. TrueSoFar(v, Connected', remote')
    BY <1>3 DEF TrueSoFar
  <1>5. /\ rows' \in [Spellings -> {"none", "on", "off"}]
        /\ settled' => cached' \subseteq {Connected'}
    BY <1>1, <1>2, Upsert
  <1>6. /\ remote' \subseteq Accounts /\ alone' \subseteq {c}
        /\ shown'.alone => shown'.on = Expected(shown'.there)
    BY <1>1, StaysAlone DEF ConnectionInv, ConnectionTypes, Expected
  <1>. QED BY <1>3, <1>4, <1>5, <1>6, ConnectionStep

LEMMA ConnectKeeps ==
  ASSUME ConnectionInv, NEW x \in Accounts, Connect(x)
  PROVE  ConnectionInv'
  BY DEF Connect, ConnectionInv, ConnectionTypes, AloneIsTrue, Expected, Connected

LEMMA ConnectionsStart == ConnectionsInit => ConnectionInv
  <1>. SUFFICES ASSUME ConnectionsInit PROVE ConnectionInv
    OBVIOUS
  <1>1. ConnectionTypes /\ AloneIsTrue
    BY PassingStands DEF ConnectionsInit, ConnectionTypes, AloneIsTrue, Idle
  <1>2. ~shown.alone /\ cached = {}
    BY DEF ConnectionsInit, NoListing
  <1>. QED BY <1>1, <1>2 DEF ConnectionInv

LEMMA ConnectionsStep ==
  ConnectionInv /\ [ConnectionsNext]_<<connectionVars, call, alone, faults>> => ConnectionInv'
  <1>. SUFFICES ASSUME ConnectionInv, [ConnectionsNext]_<<connectionVars, call, alone, faults>>
                PROVE  ConnectionInv'
    OBVIOUS
  <1>1. ASSUME NEW x \in Accounts, Connect(x) PROVE ConnectionInv'
    BY <1>1, ConnectKeeps
  <1>2. ASSUME NEW c \in ApiCall, List(c) \/ Show(c) \/ \E n \in Spellings : Disconnect(c, n)
        PROVE  ConnectionInv'
    BY <1>2, BeginKeeps, ShowKeeps
  <1>3. ASSUME NEW c \in ApiCall, NEW a,
               ListRemote(c, a) \/ SetActive(c, a) \/ ReadLocal(c, a) \/ SetInactive(c, a)
        PROVE  ConnectionInv'
    BY <1>3, ListRemoteKeeps, SetActiveKeeps, ReadLocalKeeps, SetInactiveKeeps
  <1>4. ASSUME NEW c \in ApiCall, NEW a,
               Invalidate(c, a) \/ ReadRows(c, a) \/ Warm(c, a) \/ Forget(c, a)
        PROVE  ConnectionInv'
    BY <1>4, CacheKeeps, ReadRowsKeeps
  <1>5. ASSUME NEW c \in ApiCall, NEW a, FindAccount(c, a) \/ Revoke(c, a) \/ SetOff(c, a)
        PROVE  ConnectionInv'
    BY <1>5, FindAccountKeeps, RevokeKeeps, SetOffKeeps
  <1>6. CASE UNCHANGED <<connectionVars, call, alone, faults>>
    BY <1>6 DEF connectionVars, ConnectionInv, ConnectionTypes, AloneIsTrue, Expected, Connected
  <1>. QED BY <1>1, <1>2, <1>3, <1>4, <1>5, <1>6 DEF ConnectionsNext

\* The inductive invariant of Connections: what a listing that has run alone
\* still has to do is what the rows are wrong by (IntegrationManager).
THEOREM ConnectionInvariance == ConnectionsSpec => []ConnectionInv
  BY ConnectionsStart, ConnectionsStep, PTL DEF ConnectionsSpec

\* Whatever failed before and however requests were interleaved, a listing that
\* runs alone shows what Composio has, and a cached set that has been put right
\* is what the rows say (IntegrationManager.warm_connection_cache).
THEOREM ListingsAreTrue == ConnectionsSpec => []ListingIsTrue
  <1>1. ConnectionInv => ListingIsTrue
    BY DEF ConnectionInv, ListingIsTrue, Expected
  <1>. QED BY <1>1, ConnectionInvariance, PTL

=============================================================================
