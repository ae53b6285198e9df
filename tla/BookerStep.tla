----------------------------- MODULE BookerStep -----------------------------
(***************************************************************************)
(* The safety layer around one write: the Booker path of                   *)
(* ExecuteService._execute_api_step.  It composes the idempotency records  *)
(* (Idempotency) and the resource lock (ResourceLock), which share the     *)
(* calls, and adds the tool invocation with its retries.                   *)
(*                                                                         *)
(* A call is one execution of a Booker step by one request; calls with the *)
(* same idempotency key are repeats of one step of one plan (a second      *)
(* click, a gate replay, a scheduled retry).  effects counts what the      *)
(* integration really did.  Its answers are external: a request may take   *)
(* effect and still be reported as a failure (a client timeout, an         *)
(* unreadable response).  The MCP client repeats an invocation once by     *)
(* itself (Sessions): such a repeat counts among the retries here, so that *)
(* MaxRetries stands for both.                                             *)
(*                                                                         *)
(* doubt counts, for each key, the events after which the code can no      *)
(* longer know whether the step was booked.                                *)
(***************************************************************************)
EXTENDS Naturals

CONSTANTS Call, Process, IdemKey, LockKey,
          KeyOf, LockOf, ProcOf,
          MaxRetries,       \* RetryPolicy.max_retries (3 in the code)
          MaxPolls, RedisFails, NoOwner,
          ClaimsAge,        \* may a claim reach five minutes while its call runs?
          AnswersGetLost,   \* may an invocation take effect and report failure?
          ProcessesCrash

ASSUME BookerParameters ==
    /\ KeyOf \in [Call -> IdemKey]
    /\ LockOf \in [Call -> LockKey]
    /\ ProcOf \in [Call -> Process]
    /\ NoOwner \notin Call
    /\ MaxPolls \in Nat
    /\ RedisFails \in BOOLEAN
    /\ MaxRetries \in Nat
    /\ ClaimsAge \in BOOLEAN
    /\ AnswersGetLost \in BOOLEAN
    /\ ProcessesCrash \in BOOLEAN

VARIABLES lockValue, heldLocks, lockPc, polls, popped, lapsed, \* ResourceLock
          record, seen, idemPc,                                \* Idempotency
          stage,    \* where each call is in _execute_api_step
          attempts, \* failed attempts of execute_with_retry that were retried
          answer,   \* result of the invocation the step still has to record
          outcome,  \* how the step ends
          effects,  \* bookings the integration made, for each key
          doubt     \* events that left the record of a key unreliable

Lock == INSTANCE ResourceLock
Idem == INSTANCE Idempotency

lockVars == <<lockValue, heldLocks, lockPc, polls, popped, lapsed>>
idemVars == <<record, seen, idemPc>>
stepVars == <<stage, attempts, answer, outcome>>
worldVars == <<effects, doubt>>
vars == <<lockVars, idemVars, stepVars, worldVars>>

Stage == {"idle", "claiming", "locking", "calling", "marking", "failing",
          "unlocking", "done"}
Outcome == {"none", "booked", "cached", "conflict", "lockTimeout",
            "redisError", "failed", "dead"}

TypeOK ==
    /\ Lock!LockTypeOK
    /\ Idem!IdemTypeOK
    /\ stage \in [Call -> Stage]
    /\ attempts \in [Call -> 0 .. MaxRetries]
    /\ answer \in [Call -> {"none", "empty", "full"}]
    /\ outcome \in [Call -> Outcome]
    /\ effects \in [IdemKey -> Nat]
    /\ doubt \in [IdemKey -> Nat]

Init ==
    /\ Lock!LockInit
    /\ Idem!IdemInit
    /\ stage = [c \in Call |-> "idle"]
    /\ attempts = [c \in Call |-> 0]
    /\ answer = [c \in Call |-> "none"]
    /\ outcome = [c \in Call |-> "none"]
    /\ effects = [k \in IdemKey |-> 0]
    /\ doubt = [k \in IdemKey |-> 0]

In(c, s) == stage[c] = s
Live(c) == stage[c] \notin {"idle", "done"}
Move(c, s) == stage' = [stage EXCEPT ![c] = s]
Finish(c, o) == /\ Move(c, "done")
                /\ outcome' = [outcome EXCEPT ![c] = o]

Doubt(k) == doubt' = [doubt EXCEPT ![k] = @ + 1]
DoubtIf(k, unsure) == doubt' = [doubt EXCEPT ![k] = IF unsure THEN @ + 1 ELSE @]
Book(k) == effects' = [effects EXCEPT ![k] = @ + 1]

-----------------------------------------------------------------------------
(* check_and_claim *)

\* Mutant: the result of a SUCCEEDED record is not looked at.
CheckIgnoringCache(c) ==
    /\ In(c, "idle")
    /\ Idem!ReadRecord(c)
    /\ \/ /\ idemPc'[c] = "conflict"
          /\ Finish(c, "conflict")
       \/ /\ idemPc'[c] = "cached"
          /\ Move(c, "locking") /\ UNCHANGED outcome
       \/ /\ idemPc'[c] \in {"claiming", "deleting"}
          /\ Move(c, "claiming") /\ UNCHANGED outcome
    /\ UNCHANGED <<lockVars, attempts, answer, worldVars>>

\* A cached result that is not empty ends the step.  An empty one counts as
\* no result: the step goes on as if it had claimed the key.
Check(c) ==
    LET r == record[KeyOf[c]] IN
    /\ In(c, "idle")
    /\ Idem!ReadRecord(c)
    /\ \/ /\ idemPc'[c] = "cached" /\ r.result = "full"
          /\ Finish(c, "cached")
       \/ /\ idemPc'[c] = "cached" /\ r.result # "full"
          /\ Move(c, "locking") /\ UNCHANGED outcome
       \/ /\ idemPc'[c] = "conflict"
          /\ Finish(c, "conflict")
       \/ /\ idemPc'[c] \in {"claiming", "deleting"}
          /\ Move(c, "claiming") /\ UNCHANGED outcome
    /\ DoubtIf(KeyOf[c], idemPc'[c] = "cached" /\ r.result # "full")
    /\ UNCHANGED <<lockVars, attempts, answer, effects>>

\* Deleting or overwriting a record that is no longer the one that was read
\* is the race check_and_claim leaves open.
ForgetFailure(c) ==
    /\ In(c, "claiming")
    /\ Idem!DeleteFailed(c)
    /\ DoubtIf(KeyOf[c], record[KeyOf[c]] # seen[c])
    /\ UNCHANGED <<lockVars, stepVars, effects>>

Claim(c) ==
    LET r == record[KeyOf[c]]
        expected == IF seen[c].state = "FAILED" THEN Idem!Absent ELSE seen[c]
    IN
    /\ In(c, "claiming")
    /\ Idem!SetInFlight(c)
    /\ Move(c, "locking")
    /\ DoubtIf(KeyOf[c], r # expected \/ seen[c].state = "IN_FLIGHT")
    /\ UNCHANGED <<lockVars, attempts, answer, outcome, effects>>

\* A Redis command of check_and_claim raises before anything was claimed.
ClaimError(c) ==
    /\ RedisFails
    /\ In(c, "claiming")
    /\ Finish(c, "redisError")
    /\ UNCHANGED <<lockVars, idemVars, attempts, answer, worldVars>>

-----------------------------------------------------------------------------
(* acquire, outside the try block: its exceptions mark nothing *)

\* Mutant: a lock timeout is swallowed and the step goes on.
AcquireIgnoringTimeout(c) ==
    /\ In(c, "locking")
    /\ \/ /\ \/ Lock!BeginAcquire(c)
             \/ Lock!PollGranted(c)
             \/ Lock!PollRefused(c)
          /\ UNCHANGED stepVars
       \/ /\ Lock!RememberOwner(c) \/ Lock!GiveUp(c)
          /\ Move(c, "calling")
          /\ UNCHANGED <<attempts, answer, outcome>>
    /\ UNCHANGED <<idemVars, worldVars>>

Acquire(c) ==
    /\ In(c, "locking")
    /\ \/ /\ \/ Lock!BeginAcquire(c)
             \/ Lock!PollGranted(c)
             \/ Lock!PollRefused(c)
          /\ UNCHANGED stepVars
       \/ /\ Lock!RememberOwner(c)
          /\ Move(c, "calling")
          /\ UNCHANGED <<attempts, answer, outcome>>
       \/ /\ Lock!GiveUp(c)
          /\ Finish(c, "lockTimeout")
          /\ UNCHANGED <<attempts, answer>>
       \/ /\ Lock!RedisError(c)
          /\ Finish(c, "redisError")
          /\ UNCHANGED <<attempts, answer>>
    /\ UNCHANGED <<idemVars, worldVars>>

-----------------------------------------------------------------------------
(* decrypt, then execute_with_retry around the tool invocation *)

\* The credential cannot be decrypted.
DecryptFails(c) ==
    /\ In(c, "calling")
    /\ attempts[c] = 0
    /\ Move(c, "failing")
    /\ UNCHANGED <<lockVars, idemVars, attempts, answer, outcome, worldVars>>

InvokeSucceeds(c, result) ==
    /\ In(c, "calling")
    /\ Book(KeyOf[c])
    /\ answer' = [answer EXCEPT ![c] = result]
    /\ Move(c, "marking")
    /\ UNCHANGED <<lockVars, idemVars, attempts, outcome, doubt>>

\* Mutant: the counter starts over when the retries are used up.
AttemptFailedRestarting(c, retryable) ==
    IF retryable
    THEN /\ attempts' = [attempts EXCEPT ![c] = (@ + 1) % (MaxRetries + 1)]
         /\ UNCHANGED stage
    ELSE /\ Move(c, "failing")
         /\ UNCHANGED attempts

\* An attempt is reported as failed.  A retryable error (503, 504, timeout,
\* connection reset) is tried again while attempts are left.
AttemptFailed(c, retryable) ==
    IF retryable /\ attempts[c] < MaxRetries
    THEN /\ attempts' = [attempts EXCEPT ![c] = @ + 1]
         /\ UNCHANGED stage
    ELSE /\ Move(c, "failing")
         /\ UNCHANGED attempts

InvokeRefused(c, retryable) ==
    /\ In(c, "calling")
    /\ AttemptFailed(c, retryable)
    /\ UNCHANGED <<lockVars, idemVars, answer, outcome, worldVars>>

InvokeLost(c, retryable) ==
    /\ AnswersGetLost
    /\ In(c, "calling")
    /\ Book(KeyOf[c])
    /\ Doubt(KeyOf[c])
    /\ AttemptFailed(c, retryable)
    /\ UNCHANGED <<lockVars, idemVars, answer, outcome>>

-----------------------------------------------------------------------------
(* mark_succeeded, the except clause, and the finally clause *)

MarkSucceeded(c) ==
    /\ In(c, "marking")
    /\ Idem!MarkSucceeded(c, answer[c])
    /\ Move(c, "unlocking")
    /\ outcome' = [outcome EXCEPT ![c] = "booked"]
    /\ UNCHANGED <<lockVars, attempts, answer, worldVars>>

\* mark_succeeded is inside the try block: when it raises, a step that was
\* booked is treated as failed.
MarkSucceededError(c) ==
    /\ RedisFails
    /\ In(c, "marking")
    /\ Move(c, "failing")
    /\ Doubt(KeyOf[c])
    /\ UNCHANGED <<lockVars, idemVars, attempts, answer, outcome, effects>>

\* The except clause: mark_failed, then raise again.
MarkFailed(c) ==
    /\ In(c, "failing")
    /\ Idem!MarkFailed(c)
    /\ Move(c, "unlocking")
    /\ outcome' = [outcome EXCEPT ![c] = "failed"]
    /\ UNCHANGED <<lockVars, attempts, answer, worldVars>>

MarkFailedError(c) ==
    /\ RedisFails
    /\ In(c, "failing")
    /\ Move(c, "unlocking")
    /\ outcome' = [outcome EXCEPT ![c] = "redisError"]
    /\ UNCHANGED <<lockVars, idemVars, attempts, answer, worldVars>>

\* The step is over once release returns; if release raises, so does the
\* step, whatever it has booked.
Unlock(c) ==
    /\ In(c, "unlocking")
    /\ \/ Lock!BeginRelease(c)
       \/ Lock!CompareOwner(c)
       \/ Lock!DeleteLock(c)
       \/ Lock!RedisError(c)
    /\ stage' = [stage EXCEPT ![c] = IF lockPc'[c] \in {"released", "error"}
                                     THEN "done" ELSE @]
    /\ outcome' = [outcome EXCEPT ![c] = IF lockPc'[c] = "error"
                                         THEN "redisError" ELSE @]
    /\ UNCHANGED <<idemVars, attempts, answer, worldVars>>

-----------------------------------------------------------------------------
(* The environment *)

\* A process dies with every call under way in it.  A booking that was made
\* and not yet recorded leaves its record unreliable.
CrashProcess(p) ==
    LET dying == {c \in Call : ProcOf[c] = p /\ Live(c)} IN
    /\ ProcessesCrash
    /\ dying # {}
    /\ IF \E c \in dying : Lock!Running(c) THEN Lock!Crash(p) ELSE UNCHANGED lockVars
    /\ stage' = [c \in Call |-> IF c \in dying THEN "done" ELSE stage[c]]
    /\ outcome' = [c \in Call |-> IF c \in dying THEN "dead" ELSE outcome[c]]
    /\ UNCHANGED <<idemVars, attempts, answer, worldVars>>

AgeClaim(k) ==
    /\ ClaimsAge \/ \A c \in Call : KeyOf[c] = k => ~Live(c)
    /\ Idem!AgeClaim(k)
    /\ UNCHANGED <<lockVars, stepVars, worldVars>>

\* The 24 hours are longer than any call can take.
ExpireRecord(k) ==
    /\ \A c \in Call : KeyOf[c] = k => ~Live(c)
    /\ Idem!ExpireRecord(k)
    /\ Doubt(k)
    /\ UNCHANGED <<lockVars, stepVars, effects>>

ExpireLock(k) ==
    /\ Lock!ExpireLock(k)
    /\ UNCHANGED <<idemVars, stepVars, worldVars>>

-----------------------------------------------------------------------------
Invoke(c) ==
    \/ \E result \in {"empty", "full"} : InvokeSucceeds(c, result)
    \/ \E retryable \in BOOLEAN : InvokeRefused(c, retryable)
    \/ \E retryable \in BOOLEAN : InvokeLost(c, retryable)

Step(c) ==
    \/ Check(c)
    \/ ForgetFailure(c)
    \/ Claim(c)
    \/ ClaimError(c)
    \/ Acquire(c)
    \/ DecryptFails(c)
    \/ Invoke(c)
    \/ MarkSucceeded(c)
    \/ MarkSucceededError(c)
    \/ MarkFailed(c)
    \/ MarkFailedError(c)
    \/ Unlock(c)

Next ==
    \/ \E c \in Call : Step(c)
    \/ \E p \in Process : CrashProcess(p)
    \/ \E k \in IdemKey : AgeClaim(k) \/ ExpireRecord(k)
    \/ \E k \in LockKey : ExpireLock(k)

\* Every started call goes on: its coroutine is on the event loop, and every
\* await in it returns or raises (client timeouts).  Redis expires keys.
Fairness ==
    /\ \A c \in Call : WF_vars(Live(c) /\ Step(c))
    /\ \A k \in LockKey : WF_vars(ExpireLock(k))

Spec == Init /\ [][Next]_vars
FairSpec == Spec /\ Fairness

-----------------------------------------------------------------------------
\* The integration is never asked for more bookings of one step than one for
\* the step itself and one for each event that made its record unreliable:
\* a claim that raced or took over another, an empty result, a lost answer,
\* a mark that failed, an expired record.  In particular calls that follow
\* one another without such an event book at most once (idempotency of the
\* Booker path, execute_service.py:523-596).
BookingsAccountedFor == \A k \in IdemKey : effects[k] <= 1 + doubt[k]

\* A step that reports success was really booked, by itself or by the call
\* whose cached result it returns (execute_service.py:534-536, 587-591).
NoSuccessWithoutBooking ==
    \A c \in Call : outcome[c] \in {"booked", "cached"} => effects[KeyOf[c]] > 0

\* A step that failed after its claim, by itself or because of the tool,
\* leaves no claim of its own behind, so that it can be repeated at once
\* (execute_service.py:593-596).
FailureReleasesClaim ==
    \A c \in Call :
        /\ In(c, "done")
        /\ outcome[c] = "failed"
        => ~(record[KeyOf[c]].state = "IN_FLIGHT" /\ record[KeyOf[c]].owner = c)

Writing(c) == stage[c] \in {"calling", "marking", "failing"}

\* Two writes to one resource are never under way at the same time, over
\* retries, marks, failures and deaths, unless the lock's TTL ran out under
\* one of the calls that are inside (execute_service.py:538-599).
OneWriterPerResource ==
    \A c, d \in Call :
        /\ c # d
        /\ LockOf[c] = LockOf[d]
        /\ Writing(c)
        /\ Writing(d)
        => LockOf[c] \in lapsed

\* Every call that starts ends: it never waits for ever for a lock or for
\* another call (acquire's time budget, the bounded retries).
EveryCallEnds == \A c \in Call : Live(c) ~> In(c, "done")
=============================================================================
