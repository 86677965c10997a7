-------------------------------- MODULE Mutex --------------------------------
(***************************************************************************)
(* sync.Mutex (sync/mutex.go): a lock built from one word of state, changed *)
(* by compare-and-swap, and a semaphore on which goroutines sleep.         *)
(*                                                                         *)
(* Every atomic operation on the word and every semaphore operation is a   *)
(* step; the reads that feed a compare-and-swap are steps of their own, so *)
(* the value tested may be stale.  The semaphore is the one that           *)
(* SemaRoot.tla shows sync's runtime support to provide.                   *)
(***************************************************************************)
EXTENDS Counting

CONSTANTS
  Lockers,      \* the goroutines that share the mutex
  ActiveSpin    \* active_spin: how many rounds canSpin allows (lock_futex.go)

ASSUME MutexAssumption ==
  /\ IsFiniteSet(Lockers)
  /\ ActiveSpin \in Nat

VARIABLES
  state,   \* m.state: the bits mutexLocked, mutexWoken and the waiter count
  sema,    \* m.sema
  at,      \* where each goroutine is in Lock or Unlock
  old,     \* local old of the loops of Lock and Unlock
  awoke,   \* local awoke of Lock
  iter     \* local iter of Lock

mutexVars == <<state, sema, at, old, awoke, iter>>

Word == [locked : BOOLEAN, woken : BOOLEAN, waiters : Nat]

Zero == [locked |-> FALSE, woken |-> FALSE, waiters |-> 0]

\* "held" is the caller's critical section; "panic" is a Lock that found the
\* word inconsistent (mutex.go:74).
LockPoints   == {"load", "spin", "cas", "sleep"}
UnlockPoints == {"unlock", "reload", "release"}
MutexPoints  == {"idle", "held", "panic"} \cup LockPoints \cup UnlockPoints

MutexTypeOK ==
  /\ state \in Word
  /\ sema \in Nat
  /\ at \in [Lockers -> MutexPoints]
  /\ old \in [Lockers -> Word]
  /\ awoke \in [Lockers -> BOOLEAN]
  /\ iter \in [Lockers -> 0..ActiveSpin]

MutexGoto(g, p) == at' = [at EXCEPT ![g] = p]

MutexInit ==
  /\ state = Zero
  /\ sema = 0
  /\ at = [g \in Lockers |-> "idle"]
  /\ old = [g \in Lockers |-> Zero]
  /\ awoke = [g \in Lockers |-> FALSE]
  /\ iter = [g \in Lockers |-> 0]
-----------------------------------------------------------------------------
(* Lock *)

\* The fast path: the mutex is grabbed when the whole word is zero.
LockFast(g) ==
  /\ at[g] = "idle"
  /\ IF state = Zero
     THEN state' = [Zero EXCEPT !.locked = TRUE] /\ MutexGoto(g, "held")
     ELSE UNCHANGED state /\ MutexGoto(g, "load")
  /\ UNCHANGED <<sema, old, awoke, iter>>

\* The head of the loop reads the word.  canSpin depends on the scheduler's
\* load and, for sure, on the number of rounds: here it is free up to that.
LockLoad(g) ==
  /\ at[g] = "load"
  /\ old' = [old EXCEPT ![g] = state]
  /\ \/ MutexGoto(g, "cas")
     \/ state.locked /\ iter[g] < ActiveSpin /\ MutexGoto(g, "spin")
  /\ UNCHANGED <<state, sema, awoke, iter>>

\* One round of spinning: try to set mutexWoken, so that Unlock wakes nobody.
LockSpin(g) ==
  /\ at[g] = "spin"
  /\ IF ~awoke[g] /\ ~old[g].woken /\ old[g].waiters # 0 /\ state = old[g]
     THEN /\ state' = [state EXCEPT !.woken = TRUE]
          /\ awoke' = [awoke EXCEPT ![g] = TRUE]
     ELSE UNCHANGED <<state, awoke>>
  /\ iter' = [iter EXCEPT ![g] = @ + 1]
  /\ MutexGoto(g, "load")
  /\ UNCHANGED <<sema, old>>

\* Faulty variant: the word keeps mutexWoken though its owner is done with it.
LockWordStaysWoken(o, woke) ==
  [locked |-> TRUE, woken |-> o.woken,
   waiters |-> IF o.locked THEN o.waiters + 1 ELSE o.waiters]

\* The word Lock wants to install: locked, or locked with one more waiter.
LockWord(o, woke) ==
  [locked  |-> TRUE,
   woken   |-> o.woken /\ ~woke,
   waiters |-> IF o.locked THEN o.waiters + 1 ELSE o.waiters]

\* Faulty variant: a store in place of the compare-and-swap.
LockStore(g) ==
  /\ at[g] = "cas"
  /\ state' = LockWord(old[g], awoke[g])
  /\ MutexGoto(g, IF old[g].locked THEN "sleep" ELSE "held")
  /\ old' = [old EXCEPT ![g] = Zero]
  /\ awoke' = [awoke EXCEPT ![g] = FALSE]
  /\ iter' = [iter EXCEPT ![g] = 0]
  /\ UNCHANGED sema

\* The compare-and-swap: it takes the lock, or queues the caller to sleep, or
\* fails and the loop starts again.  An awoken goroutine panics when it reads a
\* word without mutexWoken.
LockCAS(g) ==
  /\ at[g] = "cas"
  /\ IF awoke[g] /\ ~old[g].woken
     THEN MutexGoto(g, "panic") /\ UNCHANGED <<state, awoke, iter>>
     ELSE IF state # old[g]
     THEN MutexGoto(g, "load") /\ UNCHANGED <<state, awoke, iter>>
     ELSE /\ state' = LockWord(old[g], awoke[g])
          /\ MutexGoto(g, IF old[g].locked THEN "sleep" ELSE "held")
          /\ awoke' = [awoke EXCEPT ![g] = FALSE]
          /\ iter' = [iter EXCEPT ![g] = 0]
  /\ old' = [old EXCEPT ![g] = Zero]
  /\ UNCHANGED sema

\* runtime_Semacquire(&m.sema), and back to the loop as the awoken goroutine.
LockSemacquire(g) ==
  /\ at[g] = "sleep"
  /\ sema > 0
  /\ sema' = sema - 1
  /\ awoke' = [awoke EXCEPT ![g] = TRUE]
  /\ MutexGoto(g, "load")
  /\ UNCHANGED <<state, old, iter>>
-----------------------------------------------------------------------------
(* Unlock *)

\* atomic.AddInt32(&m.state, -mutexLocked) by the goroutine that may unlock.
UnlockAdd(g) ==
  /\ at[g] = "held"
  /\ state' = [state EXCEPT !.locked = FALSE]
  /\ old' = [old EXCEPT ![g] = state']
  /\ MutexGoto(g, "unlock")
  /\ UNCHANGED <<sema, awoke, iter>>

\* Faulty variant: the last waiter is not seen.
NobodyToWakeOffByOne(o) == o.waiters <= 1 \/ o.locked \/ o.woken

\* Nobody waits, or somebody is awake or has the lock already.
NobodyToWake(o) == o.waiters = 0 \/ o.locked \/ o.woken

\* Faulty variants of the word Unlock installs: without mutexWoken, or without
\* taking the woken goroutine off the count.
WakeWordSilent(o) == [o EXCEPT !.waiters = @ - 1]

WakeWordUncounted(o) == [o EXCEPT !.woken = TRUE]

WakeWord(o) == [o EXCEPT !.waiters = @ - 1, !.woken = TRUE]

\* A failed swap means that the word changed since it was read.  Whoever
\* changed it will look after the sleepers: the retry saves them time only.
UnlockLoop(g) ==
  /\ at[g] = "unlock"
  /\ \/ /\ NobodyToWake(old[g])
        /\ MutexGoto(g, "idle")
        /\ old' = [old EXCEPT ![g] = Zero]
        /\ UNCHANGED state
     \/ /\ ~NobodyToWake(old[g])
        /\ state = old[g]
        /\ state' = WakeWord(old[g])
        /\ MutexGoto(g, "release")
        /\ old' = [old EXCEPT ![g] = Zero]
     \/ /\ ~NobodyToWake(old[g])
        /\ state # old[g]
        /\ MutexGoto(g, "reload")
        /\ UNCHANGED <<state, old>>
  /\ UNCHANGED <<sema, awoke, iter>>

UnlockReload(g) ==
  /\ at[g] = "reload"
  /\ old' = [old EXCEPT ![g] = state]
  /\ MutexGoto(g, "unlock")
  /\ UNCHANGED <<state, sema, awoke, iter>>

\* runtime_Semrelease(&m.sema)
UnlockRelease(g) ==
  /\ at[g] = "release"
  /\ sema' = sema + 1
  /\ MutexGoto(g, "idle")
  /\ UNCHANGED <<state, old, awoke, iter>>

\* "It is allowed for one goroutine to lock a Mutex and then arrange for
\* another goroutine to unlock it."  (mutex.go:96-98)
MutexHandOff(g, h) ==
  /\ at[g] = "held" /\ at[h] = "idle"
  /\ at' = [at EXCEPT ![g] = "idle", ![h] = "held"]
  /\ UNCHANGED <<state, sema, old, awoke, iter>>
-----------------------------------------------------------------------------
Lock(g) == LockLoad(g) \/ LockSpin(g) \/ LockCAS(g)

Unlock(g) == UnlockLoop(g) \/ UnlockReload(g) \/ UnlockRelease(g)

MutexNext ==
  \E g \in Lockers :
    \/ LockFast(g) \/ Lock(g) \/ LockSemacquire(g)
    \/ UnlockAdd(g) \/ Unlock(g)
    \/ \E h \in Lockers : MutexHandOff(g, h)

MutexSpec == MutexInit /\ [][MutexNext]_mutexVars

\* A goroutine inside Lock or Unlock keeps running, a holder unlocks in the
\* end, and a permit of the semaphore goes to some sleeper, not to a chosen one.
MutexFairness ==
  /\ \A g \in Lockers : WF_mutexVars(Lock(g)) /\ WF_mutexVars(Unlock(g))
  /\ WF_mutexVars(\E g \in Lockers : UnlockAdd(g))
  /\ WF_mutexVars(\E g \in Lockers : LockSemacquire(g))

MutexFairSpec == MutexSpec /\ MutexFairness
-----------------------------------------------------------------------------
(* Properties *)

\* One goroutine at a time is between Lock and Unlock, whatever the races on
\* the word, also when the right to unlock changes hands.
OneHolder ==
  \A g, h \in Lockers : at[g] = "held" /\ at[h] = "held" => g = h

\* Who carries the wakeup that mutexWoken stands for: an Unlock about to
\* release the semaphore, a permit of it, or a goroutine that is awake.
WokenTokens == Count(at, {"release"}) + sema + Count(awoke, {TRUE})

\* mutexWoken is set exactly while one wakeup is under way.  Hence no second
\* Unlock wakes another goroutine meanwhile, the semaphore never holds two
\* permits, and Lock never panics with "inconsistent mutex state".
OneWakeup == WokenTokens = IF state.woken THEN 1 ELSE 0

NoInconsistentState == \A g \in Lockers : at[g] # "panic"

\* The waiter count is the number of goroutines gone to sleep for which no
\* wakeup has been sent yet, so Unlock never wakes somebody who is not there
\* and never returns leaving a sleeper uncounted.
WaitersCounted ==
  Count(at, {"sleep"}) = state.waiters + sema + Count(at, {"release"})

\* No lost wakeup: when the lock is free and somebody sleeps, somebody else is
\* on the way to take the lock or to wake the sleeper.
NoLostWakeup ==
  Count(at, {"sleep"}) > 0 /\ ~state.locked
    => \/ sema > 0
       \/ \E g \in Lockers : at[g] \in UnlockPoints \cup {"load", "spin", "cas"}

\* The invariant the proofs use: the parts above, where a goroutine may be when
\* it is awake, and who is going to wake a sleeper of a free mutex.
LockedIffHeld == state.locked <=> \E g \in Lockers : at[g] = "held"

AwakeInLoop ==
  \A g \in Lockers :
    /\ awoke[g] => at[g] \in {"load", "spin", "cas"}
    /\ awoke[g] /\ at[g] = "cas" => old[g].woken
    /\ at[g] = "spin" => iter[g] < ActiveSpin

Waking(g) == at[g] = "reload" \/ (at[g] = "unlock" /\ ~NobodyToWake(old[g]))

WakerPresent ==
  state.waiters > 0 /\ ~state.locked /\ ~state.woken
    => \E g \in Lockers : Waking(g)

MutexInv ==
  /\ MutexTypeOK
  /\ OneHolder /\ LockedIffHeld
  /\ AwakeInLoop /\ OneWakeup /\ NoInconsistentState
  /\ WaitersCounted /\ WakerPresent

\* Once no new Lock call starts, every Lock call under way returns.  (With new
\* calls coming in for ever a sleeper may starve: Unlock does not hand over.)
PendingLocksReturn ==
  <>[][\A g \in Lockers : ~LockFast(g)]_mutexVars
    => \A g \in Lockers : at[g] \in LockPoints ~> at[g] = "held"

\* The refinement: the phases of the abstract lock.
phase ==
  [g \in Lockers |->
    IF at[g] = "held" THEN "in"
    ELSE IF at[g] \in LockPoints THEN "locking" ELSE "out"]

Abstract == INSTANCE AbstractLock WITH Goroutines <- Lockers

\* sync.Mutex implements the abstract lock.
ImplementsLock == Abstract!Spec

\* Under the scheduler's fairness also its progress: a free mutex with callers
\* waiting is taken by one of them.
ImplementsLockProgress == Abstract!LiveSpec
=============================================================================
