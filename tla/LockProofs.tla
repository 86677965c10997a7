------------------------------ MODULE LockProofs ------------------------------
(***************************************************************************)
(* sync.Mutex for every finite set of goroutines and every spinning bound: *)
(* MutexInv is inductive, and it implies mutual exclusion, the accounting  *)
(* of waiters and wakeups, and the absence of lost wakeups.                *)
(*                                                                         *)
(* sync.RWMutex for every finite set of goroutines smaller than            *)
(* rwmutexMaxReaders: IInv is inductive, readers and writers exclude each  *)
(* other, and legal use never panics.                                      *)
(*                                                                         *)
(* The semaphores they sleep on (runtime/sema.go) for every finite set of  *)
(* goroutines, every set of semaphores that share a root and every bound:  *)
(* SemaInv is inductive, and the slow path implements the abstract         *)
(* semaphores.                                                             *)
(***************************************************************************)
EXTENDS Mutex, RWMutex, SemaRoot, CommonTheorems, SequenceTheorems,
        WellFoundedInduction, TLAPS

(***************************************************************************)
(* sync.Mutex                                                              *)
(***************************************************************************)

\* What the counts of the invariant are when one goroutine moves to p.
LEMMA PcCounts ==
  ASSUME MutexTypeOK, NEW g \in Lockers, NEW p, at' = [at EXCEPT ![g] = p]
  PROVE  /\ Count(at, {"sleep"}) \in Nat /\ Count(at, {"release"}) \in Nat
         /\ Count(at', {"sleep"}) =
              Count(at, {"sleep"}) + (IF p = "sleep" THEN 1 ELSE 0)
                                   - (IF at[g] = "sleep" THEN 1 ELSE 0)
         /\ Count(at', {"release"}) =
              Count(at, {"release"}) + (IF p = "release" THEN 1 ELSE 0)
                                     - (IF at[g] = "release" THEN 1 ELSE 0)
<1>1. IsFiniteSet(Lockers) /\ at \in [Lockers -> MutexPoints]
  BY MutexAssumption DEF MutexTypeOK
<1>2. Count(at, {"sleep"}) \in Nat /\ Count(at, {"release"}) \in Nat
  BY <1>1, CountType
<1>3. Count(at', {"sleep"}) =
        Count(at, {"sleep"}) + Weight(p, {"sleep"})
                             - Weight(at[g], {"sleep"})
  BY <1>1, CountMove, Zenon
<1>4. Count(at', {"release"}) =
        Count(at, {"release"}) + Weight(p, {"release"})
                               - Weight(at[g], {"release"})
  BY <1>1, CountMove, Zenon
<1>5. QED
  BY <1>2, <1>3, <1>4, SMT DEF Weight

\* The same for the goroutines that are awake.
LEMMA AwokeCounts ==
  ASSUME MutexTypeOK, NEW g \in Lockers, NEW b \in BOOLEAN,
         awoke' = [awoke EXCEPT ![g] = b]
  PROVE  /\ Count(awoke, {TRUE}) \in Nat
         /\ Count(awoke', {TRUE}) =
              Count(awoke, {TRUE}) + (IF b THEN 1 ELSE 0)
                                   - (IF awoke[g] THEN 1 ELSE 0)
<1>1. IsFiniteSet(Lockers) /\ awoke \in [Lockers -> BOOLEAN]
  BY MutexAssumption DEF MutexTypeOK
<1>2. Count(awoke, {TRUE}) \in Nat
  BY <1>1, CountType
<1>3. Count(awoke', {TRUE}) =
        Count(awoke, {TRUE}) + Weight(b, {TRUE})
                             - Weight(awoke[g], {TRUE})
  BY <1>1, CountMove, Zenon
<1>4. Weight(b, {TRUE}) = IF b THEN 1 ELSE 0
  BY Zenon DEF Weight
<1>5. Weight(awoke[g], {TRUE}) = IF awoke[g] THEN 1 ELSE 0
  BY <1>1, Zenon DEF Weight
<1>6. QED
  BY <1>2, <1>3, <1>4, <1>5

\* Somebody who is awake is the one wakeup that mutexWoken announces.
LEMMA AwakeMeansWoken ==
  ASSUME MutexTypeOK, OneWakeup, NEW g \in Lockers, awoke[g]
  PROVE  /\ state.woken /\ sema = 0
         /\ Count(awoke, {TRUE}) = 1 /\ Count(at, {"release"}) = 0
<1>1. IsFiniteSet(Lockers) /\ awoke \in [Lockers -> BOOLEAN]
      /\ at \in [Lockers -> MutexPoints] /\ sema \in Nat
  BY MutexAssumption DEF MutexTypeOK
<1>2. Count(awoke, {TRUE}) \in Nat /\ Count(awoke, {TRUE}) > 0
  <2>1. awoke[g] \in {TRUE}
    BY <1>1
  <2>2. QED
    BY <1>1, <2>1, CountPositive
<1>3. Count(at, {"release"}) \in Nat
  BY <1>1, CountType
<1>4. state.woken \in BOOLEAN
  BY DEF MutexTypeOK, Word
<1>5. QED
  BY <1>1, <1>2, <1>3, <1>4 DEF OneWakeup, WokenTokens

\* The words that the compare-and-swaps of Lock and of Unlock install.
LEMMA LockWords ==
  ASSUME NEW o \in Word, NEW b \in BOOLEAN
  PROVE  LockWord(o, b) \in Word
<1>1. /\ o.woken \in BOOLEAN /\ o.locked \in BOOLEAN /\ o.waiters \in Nat
  BY DEF Word
<1>2. QED
  BY <1>1 DEF LockWord, Word

LEMMA WakeWords ==
  ASSUME NEW o \in Word, ~NobodyToWake(o)
  PROVE  /\ WakeWord(o) \in Word /\ WakeWord(o).woken = TRUE
         /\ WakeWord(o).locked = o.locked
         /\ WakeWord(o).waiters = o.waiters - 1
         /\ o.waiters \in Nat \ {0} /\ o.woken = FALSE /\ o.locked = FALSE
<1>1. /\ o.woken = FALSE /\ o.locked = FALSE
      /\ o.waiters \in Nat \ {0} /\ o.waiters - 1 \in Nat
  BY DEF Word, NobodyToWake
<1>2. /\ WakeWord(o).woken = TRUE /\ WakeWord(o).locked = o.locked
      /\ WakeWord(o).waiters = o.waiters - 1
  BY DEF Word, WakeWord
<1>3. WakeWord(o) \in Word
  BY <1>1 DEF Word, WakeWord
<1>4. QED
  BY <1>1, <1>2, <1>3

\* MutexInv holds initially.
LEMMA MutexInitInv == MutexInit => MutexInv
<1> SUFFICES ASSUME MutexInit PROVE MutexInv
  OBVIOUS
<1> USE DEF MutexInit
<1>1. MutexTypeOK
  BY MutexAssumption DEF MutexTypeOK, Zero, Word, MutexPoints
<1>2. /\ Count(at, {"sleep"}) = 0 /\ Count(at, {"release"}) = 0
      /\ Count(awoke, {TRUE}) = 0
  <2>1. /\ at \in [Lockers -> MutexPoints] /\ awoke \in [Lockers -> BOOLEAN]
        /\ IsFiniteSet(Lockers)
    BY <1>1, MutexAssumption DEF MutexTypeOK
  <2>2. Count(at, {"sleep"}) = 0 <=> \A g \in Lockers : at[g] \notin {"sleep"}
    BY <2>1, CountType, Zenon
  <2>3. Count(at, {"release"}) = 0
          <=> \A g \in Lockers : at[g] \notin {"release"}
    BY <2>1, CountType, Zenon
  <2>4. Count(awoke, {TRUE}) = 0
          <=> \A g \in Lockers : awoke[g] \notin {TRUE}
    BY <2>1, CountType, Zenon
  <2>5. QED
    BY <2>2, <2>3, <2>4
<1>3. OneHolder /\ LockedIffHeld /\ NoInconsistentState /\ AwakeInLoop
  BY DEF OneHolder, LockedIffHeld, NoInconsistentState, AwakeInLoop, Zero
<1>4. OneWakeup /\ WaitersCounted /\ WakerPresent
  BY <1>2 DEF OneWakeup, WokenTokens, WaitersCounted, WakerPresent, Zero
<1>5. QED
  BY <1>1, <1>3, <1>4 DEF MutexInv

\* Every step preserves it.
LEMMA MutexNextInv == MutexInv /\ [MutexNext]_mutexVars => MutexInv'
<1> SUFFICES ASSUME MutexInv, [MutexNext]_mutexVars PROVE MutexInv'
  OBVIOUS
<1>0. /\ MutexTypeOK /\ OneHolder /\ LockedIffHeld /\ AwakeInLoop
      /\ OneWakeup /\ NoInconsistentState /\ WaitersCounted /\ WakerPresent
  BY DEF MutexInv
<1>a. /\ Count(at, {"sleep"}) \in Nat /\ Count(at, {"release"}) \in Nat
      /\ Count(awoke, {TRUE}) \in Nat
  BY <1>0, MutexAssumption, CountType, Zenon DEF MutexTypeOK
<1>1. ASSUME NEW g \in Lockers, LockFast(g)
      PROVE  MutexInv'
  <2> USE <1>1, <1>0 DEF LockFast, MutexGoto
  <2>1. MutexTypeOK'
    <3>1. state' \in Word
      BY DEF MutexTypeOK, Word, Zero
    <3>2. at' \in [Lockers -> MutexPoints]
      BY DEF MutexTypeOK, MutexPoints, LockPoints
    <3>3. QED
      BY <3>1, <3>2 DEF MutexTypeOK
  <2>2. OneHolder' /\ LockedIffHeld'
    BY DEF MutexTypeOK, OneHolder, LockedIffHeld, Word, Zero
  <2>3. AwakeInLoop' /\ NoInconsistentState'
    BY AwakeMeansWoken DEF MutexTypeOK, AwakeInLoop, NoInconsistentState, Word
  <2>4. /\ Count(at', {"sleep"}) = Count(at, {"sleep"})
              + (IF at'[g] = "sleep" THEN 1 ELSE 0)
              - (IF at[g] = "sleep" THEN 1 ELSE 0)
        /\ Count(at', {"release"}) = Count(at, {"release"})
              + (IF at'[g] = "release" THEN 1 ELSE 0)
              - (IF at[g] = "release" THEN 1 ELSE 0)
    BY PcCounts DEF MutexTypeOK
  <2>5. awoke' = awoke
    OBVIOUS
  <2>6. OneWakeup' /\ WaitersCounted'
    BY <1>a, <2>4, <2>5 DEF MutexTypeOK, OneWakeup,
      WokenTokens, WaitersCounted, Word
  <2>7. WakerPresent'
    BY DEF MutexTypeOK, WakerPresent, Waking, NobodyToWake, Word
  <2>8. QED
    BY <2>1, <2>2, <2>3, <2>6, <2>7 DEF MutexInv
<1>2. ASSUME NEW g \in Lockers, LockLoad(g)
      PROVE  MutexInv'
  <2> USE <1>2, <1>0 DEF LockLoad, MutexGoto
  <2>1. MutexTypeOK'
    BY MutexAssumption DEF MutexTypeOK, Word, Zero, MutexPoints,
      LockPoints, UnlockPoints
  <2>2. OneHolder' /\ LockedIffHeld'
    BY DEF MutexTypeOK, OneHolder, LockedIffHeld, Word, Zero
  <2>3. AwakeInLoop' /\ NoInconsistentState'
    BY AwakeMeansWoken DEF MutexTypeOK, AwakeInLoop, NoInconsistentState, Word
  <2>4. /\ Count(at', {"sleep"}) = Count(at, {"sleep"})
              + (IF at'[g] = "sleep" THEN 1 ELSE 0)
              - (IF at[g] = "sleep" THEN 1 ELSE 0)
        /\ Count(at', {"release"}) = Count(at, {"release"})
              + (IF at'[g] = "release" THEN 1 ELSE 0)
              - (IF at[g] = "release" THEN 1 ELSE 0)
    BY PcCounts DEF MutexTypeOK
  <2>5. awoke' = awoke
    OBVIOUS
  <2>6. OneWakeup' /\ WaitersCounted'
    BY <1>a, <2>4, <2>5 DEF MutexTypeOK, OneWakeup,
      WokenTokens, WaitersCounted, Word
  <2>7. WakerPresent'
    BY DEF MutexTypeOK, WakerPresent, Waking, NobodyToWake, Word
  <2>8. QED
    BY <2>1, <2>2, <2>3, <2>6, <2>7 DEF MutexInv
<1>3. ASSUME NEW g \in Lockers, LockSpin(g)
      PROVE  MutexInv'
  <2> USE <1>3, <1>0 DEF LockSpin, MutexGoto
  <2>1. MutexTypeOK'
    <3>1. state' \in Word
      BY DEF MutexTypeOK, Word
    <3>2. at' \in [Lockers -> MutexPoints]
      BY DEF MutexTypeOK, MutexPoints, LockPoints
    <3>3. awoke' \in [Lockers -> BOOLEAN]
      BY DEF MutexTypeOK
    <3>4. iter' \in [Lockers -> 0..ActiveSpin]
      <4>1. iter[g] + 1 \in 0..ActiveSpin
        BY MutexAssumption DEF MutexTypeOK, AwakeInLoop
      <4>2. QED
        BY <4>1 DEF MutexTypeOK
    <3>5. QED
      BY <3>1, <3>2, <3>3, <3>4 DEF MutexTypeOK
  <2>2. OneHolder' /\ LockedIffHeld'
    BY DEF MutexTypeOK, OneHolder, LockedIffHeld, Word, Zero
  <2>3. AwakeInLoop' /\ NoInconsistentState'
    BY AwakeMeansWoken DEF MutexTypeOK, AwakeInLoop, NoInconsistentState, Word
  <2>4. /\ Count(at', {"sleep"}) = Count(at, {"sleep"})
              + (IF at'[g] = "sleep" THEN 1 ELSE 0)
              - (IF at[g] = "sleep" THEN 1 ELSE 0)
        /\ Count(at', {"release"}) = Count(at, {"release"})
              + (IF at'[g] = "release" THEN 1 ELSE 0)
              - (IF at[g] = "release" THEN 1 ELSE 0)
    BY PcCounts DEF MutexTypeOK
  <2>5. Count(awoke', {TRUE}) = Count(awoke, {TRUE})
              + (IF awoke'[g] THEN 1 ELSE 0) - (IF awoke[g] THEN 1 ELSE 0)
    BY AwokeCounts DEF MutexTypeOK
  <2>6. OneWakeup' /\ WaitersCounted'
    BY <1>a, <2>4, <2>5 DEF MutexTypeOK, OneWakeup,
      WokenTokens, WaitersCounted, Word
  <2>7. WakerPresent'
    BY DEF MutexTypeOK, WakerPresent, Waking, NobodyToWake, Word
  <2>8. QED
    BY <2>1, <2>2, <2>3, <2>6, <2>7 DEF MutexInv
<1>4. ASSUME NEW g \in Lockers, LockCAS(g)
      PROVE  MutexInv'
  <2> USE <1>4, <1>0 DEF LockCAS, MutexGoto
  <2>0. /\ old[g] \in Word /\ awoke[g] \in BOOLEAN
        /\ LockWord(old[g], awoke[g]) \in Word
        /\ LockWord(old[g], awoke[g]).locked = TRUE
        /\ LockWord(old[g], awoke[g]).woken = (old[g].woken /\ ~awoke[g])
        /\ LockWord(old[g], awoke[g]).waiters =
             IF old[g].locked THEN old[g].waiters + 1 ELSE old[g].waiters
    <3>1. old[g] \in Word /\ awoke[g] \in BOOLEAN
      BY DEF MutexTypeOK
    <3>2. LockWord(old[g], awoke[g]) \in Word
      BY <3>1, LockWords
    <3>3. LockWord(old[g], awoke[g]).locked = TRUE
      BY DEF LockWord
    <3>4. LockWord(old[g], awoke[g]).woken = (old[g].woken /\ ~awoke[g])
      BY DEF LockWord
    <3>5. LockWord(old[g], awoke[g]).waiters =
            IF old[g].locked THEN old[g].waiters + 1 ELSE old[g].waiters
      BY DEF LockWord
    <3>6. QED
      BY <3>1, <3>2, <3>3, <3>4, <3>5
  <2>1. MutexTypeOK'
    <3>1. state' \in Word
      BY <2>0 DEF MutexTypeOK
    <3>2. at' \in [Lockers -> MutexPoints]
      BY DEF MutexTypeOK, MutexPoints, LockPoints, UnlockPoints
    <3>3. old' \in [Lockers -> Word]
      BY DEF MutexTypeOK, Word, Zero
    <3>4. awoke' \in [Lockers -> BOOLEAN] /\ sema' \in Nat
      BY DEF MutexTypeOK
    <3>5. iter' \in [Lockers -> 0..ActiveSpin]
      BY MutexAssumption DEF MutexTypeOK
    <3>6. QED
      BY <3>1, <3>2, <3>3, <3>4, <3>5 DEF MutexTypeOK
  <2>2. OneHolder' /\ LockedIffHeld'
    BY <2>0 DEF MutexTypeOK, OneHolder, LockedIffHeld, Word, Zero
  <2>3. AwakeInLoop' /\ NoInconsistentState'
    BY AwakeMeansWoken DEF MutexTypeOK, AwakeInLoop, NoInconsistentState, Word
  <2>4. /\ Count(at', {"sleep"}) = Count(at, {"sleep"})
              + (IF at'[g] = "sleep" THEN 1 ELSE 0)
              - (IF at[g] = "sleep" THEN 1 ELSE 0)
        /\ Count(at', {"release"}) = Count(at, {"release"})
              + (IF at'[g] = "release" THEN 1 ELSE 0)
              - (IF at[g] = "release" THEN 1 ELSE 0)
    BY PcCounts DEF MutexTypeOK
  <2>5. Count(awoke', {TRUE}) = Count(awoke, {TRUE})
              + (IF awoke'[g] THEN 1 ELSE 0) - (IF awoke[g] THEN 1 ELSE 0)
    BY AwokeCounts DEF MutexTypeOK
  <2>6. OneWakeup' /\ WaitersCounted'
    <3>1. CASE state' = state /\ at'[g] # "sleep" /\ awoke' = awoke
      BY <3>1, <1>a, <2>4 DEF MutexTypeOK, OneWakeup, WokenTokens, WaitersCounted
    <3>2. CASE /\ state = old[g] /\ state' = LockWord(old[g], awoke[g])
               /\ at'[g] = IF old[g].locked THEN "sleep" ELSE "held"
               /\ awoke'[g] = FALSE /\ (awoke[g] => old[g].woken)
      <4>1. CASE awoke[g]
        <5>1. state.woken = TRUE /\ state'.woken = FALSE
          BY <4>1, <3>2, <2>0 DEF Word
        <5>2. OneWakeup'
          <6>1. /\ at[g] = "cas" /\ at'[g] # "release" /\ sema' = sema
                /\ sema \in Nat
            BY <3>2 DEF MutexTypeOK
          <6>2. /\ Count(at', {"release"}) = Count(at, {"release"})
                /\ Count(awoke', {TRUE}) = Count(awoke, {TRUE}) - 1
            BY <6>1, <4>1, <3>2, <2>4, <2>5, <1>a
          <6>3. QED
            BY <6>1, <6>2, <5>1, <1>a DEF OneWakeup, WokenTokens
        <5>3. WaitersCounted'
          BY <3>2, <2>0, <1>a, <2>4 DEF MutexTypeOK, Word, WaitersCounted
        <5>4. QED
          BY <5>2, <5>3
      <4>2. CASE ~awoke[g]
        BY <4>2, <3>2, <2>0, <1>a, <2>4, <2>5
          DEF MutexTypeOK, Word, OneWakeup, WokenTokens, WaitersCounted
      <4>3. QED
        BY <4>1, <4>2
    <3>3. QED
      BY <3>1, <3>2 DEF MutexTypeOK
  <2>7. WakerPresent'
    BY <2>0 DEF MutexTypeOK, WakerPresent, Waking, NobodyToWake, Word
  <2>8. QED
    BY <2>1, <2>2, <2>3, <2>6, <2>7 DEF MutexInv
<1>5. ASSUME NEW g \in Lockers, LockSemacquire(g)
      PROVE  MutexInv'
  <2> USE <1>5, <1>0 DEF LockSemacquire, MutexGoto
  <2>1. MutexTypeOK'
    BY MutexAssumption DEF MutexTypeOK, Word, Zero, MutexPoints,
      LockPoints, UnlockPoints
  <2>2. OneHolder' /\ LockedIffHeld'
    BY DEF MutexTypeOK, OneHolder, LockedIffHeld, Word, Zero
  <2>3. AwakeInLoop' /\ NoInconsistentState'
    BY AwakeMeansWoken DEF MutexTypeOK, AwakeInLoop, NoInconsistentState, Word
  <2>4. /\ Count(at', {"sleep"}) = Count(at, {"sleep"})
              + (IF at'[g] = "sleep" THEN 1 ELSE 0)
              - (IF at[g] = "sleep" THEN 1 ELSE 0)
        /\ Count(at', {"release"}) = Count(at, {"release"})
              + (IF at'[g] = "release" THEN 1 ELSE 0)
              - (IF at[g] = "release" THEN 1 ELSE 0)
    BY PcCounts DEF MutexTypeOK
  <2>5. Count(awoke', {TRUE}) = Count(awoke, {TRUE})
              + (IF awoke'[g] THEN 1 ELSE 0) - (IF awoke[g] THEN 1 ELSE 0)
    BY AwokeCounts DEF MutexTypeOK
  <2>6. OneWakeup' /\ WaitersCounted'
    BY <1>a, <2>4, <2>5 DEF AwakeInLoop, MutexTypeOK, OneWakeup, WokenTokens,
      WaitersCounted, Word
  <2>7. WakerPresent'
    BY DEF MutexTypeOK, WakerPresent, Waking, NobodyToWake, Word
  <2>8. QED
    BY <2>1, <2>2, <2>3, <2>6, <2>7 DEF MutexInv
<1>6. ASSUME NEW g \in Lockers, UnlockAdd(g)
      PROVE  MutexInv'
  <2> USE <1>6, <1>0 DEF UnlockAdd, MutexGoto
  <2>1. MutexTypeOK'
    BY MutexAssumption DEF MutexTypeOK, Word, Zero, MutexPoints,
      LockPoints, UnlockPoints
  <2>2. OneHolder' /\ LockedIffHeld'
    BY DEF MutexTypeOK, OneHolder, LockedIffHeld, Word, Zero
  <2>3. AwakeInLoop' /\ NoInconsistentState'
    BY AwakeMeansWoken DEF MutexTypeOK, AwakeInLoop, NoInconsistentState, Word
  <2>4. /\ Count(at', {"sleep"}) = Count(at, {"sleep"})
              + (IF at'[g] = "sleep" THEN 1 ELSE 0)
              - (IF at[g] = "sleep" THEN 1 ELSE 0)
        /\ Count(at', {"release"}) = Count(at, {"release"})
              + (IF at'[g] = "release" THEN 1 ELSE 0)
              - (IF at[g] = "release" THEN 1 ELSE 0)
    BY PcCounts DEF MutexTypeOK
  <2>5. awoke' = awoke
    OBVIOUS
  <2>6. OneWakeup' /\ WaitersCounted'
    BY <1>a, <2>4, <2>5 DEF MutexTypeOK, OneWakeup,
      WokenTokens, WaitersCounted, Word
  <2>7. WakerPresent'
    BY DEF MutexTypeOK, WakerPresent, Waking, NobodyToWake, Word
  <2>8. QED
    BY <2>1, <2>2, <2>3, <2>6, <2>7 DEF MutexInv
<1>7. ASSUME NEW g \in Lockers, UnlockLoop(g)
      PROVE  MutexInv'
  <2> USE <1>7, <1>0 DEF UnlockLoop, MutexGoto
  <2>0. /\ old[g] \in Word
        /\ ~NobodyToWake(old[g]) =>
             /\ WakeWord(old[g]) \in Word /\ WakeWord(old[g]).woken
             /\ WakeWord(old[g]).locked = old[g].locked
             /\ WakeWord(old[g]).waiters = old[g].waiters - 1
             /\ ~old[g].woken /\ ~old[g].locked
    <3>1. old[g] \in Word
      BY DEF MutexTypeOK
    <3>2. QED
      BY <3>1, WakeWords
  <2>1. MutexTypeOK'
    <3>1. state' \in Word
      BY <2>0 DEF MutexTypeOK
    <3>2. at' \in [Lockers -> MutexPoints]
      BY DEF MutexTypeOK, MutexPoints, LockPoints, UnlockPoints
    <3>3. old' \in [Lockers -> Word]
      <4>1. Zero \in Word
        BY DEF Word, Zero
      <4>2. QED
        BY <4>1 DEF MutexTypeOK
    <3>4. awoke' \in [Lockers -> BOOLEAN] /\ sema' \in Nat
      BY DEF MutexTypeOK
    <3>5. iter' \in [Lockers -> 0..ActiveSpin]
      BY MutexAssumption DEF MutexTypeOK
    <3>6. QED
      BY <3>1, <3>2, <3>3, <3>4, <3>5 DEF MutexTypeOK
  <2>2. OneHolder' /\ LockedIffHeld'
    <3>1. state'.locked = state.locked
      BY <2>0
    <3>2. QED
      BY <3>1 DEF MutexTypeOK, OneHolder, LockedIffHeld
  <2>3. AwakeInLoop' /\ NoInconsistentState'
    BY AwakeMeansWoken DEF MutexTypeOK, AwakeInLoop, NoInconsistentState, Word
  <2>4. /\ Count(at', {"sleep"}) = Count(at, {"sleep"})
              + (IF at'[g] = "sleep" THEN 1 ELSE 0)
              - (IF at[g] = "sleep" THEN 1 ELSE 0)
        /\ Count(at', {"release"}) = Count(at, {"release"})
              + (IF at'[g] = "release" THEN 1 ELSE 0)
              - (IF at[g] = "release" THEN 1 ELSE 0)
    BY PcCounts DEF MutexTypeOK
  <2>5. awoke' = awoke
    OBVIOUS
  <2>6. OneWakeup' /\ WaitersCounted'
    BY <2>0, <1>a, <2>4, <2>5 DEF MutexTypeOK, OneWakeup,
      WokenTokens, WaitersCounted, Word
  <2>7. WakerPresent'
    BY <2>0 DEF MutexTypeOK, WakerPresent, Waking, NobodyToWake, Word
  <2>8. QED
    BY <2>1, <2>2, <2>3, <2>6, <2>7 DEF MutexInv
<1>8. ASSUME NEW g \in Lockers, UnlockReload(g)
      PROVE  MutexInv'
  <2> USE <1>8, <1>0 DEF UnlockReload, MutexGoto
  <2>1. MutexTypeOK'
    BY MutexAssumption DEF MutexTypeOK, Word, Zero, MutexPoints,
      LockPoints, UnlockPoints
  <2>2. OneHolder' /\ LockedIffHeld'
    BY DEF MutexTypeOK, OneHolder, LockedIffHeld, Word, Zero
  <2>3. AwakeInLoop' /\ NoInconsistentState'
    BY AwakeMeansWoken DEF MutexTypeOK, AwakeInLoop, NoInconsistentState, Word
  <2>4. /\ Count(at', {"sleep"}) = Count(at, {"sleep"})
              + (IF at'[g] = "sleep" THEN 1 ELSE 0)
              - (IF at[g] = "sleep" THEN 1 ELSE 0)
        /\ Count(at', {"release"}) = Count(at, {"release"})
              + (IF at'[g] = "release" THEN 1 ELSE 0)
              - (IF at[g] = "release" THEN 1 ELSE 0)
    BY PcCounts DEF MutexTypeOK
  <2>5. awoke' = awoke
    OBVIOUS
  <2>6. OneWakeup' /\ WaitersCounted'
    BY <1>a, <2>4, <2>5 DEF MutexTypeOK, OneWakeup,
      WokenTokens, WaitersCounted, Word
  <2>7. WakerPresent'
    BY DEF MutexTypeOK, WakerPresent, Waking, NobodyToWake, Word
  <2>8. QED
    BY <2>1, <2>2, <2>3, <2>6, <2>7 DEF MutexInv
<1>9. ASSUME NEW g \in Lockers, UnlockRelease(g)
      PROVE  MutexInv'
  <2> USE <1>9, <1>0 DEF UnlockRelease, MutexGoto
  <2>1. MutexTypeOK'
    BY MutexAssumption DEF MutexTypeOK, Word, Zero, MutexPoints,
      LockPoints, UnlockPoints
  <2>2. OneHolder' /\ LockedIffHeld'
    BY DEF MutexTypeOK, OneHolder, LockedIffHeld, Word, Zero
  <2>3. AwakeInLoop' /\ NoInconsistentState'
    BY AwakeMeansWoken DEF MutexTypeOK, AwakeInLoop, NoInconsistentState, Word
  <2>4. /\ Count(at', {"sleep"}) = Count(at, {"sleep"})
              + (IF at'[g] = "sleep" THEN 1 ELSE 0)
              - (IF at[g] = "sleep" THEN 1 ELSE 0)
        /\ Count(at', {"release"}) = Count(at, {"release"})
              + (IF at'[g] = "release" THEN 1 ELSE 0)
              - (IF at[g] = "release" THEN 1 ELSE 0)
    BY PcCounts DEF MutexTypeOK
  <2>5. awoke' = awoke
    OBVIOUS
  <2>6. OneWakeup' /\ WaitersCounted'
    BY <1>a, <2>4, <2>5 DEF MutexTypeOK, OneWakeup,
      WokenTokens, WaitersCounted, Word
  <2>7. WakerPresent'
    BY DEF MutexTypeOK, WakerPresent, Waking, NobodyToWake, Word
  <2>8. QED
    BY <2>1, <2>2, <2>3, <2>6, <2>7 DEF MutexInv
<1>10. ASSUME NEW g \in Lockers, NEW h \in Lockers, MutexHandOff(g, h)
       PROVE  MutexInv'
  <2> USE <1>10, <1>0 DEF MutexHandOff
  <2> DEFINE mid == [at EXCEPT ![g] = "idle"]
  <2>1. at' = [mid EXCEPT ![h] = "held"] /\ mid[h] = "idle" /\ at[g] = "held"
    BY DEF MutexTypeOK
  <2>2. mid \in [Lockers -> MutexPoints] /\ MutexTypeOK'
    BY DEF MutexTypeOK, MutexPoints
  <2>3. OneHolder' /\ LockedIffHeld'
    BY DEF MutexTypeOK, OneHolder, LockedIffHeld
  <2>4. AwakeInLoop' /\ NoInconsistentState'
    BY DEF MutexTypeOK, AwakeInLoop, NoInconsistentState
  <2>5. ASSUME NEW P, P = {"sleep"} \/ P = {"release"}
        PROVE  Count(at', P) = Count(at, P)
    <3>1. IsFiniteSet(Lockers) /\ at \in [Lockers -> MutexPoints]
      BY MutexAssumption DEF MutexTypeOK
    <3>2. Count(mid, P) = Count(at, P) + Weight("idle", P) - Weight(at[g], P)
      BY <3>1, CountMove, Zenon
    <3>3. Count([mid EXCEPT ![h] = "held"], P) =
            Count(mid, P) + Weight("held", P) - Weight(mid[h], P)
      <4> HIDE DEF mid
      <4>1. QED
        BY <3>1, <2>2, CountMove, Zenon
    <3>4. /\ Weight("idle", P) = 0 /\ Weight("held", P) = 0
          /\ Weight(at[g], P) = 0 /\ Weight(mid[h], P) = 0
      <4> HIDE DEF mid
      <4>1. QED
        BY <2>1, <2>5 DEF Weight
    <3>5. Count(at, P) \in Nat
      BY <1>a, <2>5
    <3>6. Count([mid EXCEPT ![h] = "held"], P) = Count(at, P)
      <4> HIDE DEF mid
      <4>1. QED
        BY <3>2, <3>3, <3>4, <3>5
    <3>7. QED
      BY <2>1, <3>6, Zenon
  <2>6. OneWakeup' /\ WaitersCounted'
    BY <2>5 DEF OneWakeup, WokenTokens, WaitersCounted
  <2>7. WakerPresent'
    BY DEF MutexTypeOK, WakerPresent, Waking, NobodyToWake
  <2>8. QED
    BY <2>2, <2>3, <2>4, <2>6, <2>7 DEF MutexInv
<1>11. CASE UNCHANGED mutexVars
  BY <1>0, <1>11 DEF MutexInv, mutexVars, MutexTypeOK, OneHolder, LockedIffHeld,
    AwakeInLoop, OneWakeup, WokenTokens, NoInconsistentState, WaitersCounted,
    WakerPresent, Waking, NobodyToWake
<1>12. QED
  BY <1>1, <1>2, <1>3, <1>4, <1>5, <1>6, <1>7, <1>8, <1>9, <1>10, <1>11
    DEF MutexNext, Lock, Unlock

\* The inductive invariant holds in every reachable state.
THEOREM MutexInvariant == MutexSpec => []MutexInv
<1>1. MutexInit => MutexInv
  BY MutexInitInv
<1>2. MutexInv /\ [MutexNext]_mutexVars => MutexInv'
  BY MutexNextInv
<1>3. QED
  BY <1>1, <1>2, PTL DEF MutexSpec

\* Two goroutines never hold the mutex together, Lock never finds the word
\* inconsistent, and its two counts are right: waiters and wakeups under way.
THEOREM MutexSafety ==
  MutexSpec => [](MutexTypeOK /\ OneHolder /\ NoInconsistentState
             /\ WaitersCounted /\ OneWakeup)
<1>1. MutexInv => MutexTypeOK /\ OneHolder /\ NoInconsistentState
              /\ WaitersCounted /\ OneWakeup
  BY DEF MutexInv
<1>2. QED
  BY <1>1, MutexInvariant, PTL

\* No lost wakeup: a sleeper of a free mutex always has somebody on the way.
THEOREM SleepersAreWoken == MutexSpec => []NoLostWakeup
<1>1. MutexInv => NoLostWakeup
  <2> SUFFICES ASSUME MutexInv, Count(at, {"sleep"}) > 0, ~state.locked, sema = 0
               PROVE  \E g \in Lockers :
                        at[g] \in UnlockPoints \cup {"load", "spin", "cas"}
    BY DEF NoLostWakeup, MutexInv, MutexTypeOK
  <2>1. /\ IsFiniteSet(Lockers) /\ at \in [Lockers -> MutexPoints]
        /\ awoke \in [Lockers -> BOOLEAN] /\ state \in Word
    BY MutexAssumption DEF MutexInv, MutexTypeOK
  <2>2. /\ Count(at, {"sleep"}) \in Nat /\ Count(at, {"release"}) \in Nat
        /\ Count(awoke, {TRUE}) \in Nat
    BY <2>1, CountType
  <2>3. CASE \E g \in Lockers : at[g] \in {"release"}
    BY <2>3 DEF UnlockPoints
  <2>4. CASE \E g \in Lockers : awoke[g] \in {TRUE}
    BY <2>4, <2>1 DEF MutexInv, AwakeInLoop
  <2>5. CASE /\ \A g \in Lockers : at[g] \notin {"release"}
             /\ \A g \in Lockers : awoke[g] \notin {TRUE}
    <3>1. Count(at, {"release"}) = 0
      BY <2>1, <2>5, CountType, Zenon
    <3>2. Count(awoke, {TRUE}) = 0
      BY <2>1, <2>5, CountType, Zenon
    <3>3. ~state.woken /\ state.waiters > 0
      BY <2>1, <2>2, <3>1, <3>2
        DEF MutexInv, OneWakeup, WokenTokens, WaitersCounted, Word
    <3>4. QED
      BY <3>3 DEF MutexInv, WakerPresent, Waking, UnlockPoints
  <2>6. QED
    BY <2>3, <2>4, <2>5
<1>2. QED
  BY <1>1, MutexInvariant, PTL

\* Every step of the code is a step of the abstract lock or changes nothing
\* that its callers see.
THEOREM MutexRefinement == MutexSpec => ImplementsLock
<1>1. MutexInit => Abstract!Init
  BY DEF MutexInit, Abstract!Init, phase, LockPoints
<1>2. ASSUME MutexInv, [MutexNext]_mutexVars
      PROVE  [Abstract!Next]_phase
  <2>0. /\ at \in [Lockers -> MutexPoints]
        /\ OneHolder /\ LockedIffHeld /\ NoInconsistentState
    BY <1>2 DEF MutexInv, MutexTypeOK
  <2>1. ASSUME UNCHANGED at
        PROVE  phase' = phase
    BY <2>1 DEF phase
  <2>2. ASSUME NEW g \in Lockers, NEW p, at' = [at EXCEPT ![g] = p]
        PROVE  phase' = [phase EXCEPT ![g] =
                           IF p = "held" THEN "in"
                           ELSE IF p \in LockPoints THEN "locking" ELSE "out"]
    BY <2>0, <2>2 DEF phase
  <2>3. \A g \in Lockers :
          /\ phase[g] = "in" <=> at[g] = "held"
          /\ phase[g] = "locking" <=> at[g] \in LockPoints
          /\ phase[g] = "out" <=> at[g] # "held" /\ at[g] \notin LockPoints
    BY DEF phase, LockPoints
  <2>4. ~state.locked => Abstract!Free
    BY <2>0, <2>3 DEF LockedIffHeld, Abstract!Free
  <2>5. ASSUME NEW g \in Lockers, LockFast(g)
        PROVE  [Abstract!Next]_phase
    <3>1. CASE state = Zero
      <4>1. phase' = [phase EXCEPT ![g] = "in"]
        BY <2>5, <3>1, <2>2 DEF LockFast, MutexGoto
      <4>2. Abstract!Free /\ phase[g] = "out"
        BY <2>5, <3>1, <2>3, <2>4 DEF LockFast, Zero, LockPoints
      <4>3. QED
        BY <4>1, <4>2 DEF Abstract!Next, Abstract!Acquire
    <3>2. CASE state # Zero
      <4>1. phase' = [phase EXCEPT ![g] = "locking"]
        BY <2>5, <3>2, <2>2 DEF LockFast, MutexGoto, LockPoints
      <4>2. phase[g] = "out"
        BY <2>5, <2>3 DEF LockFast, LockPoints
      <4>3. QED
        BY <4>1, <4>2 DEF Abstract!Next, Abstract!Call
    <3>3. QED
      BY <3>1, <3>2
  <2>6. ASSUME NEW g \in Lockers, LockCAS(g)
        PROVE  [Abstract!Next]_phase
    <3>1. CASE at'[g] = "held"
      <4>1. phase' = [phase EXCEPT ![g] = "in"]
        BY <2>0, <2>6, <3>1, <2>2 DEF LockCAS, MutexGoto
      <4>2. Abstract!Free /\ phase[g] = "locking"
        BY <2>0, <2>6, <3>1, <2>3, <2>4 DEF LockCAS, MutexGoto, LockPoints
      <4>3. QED
        BY <4>1, <4>2 DEF Abstract!Next, Abstract!Acquire
    <3>2. CASE at'[g] \in LockPoints
      BY <2>0, <2>6, <3>2 DEF LockCAS, MutexGoto, LockPoints, phase
    <3>3. at'[g] # "panic"
      BY <1>2, MutexNextInv DEF MutexInv, NoInconsistentState
    <3>4. QED
      BY <2>0, <2>6, <3>1, <3>2, <3>3 DEF LockCAS, MutexGoto, LockPoints
  <2>7. ASSUME NEW g \in Lockers, UnlockAdd(g)
        PROVE  [Abstract!Next]_phase
    <3>1. phase' = [phase EXCEPT ![g] = "out"]
      BY <2>7, <2>2 DEF UnlockAdd, MutexGoto, LockPoints
    <3>2. phase[g] = "in"
      BY <2>7, <2>3 DEF UnlockAdd
    <3>3. QED
      BY <3>1, <3>2 DEF Abstract!Next, Abstract!Release
  <2>8. ASSUME NEW g \in Lockers,
               LockLoad(g) \/ LockSpin(g) \/ LockSemacquire(g) \/ Unlock(g)
        PROVE  phase' = phase
    BY <2>0, <2>8 DEF LockLoad, LockSpin, LockSemacquire, Unlock, UnlockLoop,
      UnlockReload, UnlockRelease, MutexGoto, LockPoints, phase
  <2>9. ASSUME NEW g \in Lockers, NEW h \in Lockers, MutexHandOff(g, h)
        PROVE  [Abstract!Next]_phase
    <3>1. phase' = [phase EXCEPT ![g] = "out", ![h] = "in"]
      BY <2>0, <2>9 DEF MutexHandOff, phase, LockPoints
    <3>2. phase[g] = "in" /\ phase[h] = "out"
      BY <2>9, <2>3 DEF MutexHandOff, LockPoints
    <3>3. QED
      BY <3>1, <3>2 DEF Abstract!Next, Abstract!HandOff
  <2>10. CASE UNCHANGED mutexVars
    BY <2>1, <2>10 DEF mutexVars
  <2>11. QED
    BY <1>2, <2>5, <2>6, <2>7, <2>8, <2>9, <2>10 DEF MutexNext, Lock
<1>3. QED
  BY <1>1, <1>2, MutexInvariant, PTL DEF MutexSpec, ImplementsLock, Abstract!Spec

-----------------------------------------------------------------------------
(***************************************************************************)
(* sync.RWMutex                                                            *)
(***************************************************************************)

\* How many goroutines are where, for the points that the invariant counts.
Asleep(f)    == Count(f, {"rsleep"})
Reading(f)   == Count(f, {"reading"})
Leaving(f)   == Count(f, {"rleave"})
Signalling(f) == Count(f, {"rsignal"})
Waiting(f)   == Count(f, {"wsleep"})
Writers(f)   == Count(f, WritePoints)

\* They are natural numbers, at most as many as there are goroutines.
LEMMA Numbers ==
  ASSUME NEW f \in [Goroutines -> Points]
  PROVE  /\ Asleep(f) \in Nat /\ Reading(f) \in Nat /\ Leaving(f) \in Nat
         /\ Signalling(f) \in Nat /\ Waiting(f) \in Nat /\ Writers(f) \in Nat
         /\ Count(f, {"rsleep", "reading"}) = Asleep(f) + Reading(f)
         /\ Count(f, {"reading", "rleave"}) = Reading(f) + Leaving(f)
         /\ Asleep(f) + Reading(f) < MaxReaders
<1>1. IsFiniteSet(Goroutines) /\ IsFiniteSet(DOMAIN f)
  BY RWMutexAssumption
<1>2. /\ Asleep(f) \in Nat /\ Reading(f) \in Nat /\ Leaving(f) \in Nat
      /\ Signalling(f) \in Nat /\ Waiting(f) \in Nat /\ Writers(f) \in Nat
  BY <1>1, CountType
     DEF Asleep, Reading, Leaving, Signalling, Waiting, Writers
<1>3. Count(f, {"rsleep", "reading"}) = Asleep(f) + Reading(f)
  BY <1>1, CountPair, Zenon DEF Asleep, Reading
<1>4. Count(f, {"reading", "rleave"}) = Reading(f) + Leaving(f)
  BY <1>1, CountPair, Zenon DEF Reading, Leaving
<1>5. Count(f, {"rsleep", "reading"}) <= Cardinality(Goroutines)
  BY <1>1, CountBounded
<1>6. QED
  BY <1>1, <1>2, <1>3, <1>4, <1>5, RWMutexAssumption, FS_CardinalityType

\* What happens to them when goroutine g moves to p.
Moved(f, h, g, p) ==
  /\ Asleep(h) = Asleep(f) + Weight(p, {"rsleep"}) - Weight(f[g], {"rsleep"})
  /\ Reading(h) = Reading(f) + Weight(p, {"reading"}) - Weight(f[g], {"reading"})
  /\ Leaving(h) = Leaving(f) + Weight(p, {"rleave"}) - Weight(f[g], {"rleave"})
  /\ Signalling(h) =
       Signalling(f) + Weight(p, {"rsignal"}) - Weight(f[g], {"rsignal"})
  /\ Waiting(h) = Waiting(f) + Weight(p, {"wsleep"}) - Weight(f[g], {"wsleep"})
  /\ Writers(h) = Writers(f) + Weight(p, WritePoints) - Weight(f[g], WritePoints)

LEMMA Moves ==
  ASSUME NEW f \in [Goroutines -> Points], NEW g \in Goroutines, NEW p, NEW h,
         h = [f EXCEPT ![g] = p]
  PROVE  Moved(f, h, g, p)
<1>1. IsFiniteSet(Goroutines)
  BY RWMutexAssumption
<1>2. Asleep(h) = Asleep(f) + Weight(p, {"rsleep"}) - Weight(f[g], {"rsleep"})
  BY <1>1, CountMove, Zenon DEF Asleep
<1>3. Reading(h) =
        Reading(f) + Weight(p, {"reading"}) - Weight(f[g], {"reading"})
  BY <1>1, CountMove, Zenon DEF Reading
<1>4. Leaving(h) = Leaving(f) + Weight(p, {"rleave"}) - Weight(f[g], {"rleave"})
  BY <1>1, CountMove, Zenon DEF Leaving
<1>5. Signalling(h) =
        Signalling(f) + Weight(p, {"rsignal"}) - Weight(f[g], {"rsignal"})
  BY <1>1, CountMove, Zenon DEF Signalling
<1>6. Waiting(h) = Waiting(f) + Weight(p, {"wsleep"}) - Weight(f[g], {"wsleep"})
  BY <1>1, CountMove, Zenon DEF Waiting
<1>7. Writers(h) =
        Writers(f) + Weight(p, WritePoints) - Weight(f[g], WritePoints)
  BY <1>1, CountMove, Zenon DEF Writers
<1>8. QED
  BY <1>2, <1>3, <1>4, <1>5, <1>6, <1>7 DEF Moved

\* The goroutine that holds w is the only one at the points of a writer.
LEMMA OneWriter ==
  ASSUME TypeOK, WriterHoldsMutex
  PROVE  /\ \A g, h \in Goroutines :
              pc[g] \in WritePoints /\ pc[h] \in WritePoints => g = h
         /\ \A g \in Goroutines : pc[g] \in WritePoints => w
         /\ ~w <=> \A g \in Goroutines : pc[g] \notin WritePoints
<1>1. IsFiniteSet(Goroutines) /\ pc \in [Goroutines -> Points]
  BY RWMutexAssumption DEF TypeOK
<1>2. Count(pc, WritePoints) <= 1
  BY DEF WriterHoldsMutex
<1>3. \A g, h \in Goroutines :
        pc[g] \in WritePoints /\ pc[h] \in WritePoints => g = h
  BY <1>1, <1>2, CountOne
<1>4. Count(pc, WritePoints) = 0 <=> \A g \in Goroutines : pc[g] \notin WritePoints
  BY <1>1, CountType
<1>5. w \in BOOLEAN
  BY DEF TypeOK
<1>6. QED
  BY <1>3, <1>4, <1>5 DEF WriterHoldsMutex

\* What IInv says of the counters, in terms of these numbers.
Agree ==
  /\ Writers(pc) = IF w THEN 1 ELSE 0
  /\ readerCount = Asleep(pc) + Reading(pc)
                     - IF Announced THEN MaxReaders ELSE 0
  /\ \A g \in Goroutines :
       pc[g] \in {"wcount", "wsleep", "writing"} =>
         readerWait + Uncounted(g) = Reading(pc) + Leaving(pc) + readerSem
  /\ ~Announced => readerWait = 0 /\ Leaving(pc) = 0
  /\ writerSem + Signalling(pc) = IF readerWait = 0 THEN Waiting(pc) ELSE 0
  /\ readerSem <= Asleep(pc)
  /\ ~Announced /\ Unlocking = {} => Asleep(pc) = readerSem
  /\ \A g \in Unlocking : Asleep(pc) = readerSem + r[g]

LEMMA Unfold ==
  ASSUME IInv
  PROVE  TypeOK /\ NoFalsePanic /\ ReadersLeft /\ Agree
<1>1. pc \in [Goroutines -> Points]
  BY DEF IInv, TypeOK
<1>2. /\ Asleep(pc) \in Nat /\ Reading(pc) \in Nat
      /\ Count(pc, {"rsleep", "reading"}) = Asleep(pc) + Reading(pc)
      /\ Count(pc, {"reading", "rleave"}) = Reading(pc) + Leaving(pc)
  BY <1>1, Numbers
<1>3. Writers(pc) = IF w THEN 1 ELSE 0
  BY DEF IInv, WriterHoldsMutex, Writers
<1>4. readerCount = Asleep(pc) + Reading(pc)
                      - IF Announced THEN MaxReaders ELSE 0
  <2> DEFINE bias == IF Announced THEN MaxReaders ELSE 0
  <2>1. readerCount = Count(pc, {"rsleep", "reading"}) - bias
    BY DEF IInv, ReadersCounted
  <2>a. bias \in Nat
    BY RWMutexAssumption
  <2> HIDE DEF bias
  <2>2. readerCount = Asleep(pc) + Reading(pc) - bias
    BY <1>2, <2>1, <2>a
  <2>3. QED
    BY <2>2 DEF bias
<1>5. ASSUME NEW g \in Goroutines, pc[g] \in {"wcount", "wsleep", "writing"}
      PROVE  readerWait + Uncounted(g) = Reading(pc) + Leaving(pc) + readerSem
  <2>1. Announced
    BY <1>5 DEF Announced
  <2>2. readerWait + Uncounted(g) = Count(pc, {"reading", "rleave"}) + readerSem
    BY <1>5, <2>1 DEF IInv, WriterWaitsForReaders
  <2>3. QED
    BY <1>2, <2>2
<1>6. ~Announced => readerWait = 0 /\ Leaving(pc) = 0
  BY DEF IInv, WriterWaitsForReaders, Leaving
<1>7. /\ writerSem + Signalling(pc) = IF readerWait = 0 THEN Waiting(pc) ELSE 0
      /\ readerSem <= Asleep(pc)
      /\ ~Announced /\ Unlocking = {} => Asleep(pc) = readerSem
      /\ \A g \in Unlocking : Asleep(pc) = readerSem + r[g]
  BY DEF IInv, WriterWakeup, NoReaderLeftAsleep, Signalling, Waiting, Asleep
<1>8. QED
  BY <1>3, <1>4, <1>5, <1>6, <1>7 DEF IInv, Agree

LEMMA Fold ==
  ASSUME TypeOK', NoFalsePanic', ReadersLeft', Agree'
  PROVE  IInv'
<1>1. pc' \in [Goroutines -> Points]
  BY DEF TypeOK
<1>2. /\ Asleep(pc') \in Nat /\ Reading(pc') \in Nat
      /\ Count(pc', {"rsleep", "reading"}) = Asleep(pc') + Reading(pc')
      /\ Count(pc', {"reading", "rleave"}) = Reading(pc') + Leaving(pc')
  BY <1>1, Numbers
<1>3. WriterHoldsMutex'
  BY DEF WriterHoldsMutex, Agree, Writers
<1>4. ReadersCounted'
  <2> DEFINE bias == IF Announced' THEN MaxReaders ELSE 0
  <2>1. readerCount' = Asleep(pc') + Reading(pc') - bias
    BY DEF Agree
  <2>a. bias \in Nat
    BY RWMutexAssumption
  <2> HIDE DEF bias
  <2>2. readerCount' = Count(pc', {"rsleep", "reading"}) - bias
    BY <1>2, <2>1, <2>a
  <2>3. QED
    BY <2>2 DEF ReadersCounted, bias
<1>5. WriterWaitsForReaders'
  <2>1. ASSUME NEW g \in Goroutines,
               pc'[g] \in {"wcount", "wsleep", "writing"}
        PROVE  readerWait' + Uncounted(g)'
                 = Count(pc', {"reading", "rleave"}) + readerSem'
    BY <1>2, <2>1 DEF Agree
  <2>2. ~Announced' => readerWait' = 0 /\ Count(pc', {"rleave"}) = 0
    BY DEF Agree, Leaving
  <2>3. QED
    BY <2>1, <2>2 DEF WriterWaitsForReaders
<1>6. WriterWakeup' /\ NoReaderLeftAsleep'
  BY DEF WriterWakeup, NoReaderLeftAsleep, Agree, Asleep, Signalling, Waiting
<1>7. QED
  BY <1>3, <1>4, <1>5, <1>6 DEF IInv

\* While a writer is at one of its points, it decides what is announced.
LEMMA TheWriter ==
  ASSUME TypeOK, WriterHoldsMutex, NEW g \in Goroutines, pc[g] \in WritePoints
  PROVE  /\ w
         /\ \A h \in Goroutines : pc[h] \in WritePoints => h = g
         /\ Announced <=> pc[g] \in {"wcount", "wsleep", "writing"}
         /\ Unlocking = IF pc[g] = "wwake" THEN {g} ELSE {}
<1>1. w /\ \A h \in Goroutines : pc[h] \in WritePoints => h = g
  BY OneWriter
<1>2. Announced <=> pc[g] \in {"wcount", "wsleep", "writing"}
  BY <1>1 DEF Announced, WritePoints
<1>3. Unlocking = IF pc[g] = "wwake" THEN {g} ELSE {}
  BY <1>1 DEF Unlocking, WritePoints
<1>4. QED
  BY <1>1, <1>2, <1>3

\* A reader's step does not touch what writers have announced.
LEMMA ReaderMoves ==
  ASSUME TypeOK, NEW g \in Goroutines, NEW p \in Points \ WritePoints,
         pc[g] \notin WritePoints, pc' = [pc EXCEPT ![g] = p], r' = r
  PROVE  /\ Announced' = Announced /\ Unlocking' = Unlocking
         /\ \A h \in Goroutines : Uncounted(h)' = Uncounted(h)
         /\ \A h \in Goroutines :
              pc[h] \in WritePoints \/ pc'[h] \in WritePoints => pc'[h] = pc[h]
<1>1. \A h \in Goroutines :
        pc[h] \in WritePoints \/ pc'[h] \in WritePoints => pc'[h] = pc[h]
  BY DEF TypeOK
<1>2. Announced' = Announced /\ Unlocking' = Unlocking
  BY <1>1 DEF Announced, Unlocking, WritePoints
<1>3. \A h \in Goroutines : Uncounted(h)' = Uncounted(h)
  BY <1>1 DEF Uncounted, WritePoints
<1>4. QED
  BY <1>1, <1>2, <1>3

\* IInv holds initially.
LEMMA InitInv == Init => IInv
<1> SUFFICES ASSUME Init PROVE IInv
  OBVIOUS
<1> USE DEF Init
<1>1. TypeOK
  <2>1. w \in BOOLEAN
    BY Zenon
  <2>2. QED
    BY <2>1 DEF TypeOK, Points
<1>a. IsFiniteSet(Goroutines)
  BY RWMutexAssumption
<1>2. \A g \in Goroutines : pc[g] = "idle"
  OBVIOUS
<1>3. /\ Count(pc, WritePoints) = 0 /\ Count(pc, {"rsleep", "reading"}) = 0
      /\ Count(pc, {"rleave"}) = 0 /\ Count(pc, {"rsignal"}) = 0
      /\ Count(pc, {"wsleep"}) = 0 /\ Count(pc, {"rsleep"}) = 0
  BY <1>1, <1>a, <1>2, CountType DEF TypeOK, WritePoints
<1>4. ~Announced /\ Unlocking = {}
  BY <1>2 DEF Announced, Unlocking
<1>5. QED
  BY <1>1, <1>2, <1>3, <1>4
     DEF IInv, NoFalsePanic, WriterHoldsMutex, ReadersCounted,
         WriterWaitsForReaders, ReadersLeft, WriterWakeup, NoReaderLeftAsleep
-----------------------------------------------------------------------------
(* Readers *)

\* What a reader's step must do to the counters.
LEMMA ReaderInv ==
  ASSUME IInv, NEW g \in Goroutines, NEW p \in Points \ WritePoints,
         p # "panic", pc[g] \notin WritePoints, pc' = [pc EXCEPT ![g] = p],
         UNCHANGED <<w, r>>,
         readerCount' \in Int, readerWait' \in Int,
         readerSem' \in Nat, writerSem' \in Nat,
         readerCount' = readerCount + (Asleep(pc') + Reading(pc'))
                                    - (Asleep(pc) + Reading(pc)),
         Announced =>
           readerWait' = readerWait + (Reading(pc') + Leaving(pc') + readerSem')
                                    - (Reading(pc) + Leaving(pc) + readerSem),
         ~Announced => readerWait' = 0 /\ Leaving(pc') = 0,
         \/ readerWait' = readerWait
         \/ /\ readerWait' < readerWait
            /\ \A h \in Goroutines : pc[h] # "writing",
         writerSem' + Signalling(pc')
           = IF readerWait' = 0 THEN Waiting(pc) ELSE 0,
         \/ Asleep(pc') = readerSem' + (Asleep(pc) - readerSem)
         \/ Announced /\ readerSem' <= Asleep(pc')
  PROVE  IInv'
<1>0. TypeOK /\ NoFalsePanic /\ ReadersLeft /\ Agree /\ WriterHoldsMutex
  BY Unfold DEF IInv
<1>a. pc \in [Goroutines -> Points] /\ pc' \in [Goroutines -> Points]
  BY <1>0 DEF TypeOK
<1>b. TypeOK'
  BY <1>0, <1>a DEF TypeOK
<1>1. /\ Announced' = Announced /\ Unlocking' = Unlocking
      /\ \A h \in Goroutines : Uncounted(h)' = Uncounted(h)
      /\ \A h \in Goroutines :
           pc[h] \in WritePoints \/ pc'[h] \in WritePoints => pc'[h] = pc[h]
  BY <1>0, ReaderMoves
<1>2. Waiting(pc') = Waiting(pc) /\ Writers(pc') = Writers(pc)
  <2>1. Moved(pc, pc', g, p)
    BY <1>a, Moves, Zenon
  <2>2. Waiting(pc) \in Nat /\ Writers(pc) \in Nat
    BY <1>a, Numbers
  <2>3. QED
    BY <2>1, <2>2 DEF Moved, Weight, WritePoints
<1>3. NoFalsePanic'
  BY <1>0, <1>a DEF NoFalsePanic
<1>4. readerWait \in Int /\ readerSem \in Nat /\ readerCount \in Int
      /\ writerSem \in Nat
  BY <1>0 DEF TypeOK
<1>5. ReadersLeft'
  BY <1>0, <1>1, <1>4 DEF ReadersLeft, WritePoints
<1>6. /\ Asleep(pc) \in Nat /\ Reading(pc) \in Nat /\ Leaving(pc) \in Nat
      /\ Asleep(pc') \in Nat /\ Reading(pc') \in Nat /\ Leaving(pc') \in Nat
  BY <1>a, Numbers
<1>7. Agree'
  <2>1. Writers(pc') = IF w' THEN 1 ELSE 0
    BY <1>0, <1>2 DEF Agree
  <2>2. readerCount' = Asleep(pc') + Reading(pc')
                         - IF Announced' THEN MaxReaders ELSE 0
    <3> DEFINE bias == IF Announced THEN MaxReaders ELSE 0
    <3>1. bias \in Nat
      BY RWMutexAssumption
    <3>2. readerCount = Asleep(pc) + Reading(pc) - bias
      BY <1>0 DEF Agree
    <3>3. bias = IF Announced' THEN MaxReaders ELSE 0
      BY <1>1
    <3> HIDE DEF bias
    <3>4. readerCount' = Asleep(pc') + Reading(pc') - bias
      BY <1>4, <1>6, <3>1, <3>2
    <3>5. QED
      BY <3>3, <3>4
  <2>3. ASSUME NEW h \in Goroutines,
               pc'[h] \in {"wcount", "wsleep", "writing"}
        PROVE  readerWait' + Uncounted(h)'
                 = Reading(pc') + Leaving(pc') + readerSem'
    <3>1. pc'[h] = pc[h] /\ Announced /\ Uncounted(h)' = Uncounted(h)
      BY <1>1, <2>3 DEF WritePoints, Announced
    <3>2. readerWait + Uncounted(h) = Reading(pc) + Leaving(pc) + readerSem
      BY <1>0, <2>3, <3>1 DEF Agree
    <3>3. Uncounted(h) \in Nat
      BY <1>0 DEF Uncounted, TypeOK
    <3>4. QED
      BY <1>4, <1>6, <3>1, <3>2, <3>3
  <2>4. ~Announced' => readerWait' = 0 /\ Leaving(pc') = 0
    BY <1>1
  <2>5. writerSem' + Signalling(pc') = IF readerWait' = 0 THEN Waiting(pc') ELSE 0
    BY <1>2
  <2>6. readerSem' <= Asleep(pc')
    BY <1>0, <1>4, <1>6 DEF Agree
  <2>7. ~Announced' /\ Unlocking' = {} => Asleep(pc') = readerSem'
    BY <1>0, <1>1, <1>4, <1>6 DEF Agree
  <2>8. ASSUME NEW h \in Unlocking'
        PROVE  Asleep(pc') = readerSem' + r'[h]
    <3>1. h \in Goroutines /\ pc[h] = "wwake" /\ h \in Unlocking
      BY <1>1, <2>8 DEF Unlocking
    <3>2. ~Announced
      BY <1>0, <3>1, TheWriter DEF WritePoints
    <3>3. Asleep(pc) = readerSem + r[h] /\ r[h] \in Nat
      BY <1>0, <3>1 DEF Agree, TypeOK
    <3>4. QED
      BY <1>4, <1>6, <3>2, <3>3
  <2>9. QED
    BY <2>1, <2>2, <2>3, <2>4, <2>5, <2>6, <2>7, <2>8 DEF Agree
<1>8. QED
  BY <1>b, <1>3, <1>5, <1>7, Fold

\* The facts about the state before a step that its proof starts from.
LEMMA Before ==
  ASSUME IInv
  PROVE  /\ pc \in [Goroutines -> Points] /\ r \in [Goroutines -> Nat]
         /\ readerCount \in Int /\ readerWait \in Int
         /\ readerSem \in Nat /\ writerSem \in Nat
         /\ Asleep(pc) \in Nat /\ Reading(pc) \in Nat /\ Leaving(pc) \in Nat
         /\ Signalling(pc) \in Nat /\ Waiting(pc) \in Nat
         /\ Announced => readerCount = Asleep(pc) + Reading(pc) - MaxReaders
         /\ ~Announced => readerCount = Asleep(pc) + Reading(pc)
         /\ Asleep(pc) + Reading(pc) < MaxReaders
<1>1. TypeOK /\ Agree
  BY Unfold
<1>2. /\ pc \in [Goroutines -> Points] /\ r \in [Goroutines -> Nat]
      /\ readerCount \in Int /\ readerWait \in Int
      /\ readerSem \in Nat /\ writerSem \in Nat
  BY <1>1 DEF TypeOK
<1>3. /\ Asleep(pc) \in Nat /\ Reading(pc) \in Nat /\ Leaving(pc) \in Nat
      /\ Signalling(pc) \in Nat /\ Waiting(pc) \in Nat
      /\ Asleep(pc) + Reading(pc) < MaxReaders
  BY <1>2, Numbers
<1>4. readerCount = Asleep(pc) + Reading(pc)
                      - IF Announced THEN MaxReaders ELSE 0
  BY <1>1 DEF Agree
<1>5. QED
  BY <1>2, <1>3, <1>4

\* RLock counts itself: it sleeps if and only if a writer has announced itself.
LEMMA RLockAddInv ==
  ASSUME IInv, NEW g \in Goroutines, RLockAdd(g)
  PROVE  IInv'
<1>0. Agree
  BY Unfold
<1>1. PICK p \in {"rsleep", "reading"} :
        /\ pc' = [pc EXCEPT ![g] = p]
        /\ p = "rsleep" <=> readerCount + 1 < 0
  BY DEF RLockAdd, Goto
<1>2. /\ pc[g] = "idle" /\ readerCount' = readerCount + 1
      /\ UNCHANGED <<w, readerWait, readerSem, writerSem, r>>
  BY DEF RLockAdd
<1>3. p \in Points \ WritePoints /\ p # "panic" /\ pc[g] \notin WritePoints
  BY <1>1, <1>2 DEF Points, ReadPoints, WritePoints
<1>4. pc' \in [Goroutines -> Points]
  BY <1>1, <1>3, Before
<1>5. /\ Asleep(pc') = Asleep(pc) + (IF p = "rsleep" THEN 1 ELSE 0)
      /\ Reading(pc') = Reading(pc) + (IF p = "reading" THEN 1 ELSE 0)
      /\ Leaving(pc') = Leaving(pc) /\ Signalling(pc') = Signalling(pc)
  <2>1. Moved(pc, pc', g, p)
    BY <1>1, Before, Moves, Zenon
  <2>2. QED
    BY <1>1, <1>2, <2>1, Before DEF Moved, Weight
<1>6. Asleep(pc') + Reading(pc') < MaxReaders
  BY <1>4, Numbers
<1>7. Announced <=> p = "rsleep"
  <2>1. MaxReaders \in Nat
    BY RWMutexAssumption
  <2>2. CASE Announced
    BY <1>1, <1>5, <1>6, <2>1, <2>2, Before
  <2>3. CASE ~Announced
    BY <1>1, <2>1, <2>3, Before
  <2>4. QED
    BY <2>2, <2>3
<1>8. /\ readerCount' \in Int /\ readerWait' \in Int
      /\ readerSem' \in Nat /\ writerSem' \in Nat
  BY <1>2, Before
<1>9. readerCount' = readerCount + (Asleep(pc') + Reading(pc'))
                                 - (Asleep(pc) + Reading(pc))
  BY <1>1, <1>2, <1>5, Before
<1>10. Announced =>
         readerWait' = readerWait + (Reading(pc') + Leaving(pc') + readerSem')
                                  - (Reading(pc) + Leaving(pc) + readerSem)
  BY <1>1, <1>2, <1>5, <1>7, Before
<1>11. ~Announced => readerWait' = 0 /\ Leaving(pc') = 0
  BY <1>0, <1>2, <1>5 DEF Agree
<1>12. writerSem' + Signalling(pc') = IF readerWait' = 0 THEN Waiting(pc) ELSE 0
  BY <1>0, <1>2, <1>5 DEF Agree
<1>13. \/ Asleep(pc') = readerSem' + (Asleep(pc) - readerSem)
       \/ Announced /\ readerSem' <= Asleep(pc')
  <2>1. readerSem <= Asleep(pc)
    BY <1>0 DEF Agree
  <2>2. QED
    BY <1>1, <1>2, <1>5, <1>7, <2>1, Before
<1>14. QED
  BY <1>1, <1>2, <1>3, <1>8, <1>9, <1>10, <1>11, <1>12, <1>13, ReaderInv

\* A sleeping reader takes a permit.
LEMMA RLockSleepInv ==
  ASSUME IInv, NEW g \in Goroutines, RLockSleep(g)
  PROVE  IInv'
<1>0. Agree
  BY Unfold
<1>1. /\ pc[g] = "rsleep" /\ pc' = [pc EXCEPT ![g] = "reading"]
      /\ readerSem > 0 /\ readerSem' = readerSem - 1
      /\ UNCHANGED <<w, readerCount, readerWait, writerSem, r>>
  BY DEF RLockSleep, Goto
<1>2. "reading" \in Points \ WritePoints /\ pc[g] \notin WritePoints
  BY <1>1 DEF Points, ReadPoints, WritePoints
<1>3. /\ Asleep(pc') = Asleep(pc) - 1 /\ Reading(pc') = Reading(pc) + 1
      /\ Leaving(pc') = Leaving(pc) /\ Signalling(pc') = Signalling(pc)
  <2>1. Moved(pc, pc', g, "reading")
    BY <1>1, Before, Moves, Zenon
  <2>2. QED
    BY <1>1, <2>1, Before DEF Moved, Weight
<1>4. /\ readerCount' \in Int /\ readerWait' \in Int
      /\ readerSem' \in Nat /\ writerSem' \in Nat
  BY <1>1, Before
<1>5. readerCount' = readerCount + (Asleep(pc') + Reading(pc'))
                                 - (Asleep(pc) + Reading(pc))
  BY <1>1, <1>3, Before
<1>6. readerWait' = readerWait + (Reading(pc') + Leaving(pc') + readerSem')
                               - (Reading(pc) + Leaving(pc) + readerSem)
  BY <1>1, <1>3, Before
<1>7. ~Announced => readerWait' = 0 /\ Leaving(pc') = 0
  BY <1>0, <1>1, <1>3 DEF Agree
<1>8. writerSem' + Signalling(pc') = IF readerWait' = 0 THEN Waiting(pc) ELSE 0
  BY <1>0, <1>1, <1>3 DEF Agree
<1>9. Asleep(pc') = readerSem' + (Asleep(pc) - readerSem)
  BY <1>1, <1>3, Before
<1>10. QED
  BY <1>1, <1>2, <1>4, <1>5, <1>6, <1>7, <1>8, <1>9, ReaderInv

\* RUnlock counts itself off: the sanity test does not fire, and the writer
\* hears of it if one has announced itself.
LEMMA RUnlockAddInv ==
  ASSUME IInv, NEW g \in Goroutines, RUnlockAdd(g)
  PROVE  IInv'
<1>0. Agree
  BY Unfold
<1>1. /\ pc[g] = "reading" /\ readerCount' = readerCount - 1
      /\ UNCHANGED <<w, readerWait, readerSem, writerSem, r>>
  BY DEF RUnlockAdd
<1>2. Reading(pc) > 0
  <2>1. IsFiniteSet(Goroutines) /\ pc[g] \in {"reading"}
    BY <1>1, RWMutexAssumption
  <2>2. QED
    BY <2>1, Before, CountPositive DEF Reading
<1>3. PICK p \in {"idle", "rleave"} :
        /\ pc' = [pc EXCEPT ![g] = p]
        /\ p = "rleave" <=> Announced
  <2>1. MaxReaders \in Nat
    BY RWMutexAssumption
  <2>2. CASE Announced
    <3>1. /\ ~(readerCount' >= 0)
          /\ readerCount' + 1 # 0 /\ readerCount' + 1 # -MaxReaders
      BY <1>1, <1>2, <2>1, <2>2, Before
    <3>2. pc' = [pc EXCEPT ![g] = "rleave"]
      BY <3>1 DEF RUnlockAdd, Goto, NobodyReading
    <3>3. QED
      BY <2>2, <3>2
  <2>3. CASE ~Announced
    <3>1. readerCount - 1 >= 0
      BY <1>2, <2>3, Before
    <3>2. pc' = [pc EXCEPT ![g] = "idle"]
      BY <1>1, <3>1, Before DEF RUnlockAdd, Goto
    <3>3. QED
      BY <2>3, <3>2
  <2>4. QED
    BY <2>2, <2>3
<1>4. p \in Points \ WritePoints /\ p # "panic" /\ pc[g] \notin WritePoints
  BY <1>1, <1>3 DEF Points, ReadPoints, WritePoints
<1>5. /\ Asleep(pc') = Asleep(pc) /\ Reading(pc') = Reading(pc) - 1
      /\ Leaving(pc') = Leaving(pc) + (IF p = "rleave" THEN 1 ELSE 0)
      /\ Signalling(pc') = Signalling(pc)
  <2>1. Moved(pc, pc', g, p)
    BY <1>3, Before, Moves, Zenon
  <2>2. QED
    BY <1>1, <1>3, <2>1, Before DEF Moved, Weight
<1>6. /\ readerCount' \in Int /\ readerWait' \in Int
      /\ readerSem' \in Nat /\ writerSem' \in Nat
  BY <1>1, Before
<1>7. readerCount' = readerCount + (Asleep(pc') + Reading(pc'))
                                 - (Asleep(pc) + Reading(pc))
  BY <1>1, <1>5, Before
<1>8. Announced =>
        readerWait' = readerWait + (Reading(pc') + Leaving(pc') + readerSem')
                                 - (Reading(pc) + Leaving(pc) + readerSem)
  BY <1>1, <1>3, <1>5, Before
<1>9. ~Announced => readerWait' = 0 /\ Leaving(pc') = 0
  BY <1>0, <1>1, <1>3, <1>5, Before DEF Agree
<1>10. writerSem' + Signalling(pc') = IF readerWait' = 0 THEN Waiting(pc) ELSE 0
  BY <1>0, <1>1, <1>5 DEF Agree
<1>11. Asleep(pc') = readerSem' + (Asleep(pc) - readerSem)
  BY <1>1, <1>5, Before
<1>12. QED
  BY <1>1, <1>3, <1>4, <1>6, <1>7, <1>8, <1>9, <1>10, <1>11, ReaderInv

\* A reader in front of a writer leaves; the last one has to wake it.
LEMMA RUnlockLeaveInv ==
  ASSUME IInv, NEW g \in Goroutines, RUnlockLeave(g)
  PROVE  IInv'
<1>0. Agree /\ ReadersLeft /\ TypeOK /\ WriterHoldsMutex
  BY Unfold DEF IInv
<1>1. /\ pc[g] = "rleave" /\ readerWait' = readerWait - 1
      /\ UNCHANGED <<w, readerCount, readerSem, writerSem, r>>
  BY DEF RUnlockLeave
<1>2. PICK p \in {"rsignal", "idle"} :
        /\ pc' = [pc EXCEPT ![g] = p]
        /\ p = "rsignal" <=> readerWait' = 0
  BY DEF RUnlockLeave, Goto
<1>3. Leaving(pc) > 0
  <2>1. IsFiniteSet(Goroutines) /\ pc[g] \in {"rleave"}
    BY <1>1, RWMutexAssumption
  <2>2. QED
    BY <2>1, Before, CountPositive DEF Leaving
<1>4. Announced
  BY <1>0, <1>3 DEF Agree
<1>5. PICK h \in Goroutines : pc[h] \in {"wcount", "wsleep", "writing"}
  BY <1>4 DEF Announced
<1>6. readerWait + Uncounted(h) > 0
  BY <1>0, <1>3, <1>5, Before DEF Agree
<1>7. \/ pc[h] = "wcount" /\ readerWait <= 0
      \/ pc[h] = "wsleep" /\ readerWait > 0
  BY <1>0, <1>5, <1>6, Before DEF ReadersLeft, Uncounted
<1>8. \A k \in Goroutines : pc[k] # "writing"
  BY <1>0, <1>5, <1>7, TheWriter DEF WritePoints
<1>9. Waiting(pc) = IF pc[h] = "wsleep" THEN 1 ELSE 0
  <2>1. IsFiniteSet(Goroutines)
    BY RWMutexAssumption
  <2>2. CASE pc[h] = "wsleep"
    <3>1. Waiting(pc) > 0
      BY <2>1, <2>2, Before, CountPositive DEF Waiting
    <3>2. Waiting(pc) <= Writers(pc)
      <4>1. {"wsleep"} \subseteq WritePoints
        BY DEF WritePoints
      <4>2. QED
        BY <2>1, <4>1, Before, CountMonotone DEF Waiting, Writers
    <3>3. Writers(pc) \in Nat /\ Writers(pc) <= 1
      BY <1>0, Before, Numbers DEF Agree
    <3>4. QED
      BY <2>2, <3>1, <3>2, <3>3, Before
  <2>3. CASE pc[h] # "wsleep"
    <3>1. \A k \in Goroutines : pc[k] # "wsleep"
      BY <1>0, <1>5, <2>3, TheWriter DEF WritePoints
    <3>2. QED
      BY <2>1, <2>3, <3>1, Before, CountType DEF Waiting
  <2>4. QED
    BY <2>2, <2>3
<1>10. p \in Points \ WritePoints /\ p # "panic" /\ pc[g] \notin WritePoints
  BY <1>1, <1>2 DEF Points, ReadPoints, WritePoints
<1>11. /\ Asleep(pc') = Asleep(pc) /\ Reading(pc') = Reading(pc)
       /\ Leaving(pc') = Leaving(pc) - 1
       /\ Signalling(pc') = Signalling(pc) + (IF p = "rsignal" THEN 1 ELSE 0)
  <2>1. Moved(pc, pc', g, p)
    BY <1>2, Before, Moves, Zenon
  <2>2. QED
    BY <1>1, <1>2, <2>1, Before DEF Moved, Weight
<1>12. /\ readerCount' \in Int /\ readerWait' \in Int
       /\ readerSem' \in Nat /\ writerSem' \in Nat
  BY <1>1, Before
<1>13. /\ readerCount' = readerCount + (Asleep(pc') + Reading(pc'))
                                   - (Asleep(pc) + Reading(pc))
       /\ readerWait' = readerWait + (Reading(pc') + Leaving(pc') + readerSem')
                                 - (Reading(pc) + Leaving(pc) + readerSem)
       /\ Asleep(pc') = readerSem' + (Asleep(pc) - readerSem)
       /\ readerWait' < readerWait
  BY <1>1, <1>11, Before
<1>14. writerSem' + Signalling(pc') = IF readerWait' = 0 THEN Waiting(pc) ELSE 0
  <2>1. writerSem + Signalling(pc) = 0
    BY <1>0, <1>7, <1>9, Before DEF Agree
  <2>2. CASE readerWait' = 0
    BY <1>1, <1>2, <1>7, <1>9, <1>11, <2>1, <2>2, Before
  <2>3. CASE readerWait' # 0
    BY <1>1, <1>2, <1>11, <2>1, <2>3, Before
  <2>4. QED
    BY <2>2, <2>3
<1>15. QED
  BY <1>1, <1>2, <1>4, <1>8, <1>10, <1>12, <1>13, <1>14, ReaderInv

\* The last reader wakes the writer.
LEMMA RUnlockSignalInv ==
  ASSUME IInv, NEW g \in Goroutines, RUnlockSignal(g)
  PROVE  IInv'
<1>0. Agree
  BY Unfold
<1>1. /\ pc[g] = "rsignal" /\ pc' = [pc EXCEPT ![g] = "idle"]
      /\ writerSem' = writerSem + 1
      /\ UNCHANGED <<w, readerCount, readerWait, readerSem, r>>
  BY DEF RUnlockSignal, Goto
<1>2. "idle" \in Points \ WritePoints /\ pc[g] \notin WritePoints
  BY <1>1 DEF Points, ReadPoints, WritePoints
<1>3. /\ Asleep(pc') = Asleep(pc) /\ Reading(pc') = Reading(pc)
      /\ Leaving(pc') = Leaving(pc) /\ Signalling(pc') = Signalling(pc) - 1
  <2>1. Moved(pc, pc', g, "idle")
    BY <1>1, Before, Moves, Zenon
  <2>2. QED
    BY <1>1, <2>1, Before DEF Moved, Weight
<1>4. /\ readerCount' \in Int /\ readerWait' \in Int
      /\ readerSem' \in Nat /\ writerSem' \in Nat
  BY <1>1, Before
<1>5. /\ readerCount' = readerCount + (Asleep(pc') + Reading(pc'))
                                   - (Asleep(pc) + Reading(pc))
      /\ readerWait' = readerWait + (Reading(pc') + Leaving(pc') + readerSem')
                                 - (Reading(pc) + Leaving(pc) + readerSem)
      /\ Asleep(pc') = readerSem' + (Asleep(pc) - readerSem)
  BY <1>1, <1>3, Before
<1>6. ~Announced => readerWait' = 0 /\ Leaving(pc') = 0
  BY <1>0, <1>1, <1>3 DEF Agree
<1>7. writerSem' + Signalling(pc') = IF readerWait' = 0 THEN Waiting(pc) ELSE 0
  <2>1. writerSem' + Signalling(pc') = writerSem + Signalling(pc)
    BY <1>1, <1>3, Before
  <2>2. QED
    BY <1>0, <1>1, <2>1 DEF Agree
<1>8. QED
  BY <1>1, <1>2, <1>4, <1>5, <1>6, <1>7, ReaderInv

\* The call of Lock.
LEMMA LockCallInv ==
  ASSUME IInv, NEW g \in Goroutines, LockCall(g)
  PROVE  IInv'
<1>0. Agree
  BY Unfold
<1>1. /\ pc[g] = "idle" /\ pc' = [pc EXCEPT ![g] = "wlock"]
      /\ UNCHANGED <<w, readerCount, readerWait, readerSem, writerSem, r>>
  BY DEF LockCall, Goto
<1>2. "wlock" \in Points \ WritePoints /\ pc[g] \notin WritePoints
  BY <1>1 DEF Points, ReadPoints, WritePoints
<1>3. /\ Asleep(pc') = Asleep(pc) /\ Reading(pc') = Reading(pc)
      /\ Leaving(pc') = Leaving(pc) /\ Signalling(pc') = Signalling(pc)
  <2>1. Moved(pc, pc', g, "wlock")
    BY <1>1, Before, Moves, Zenon
  <2>2. QED
    BY <1>1, <2>1, Before DEF Moved, Weight
<1>4. /\ readerCount' \in Int /\ readerWait' \in Int
      /\ readerSem' \in Nat /\ writerSem' \in Nat
  BY <1>1, Before
<1>5. /\ readerCount' = readerCount + (Asleep(pc') + Reading(pc'))
                                   - (Asleep(pc) + Reading(pc))
      /\ readerWait' = readerWait + (Reading(pc') + Leaving(pc') + readerSem')
                                 - (Reading(pc) + Leaving(pc) + readerSem)
      /\ Asleep(pc') = readerSem' + (Asleep(pc) - readerSem)
  BY <1>1, <1>3, Before
<1>6. ~Announced => readerWait' = 0 /\ Leaving(pc') = 0
  BY <1>0, <1>1, <1>3 DEF Agree
<1>7. writerSem' + Signalling(pc') = IF readerWait' = 0 THEN Waiting(pc) ELSE 0
  BY <1>0, <1>1, <1>3 DEF Agree
<1>8. QED
  BY <1>1, <1>2, <1>4, <1>5, <1>6, <1>7, ReaderInv
-----------------------------------------------------------------------------
(* Writers *)

\* Where a writer is pending for the readers.
Pending == {"wcount", "wsleep", "writing"}

\* What the counters are when the goroutine in w is at one of its points.
LEMMA WriterSees ==
  ASSUME IInv, NEW g \in Goroutines, pc[g] \in WritePoints
  PROVE  /\ w /\ \A h \in Goroutines : pc[h] \in WritePoints => h = g
         /\ readerCount = IF pc[g] \in Pending
                          THEN Asleep(pc) + Reading(pc) - MaxReaders
                          ELSE Asleep(pc) + Reading(pc)
         /\ pc[g] = "wcount" =>
              /\ readerWait <= 0
              /\ readerWait + r[g] = Reading(pc) + Leaving(pc) + readerSem
         /\ pc[g] = "wsleep" =>
              readerWait = Reading(pc) + Leaving(pc) + readerSem
         /\ pc[g] = "writing" =>
              readerWait = 0 /\ Reading(pc) = 0 /\ Leaving(pc) = 0 /\ readerSem = 0
         /\ pc[g] \notin Pending => readerWait = 0 /\ Leaving(pc) = 0
         /\ writerSem + Signalling(pc) =
              IF readerWait = 0 /\ pc[g] = "wsleep" THEN 1 ELSE 0
         /\ readerSem <= Asleep(pc)
         /\ pc[g] \notin Pending \cup {"wwake"} => Asleep(pc) = readerSem
         /\ pc[g] = "wwake" => Asleep(pc) = readerSem + r[g]
<1>0. TypeOK /\ ReadersLeft /\ Agree /\ WriterHoldsMutex
      /\ IsFiniteSet(Goroutines)
  BY Unfold, RWMutexAssumption DEF IInv
<1>1. /\ w /\ \A h \in Goroutines : pc[h] \in WritePoints => h = g
      /\ Announced <=> pc[g] \in Pending
      /\ Unlocking = IF pc[g] = "wwake" THEN {g} ELSE {}
  BY <1>0, TheWriter DEF Pending
<1>2. readerCount = IF pc[g] \in Pending
                    THEN Asleep(pc) + Reading(pc) - MaxReaders
                    ELSE Asleep(pc) + Reading(pc)
  BY <1>1, Before
<1>3. /\ pc[g] = "wcount" =>
           /\ readerWait <= 0
           /\ readerWait + r[g] = Reading(pc) + Leaving(pc) + readerSem
      /\ pc[g] = "wsleep" => readerWait = Reading(pc) + Leaving(pc) + readerSem
      /\ pc[g] = "writing" =>
           readerWait = 0 /\ Reading(pc) = 0 /\ Leaving(pc) = 0 /\ readerSem = 0
  <2>1. pc[g] \in Pending =>
          readerWait + Uncounted(g) = Reading(pc) + Leaving(pc) + readerSem
    BY <1>0 DEF Agree, Pending
  <2>2. CASE pc[g] = "wcount"
    <3>1. readerWait <= 0
      BY <1>0, <2>2 DEF ReadersLeft
    <3>2. Uncounted(g) = r[g]
      BY <2>2 DEF Uncounted
    <3>3. QED
      BY <2>1, <2>2, <3>1, <3>2 DEF Pending
  <2>3. CASE pc[g] = "wsleep"
    <3>1. Uncounted(g) = 0
      BY <2>3 DEF Uncounted
    <3>2. QED
      BY <2>1, <2>3, <3>1, Before DEF Pending
  <2>4. CASE pc[g] = "writing"
    <3>1. Uncounted(g) = 0 /\ readerWait = 0
      BY <1>0, <2>4 DEF Uncounted, ReadersLeft
    <3>2. /\ Reading(pc) \in Nat /\ Leaving(pc) \in Nat /\ readerSem \in Nat
          /\ Reading(pc) + Leaving(pc) + readerSem = 0
      BY <2>1, <2>4, <3>1, Before DEF Pending
    <3>3. Reading(pc) = 0 /\ Leaving(pc) = 0 /\ readerSem = 0
      BY <3>2
    <3>4. QED
      BY <2>4, <3>1, <3>3
  <2>5. QED
    BY <2>2, <2>3, <2>4
<1>4. pc[g] \notin Pending => readerWait = 0 /\ Leaving(pc) = 0
  BY <1>0, <1>1 DEF Agree
<1>5. Waiting(pc) = IF pc[g] = "wsleep" THEN 1 ELSE 0
  <2>1. CASE pc[g] = "wsleep"
    <3>1. Waiting(pc) > 0
      BY <1>0, <2>1, Before, CountPositive DEF Waiting
    <3>2. Waiting(pc) <= Writers(pc)
      <4>1. {"wsleep"} \subseteq WritePoints
        BY DEF WritePoints
      <4>2. QED
        BY <1>0, <4>1, Before, CountMonotone DEF Waiting, Writers
    <3>3. Writers(pc) = 1
      BY <1>0, <1>1 DEF Agree
    <3>4. QED
      BY <2>1, <3>1, <3>2, <3>3, Before
  <2>2. CASE pc[g] # "wsleep"
    <3>1. \A k \in Goroutines : pc[k] # "wsleep"
      BY <1>1, <2>2 DEF WritePoints
    <3>2. QED
      BY <1>0, <2>2, <3>1, Before, CountType DEF Waiting
  <2>3. QED
    BY <2>1, <2>2
<1>6. writerSem + Signalling(pc) =
        IF readerWait = 0 /\ pc[g] = "wsleep" THEN 1 ELSE 0
  BY <1>0, <1>5 DEF Agree
<1>7. /\ readerSem <= Asleep(pc)
      /\ pc[g] \notin Pending \cup {"wwake"} => Asleep(pc) = readerSem
      /\ pc[g] = "wwake" => Asleep(pc) = readerSem + r[g]
  BY <1>0, <1>1 DEF Agree
<1>8. QED
  BY <1>1, <1>2, <1>3, <1>4, <1>6, <1>7

\* And what they must be after a step of the only writer, to p.
WriterStep(g, p) ==
  /\ pc[g] \in WritePoints \cup {"wlock"}
  /\ \A h \in Goroutines : pc[h] \in WritePoints => h = g
  /\ p \in WritePoints \cup {"idle"} /\ pc' = [pc EXCEPT ![g] = p]
  /\ w' \in BOOLEAN /\ (w' <=> p \in WritePoints)
  /\ readerCount' \in Int /\ readerWait' \in Int
  /\ readerSem' \in Nat /\ writerSem' \in Nat /\ r' \in [Goroutines -> Nat]
  /\ readerCount' = IF p \in Pending
                    THEN Asleep(pc) + Reading(pc) - MaxReaders
                    ELSE Asleep(pc) + Reading(pc)
  /\ p = "wcount" =>
       /\ readerWait' <= 0
       /\ readerWait' + r'[g] = Reading(pc) + Leaving(pc) + readerSem'
  /\ p = "wsleep" => readerWait' = Reading(pc) + Leaving(pc) + readerSem'
  /\ p = "writing" =>
       readerWait' = 0 /\ Reading(pc) = 0 /\ Leaving(pc) = 0 /\ readerSem' = 0
  /\ p \notin Pending => readerWait' = 0 /\ Leaving(pc) = 0
  /\ writerSem' + Signalling(pc) =
       IF readerWait' = 0 /\ p = "wsleep" THEN 1 ELSE 0
  /\ readerSem' <= Asleep(pc)
  /\ p \notin Pending \cup {"wwake"} => Asleep(pc) = readerSem'
  /\ p = "wwake" => Asleep(pc) = readerSem' + r'[g]

LEMMA WriterInv ==
  ASSUME IInv, NEW g \in Goroutines, NEW p, WriterStep(g, p)
  PROVE  IInv'
<1> USE DEF WriterStep
<1>0. TypeOK /\ NoFalsePanic /\ IsFiniteSet(Goroutines)
  BY Unfold, RWMutexAssumption
<1>1. /\ pc \in [Goroutines -> Points] /\ pc' \in [Goroutines -> Points]
      /\ pc'[g] = p /\ \A h \in Goroutines : h # g => pc'[h] = pc[h]
  BY <1>0 DEF TypeOK, Points
<1>2. TypeOK'
  BY <1>1 DEF TypeOK
<1>3. NoFalsePanic'
  BY <1>0, <1>1 DEF NoFalsePanic, WritePoints
<1>4. \A h \in Goroutines : pc'[h] \in WritePoints => h = g
  BY <1>1
<1>5. /\ Announced' <=> p \in Pending
      /\ Unlocking' = IF p = "wwake" THEN {g} ELSE {}
  <2>1. Announced' <=> p \in Pending
    BY <1>1, <1>4 DEF Announced, WritePoints, Pending
  <2>2. Unlocking' = IF p = "wwake" THEN {g} ELSE {}
    BY <1>1, <1>4 DEF Unlocking, WritePoints
  <2>3. QED
    BY <2>1, <2>2
<1>6. /\ Asleep(pc') = Asleep(pc) /\ Reading(pc') = Reading(pc)
      /\ Leaving(pc') = Leaving(pc) /\ Signalling(pc') = Signalling(pc)
  <2>1. Moved(pc, pc', g, p)
    BY <1>1, Moves, Zenon
  <2>2. \A P \in {{"rsleep"}, {"reading"}, {"rleave"}, {"rsignal"}} :
          Weight(p, P) = 0 /\ Weight(pc[g], P) = 0
    BY DEF Weight, WritePoints
  <2>3. QED
    BY <2>1, <2>2, Before DEF Moved
<1>7. Writers(pc') = IF w' THEN 1 ELSE 0
  <2>1. CASE p \in WritePoints
    <3>1. Writers(pc') \in Nat /\ Writers(pc') > 0
      BY <1>0, <1>1, <2>1, CountPositive DEF Writers
    <3>2. At(pc', WritePoints) = {g}
      BY <1>1, <1>4, <2>1 DEF At
    <3>3. Writers(pc') = 1
      BY <3>2, FS_Singleton DEF Writers, Count
    <3>4. QED
      BY <2>1, <3>3
  <2>2. CASE p \notin WritePoints
    <3>1. \A h \in Goroutines : pc'[h] \notin WritePoints
      BY <1>1, <1>4, <2>2
    <3>2. At(pc', WritePoints) = {}
      BY <1>1, <3>1 DEF At
    <3>3. QED
      BY <2>2, <3>2, FS_EmptySet DEF Writers, Count
  <2>3. QED
    BY <2>1, <2>2
<1>8. Waiting(pc') = IF p = "wsleep" THEN 1 ELSE 0
  <2>1. CASE p = "wsleep"
    <3>1. At(pc', {"wsleep"}) = {g}
      BY <1>1, <1>4, <2>1 DEF At, WritePoints
    <3>2. QED
      BY <2>1, <3>1, FS_Singleton DEF Waiting, Count
  <2>2. CASE p # "wsleep"
    <3>1. \A h \in Goroutines : pc'[h] # "wsleep"
      BY <1>1, <1>4, <2>2 DEF WritePoints
    <3>2. QED
      BY <1>0, <1>1, <2>2, <3>1, CountType DEF Waiting
  <2>3. QED
    BY <2>1, <2>2
<1>9. ReadersLeft'
  BY <1>1, <1>4 DEF ReadersLeft, WritePoints
<1>10. Agree'
  <2>1. readerCount' = Asleep(pc') + Reading(pc')
                         - IF Announced' THEN MaxReaders ELSE 0
    <3>1. MaxReaders \in Nat
      BY RWMutexAssumption
    <3>2. QED
      BY <1>5, <1>6, <3>1, Before
  <2>2. ASSUME NEW h \in Goroutines,
               pc'[h] \in {"wcount", "wsleep", "writing"}
        PROVE  readerWait' + Uncounted(h)'
                 = Reading(pc') + Leaving(pc') + readerSem'
    <3>1. h = g /\ p \in {"wcount", "wsleep", "writing"}
      BY <1>1, <1>4, <2>2 DEF WritePoints
    <3>2. QED
      BY <1>1, <1>6, <3>1, Before DEF Uncounted
  <2>3. ~Announced' => readerWait' = 0 /\ Leaving(pc') = 0
    BY <1>5, <1>6
  <2>4. writerSem' + Signalling(pc')
          = IF readerWait' = 0 THEN Waiting(pc') ELSE 0
    BY <1>6, <1>8
  <2>5. /\ readerSem' <= Asleep(pc')
        /\ ~Announced' /\ Unlocking' = {} => Asleep(pc') = readerSem'
        /\ \A h \in Unlocking' : Asleep(pc') = readerSem' + r'[h]
    BY <1>5, <1>6
  <2>6. QED
    BY <1>7, <2>1, <2>2, <2>3, <2>4, <2>5 DEF Agree
<1>11. QED
  BY <1>2, <1>3, <1>9, <1>10, Fold

\* The writer gets w: no reader can tell yet.
LEMMA LockMutexInv ==
  ASSUME IInv, NEW g \in Goroutines, LockMutex(g)
  PROVE  IInv'
<1>0. TypeOK /\ WriterHoldsMutex /\ Agree
  BY Unfold DEF IInv
<1>1. /\ pc[g] = "wlock" /\ pc' = [pc EXCEPT ![g] = "announce"]
      /\ ~w /\ w' = TRUE
      /\ UNCHANGED <<readerCount, readerWait, readerSem, writerSem, r>>
  BY DEF LockMutex, Goto
<1>2. \A h \in Goroutines : pc[h] \notin WritePoints
  BY <1>0, <1>1, OneWriter
<1>3. ~Announced /\ Unlocking = {} /\ Waiting(pc) = 0
  <2>1. ~Announced /\ Unlocking = {}
    BY <1>2 DEF Announced, Unlocking, WritePoints
  <2>2. \A h \in Goroutines : pc[h] # "wsleep"
    BY <1>2 DEF WritePoints
  <2>3. IsFiniteSet(Goroutines)
    BY RWMutexAssumption
  <2>4. QED
    BY <2>1, <2>2, <2>3, Before, CountType DEF Waiting
<1>4. "announce" \in WritePoints /\ "announce" \notin Pending \cup {"wwake"}
  BY DEF WritePoints, Pending
<1>5. /\ readerCount' = Asleep(pc) + Reading(pc)
      /\ readerWait' = 0 /\ Leaving(pc) = 0
      /\ writerSem' + Signalling(pc) = 0
      /\ readerSem' <= Asleep(pc) /\ Asleep(pc) = readerSem'
  BY <1>0, <1>1, <1>3, Before DEF Agree
<1>6. WriterStep(g, "announce")
  BY <1>1, <1>2, <1>4, <1>5, Before DEF WriterStep
<1>7. QED
  BY <1>6, WriterInv

\* The writer announces itself; without readers it has nothing to wait for.
LEMMA LockAnnounceInv ==
  ASSUME IInv, NEW g \in Goroutines, LockAnnounce(g)
  PROVE  IInv'
<1>1. /\ pc[g] = "announce" /\ readerCount' = readerCount - MaxReaders
      /\ r' = [r EXCEPT ![g] = readerCount]
      /\ UNCHANGED <<w, readerWait, readerSem, writerSem>>
      /\ \/ readerCount = 0 /\ pc' = [pc EXCEPT ![g] = "writing"]
         \/ readerCount # 0 /\ pc' = [pc EXCEPT ![g] = "wcount"]
  BY DEF LockAnnounce, Goto
<1>2. /\ pc[g] \in WritePoints /\ pc[g] \notin Pending \cup {"wwake"}
      /\ {"writing", "wcount"} \subseteq WritePoints \cap Pending
  BY <1>1 DEF WritePoints, Pending
<1>3. /\ w /\ \A h \in Goroutines : pc[h] \in WritePoints => h = g
      /\ readerCount = Asleep(pc) + Reading(pc)
      /\ readerWait = 0 /\ Leaving(pc) = 0
      /\ writerSem + Signalling(pc) = 0
      /\ Asleep(pc) = readerSem
  BY <1>1, <1>2, WriterSees
<1>4. /\ readerCount' \in Int /\ r' \in [Goroutines -> Nat]
      /\ r'[g] = readerCount /\ MaxReaders \in Nat
  BY <1>1, <1>3, Before, RWMutexAssumption
<1>5. w' \in BOOLEAN /\ w'
  BY <1>1, <1>3, Unfold DEF TypeOK
<1>6. CASE readerCount = 0 /\ pc' = [pc EXCEPT ![g] = "writing"]
  <2>1. Asleep(pc) = 0 /\ Reading(pc) = 0 /\ readerSem' = 0
    BY <1>1, <1>3, <1>6, Before
  <2>2. WriterStep(g, "writing")
    BY <1>1, <1>2, <1>3, <1>4, <1>5, <1>6, <2>1, Before
       DEF WriterStep, WritePoints, Pending
  <2>3. QED
    BY <2>2, WriterInv
<1>7. CASE readerCount # 0 /\ pc' = [pc EXCEPT ![g] = "wcount"]
  <2>1. readerWait' + r'[g] = Reading(pc) + Leaving(pc) + readerSem'
    BY <1>1, <1>3, <1>4, Before
  <2>2. WriterStep(g, "wcount")
    BY <1>1, <1>2, <1>3, <1>4, <1>5, <1>7, <2>1, Before
       DEF WriterStep, WritePoints, Pending
  <2>3. QED
    BY <2>2, WriterInv
<1>8. QED
  BY <1>1, <1>6, <1>7

\* The writer adds the readers it found: those that have left are counted off.
LEMMA LockCountInv ==
  ASSUME IInv, NEW g \in Goroutines, LockCount(g)
  PROVE  IInv'
<1>1. /\ pc[g] = "wcount" /\ readerWait' = readerWait + r[g]
      /\ r' = [r EXCEPT ![g] = 0]
      /\ UNCHANGED <<w, readerCount, readerSem, writerSem>>
      /\ \/ readerWait' = 0 /\ pc' = [pc EXCEPT ![g] = "writing"]
         \/ readerWait' # 0 /\ pc' = [pc EXCEPT ![g] = "wsleep"]
  BY DEF LockCount, Goto
<1>2. pc[g] \in WritePoints /\ pc[g] \in Pending
  BY <1>1 DEF WritePoints, Pending
<1>3. /\ w /\ \A h \in Goroutines : pc[h] \in WritePoints => h = g
      /\ readerCount = Asleep(pc) + Reading(pc) - MaxReaders
      /\ readerWait' = Reading(pc) + Leaving(pc) + readerSem
      /\ writerSem + Signalling(pc) = 0 /\ readerSem <= Asleep(pc)
  BY <1>1, <1>2, WriterSees
<1>4. readerWait' \in Int /\ r' \in [Goroutines -> Nat]
  BY <1>1, Before
<1>5. w' \in BOOLEAN /\ w'
  BY <1>1, <1>3, Unfold DEF TypeOK
<1>6. CASE readerWait' = 0 /\ pc' = [pc EXCEPT ![g] = "writing"]
  <2>1. Reading(pc) = 0 /\ Leaving(pc) = 0 /\ readerSem' = 0
    <3>1. /\ Reading(pc) \in Nat /\ Leaving(pc) \in Nat /\ readerSem \in Nat
          /\ Reading(pc) + Leaving(pc) + readerSem = 0
      BY <1>3, <1>6, Before
    <3>2. QED
      BY <1>1, <3>1
  <2>2. WriterStep(g, "writing")
    BY <1>1, <1>2, <1>3, <1>4, <1>5, <1>6, <2>1, Before
       DEF WriterStep, WritePoints, Pending
  <2>3. QED
    BY <2>2, WriterInv
<1>7. CASE readerWait' # 0 /\ pc' = [pc EXCEPT ![g] = "wsleep"]
  <2>1. WriterStep(g, "wsleep")
    BY <1>1, <1>2, <1>3, <1>4, <1>5, <1>7, Before
       DEF WriterStep, WritePoints, Pending
  <2>2. QED
    BY <2>1, WriterInv
<1>8. QED
  BY <1>1, <1>6, <1>7

\* The writer takes the permit of the last reader.
LEMMA LockSleepInv ==
  ASSUME IInv, NEW g \in Goroutines, LockSleep(g)
  PROVE  IInv'
<1>1. /\ pc[g] = "wsleep" /\ pc' = [pc EXCEPT ![g] = "writing"]
      /\ writerSem > 0 /\ writerSem' = writerSem - 1
      /\ UNCHANGED <<w, readerCount, readerWait, readerSem, r>>
  BY DEF LockSleep, Goto
<1>2. pc[g] \in WritePoints /\ pc[g] \in Pending
  BY <1>1 DEF WritePoints, Pending
<1>3. /\ w /\ \A h \in Goroutines : pc[h] \in WritePoints => h = g
      /\ readerCount = Asleep(pc) + Reading(pc) - MaxReaders
      /\ readerWait = Reading(pc) + Leaving(pc) + readerSem
      /\ writerSem + Signalling(pc) = IF readerWait = 0 THEN 1 ELSE 0
      /\ readerSem <= Asleep(pc)
  BY <1>1, <1>2, WriterSees
<1>4. readerWait = 0 /\ writerSem' + Signalling(pc) = 0 /\ writerSem' \in Nat
  BY <1>1, <1>3, Before
<1>5. Reading(pc) = 0 /\ Leaving(pc) = 0 /\ readerSem = 0
  <2>1. /\ Reading(pc) \in Nat /\ Leaving(pc) \in Nat /\ readerSem \in Nat
        /\ Reading(pc) + Leaving(pc) + readerSem = 0
    BY <1>3, <1>4, Before
  <2>2. QED
    BY <2>1
<1>6. w' \in BOOLEAN /\ w'
  BY <1>1, <1>3, Unfold DEF TypeOK
<1>7. WriterStep(g, "writing")
  BY <1>1, <1>2, <1>3, <1>4, <1>5, <1>6, Before
     DEF WriterStep, WritePoints, Pending
<1>8. QED
  BY <1>7, WriterInv

\* Unlock takes the announcement back: the sanity test does not fire, and the
\* readers it finds are all asleep.
LEMMA UnlockAnnounceInv ==
  ASSUME IInv, NEW g \in Goroutines, UnlockAnnounce(g)
  PROVE  IInv'
<1>1. /\ pc[g] = "writing" /\ readerCount' = readerCount + MaxReaders
      /\ UNCHANGED <<w, readerWait, readerSem, writerSem>>
  BY DEF UnlockAnnounce
<1>2. pc[g] \in WritePoints /\ pc[g] \in Pending
  BY <1>1 DEF WritePoints, Pending
<1>3. /\ w /\ \A h \in Goroutines : pc[h] \in WritePoints => h = g
      /\ readerCount = Asleep(pc) + Reading(pc) - MaxReaders
      /\ readerWait = 0 /\ Reading(pc) = 0 /\ Leaving(pc) = 0 /\ readerSem = 0
      /\ writerSem + Signalling(pc) = 0
  BY <1>1, <1>2, WriterSees
<1>4. /\ readerCount' = Asleep(pc) + Reading(pc)
      /\ readerCount' \in Nat /\ readerCount' < MaxReaders
  BY <1>1, <1>3, Before, RWMutexAssumption
<1>5. /\ pc' = [pc EXCEPT ![g] = "wwake"]
      /\ r' = [r EXCEPT ![g] = readerCount']
  <2>1. ~(readerCount' >= MaxReaders)
    BY <1>4, RWMutexAssumption
  <2>2. QED
    BY <2>1 DEF UnlockAnnounce, Goto
<1>6. /\ r' \in [Goroutines -> Nat]
      /\ Asleep(pc) = readerSem' + r'[g] /\ readerSem' <= Asleep(pc)
  BY <1>1, <1>3, <1>4, <1>5, Before
<1>7. w' \in BOOLEAN /\ w'
  BY <1>1, <1>3, Unfold DEF TypeOK
<1>8. WriterStep(g, "wwake")
  BY <1>1, <1>2, <1>3, <1>4, <1>5, <1>6, <1>7, Before
     DEF WriterStep, WritePoints, Pending
<1>9. QED
  BY <1>8, WriterInv

\* A turn of the loop of Unlock, and its end.
LEMMA UnlockWakeInv ==
  ASSUME IInv, NEW g \in Goroutines, UnlockWake(g)
  PROVE  IInv'
<1>1. /\ pc[g] = "wwake"
      /\ UNCHANGED <<w, readerCount, readerWait, writerSem>>
      /\ \/ /\ r[g] > 0 /\ readerSem' = readerSem + 1
            /\ r' = [r EXCEPT ![g] = @ - 1] /\ pc' = pc
         \/ /\ r[g] = 0 /\ pc' = [pc EXCEPT ![g] = "wunlock"]
            /\ UNCHANGED <<readerSem, r>>
  BY DEF UnlockWake, Goto
<1>2. pc[g] \in WritePoints /\ pc[g] \notin Pending
  BY <1>1 DEF WritePoints, Pending
<1>3. /\ w /\ \A h \in Goroutines : pc[h] \in WritePoints => h = g
      /\ readerCount = Asleep(pc) + Reading(pc)
      /\ readerWait = 0 /\ Leaving(pc) = 0
      /\ writerSem + Signalling(pc) = 0
      /\ Asleep(pc) = readerSem + r[g]
  BY <1>1, <1>2, WriterSees
<1>4. w' \in BOOLEAN /\ w'
  BY <1>1, <1>3, Unfold DEF TypeOK
<1>5. CASE /\ r[g] > 0 /\ readerSem' = readerSem + 1
           /\ r' = [r EXCEPT ![g] = @ - 1] /\ pc' = pc
  <2>1. pc' = [pc EXCEPT ![g] = "wwake"]
    BY <1>1, <1>5, Before
  <2>2. /\ r' \in [Goroutines -> Nat] /\ readerSem' \in Nat
        /\ Asleep(pc) = readerSem' + r'[g] /\ readerSem' <= Asleep(pc)
    BY <1>3, <1>5, Before
  <2>3. WriterStep(g, "wwake")
    BY <1>1, <1>2, <1>3, <1>4, <2>1, <2>2, Before
       DEF WriterStep, WritePoints, Pending
  <2>4. QED
    BY <2>3, WriterInv
<1>6. CASE /\ r[g] = 0 /\ pc' = [pc EXCEPT ![g] = "wunlock"]
           /\ UNCHANGED <<readerSem, r>>
  <2>1. Asleep(pc) = readerSem' /\ readerSem' <= Asleep(pc)
    BY <1>3, <1>6, Before
  <2>2. WriterStep(g, "wunlock")
    BY <1>1, <1>2, <1>3, <1>4, <1>6, <2>1, Before
       DEF WriterStep, WritePoints, Pending
  <2>3. QED
    BY <2>2, WriterInv
<1>7. QED
  BY <1>1, <1>5, <1>6

\* w is free for the next writer.
LEMMA UnlockMutexInv ==
  ASSUME IInv, NEW g \in Goroutines, UnlockMutex(g)
  PROVE  IInv'
<1>1. /\ pc[g] = "wunlock" /\ pc' = [pc EXCEPT ![g] = "idle"] /\ w' = FALSE
      /\ UNCHANGED <<readerCount, readerWait, readerSem, writerSem, r>>
  BY DEF UnlockMutex, Goto
<1>2. pc[g] \in WritePoints /\ pc[g] \notin Pending \cup {"wwake"}
  BY <1>1 DEF WritePoints, Pending
<1>3. /\ \A h \in Goroutines : pc[h] \in WritePoints => h = g
      /\ readerCount = Asleep(pc) + Reading(pc)
      /\ readerWait = 0 /\ Leaving(pc) = 0
      /\ writerSem + Signalling(pc) = 0
      /\ Asleep(pc) = readerSem /\ readerSem <= Asleep(pc)
  BY <1>1, <1>2, WriterSees, Before
<1>4. WriterStep(g, "idle")
  BY <1>1, <1>2, <1>3, Before DEF WriterStep, WritePoints, Pending
<1>5. QED
  BY <1>4, WriterInv
-----------------------------------------------------------------------------
(* The specification *)

\* Another goroutine takes over the lock: nothing that is counted changes.
LEMMA HandOffInv ==
  ASSUME IInv, NEW g \in Goroutines, NEW h \in Goroutines, HandOff(g, h)
  PROVE  IInv'
<1>0. TypeOK /\ NoFalsePanic /\ ReadersLeft /\ Agree /\ WriterHoldsMutex
  BY Unfold DEF IInv
<1>1. /\ pc[g] \in {"reading", "writing"} /\ pc[h] = "idle"
      /\ pc' = [pc EXCEPT ![g] = "idle", ![h] = pc[g]]
      /\ UNCHANGED <<w, readerCount, readerWait, readerSem, writerSem, r>>
  BY DEF HandOff
<1>2. /\ pc' \in [Goroutines -> Points] /\ g # h
      /\ pc'[g] = "idle" /\ pc'[h] = pc[g]
      /\ \A k \in Goroutines : k # g /\ k # h => pc'[k] = pc[k]
  BY <1>0, <1>1 DEF TypeOK, Points
<1>3. TypeOK' /\ NoFalsePanic'
  BY <1>0, <1>1, <1>2 DEF TypeOK, NoFalsePanic
<1>4. /\ Asleep(pc') = Asleep(pc) /\ Reading(pc') = Reading(pc)
      /\ Leaving(pc') = Leaving(pc) /\ Signalling(pc') = Signalling(pc)
      /\ Waiting(pc') = Waiting(pc) /\ Writers(pc') = Writers(pc)
  <2> DEFINE mid == [pc EXCEPT ![g] = "idle"]
  <2>1. /\ mid \in [Goroutines -> Points] /\ mid[h] = "idle"
        /\ pc' = [mid EXCEPT ![h] = pc[g]]
    BY <1>0, <1>1, <1>2 DEF TypeOK, Points
  <2> HIDE DEF mid
  <2>2. Moved(pc, mid, g, "idle")
    BY <1>0, Moves, Zenon DEF TypeOK, mid
  <2>3. Moved(mid, pc', h, pc[g])
    BY <2>1, Moves, Zenon
  <2>4. /\ Asleep(mid) \in Nat /\ Reading(mid) \in Nat /\ Leaving(mid) \in Nat
        /\ Signalling(mid) \in Nat /\ Waiting(mid) \in Nat
        /\ Writers(mid) \in Nat /\ Writers(pc) \in Nat
    BY <2>1, Before, Numbers
  <2>5. \A P : Weight("idle", P) \in Nat /\ Weight(pc[g], P) \in Nat
    BY DEF Weight
  <2>6. QED
    BY <2>1, <2>2, <2>3, <2>4, <2>5, Before DEF Moved
<1>5. CASE pc[g] = "reading"
  <2>1. \A k \in Goroutines :
          pc[k] \in WritePoints \/ pc'[k] \in WritePoints => pc'[k] = pc[k]
    BY <1>1, <1>2, <1>5 DEF WritePoints
  <2>2. /\ Announced' = Announced /\ Unlocking' = Unlocking
        /\ \A k \in Goroutines : Uncounted(k)' = Uncounted(k)
    BY <1>1, <2>1 DEF Announced, Unlocking, Uncounted, WritePoints
  <2>3. \A k \in Goroutines :
          pc'[k] \in {"wcount", "wsleep", "writing"} => pc'[k] = pc[k]
    BY <2>1 DEF WritePoints
  <2>4. ReadersLeft'
    BY <1>0, <1>1, <2>3 DEF ReadersLeft
  <2>5. Agree'
    BY <1>0, <1>1, <1>4, <2>2, <2>3 DEF Agree
  <2>6. QED
    BY <1>3, <2>4, <2>5, Fold
<1>6. CASE pc[g] = "writing"
  <2>1. /\ \A k \in Goroutines : pc[k] \in WritePoints => k = g
        /\ Announced /\ Unlocking = {}
    BY <1>0, <1>6, TheWriter DEF WritePoints
  <2>2. /\ \A k \in Goroutines : pc'[k] \in WritePoints => k = h
        /\ pc'[h] = "writing"
    BY <1>2, <1>6, <2>1 DEF WritePoints
  <2>3. Announced' /\ Unlocking' = {}
    BY <2>2 DEF Announced, Unlocking, WritePoints
  <2>4. readerWait = 0 /\ readerWait + 0 = Reading(pc) + Leaving(pc) + readerSem
    BY <1>0, <1>6 DEF ReadersLeft, Agree, Uncounted
  <2>5. ReadersLeft'
    BY <1>1, <2>2, <2>4 DEF ReadersLeft, WritePoints
  <2>6. ASSUME NEW k \in Goroutines,
               pc'[k] \in {"wcount", "wsleep", "writing"}
        PROVE  readerWait' + Uncounted(k)'
                 = Reading(pc') + Leaving(pc') + readerSem'
    <3>1. k = h /\ Uncounted(k)' = 0
      BY <2>2, <2>6 DEF WritePoints, Uncounted
    <3>2. QED
      BY <1>1, <1>4, <2>4, <3>1
  <2>7. Agree'
    BY <1>0, <1>1, <1>4, <2>1, <2>3, <2>6 DEF Agree
  <2>8. QED
    BY <1>3, <2>5, <2>7, Fold
<1>7. QED
  BY <1>1, <1>5, <1>6

\* Every step preserves IInv.
LEMMA NextInv == IInv /\ [Next]_vars => IInv'
<1> SUFFICES ASSUME IInv, [Next]_vars PROVE IInv'
  OBVIOUS
<1>1. ASSUME NEW g \in Goroutines, Begin(g)
      PROVE  IInv'
  BY <1>1, RLockAddInv, LockCallInv DEF Begin
<1>2. ASSUME NEW g \in Goroutines, Continue(g)
      PROVE  IInv'
  BY <1>2, RUnlockLeaveInv, RUnlockSignalInv, LockAnnounceInv, LockCountInv,
     UnlockWakeInv, UnlockMutexInv DEF Continue
<1>3. ASSUME NEW g \in Goroutines,
             \/ RUnlockAdd(g) \/ UnlockAnnounce(g)
             \/ RLockSleep(g) \/ LockMutex(g) \/ LockSleep(g)
      PROVE  IInv'
  BY <1>3, RUnlockAddInv, UnlockAnnounceInv, RLockSleepInv, LockMutexInv,
     LockSleepInv
<1>4. ASSUME NEW g \in Goroutines, NEW h \in Goroutines, HandOff(g, h)
      PROVE  IInv'
  BY <1>4, HandOffInv
<1>5. CASE UNCHANGED vars
  BY <1>5
     DEF vars, IInv, TypeOK, NoFalsePanic, WriterHoldsMutex, ReadersCounted,
         WriterWaitsForReaders, ReadersLeft, WriterWakeup, NoReaderLeftAsleep,
         Announced, Unlocking, Uncounted, Count, At
<1>6. QED
  BY <1>1, <1>2, <1>3, <1>4, <1>5 DEF Next

\* The counters, permits and sleepers of sync.RWMutex agree between any two
\* steps, for every finite set of goroutines smaller than rwmutexMaxReaders.
THEOREM Invariant == Spec => []IInv
<1>1. QED
  BY InitInv, NextInv, PTL DEF Spec

\* One writer and nobody else, or any number of readers.
THEOREM MutualExclusion == Spec => []Exclusion
<1>1. IInv => Exclusion
  <2> SUFFICES ASSUME IInv, NEW g \in Goroutines, NEW h \in Goroutines,
                      pc[g] = "writing", pc[h] \in {"reading", "writing"}
               PROVE  g = h
    BY DEF Exclusion
  <2>1. pc[g] \in WritePoints
    BY DEF WritePoints
  <2>2. Reading(pc) = 0 /\ \A k \in Goroutines : pc[k] \in WritePoints => k = g
    BY <2>1, WriterSees
  <2>3. pc[h] # "reading"
    <3>1. IsFiniteSet(Goroutines)
      BY RWMutexAssumption
    <3>2. \A k \in Goroutines : pc[k] \notin {"reading"}
      BY <2>2, <3>1, Before, CountType DEF Reading
    <3>3. QED
      BY <3>2
  <2>4. QED
    BY <2>2, <2>3 DEF WritePoints
<1>2. QED
  BY <1>1, Invariant, PTL

\* Legal use reaches neither "RUnlock of unlocked RWMutex" nor "Unlock of
\* unlocked RWMutex", whatever sleeping readers the biased counter holds.
THEOREM LegalUseNeverPanics == Spec => []NoFalsePanic
<1>1. IInv => NoFalsePanic
  BY DEF IInv
<1>2. QED
  BY <1>1, Invariant, PTL

(***************************************************************************)
(* The semaphores of runtime/sema.go                                       *)
(***************************************************************************)

\* The waiter that semrelease finds: there is one for the address exactly when
\* a goroutine in the queue waits for it.
LEMMA FirstWaiterFound ==
  ASSUME queue \in Seq(Callers), NEW a, NEW i, i = FirstWaiter(a)
  PROVE  \/ i = 0 /\ \A j \in DOMAIN queue : addr[queue[j]] # a
         \/ i \in DOMAIN queue /\ i \in 1..Len(queue) /\ addr[queue[i]] = a
<1> DEFINE I == {j \in 1..Len(queue) : addr[queue[j]] = a}
<1>1. DOMAIN queue = 1..Len(queue) /\ Len(queue) \in Nat
  BY LenProperties
<1>2. i = IF I # {} THEN Min(I) ELSE 0
  BY DEF FirstWaiter, SelectInSeq
<1>3. ASSUME I # {}
      PROVE  Min(I) \in I
  <2>1. I \in SUBSET Nat
    BY <1>1
  <2>2. PICK m \in I : \A n \in I : ~(<<n, m>> \in OpToRel(<, Nat))
    BY <1>3, <2>1, NatLessThanWellFounded, WFMin
  <2>3. ASSUME NEW n \in I
        PROVE  m <= n
    <3>1. m \in Nat /\ n \in Nat
      BY <2>1
    <3>2. <<n, m>> \in Nat \X Nat
      BY <3>1
    <3>3. ~(n < m)
      BY <2>2, <3>2 DEF OpToRel
    <3>4. QED
      BY <3>1, <3>3
  <2>4. QED
    BY <2>3 DEF Min
<1>4. CASE I = {}
  BY <1>1, <1>2, <1>4
<1>5. CASE I # {}
  BY <1>1, <1>2, <1>3, <1>5
<1>6. QED
  BY <1>4, <1>5

-----------------------------------------------------------------------------
\* The points that nwait counts.
Counted == {"parked", "recheck", "undo"}

\* What the count behind nwait is when one goroutine moves to p.
LEMMA CountedMoves ==
  ASSUME SemaTypeOK, SemaWaitersCounted, NEW g \in Callers, NEW p,
         point' = [point EXCEPT ![g] = p]
  PROVE  Count(point', Counted) =
           nwait + (IF p \in Counted THEN 1 ELSE 0)
                 - (IF point[g] \in Counted THEN 1 ELSE 0)
<1>1. IsFiniteSet(Callers) /\ point \in [Callers -> SemaPoints]
  BY SemaAssumption DEF SemaTypeOK
<1>2. Count(point', Counted) =
        Count(point, Counted) + Weight(p, Counted) - Weight(point[g], Counted)
  BY <1>1, CountMove, Zenon
<1>3. QED
  BY <1>2 DEF Weight, SemaWaitersCounted, Counted

\* While somebody is counted nwait is positive.
LEMMA CountedPositive ==
  ASSUME SemaTypeOK, SemaWaitersCounted, NEW g \in Callers, point[g] \in Counted
  PROVE  nwait \in Nat /\ nwait > 0
<1>1. IsFiniteSet(Callers) /\ point \in [Callers -> SemaPoints]
  BY SemaAssumption DEF SemaTypeOK
<1>2. Count(point, Counted) \in Nat /\ Count(point, Counted) > 0
  BY <1>1, CountPositive
<1>3. QED
  BY <1>2 DEF SemaWaitersCounted, Counted

\* What the critical section of semrelease does: it finds nobody who waits for
\* its semaphore, or it takes one such goroutine off the queue.
LEMMA SearchOutcome ==
  ASSUME SemaInv, NEW g \in Callers, SemreleaseSearch(g)
  PROVE  \/ /\ \A h \in Callers : ~(point[h] = "parked" /\ addr[h] = addr[g])
            /\ SemaReturn(g)
            /\ UNCHANGED <<nwait, queue>>
         \/ \E h \in Callers :
              /\ point[h] = "parked" /\ addr[h] = addr[g]
              /\ queue' \in Seq(Callers)
              /\ Range(queue') = Range(queue) \ {h}
              /\ \A j, k \in DOMAIN queue' : queue'[j] = queue'[k] => j = k
              /\ nwait' = nwait - 1
              /\ point' = [point EXCEPT ![g] = "idle", ![h] = "woken"]
              /\ addr' = [addr EXCEPT ![g] = NoAddr]
<1> DEFINE i == FirstWaiter(addr[g])
<1>1. /\ queue \in Seq(Callers) /\ DOMAIN queue = 1..Len(queue)
      /\ \A j, k \in DOMAIN queue : queue[j] = queue[k] => j = k
      /\ \A h \in Callers :
           point[h] = "parked" <=> \E j \in DOMAIN queue : queue[j] = h
      /\ \A j \in DOMAIN queue : queue[j] \in Callers
  BY LenProperties, ElementOfSeq DEF SemaInv, SemaTypeOK, QueueIsParked, Range
<1>2. \/ i = 0 /\ \A j \in DOMAIN queue : addr[queue[j]] # addr[g]
      \/ /\ i \in DOMAIN queue /\ i \in 1..Len(queue)
         /\ addr[queue[i]] = addr[g]
  BY <1>1, FirstWaiterFound
<1>3. IF nwait = 0 \/ i = 0
      THEN UNCHANGED <<nwait, queue>> /\ SemaReturn(g)
      ELSE /\ nwait' = nwait - 1
           /\ Dequeue(i)
           /\ point' = [point EXCEPT ![g] = "idle", ![queue[i]] = "woken"]
           /\ addr' = [addr EXCEPT ![g] = NoAddr]
  BY DEF SemreleaseSearch
<1> HIDE DEF i
<1>4. CASE nwait = 0
  <2>1. \A h \in Callers : point[h] # "parked"
    BY <1>4, CountedPositive DEF SemaInv, Counted
  <2>2. QED
    BY <1>3, <1>4, <2>1
<1>5. CASE i = 0
  <2>1. \A j \in DOMAIN queue : addr[queue[j]] # addr[g]
    BY <1>2, <1>5, <1>1
  <2>2. QED
    BY <1>1, <1>3, <1>5, <2>1
<1>6. CASE nwait # 0 /\ i # 0
  <2>1. /\ i \in 1..Len(queue) /\ i \in DOMAIN queue
        /\ addr[queue[i]] = addr[g] /\ queue[i] \in Callers
        /\ point[queue[i]] = "parked"
    BY <1>1, <1>2, <1>6
  <2>2. /\ RemoveAt(queue, i) \in Seq(Callers)
        /\ Range(RemoveAt(queue, i)) = Range(queue) \ {queue[i]}
        /\ \A j, k \in DOMAIN RemoveAt(queue, i) :
             RemoveAt(queue, i)[j] = RemoveAt(queue, i)[k] => j = k
    BY <1>1, <2>1, QueueLess
  <2>3. queue' = RemoveAt(queue, i)
    BY <1>3, <1>6 DEF Dequeue
  <2>4. QED
    BY <1>3, <1>6, <2>1, <2>2, <2>3, Zenon
<1>7. QED
  BY <1>4, <1>5, <1>6
-----------------------------------------------------------------------------
LEMMA SemaInitInv == SemaInit => SemaInv
<1> SUFFICES ASSUME SemaInit PROVE SemaInv
  OBVIOUS
<1> USE SemaAssumption DEF SemaInit
<1>1. SemaTypeOK
  BY EmptySeq DEF SemaTypeOK, SemaPoints
<1>2. LockHeld
  <2>1. {g \in Callers : point[g] \in {"recheck", "undo"}} = {}
    OBVIOUS
  <2>2. QED
    BY <2>1, FS_EmptySet DEF LockHeld
<1>3. QueueIsParked
  BY EmptySeq DEF QueueIsParked, Range
<1>4. SemaWaitersCounted
  <2>1. Count(point, Counted) = 0 <=> \A g \in Callers : point[g] \notin Counted
    <3>1. IsFiniteSet(Callers) /\ point \in [Callers -> SemaPoints]
      BY <1>1 DEF SemaTypeOK
    <3>2. QED
      BY <3>1, CountType, Zenon
  <2>2. QED
    BY <2>1 DEF SemaWaitersCounted, Counted
<1>5. SemaNoLostWakeup
  BY DEF SemaNoLostWakeup, CallsAt
<1>6. QED
  BY <1>1, <1>2, <1>3, <1>4, <1>5 DEF SemaInv

LEMMA TypeStep ==
  ASSUME SemaInv, SemaNext
  PROVE  SemaTypeOK'
<1> USE SemaAssumption DEF SemaPoints, AcquirePoints, ReleasePoints
<1>1. /\ SemaTypeOK /\ nwait \in Nat /\ queue \in Seq(Callers)
      /\ point \in [Callers -> SemaPoints] /\ count \in [Addrs -> Nat]
      /\ addr \in [Callers -> Addrs \cup {NoAddr}]
      /\ lock \in SUBSET Callers
      /\ \A g \in Callers : point[g] = "idle" <=> addr[g] = NoAddr
  BY DEF SemaInv, SemaTypeOK
<1>2. ASSUME NEW a \in Addrs, TakePermit(a)
      PROVE  count' \in [Addrs -> Nat]
  BY <1>1, <1>2 DEF TakePermit
<1>3. ASSUME NEW g \in Callers, NEW a \in Addrs, SemacquireEasy(g, a)
      PROVE  SemaTypeOK'
  BY <1>1, <1>2, <1>3 DEF SemacquireEasy, SemaCall, SemaTypeOK
<1>4. ASSUME NEW g \in Callers, SemacquireLock(g)
      PROVE  SemaTypeOK'
  BY <1>1, <1>4 DEF SemacquireLock, SemaGoto, SemaTypeOK
<1>5. ASSUME NEW g \in Callers, SemacquireRecheck(g)
      PROVE  SemaTypeOK'
  <2>1. addr[g] \in Addrs
    BY <1>1, <1>5 DEF SemacquireRecheck
  <2>2. Append(queue, g) \in Seq(Callers)
    BY <1>1, AppendProperties
  <2>3. QED
    BY <1>1, <1>2, <1>5, <2>1, <2>2
       DEF SemacquireRecheck, Enqueue, SemaGoto, SemaTypeOK
<1>6. ASSUME NEW g \in Callers, SemacquireUndo(g)
      PROVE  SemaTypeOK'
  <2>1. nwait > 0
    BY <1>6, CountedPositive DEF SemacquireUndo, Counted, SemaInv
  <2>2. QED
    BY <1>1, <1>6, <2>1 DEF SemacquireUndo, SemaReturn, SemaCall, SemaTypeOK
<1>7. ASSUME NEW g \in Callers, SemacquireWoken(g)
      PROVE  SemaTypeOK'
  <2>1. addr[g] \in Addrs
    BY <1>1, <1>7 DEF SemacquireWoken
  <2>2. QED
    BY <1>1, <1>2, <1>7, <2>1 DEF SemacquireWoken, SemaReturn, SemaCall, SemaGoto,
       SemaTypeOK
<1>8. ASSUME NEW g \in Callers, NEW a \in Addrs, SemreleaseAdd(g, a)
      PROVE  SemaTypeOK'
  BY <1>1, <1>8 DEF SemreleaseAdd, SemaCall, SemaTypeOK
<1>9. ASSUME NEW g \in Callers, SemreleaseEasy(g)
      PROVE  SemaTypeOK'
  BY <1>1, <1>9 DEF SemreleaseEasy, SemaReturn, SemaCall, SemaGoto, SemaTypeOK
<1>10. ASSUME NEW g \in Callers, SemreleaseSearch(g)
       PROVE  SemaTypeOK'
  <2>1. UNCHANGED <<count, lock>>
    BY <1>10 DEF SemreleaseSearch
  <2>2. CASE SemaReturn(g) /\ UNCHANGED <<nwait, queue>>
    BY <1>1, <2>1, <2>2 DEF SemaReturn, SemaCall, SemaTypeOK
  <2>3. ASSUME NEW h \in Callers, point[h] = "parked",
               queue' \in Seq(Callers), nwait' = nwait - 1,
               point' = [point EXCEPT ![g] = "idle", ![h] = "woken"],
               addr' = [addr EXCEPT ![g] = NoAddr]
        PROVE  SemaTypeOK'
    <3>1. nwait > 0
      BY <2>3, CountedPositive DEF Counted, SemaInv
    <3>2. g # h
      BY <1>10, <2>3 DEF SemreleaseSearch
    <3>3. QED
      BY <1>1, <2>1, <2>3, <3>1, <3>2 DEF SemaTypeOK
  <2>4. QED
    BY <1>10, <2>2, <2>3, SearchOutcome
<1>11. QED
  BY <1>3, <1>4, <1>5, <1>6, <1>7, <1>8, <1>9, <1>10 DEF SemaNext, SemaBegin, SemaContinue

\* root.lock: only the goroutine that takes it enters the critical section.
LEMMA LockStep ==
  ASSUME SemaInv, SemaNext
  PROVE  LockHeld'
<1>1. /\ point \in [Callers -> SemaPoints] /\ point' \in [Callers -> SemaPoints]
      /\ lock = {g \in Callers : point[g] \in {"recheck", "undo"}}
      /\ Cardinality(lock) <= 1 /\ IsFiniteSet(lock)
  <2>1. lock \in SUBSET Callers
    BY DEF SemaInv, SemaTypeOK
  <2>2. IsFiniteSet(lock)
    BY <2>1, SemaAssumption, FS_Subset
  <2>3. QED
    BY <2>2, TypeStep DEF SemaInv, SemaTypeOK, LockHeld
<1>2. ASSUME NEW g \in Callers, NEW p, point' = [point EXCEPT ![g] = p],
             (p \in {"recheck", "undo"}) <=> (point[g] \in {"recheck", "undo"}),
             lock' = lock
      PROVE  LockHeld'
  BY <1>1, <1>2 DEF LockHeld
<1>3. ASSUME NEW g \in Callers, NEW p, point' = [point EXCEPT ![g] = p],
             p \notin {"recheck", "undo"}, lock' = lock \ {g}
      PROVE  LockHeld'
  <2>1. lock' = {h \in Callers : point'[h] \in {"recheck", "undo"}}
    BY <1>1, <1>3
  <2>2. Cardinality(lock') <= Cardinality(lock) /\ IsFiniteSet(lock')
    BY <1>1, <1>3, FS_Subset
  <2>3. Cardinality(lock) \in Nat /\ Cardinality(lock') \in Nat
    BY <1>1, <2>2, FS_CardinalityType
  <2>4. QED
    BY <1>1, <2>1, <2>2, <2>3 DEF LockHeld
<1>4. ASSUME NEW g \in Callers, SemacquireLock(g)
      PROVE  LockHeld'
  <2>1. /\ lock = {} /\ lock' = {g} /\ point' = [point EXCEPT ![g] = "recheck"]
    BY <1>4 DEF SemacquireLock, SemaGoto
  <2>2. lock' = {h \in Callers : point'[h] \in {"recheck", "undo"}}
    BY <1>1, <2>1
  <2>3. Cardinality(lock') = 1
    BY <2>1, FS_Singleton
  <2>4. QED
    BY <2>2, <2>3 DEF LockHeld
<1>5. ASSUME NEW g \in Callers, NEW a \in Addrs,
             SemacquireEasy(g, a) \/ SemreleaseAdd(g, a)
      PROVE  LockHeld'
  <2>1. CASE UNCHANGED <<point, lock>>
    BY <1>1, <2>1 DEF LockHeld
  <2>2. CASE SemaCall(g, a, "slow") \/ SemaCall(g, a, "released")
    BY <1>2, <1>5, <2>2 DEF SemacquireEasy, SemreleaseAdd, SemaCall
  <2>3. QED
    BY <1>5, <2>1, <2>2 DEF SemacquireEasy, SemreleaseAdd
<1>6. ASSUME NEW g \in Callers, SemacquireRecheck(g)
      PROVE  LockHeld'
  <2>1. CASE SemaGoto(g, "undo") /\ UNCHANGED lock
    BY <1>2, <1>6, <2>1 DEF SemacquireRecheck, SemaGoto
  <2>2. CASE SemaGoto(g, "parked") /\ lock' = lock \ {g}
    <3>1. point' = [point EXCEPT ![g] = "parked"] /\ lock' = lock \ {g}
      BY <2>2 DEF SemaGoto
    <3>2. "parked" \notin {"recheck", "undo"}
      OBVIOUS
    <3>3. QED
      BY <1>3, <3>1, <3>2, Zenon
  <2>3. QED
    BY <1>6, <2>1, <2>2 DEF SemacquireRecheck
<1>7. ASSUME NEW g \in Callers, SemacquireUndo(g)
      PROVE  LockHeld'
  BY <1>3, <1>7 DEF SemacquireUndo, SemaReturn, SemaCall
<1>8. ASSUME NEW g \in Callers, SemacquireWoken(g) \/ SemreleaseEasy(g)
      PROVE  LockHeld'
  BY <1>2, <1>8 DEF SemacquireWoken, SemreleaseEasy, SemaReturn, SemaCall, SemaGoto
<1>9. ASSUME NEW g \in Callers, SemreleaseSearch(g)
      PROVE  LockHeld'
  <2>1. point[g] = "search" /\ lock' = lock
    BY <1>9 DEF SemreleaseSearch
  <2>2. CASE SemaReturn(g)
    BY <1>2, <2>1, <2>2 DEF SemaReturn, SemaCall
  <2>3. ASSUME NEW h \in Callers, point[h] = "parked",
               point' = [point EXCEPT ![g] = "idle", ![h] = "woken"]
        PROVE  LockHeld'
    BY <1>1, <2>1, <2>3 DEF LockHeld
  <2>4. QED
    BY <1>9, <2>2, <2>3, SearchOutcome
<1>10. QED
  BY <1>4, <1>5, <1>6, <1>7, <1>8, <1>9 DEF SemaNext, SemaBegin, SemaContinue

\* The queue changes with the goroutines that park and are woken.
LEMMA QueueStep ==
  ASSUME SemaInv, SemaNext
  PROVE  QueueIsParked'
<1>1. /\ point \in [Callers -> SemaPoints] /\ queue \in Seq(Callers)
      /\ Range(queue) = {g \in Callers : point[g] = "parked"}
      /\ \A i, j \in DOMAIN queue : queue[i] = queue[j] => i = j
  BY DEF SemaInv, SemaTypeOK, QueueIsParked
<1>2. ASSUME NEW g \in Callers, NEW p, point' = [point EXCEPT ![g] = p],
             p # "parked", point[g] # "parked", UNCHANGED queue
      PROVE  QueueIsParked'
  BY <1>1, <1>2 DEF QueueIsParked
<1>3. ASSUME UNCHANGED <<point, queue>>
      PROVE  QueueIsParked'
  BY <1>1, <1>3 DEF QueueIsParked
<1>4. ASSUME NEW g \in Callers, NEW a \in Addrs,
             SemacquireEasy(g, a) \/ SemreleaseAdd(g, a)
      PROVE  QueueIsParked'
  BY <1>2, <1>3, <1>4 DEF SemacquireEasy, SemreleaseAdd, SemaCall
<1>5. ASSUME NEW g \in Callers,
             \/ SemacquireLock(g) \/ SemacquireUndo(g) \/ SemacquireWoken(g)
             \/ SemreleaseEasy(g)
      PROVE  QueueIsParked'
  BY <1>2, <1>5 DEF SemacquireLock, SemacquireUndo, SemacquireWoken,
    SemreleaseEasy, SemaReturn, SemaCall, SemaGoto
<1>6. ASSUME NEW g \in Callers, SemacquireRecheck(g)
      PROVE  QueueIsParked'
  <2>1. CASE SemaGoto(g, "undo") /\ UNCHANGED queue
    BY <1>2, <1>6, <2>1 DEF SemacquireRecheck, SemaGoto
  <2>2. CASE SemaGoto(g, "parked") /\ Enqueue(g)
    <3>1. g \notin Range(queue)
      BY <1>1, <1>6 DEF SemacquireRecheck
    <3>2. /\ Range(Append(queue, g)) = Range(queue) \cup {g}
          /\ \A i, j \in DOMAIN Append(queue, g) :
               Append(queue, g)[i] = Append(queue, g)[j] => i = j
      BY <1>1, <3>1, QueueMore
    <3>3. {h \in Callers : point'[h] = "parked"} = Range(queue) \cup {g}
      BY <1>1, <2>2 DEF SemaGoto
    <3>4. queue' = Append(queue, g)
      BY <2>2 DEF Enqueue
    <3>5. QED
      BY <3>2, <3>3, <3>4 DEF QueueIsParked
  <2>3. QED
    BY <1>6, <2>1, <2>2 DEF SemacquireRecheck
<1>7. ASSUME NEW g \in Callers, SemreleaseSearch(g)
      PROVE  QueueIsParked'
  <2>1. point[g] = "search"
    BY <1>7 DEF SemreleaseSearch
  <2>2. CASE SemaReturn(g) /\ UNCHANGED queue
    BY <1>2, <2>1, <2>2 DEF SemaReturn, SemaCall
  <2>3. ASSUME NEW h \in Callers, point[h] = "parked",
               Range(queue') = Range(queue) \ {h},
               \A j, k \in DOMAIN queue' : queue'[j] = queue'[k] => j = k,
               point' = [point EXCEPT ![g] = "idle", ![h] = "woken"]
        PROVE  QueueIsParked'
    <3>1. {i \in Callers : point'[i] = "parked"} = Range(queue) \ {h}
      BY <1>1, <2>1, <2>3
    <3>2. QED
      BY <2>3, <3>1 DEF QueueIsParked
  <2>4. QED
    BY <1>7, <2>2, <2>3, SearchOutcome
<1>8. QED
  BY <1>4, <1>5, <1>6, <1>7 DEF SemaNext, SemaBegin, SemaContinue

\* nwait changes with the goroutines it counts.
LEMMA CountStep ==
  ASSUME SemaInv, SemaNext
  PROVE  SemaWaitersCounted'
<1>1. /\ point \in [Callers -> SemaPoints] /\ nwait \in Nat
      /\ SemaTypeOK /\ SemaWaitersCounted
  BY DEF SemaInv, SemaTypeOK
<1>2. ASSUME UNCHANGED <<point, nwait>>
      PROVE  SemaWaitersCounted'
  BY <1>1, <1>2 DEF SemaWaitersCounted
<1>3. ASSUME NEW g \in Callers, NEW p, point' = [point EXCEPT ![g] = p],
             nwait' = Count(point', Counted)
      PROVE  SemaWaitersCounted'
  BY <1>3 DEF SemaWaitersCounted, Counted
<1>4. ASSUME NEW g \in Callers, NEW p, point' = [point EXCEPT ![g] = p],
             UNCHANGED nwait, p \in Counted <=> point[g] \in Counted
      PROVE  SemaWaitersCounted'
  <2>1. Count(point', Counted) =
          nwait + (IF p \in Counted THEN 1 ELSE 0)
                - (IF point[g] \in Counted THEN 1 ELSE 0)
    BY <1>1, <1>4, CountedMoves, Zenon
  <2>2. nwait' = Count(point', Counted)
    BY <1>1, <1>4, <2>1
  <2>3. QED
    BY <1>3, <1>4, <2>2
<1>5. ASSUME NEW g \in Callers, NEW a \in Addrs,
             SemacquireEasy(g, a) \/ SemreleaseAdd(g, a)
      PROVE  SemaWaitersCounted'
  BY <1>2, <1>4, <1>5 DEF SemacquireEasy, SemreleaseAdd, SemaCall, Counted
<1>6. ASSUME NEW g \in Callers,
             \/ SemacquireRecheck(g) \/ SemacquireWoken(g)
             \/ SemreleaseEasy(g)
      PROVE  SemaWaitersCounted'
  BY <1>4, <1>6 DEF SemacquireRecheck, SemacquireWoken, SemreleaseEasy,
    SemaReturn, SemaCall, SemaGoto, Counted
<1>7. ASSUME NEW g \in Callers, SemacquireLock(g)
      PROVE  SemaWaitersCounted'
  <2>1. /\ point[g] = "slow" /\ point' = [point EXCEPT ![g] = "recheck"]
        /\ nwait' = nwait + 1
    BY <1>7 DEF SemacquireLock, SemaGoto
  <2>2. Count(point', Counted) =
          nwait + (IF "recheck" \in Counted THEN 1 ELSE 0)
                - (IF "slow" \in Counted THEN 1 ELSE 0)
    BY <1>1, <2>1, CountedMoves, Zenon
  <2>3. nwait' = Count(point', Counted)
    BY <1>1, <2>1, <2>2 DEF Counted
  <2>4. QED
    BY <1>3, <2>1, <2>3
<1>8. ASSUME NEW g \in Callers, SemacquireUndo(g)
      PROVE  SemaWaitersCounted'
  <2>1. /\ point[g] = "undo" /\ point' = [point EXCEPT ![g] = "idle"]
        /\ nwait' = nwait - 1
    BY <1>8 DEF SemacquireUndo, SemaReturn, SemaCall
  <2>2. Count(point', Counted) =
          nwait + (IF "idle" \in Counted THEN 1 ELSE 0)
                - (IF "undo" \in Counted THEN 1 ELSE 0)
    BY <1>1, <2>1, CountedMoves, Zenon
  <2>3. nwait' = Count(point', Counted)
    BY <1>1, <2>1, <2>2 DEF Counted
  <2>4. QED
    BY <1>3, <2>1, <2>3
<1>9. ASSUME NEW g \in Callers, SemreleaseSearch(g)
      PROVE  SemaWaitersCounted'
  <2>1. point[g] = "search"
    BY <1>9 DEF SemreleaseSearch
  <2>2. CASE SemaReturn(g) /\ UNCHANGED nwait
    BY <1>4, <2>1, <2>2 DEF SemaReturn, SemaCall, Counted
  <2>3. ASSUME NEW h \in Callers, point[h] = "parked", nwait' = nwait - 1,
               point' = [point EXCEPT ![g] = "idle", ![h] = "woken"]
        PROVE  SemaWaitersCounted'
    <3>1. At(point', Counted) = At([point EXCEPT ![h] = "woken"], Counted)
      BY <1>1, <2>1, <2>3 DEF At, Counted
    <3>2. IsFiniteSet(Callers)
      BY SemaAssumption
    <3>3. Count([point EXCEPT ![h] = "woken"], Counted) =
            Count(point, Counted) + Weight("woken", Counted)
                               - Weight(point[h], Counted)
      BY <1>1, <3>2, CountMove, Zenon
    <3>4. Count(point', Counted) = nwait - 1
      BY <1>1, <2>3, <3>1, <3>3 DEF Count, Weight, SemaWaitersCounted, Counted
    <3>5. QED
      BY <2>3, <3>4 DEF SemaWaitersCounted, Counted
  <2>4. QED
    BY <1>9, <2>2, <2>3, SearchOutcome
<1>10. QED
  BY <1>5, <1>6, <1>7, <1>8, <1>9 DEF SemaNext, SemaBegin, SemaContinue
-----------------------------------------------------------------------------
\* Those of a semaphore that will still look after its permits.
Lookers(a) == CallsAt(a, ReleasePoints \cup {"woken"})

\* How their number changes.
LEMMA OneMore ==
  ASSUME NEW S, IsFiniteSet(S), NEW g, g \notin S
  PROVE  Cardinality(S) \in Nat /\ Cardinality(S \cup {g}) = Cardinality(S) + 1
BY FS_AddElement, FS_CardinalityType

LEMMA OneLess ==
  ASSUME NEW S, IsFiniteSet(S), NEW g \in S
  PROVE  /\ Cardinality(S) \in Nat
         /\ Cardinality(S \ {g}) = Cardinality(S) - 1
         /\ Cardinality(S \ {g}) \in Nat
BY FS_RemoveElement, FS_CardinalityType

LEMMA OneForAnother ==
  ASSUME NEW S, IsFiniteSet(S), NEW g \in S, NEW h, h \notin S
  PROVE  /\ Cardinality(S) \in Nat
         /\ Cardinality((S \ {g}) \cup {h}) = Cardinality(S)
<1>1. IsFiniteSet(S \ {g}) /\ h \notin S \ {g}
  BY FS_RemoveElement
<1>2. QED
  BY <1>1, OneLess, OneMore

\* A permit that appears brings somebody who looks for a waiter, and who leaves
\* has found no permit or no waiter.
LEMMA WakeupStep ==
  ASSUME SemaInv, SemaNext
  PROVE  SemaNoLostWakeup'
<1> USE DEF Lookers, CallsAt, ReleasePoints
<1>1. /\ SemaTypeOK /\ point \in [Callers -> SemaPoints] /\ count \in [Addrs -> Nat]
      /\ addr \in [Callers -> Addrs \cup {NoAddr}]
      /\ count' \in [Addrs -> Nat]
      /\ \A g \in Callers : point[g] = "idle" <=> addr[g] = NoAddr
      /\ NoAddr \notin Addrs
  BY TypeStep, SemaAssumption DEF SemaInv, SemaTypeOK
<1>2. \A a \in Addrs :
        /\ IsFiniteSet(Lookers(a)) /\ Cardinality(Lookers(a)) \in Nat
        /\ IsFiniteSet(Lookers(a)') /\ Cardinality(Lookers(a)') \in Nat
  <2>1. \A a \in Addrs : /\ Lookers(a) \in SUBSET Callers
                         /\ Lookers(a)' \in SUBSET Callers
    OBVIOUS
  <2> HIDE DEF Lookers
  <2>2. QED
    BY <2>1, SemaAssumption, FS_Subset, FS_CardinalityType
<1>3. \A a \in Addrs : CallsAt(a, {"parked"}) # {}
                        => count[a] <= Cardinality(Lookers(a))
  BY DEF SemaInv, SemaNoLostWakeup
<1>4. SUFFICES ASSUME NEW a \in Addrs, CallsAt(a, {"parked"})' # {}
               PROVE  count'[a] <= Cardinality(Lookers(a)')
  BY DEF SemaNoLostWakeup
<1> HIDE DEF Lookers, CallsAt
\* The ways in which a step keeps the balance of a.
<1>5. ASSUME CallsAt(a, {"parked"})' \subseteq CallsAt(a, {"parked"}),
             Lookers(a)' = Lookers(a), count'[a] <= count[a]
      PROVE  count'[a] <= Cardinality(Lookers(a)')
  <2>1. count[a] <= Cardinality(Lookers(a))
    BY <1>3, <1>4, <1>5
  <2>2. QED
    BY <1>1, <1>2, <1>5, <2>1
<1>6. ASSUME count'[a] = 0
      PROVE  count'[a] <= Cardinality(Lookers(a)')
  BY <1>2, <1>6
<1>7. ASSUME NEW b \in Addrs, TakePermit(b)
      PROVE  count'[a] <= count[a]
  BY <1>1, <1>7 DEF TakePermit
<1>8. ASSUME NEW g \in Callers, NEW b \in Addrs, SemacquireEasy(g, b)
      PROVE  count'[a] <= Cardinality(Lookers(a)')
  <2>1. CASE TakePermit(b) /\ UNCHANGED <<point, addr>>
    BY <1>5, <1>7, <2>1 DEF Lookers, CallsAt
  <2>2. CASE UNCHANGED count /\ SemaCall(g, b, "slow")
    <3>1. CallsAt(a, {"parked"})' \subseteq CallsAt(a, {"parked"})
      BY <1>1, <2>2 DEF SemaCall, CallsAt
    <3>2. Lookers(a)' = Lookers(a)
      BY <1>1, <1>8, <2>2 DEF SemacquireEasy, SemaCall, CallsAt, Lookers
    <3>3. QED
      BY <1>1, <1>5, <2>2, <3>1, <3>2
  <2>3. QED
    BY <1>8, <2>1, <2>2 DEF SemacquireEasy
<1>9. ASSUME NEW g \in Callers, SemacquireLock(g) \/ SemacquireUndo(g)
      PROVE  count'[a] <= Cardinality(Lookers(a)')
  <2>1. CallsAt(a, {"parked"})' \subseteq CallsAt(a, {"parked"})
    BY <1>1, <1>9 DEF SemacquireLock, SemacquireUndo, SemaGoto, SemaReturn, SemaCall,
      CallsAt
  <2>2. Lookers(a)' = Lookers(a)
    BY <1>1, <1>9 DEF SemacquireLock, SemacquireUndo, SemaGoto, SemaReturn, SemaCall,
      CallsAt, Lookers
  <2>3. QED
    BY <1>1, <1>5, <1>9, <2>1, <2>2 DEF SemacquireLock, SemacquireUndo
<1>10. ASSUME NEW g \in Callers, SemacquireRecheck(g)
       PROVE  count'[a] <= Cardinality(Lookers(a)')
  <2>1. point[g] = "recheck" /\ addr[g] \in Addrs
    BY <1>1, <1>10 DEF SemacquireRecheck
  <2>2. CASE TakePermit(addr[g]) /\ SemaGoto(g, "undo")
    <3>1. CallsAt(a, {"parked"})' \subseteq CallsAt(a, {"parked"})
      BY <1>1, <2>2 DEF SemaGoto, CallsAt
    <3>2. Lookers(a)' = Lookers(a)
      BY <1>1, <2>1, <2>2 DEF SemaGoto, CallsAt, Lookers
    <3>3. QED
      BY <1>5, <1>7, <2>1, <2>2, <3>1, <3>2
  <2>3. CASE count[addr[g]] = 0 /\ SemaGoto(g, "parked") /\ UNCHANGED count
    <3>1. CASE a = addr[g]
      BY <1>6, <2>3, <3>1
    <3>2. CASE a # addr[g]
      <4>1. /\ CallsAt(a, {"parked"})' \subseteq CallsAt(a, {"parked"})
            /\ Lookers(a)' = Lookers(a)
        BY <1>1, <2>1, <2>3, <3>2 DEF SemaGoto, CallsAt, Lookers
      <4>2. QED
        BY <1>1, <1>5, <2>3, <4>1
    <3>3. QED
      BY <3>1, <3>2
  <2>4. QED
    BY <1>10, <2>2, <2>3 DEF SemacquireRecheck
<1>11. ASSUME NEW g \in Callers, SemacquireWoken(g)
       PROVE  count'[a] <= Cardinality(Lookers(a)')
  <2>1. point[g] = "woken" /\ addr[g] \in Addrs
    BY <1>1, <1>11 DEF SemacquireWoken
  <2>2. CallsAt(a, {"parked"})' \subseteq CallsAt(a, {"parked"})
    BY <1>1, <1>11 DEF SemacquireWoken, SemaGoto, SemaReturn, SemaCall, CallsAt
  <2>3. CASE a # addr[g]
    <3>1. Lookers(a)' = Lookers(a)
      BY <1>1, <1>11, <2>3
         DEF SemacquireWoken, SemaGoto, SemaReturn, SemaCall, CallsAt, Lookers
    <3>2. count'[a] <= count[a]
      BY <1>1, <1>7, <1>11, <2>1 DEF SemacquireWoken
    <3>3. QED
      BY <1>5, <2>2, <3>1, <3>2
  <2>4. CASE a = addr[g] /\ TakePermit(addr[g]) /\ SemaReturn(g)
    <3>1. Lookers(a)' = Lookers(a) \ {g} /\ g \in Lookers(a)
      BY <1>1, <2>1, <2>4 DEF SemaReturn, SemaCall, CallsAt, Lookers
    <3>2. count'[a] = count[a] - 1
      BY <1>1, <2>4 DEF TakePermit
    <3>3. count[a] <= Cardinality(Lookers(a))
      BY <1>3, <1>4, <2>2
    <3>4. QED
      BY <1>1, <1>2, <3>1, <3>2, <3>3, OneLess
  <2>5. CASE a = addr[g] /\ count[addr[g]] = 0 /\ UNCHANGED count
    BY <1>6, <2>5
  <2>6. QED
    BY <1>11, <2>3, <2>4, <2>5 DEF SemacquireWoken
<1>12. ASSUME NEW g \in Callers, NEW b \in Addrs, SemreleaseAdd(g, b)
       PROVE  count'[a] <= Cardinality(Lookers(a)')
  <2>1. /\ point[g] = "idle" /\ addr[g] = NoAddr
        /\ point' = [point EXCEPT ![g] = "released"] /\ addr' = [addr EXCEPT ![g] = b]
        /\ count' = [count EXCEPT ![b] = @ + 1]
    BY <1>1, <1>12 DEF SemreleaseAdd, SemaCall
  <2>2. CallsAt(a, {"parked"})' \subseteq CallsAt(a, {"parked"})
    BY <1>1, <2>1 DEF CallsAt
  <2>3. CASE a # b
    <3>1. Lookers(a)' = Lookers(a)
      BY <1>1, <2>1, <2>3 DEF CallsAt, Lookers
    <3>2. QED
      BY <1>1, <1>5, <2>1, <2>2, <2>3, <3>1
  <2>4. CASE a = b
    <3>1. Lookers(a)' = Lookers(a) \cup {g} /\ g \notin Lookers(a)
      BY <1>1, <2>1, <2>4 DEF CallsAt, Lookers
    <3>2. count[a] <= Cardinality(Lookers(a)) /\ count'[a] = count[a] + 1
      BY <1>1, <1>3, <1>4, <2>1, <2>2, <2>4
    <3>3. QED
      BY <1>1, <1>2, <3>1, <3>2, OneMore
  <2>5. QED
    BY <2>3, <2>4
<1>13. ASSUME NEW g \in Callers, SemreleaseEasy(g)
       PROVE  count'[a] <= Cardinality(Lookers(a)')
  <2>1. point[g] = "released" /\ UNCHANGED count
    BY <1>13 DEF SemreleaseEasy
  <2>2. CallsAt(a, {"parked"})' \subseteq CallsAt(a, {"parked"})
    BY <1>1, <1>13 DEF SemreleaseEasy, SemaGoto, SemaReturn, SemaCall, CallsAt
  <2>3. PICK h \in Callers : point[h] = "parked"
    BY <1>4, <2>2 DEF CallsAt
  <2>4. nwait # 0
    BY <2>3, CountedPositive DEF SemaInv, Counted
  <2>5. point' = [point EXCEPT ![g] = "search"] /\ UNCHANGED addr
    BY <1>13, <2>4 DEF SemreleaseEasy, SemaGoto
  <2>6. Lookers(a)' = Lookers(a)
    BY <1>1, <2>1, <2>5 DEF CallsAt, Lookers
  <2>7. QED
    BY <1>1, <1>5, <2>1, <2>2, <2>6
<1>14. ASSUME NEW g \in Callers, SemreleaseSearch(g)
       PROVE  count'[a] <= Cardinality(Lookers(a)')
  <2>1. point[g] = "search" /\ UNCHANGED count
    BY <1>14 DEF SemreleaseSearch
  <2>2. CASE /\ \A h \in Callers : ~(point[h] = "parked" /\ addr[h] = addr[g])
             /\ SemaReturn(g)
    <3>1. CallsAt(a, {"parked"})' \subseteq CallsAt(a, {"parked"})
      BY <1>1, <2>2 DEF SemaReturn, SemaCall, CallsAt
    <3>2. a # addr[g]
      BY <1>4, <2>2, <3>1 DEF CallsAt
    <3>3. Lookers(a)' = Lookers(a)
      BY <1>1, <2>2, <3>2 DEF SemaReturn, SemaCall, CallsAt, Lookers
    <3>4. QED
      BY <1>1, <1>5, <2>1, <3>1, <3>3
  <2>3. ASSUME NEW h \in Callers, point[h] = "parked", addr[h] = addr[g],
               point' = [point EXCEPT ![g] = "idle", ![h] = "woken"],
               addr' = [addr EXCEPT ![g] = NoAddr]
        PROVE  count'[a] <= Cardinality(Lookers(a)')
    <3>1. CallsAt(a, {"parked"})' \subseteq CallsAt(a, {"parked"})
      BY <1>1, <2>3 DEF CallsAt
    <3>2. CASE a # addr[g]
      <4>1. Lookers(a)' = Lookers(a)
        BY <1>1, <2>1, <2>3, <3>2 DEF CallsAt, Lookers
      <4>2. QED
        BY <1>1, <1>5, <2>1, <3>1, <4>1
    <3>3. CASE a = addr[g]
      <4>1. /\ Lookers(a)' = (Lookers(a) \ {g}) \cup {h}
            /\ g \in Lookers(a) /\ h \notin Lookers(a)
        BY <1>1, <2>1, <2>3, <3>3 DEF CallsAt, Lookers
      <4>2. Cardinality(Lookers(a)') = Cardinality(Lookers(a))
        BY <1>2, <4>1, OneForAnother
      <4>3. count[a] <= Cardinality(Lookers(a))
        BY <1>3, <1>4, <3>1
      <4>4. QED
        BY <2>1, <4>2, <4>3
    <3>4. QED
      BY <3>2, <3>3
  <2>4. QED
    BY <1>14, <2>2, <2>3, SearchOutcome
<1>15. QED
  BY <1>8, <1>9, <1>10, <1>11, <1>12, <1>13, <1>14 DEF SemaNext, SemaBegin, SemaContinue
-----------------------------------------------------------------------------
\* The queue, the lock-free counter nwait, the lock and the permits of a root
\* agree in every reachable state of semacquire and semrelease, for any number
\* of goroutines and of semaphores that share the root.
THEOREM SemaInvariant == SemaSpec => []SemaInv
<1>1. ASSUME SemaInv, [SemaNext]_semaVars
      PROVE  SemaInv'
  <2>1. CASE SemaNext
    BY <1>1, <2>1, TypeStep, LockStep, QueueStep, CountStep, WakeupStep DEF SemaInv
  <2>2. CASE UNCHANGED semaVars
    BY <1>1, <2>2 DEF semaVars, SemaInv, SemaTypeOK, LockHeld, QueueIsParked,
      SemaWaitersCounted, SemaNoLostWakeup, CallsAt, Count, At
  <2>3. QED
    BY <1>1, <2>1, <2>2
<1>2. QED
  BY <1>1, SemaInitInv, PTL DEF SemaSpec

\* No lost wakeup: semrelease may skip the lock when it reads nwait as zero and
\* readies only the first waiter of its own address, and yet no goroutine stays
\* parked beside a permit that nobody is on the way to.
THEOREM PermitsAreLookedAfter == SemaSpec => []SemaNoLostWakeup
BY SemaInvariant, PTL DEF SemaInv

\* semacquire and semrelease do to a semaphore what sync and net rely on: a call
\* returns only with a permit of the word it was called on, though goroutines
\* that wait for other words are in the same queue.
THEOREM SemaRefinement == SemaSpec => ImplementsSemaphore
<1>1. SemaInit => Semaphores!Init
  BY DEF SemaInit, Semaphores!Init, waiting, AcquirePoints
<1>2. ASSUME SemaInv, [SemaNext]_semaVars
      PROVE  [Semaphores!Next]_<<count, waiting>>
  <2> USE DEF AcquirePoints
  <2>1. /\ point \in [Callers -> SemaPoints]
        /\ addr \in [Callers -> Addrs \cup {NoAddr}]
        /\ count \in [Addrs -> Nat]
        /\ \A g \in Callers : point[g] = "idle" <=> addr[g] = NoAddr
    BY <1>2 DEF SemaInv, SemaTypeOK
  <2>2. ASSUME NEW g \in Callers, NEW a \in Addrs, SemacquireEasy(g, a)
        PROVE  Semaphores!Next
    <3>1. point[g] = "idle" /\ waiting[g] = NoAddr
      BY <2>2 DEF SemacquireEasy, waiting
    <3>2. CASE TakePermit(a) /\ UNCHANGED <<point, addr>>
      <4>1. waiting' = [waiting EXCEPT ![g] = NoAddr]
        BY <3>1, <3>2 DEF waiting
      <4>2. QED
        BY <3>1, <3>2, <4>1 DEF TakePermit, Semaphores!Next, Semaphores!Acquire
    <3>3. CASE UNCHANGED count /\ SemaCall(g, a, "slow")
      <4>1. waiting' = [waiting EXCEPT ![g] = a]
        BY <2>1, <3>3 DEF SemaCall, waiting
      <4>2. QED
        BY <3>1, <3>3, <4>1 DEF Semaphores!Next, Semaphores!Wait
    <3>4. QED
      BY <2>2, <3>2, <3>3 DEF SemacquireEasy
  <2>3. ASSUME NEW g \in Callers, addr[g] \in Addrs,
               point[g] \in {"recheck", "woken"}, TakePermit(addr[g]),
               SemaGoto(g, "undo") \/ SemaReturn(g)
        PROVE  Semaphores!Next
    <3>1. waiting[g] = addr[g]
      BY <2>3 DEF waiting
    <3>2. waiting' = [waiting EXCEPT ![g] = NoAddr]
      BY <2>1, <2>3 DEF SemaGoto, SemaReturn, SemaCall, waiting
    <3>3. QED
      BY <2>3, <3>1, <3>2 DEF TakePermit, Semaphores!Next, Semaphores!Acquire
  <2>4. ASSUME NEW g \in Callers, SemacquireRecheck(g)
        PROVE  [Semaphores!Next]_<<count, waiting>>
    <3>1. point[g] = "recheck" /\ addr[g] \in Addrs
      BY <2>1, <2>4 DEF SemacquireRecheck
    <3>2. CASE TakePermit(addr[g]) /\ SemaGoto(g, "undo")
      BY <2>3, <3>1, <3>2
    <3>3. CASE UNCHANGED count /\ SemaGoto(g, "parked")
      BY <2>1, <3>1, <3>3 DEF SemaGoto, waiting
    <3>4. QED
      BY <2>4, <3>2, <3>3 DEF SemacquireRecheck
  <2>5. ASSUME NEW g \in Callers, SemacquireWoken(g)
        PROVE  [Semaphores!Next]_<<count, waiting>>
    <3>1. point[g] = "woken" /\ addr[g] \in Addrs
      BY <2>1, <2>5 DEF SemacquireWoken
    <3>2. CASE TakePermit(addr[g]) /\ SemaReturn(g)
      BY <2>3, <3>1, <3>2
    <3>3. CASE UNCHANGED count /\ SemaGoto(g, "slow")
      BY <2>1, <3>1, <3>3 DEF SemaGoto, waiting
    <3>4. QED
      BY <2>5, <3>2, <3>3 DEF SemacquireWoken
  <2>6. ASSUME NEW g \in Callers, NEW a \in Addrs, SemreleaseAdd(g, a)
        PROVE  Semaphores!Next
    <3>1. waiting' = waiting
      BY <2>1, <2>6 DEF SemreleaseAdd, SemaCall, waiting
    <3>2. QED
      BY <2>6, <3>1 DEF SemreleaseAdd, Semaphores!Next, Semaphores!Release
  <2>7. ASSUME NEW g \in Callers,
               SemacquireLock(g) \/ SemacquireUndo(g) \/ SemreleaseEasy(g)
        PROVE  UNCHANGED <<count, waiting>>
    BY <2>1, <2>7 DEF SemacquireLock, SemacquireUndo, SemreleaseEasy, SemaGoto,
      SemaReturn, SemaCall, waiting
  <2>8. ASSUME NEW g \in Callers, SemreleaseSearch(g)
        PROVE  UNCHANGED <<count, waiting>>
    <3>1. point[g] = "search" /\ UNCHANGED count
      BY <2>8 DEF SemreleaseSearch
    <3>2. CASE SemaReturn(g)
      BY <2>1, <3>1, <3>2 DEF SemaReturn, SemaCall, waiting
    <3>3. ASSUME NEW h \in Callers, point[h] = "parked",
                 point' = [point EXCEPT ![g] = "idle", ![h] = "woken"],
                 addr' = [addr EXCEPT ![g] = NoAddr]
          PROVE  waiting' = waiting
      BY <2>1, <3>1, <3>3 DEF waiting
    <3>4. QED
      BY <1>2, <2>8, <3>1, <3>2, <3>3, SearchOutcome
  <2>9. CASE UNCHANGED semaVars
    BY <2>9 DEF semaVars, waiting
  <2>10. QED
    BY <1>2, <2>2, <2>4, <2>5, <2>6, <2>7, <2>8, <2>9
       DEF SemaNext, SemaBegin, SemaContinue
<1>3. QED
  BY <1>1, <1>2, SemaInvariant, PTL DEF SemaSpec, ImplementsSemaphore, Semaphores!Spec
=============================================================================
