------------------------------ MODULE SyncProofs ------------------------------
(***************************************************************************)
(* sync.Once, sync.WaitGroup and sync.Cond, for every finite set of        *)
(* goroutines.                                                             *)
(* Once: OnceInv is inductive, f runs once and no call of Do returns       *)
(* before it ends.  WaitGroup: for every set of tasks and every bound on   *)
(* the tasks owed, IInv is inductive, legal use never panics, and Wait is  *)
(* a barrier.  Cond: CondInv is inductive; the queue of the semaphore, the *)
(* counter and the calls agree between any two steps.                      *)
(***************************************************************************)
EXTENDS Once, WaitGroup, Cond, CommonTheorems, SequenceTheorems, TLAPS

(***************************************************************************)
(* sync.Once                                                               *)
(***************************************************************************)

\* What happens to the counts of the invariant when goroutine g moves to p.
DoMoved(g, p) ==
  /\ Count(step', Inside) =
       Count(step, Inside) + Weight(p, Inside) - Weight(step[g], Inside)
  /\ Count(step', {"call", "store"}) =
       Count(step, {"call", "store"}) + Weight(p, {"call", "store"})
                                    - Weight(step[g], {"call", "store"})
  /\ Count(step', {"store"}) =
       Count(step, {"store"}) + Weight(p, {"store"}) - Weight(step[g], {"store"})

LEMMA DoCounts ==
  ASSUME OnceTypeOK, NEW g \in Callers, NEW p, step' = [step EXCEPT ![g] = p]
  PROVE  DoMoved(g, p)
<1>1. IsFiniteSet(Callers) /\ step \in [Callers -> DoPoints]
  BY OnceAssumption DEF OnceTypeOK
<1>2. Count(step', Inside) =
        Count(step, Inside) + Weight(p, Inside) - Weight(step[g], Inside)
  BY <1>1, CountMove, Zenon
<1>3. Count(step', {"call", "store"}) =
        Count(step, {"call", "store"}) + Weight(p, {"call", "store"})
                                     - Weight(step[g], {"call", "store"})
  BY <1>1, CountMove, Zenon
<1>4. Count(step', {"store"}) =
        Count(step, {"store"}) + Weight(p, {"store"}) - Weight(step[g], {"store"})
  BY <1>1, CountMove, Zenon
<1>5. QED
  BY <1>2, <1>3, <1>4 DEF DoMoved

\* The counts are natural numbers, and a goroutine inside is alone there: when it
\* is not at f or at the store, nobody is, and when it is at f, nobody is at
\* the store.
LEMMA InsideAlone ==
  ASSUME OnceInv
  PROVE  /\ Count(step, Inside) \in Nat
         /\ Count(step, {"call", "store"}) \in Nat /\ Count(step, {"store"}) \in Nat
         /\ \A g \in Callers : step[g] \in Inside =>
              /\ Count(step, Inside) = 1
              /\ step[g] \notin {"call", "store"} => Count(step, {"call", "store"}) = 0
              /\ step[g] \in {"call", "store"} => Count(step, {"call", "store"}) = 1
              /\ step[g] # "store" => Count(step, {"store"}) = 0
<1>1. IsFiniteSet(Callers) /\ step \in [Callers -> DoPoints]
  BY OnceAssumption DEF OnceInv, OnceTypeOK
<1>2. /\ Count(step, Inside) \in Nat
      /\ Count(step, {"call", "store"}) \in Nat /\ Count(step, {"store"}) \in Nat
  BY <1>1, CountType
<1>3. Count(step, Inside) <= 1
  BY <1>2 DEF OnceInv
<1>4. ASSUME NEW g \in Callers, step[g] \in Inside
      PROVE  /\ Count(step, Inside) = 1
             /\ step[g] \notin {"call", "store"} =>
                  Count(step, {"call", "store"}) = 0
             /\ step[g] \in {"call", "store"} => Count(step, {"call", "store"}) = 1
             /\ step[g] # "store" => Count(step, {"store"}) = 0
  <2>1. Count(step, Inside) > 0
    BY <1>1, <1>4, CountPositive
  <2>2. ASSUME NEW h \in Callers, step[h] \in Inside
        PROVE  h = g
    BY <1>1, <1>3, <1>4, <2>2, CountOne
  <2>3. ASSUME step[g] \notin {"call", "store"}
        PROVE  Count(step, {"call", "store"}) = 0
    <3>1. \A h \in Callers : step[h] \notin {"call", "store"}
      BY <2>2, <2>3 DEF Inside
    <3>2. QED
      BY <1>1, <3>1, CountType
  <2>4. ASSUME step[g] \in {"call", "store"}
        PROVE  Count(step, {"call", "store"}) = 1
    <3>1. Count(step, {"call", "store"}) > 0
      BY <1>1, <2>4, CountPositive
    <3>2. QED
      BY <3>1 DEF OnceInv
  <2>5. ASSUME step[g] # "store"
        PROVE  Count(step, {"store"}) = 0
    <3>1. \A h \in Callers : step[h] \notin {"store"}
      BY <2>2, <2>5 DEF Inside
    <3>2. QED
      BY <1>1, <3>1, CountType
  <2>6. QED
    BY <1>2, <1>3, <2>1, <2>3, <2>4, <2>5
<1>5. QED
  BY <1>2, <1>4

\* OnceInv holds initially.
LEMMA OnceInitInv == OnceInit => OnceInv
<1> SUFFICES ASSUME OnceInit PROVE OnceInv
  OBVIOUS
<1>1. OnceTypeOK
  BY DEF OnceInit, OnceTypeOK, DoPoints
<1>2. IsFiniteSet(Callers) /\ step \in [Callers -> DoPoints]
  BY <1>1, OnceAssumption DEF OnceTypeOK
<1>3. /\ \A g \in Callers : step[g] \notin Inside
      /\ \A g \in Callers : step[g] \notin {"call", "store"}
      /\ \A g \in Callers : step[g] \notin {"store"}
  BY DEF OnceInit, Inside
<1>4. Count(step, Inside) = 0
  BY <1>2, <1>3, CountType
<1>5. Count(step, {"call", "store"}) = 0
  BY <1>2, <1>3, CountType
<1>6. Count(step, {"store"}) = 0
  BY <1>2, <1>3, CountType
<1>7. QED
  BY <1>1, <1>4, <1>5, <1>6 DEF OnceInit, OnceInv

\* Every step preserves it.
LEMMA OnceStepInv == OnceInv /\ [OnceNext]_onceVars => OnceInv'
<1> SUFFICES ASSUME OnceInv, [OnceNext]_onceVars PROVE OnceInv'
  OBVIOUS
<1>0. OnceTypeOK
  BY DEF OnceInv
<1>a. /\ Count(step, Inside) \in Nat
      /\ Count(step, {"call", "store"}) \in Nat /\ Count(step, {"store"}) \in Nat
  BY InsideAlone
<1>1. ASSUME NEW g \in Callers, DoLoad(g)
      PROVE  OnceInv'
  <2>1. PICK p \in {"returned", "lock"} :
             step' = [step EXCEPT ![g] = p] /\ (p = "returned" => done)
    BY <1>1 DEF DoLoad, DoGoto
  <2>2. step[g] = "idle" /\ UNCHANGED <<done, mutex, ran, ended>>
    BY <1>1 DEF DoLoad
  <2>3. OnceTypeOK'
    BY <1>0, <2>1, <2>2 DEF OnceTypeOK, DoPoints, Inside
  <2>4. /\ Count(step', Inside) = Count(step, Inside)
        /\ Count(step', {"call", "store"}) = Count(step, {"call", "store"})
        /\ Count(step', {"store"}) = Count(step, {"store"})
    <3>1. DoMoved(g, p)
      BY <1>0, <2>1, DoCounts, Zenon
    <3>2. QED
      BY <1>a, <2>1, <2>2, <3>1 DEF DoMoved, Weight, Inside
  <2>5. QED
    BY <1>0, <2>1, <2>2, <2>3, <2>4 DEF OnceInv, OnceTypeOK
<1>2. ASSUME NEW g \in Callers, DoLock(g)
      PROVE  OnceInv'
  <2>1. /\ step[g] = "lock" /\ step' = [step EXCEPT ![g] = "check"]
        /\ mutex = FALSE /\ mutex' = TRUE /\ UNCHANGED <<done, ran, ended>>
    BY <1>0, <1>2 DEF DoLock, DoGoto, OnceTypeOK
  <2>2. OnceTypeOK'
    BY <1>0, <2>1 DEF OnceTypeOK, DoPoints, Inside
  <2>3. /\ Count(step', Inside) = Count(step, Inside) + 1
        /\ Count(step', {"call", "store"}) = Count(step, {"call", "store"})
        /\ Count(step', {"store"}) = Count(step, {"store"})
    <3>1. DoMoved(g, "check")
      BY <1>0, <2>1, DoCounts, Zenon
    <3>2. QED
      BY <1>a, <2>1, <3>1 DEF DoMoved, Weight, Inside
  <2>4. QED
    BY <1>0, <2>1, <2>2, <2>3 DEF OnceInv, OnceTypeOK
<1>3. ASSUME NEW g \in Callers, DoCheck(g), done
      PROVE  OnceInv'
  <2>1. /\ step[g] = "check" /\ step' = [step EXCEPT ![g] = "unlock"]
        /\ UNCHANGED <<done, mutex, ran, ended>>
    BY <1>3 DEF DoCheck, DoGoto
  <2>2. OnceTypeOK'
    BY <1>0, <2>1 DEF OnceTypeOK, DoPoints, Inside
  <2>3. /\ Count(step', Inside) = Count(step, Inside)
        /\ Count(step', {"call", "store"}) = Count(step, {"call", "store"})
        /\ Count(step', {"store"}) = Count(step, {"store"})
    <3>1. DoMoved(g, "unlock")
      BY <1>0, <2>1, DoCounts, Zenon
    <3>2. QED
      BY <1>a, <2>1, <3>1 DEF DoMoved, Weight, Inside
  <2>4. QED
    BY <1>0, <1>3, <2>1, <2>2, <2>3 DEF OnceInv, OnceTypeOK
<1>4. ASSUME NEW g \in Callers, DoCheck(g), ~done
      PROVE  OnceInv'
  <2>1. /\ step[g] = "check" /\ step' = [step EXCEPT ![g] = "call"]
        /\ ran' = ran + 1 /\ UNCHANGED <<done, mutex, ended>>
    BY <1>4 DEF DoCheck, DoGoto
  <2>2. /\ Count(step, {"call", "store"}) = 0 /\ Count(step, {"store"}) = 0
    BY <2>1, InsideAlone DEF Inside
  <2>3. ran = 0 /\ ended = 0
    BY <1>0, <1>4, <2>2 DEF OnceInv, OnceTypeOK
  <2>4. OnceTypeOK'
    BY <1>0, <2>1 DEF OnceTypeOK, DoPoints, Inside
  <2>5. /\ Count(step', Inside) = Count(step, Inside)
        /\ Count(step', {"call", "store"}) = 1
        /\ Count(step', {"store"}) = 0
    <3>1. DoMoved(g, "call")
      BY <1>0, <2>1, DoCounts, Zenon
    <3>2. QED
      BY <1>a, <2>1, <2>2, <3>1 DEF DoMoved, Weight, Inside
  <2>6. QED
    BY <1>0, <1>4, <2>1, <2>3, <2>4, <2>5 DEF OnceInv, OnceTypeOK
<1>5. ASSUME NEW g \in Callers, DoCall(g)
      PROVE  OnceInv'
  <2>1. /\ step[g] = "call" /\ step' = [step EXCEPT ![g] = "store"]
        /\ ended' = ended + 1 /\ UNCHANGED <<done, mutex, ran>>
    BY <1>5 DEF DoCall, DoGoto
  <2>2. /\ Count(step, {"call", "store"}) = 1 /\ Count(step, {"store"}) = 0
    BY <2>1, InsideAlone DEF Inside
  <2>3. ran = 1 /\ ~done /\ ended = 0
    BY <1>0, <2>2 DEF OnceInv, OnceTypeOK
  <2>4. OnceTypeOK'
    BY <1>0, <2>1 DEF OnceTypeOK, DoPoints, Inside
  <2>5. /\ Count(step', Inside) = Count(step, Inside)
        /\ Count(step', {"call", "store"}) = 1
        /\ Count(step', {"store"}) = 1
    <3>1. DoMoved(g, "store")
      BY <1>0, <2>1, DoCounts, Zenon
    <3>2. QED
      BY <1>a, <2>1, <2>2, <3>1 DEF DoMoved, Weight, Inside
  <2>6. QED
    BY <1>0, <2>1, <2>3, <2>4, <2>5 DEF OnceInv, OnceTypeOK
<1>6. ASSUME NEW g \in Callers, DoStore(g)
      PROVE  OnceInv'
  <2>1. /\ step[g] = "store" /\ step' = [step EXCEPT ![g] = "unlock"]
        /\ done' = TRUE /\ UNCHANGED <<mutex, ran, ended>>
    BY <1>6 DEF DoStore, DoGoto
  <2>2. /\ Count(step, {"call", "store"}) = 1
    BY <2>1, InsideAlone DEF Inside
  <2>3. Count(step, {"store"}) = 1
    <3>1. Count(step, {"store"}) > 0
      BY <1>0, <2>1, OnceAssumption, CountPositive DEF OnceTypeOK
    <3>2. Count(step, {"store"}) <= Count(step, {"call", "store"})
      BY <1>0, OnceAssumption, CountMonotone DEF OnceTypeOK
    <3>3. QED
      BY <1>a, <2>2, <3>1, <3>2
  <2>4. ran = 1 /\ ended = 1
    BY <1>0, <2>2, <2>3 DEF OnceInv, OnceTypeOK
  <2>5. OnceTypeOK'
    BY <1>0, <2>1 DEF OnceTypeOK, DoPoints, Inside
  <2>6. /\ Count(step', Inside) = Count(step, Inside)
        /\ Count(step', {"call", "store"}) = 0
    <3>1. DoMoved(g, "unlock")
      BY <1>0, <2>1, DoCounts, Zenon
    <3>2. QED
      BY <1>a, <2>1, <2>2, <3>1 DEF DoMoved, Weight, Inside
  <2>7. QED
    BY <1>0, <2>1, <2>4, <2>5, <2>6 DEF OnceInv, OnceTypeOK
<1>7. ASSUME NEW g \in Callers, DoUnlock(g)
      PROVE  OnceInv'
  <2>1. /\ step[g] = "unlock" /\ step' = [step EXCEPT ![g] = "returned"]
        /\ mutex' = FALSE /\ UNCHANGED <<done, ran, ended>>
    BY <1>7 DEF DoUnlock, DoGoto
  <2>2. Count(step, Inside) = 1 /\ done
    BY <2>1, InsideAlone DEF Inside, OnceInv
  <2>3. OnceTypeOK'
    BY <1>0, <2>1 DEF OnceTypeOK, DoPoints, Inside
  <2>4. /\ Count(step', Inside) = 0
        /\ Count(step', {"call", "store"}) = Count(step, {"call", "store"})
        /\ Count(step', {"store"}) = Count(step, {"store"})
    <3>1. DoMoved(g, "returned")
      BY <1>0, <2>1, DoCounts, Zenon
    <3>2. QED
      BY <1>a, <2>1, <2>2, <3>1 DEF DoMoved, Weight, Inside
  <2>5. QED
    BY <1>0, <2>1, <2>2, <2>3, <2>4 DEF OnceInv, OnceTypeOK
<1>8. CASE UNCHANGED onceVars
  BY <1>8 DEF onceVars, OnceInv, OnceTypeOK, Count, At
<1>9. QED
  BY <1>1, <1>2, <1>3, <1>4, <1>5, <1>6, <1>7, <1>8 DEF OnceNext, DoContinue

\* OnceInv is an invariant of sync.Once, for every finite set of goroutines.
THEOREM OnceInvariant == OnceSpec => []OnceInv
<1>1. QED
  BY OnceInitInv, OnceStepInv, PTL DEF OnceSpec

\* f is called once however many calls of Do race, and no call of Do returns
\* before that run of f has ended, the calls of the fast path included.
THEOREM OnceCorrect == OnceSpec => []OneRun /\ []ReturnAfterRun
<1>1. OnceInv => OneRun /\ ReturnAfterRun
  <2> SUFFICES ASSUME OnceInv PROVE OneRun /\ ReturnAfterRun
    OBVIOUS
  <2>1. OneRun
    BY DEF OnceInv, OneRun
  <2>2. ASSUME done \/ \E g \in Callers : step[g] = "returned"
        PROVE  ran = 1 /\ ended = 1
    BY <2>2 DEF OnceInv
  <2>3. QED
    BY <2>1, <2>2 DEF ReturnAfterRun
<1>2. QED
  BY <1>1, OnceInvariant, PTL

(***************************************************************************)
(* sync.WaitGroup                                                          *)
(***************************************************************************)
\* The goroutines asleep in Wait.
Sleepers == Count(pc, {"sleep"})

\* Their number when goroutine g moves to p.
LEMMA SleeperCounts ==
  ASSUME TypeOK, NEW g \in Goroutines, NEW p, pc' = [pc EXCEPT ![g] = p]
  PROVE  /\ Sleepers \in Nat
         /\ Sleepers' = Sleepers + (IF p = "sleep" THEN 1 ELSE 0)
                                 - (IF pc[g] = "sleep" THEN 1 ELSE 0)
<1>1. IsFiniteSet(Goroutines) /\ pc \in [Goroutines -> Points]
  BY WaitGroupAssumption DEF TypeOK
<1>2. Sleepers \in Nat
  BY <1>1, CountType DEF Sleepers
<1>3. Sleepers' = Sleepers + Weight(p, {"sleep"}) - Weight(pc[g], {"sleep"})
  BY <1>1, CountMove, Zenon DEF Sleepers
<1>4. QED
  BY <1>2, <1>3, SMT DEF Weight

\* The fields of a word.
LEMMA Fields ==
  ASSUME NEW s \in State
  PROVE  /\ s.counter \in Int /\ s.waiters \in Nat
         /\ s = Zero <=> s.counter = 0 /\ s.waiters = 0
<1>1. s.counter \in Int /\ s.waiters \in Nat
  BY DEF State
<1>2. s = Zero <=> s.counter = 0 /\ s.waiters = 0
  BY DEF State, Zero
<1>3. QED
  BY <1>1, <1>2

\* The words that Add and Wait install.
LEMMA Words ==
  ASSUME NEW s \in State, NEW d \in Int
  PROVE  /\ [s EXCEPT !.counter = @ + d] \in State
         /\ [s EXCEPT !.counter = @ + d].counter = s.counter + d
         /\ [s EXCEPT !.counter = @ + d].waiters = s.waiters
         /\ [s EXCEPT !.waiters = @ + 1] \in State
         /\ [s EXCEPT !.waiters = @ + 1].counter = s.counter
         /\ [s EXCEPT !.waiters = @ + 1].waiters = s.waiters + 1
<1>1. s.counter \in Int /\ s.waiters \in Nat
  BY Fields
<1>2. /\ [s EXCEPT !.counter = @ + d] \in State
      /\ [s EXCEPT !.counter = @ + d].counter = s.counter + d
      /\ [s EXCEPT !.counter = @ + d].waiters = s.waiters
  BY <1>1 DEF State
<1>3. /\ [s EXCEPT !.waiters = @ + 1] \in State
      /\ [s EXCEPT !.waiters = @ + 1].counter = s.counter
      /\ [s EXCEPT !.waiters = @ + 1].waiters = s.waiters + 1
  BY <1>1 DEF State
<1>4. QED
  BY <1>2, <1>3

\* While a task is owed nobody is between two sets of tasks.
LEMMA Busy ==
  ASSUME IInv, owed > 0
  PROVE  /\ sema = 0
         /\ \A g \in Goroutines : pc[g] \notin AddPoints \cup {"check"}
<1>1. state.counter > 0 /\ state # Zero
  BY DEF IInv, CounterIsOwed, Zero
<1>2. sema = 0 /\ \A g \in Goroutines : pc[g] \notin {"release", "check"}
  BY <1>1 DEF IInv, TypeOK, WordStaysZero
<1>3. \A g \in Goroutines : pc[g] \notin {"sanity", "reset"}
  BY <1>1 DEF IInv, FinisherAlone
<1>4. QED
  BY <1>2, <1>3 DEF AddPoints

\* When nobody is in Wait, the last set of tasks is gone without a trace.
LEMMA Rest ==
  ASSUME IInv, \A g \in Goroutines : pc[g] \notin WaitPoints
  PROVE  /\ sema = 0 /\ state.waiters = 0
         /\ \A g \in Goroutines : pc[g] \notin AddPoints \cup {"check"}
<1>1. IsFiniteSet(Goroutines) /\ pc \in [Goroutines -> Points]
  BY WaitGroupAssumption DEF IInv, TypeOK
<1>2. state.waiters \in Nat /\ sema \in Nat /\ left \in [Goroutines -> Nat]
  BY Fields DEF IInv, TypeOK
<1>3. Count(pc, {"sleep"}) = 0
  BY <1>1, CountType DEF WaitPoints
<1>4. Releasing = {}
  <2> SUFFICES ASSUME NEW g \in Releasing PROVE FALSE
    OBVIOUS
  <2>1. g \in Goroutines /\ left[g] > 0 /\ 0 = state.waiters + sema + left[g]
    BY <1>3 DEF IInv, SleepersCounted, Releasing
  <2>2. QED
    BY <1>2, <2>1
<1>5. state.waiters = 0 /\ sema = 0
  BY <1>2, <1>3, <1>4 DEF IInv, SleepersCounted
<1>6. \A g \in Goroutines : pc[g] \notin {"sanity", "reset"}
  BY <1>5 DEF IInv, FinisherAlone
<1>7. QED
  BY <1>4, <1>5, <1>6 DEF Releasing, AddPoints, WaitPoints

\* IInv holds initially.
LEMMA WaitGroupInitInv == Init => IInv
<1> SUFFICES ASSUME Init PROVE IInv
  OBVIOUS
<1> USE DEF Init
<1>1. TypeOK
  BY DEF TypeOK, State, Zero, Points
<1>2. Count(pc, {"sleep"}) = 0
  BY <1>1, WaitGroupAssumption, CountType DEF TypeOK
<1>3. SleepersCounted
  BY <1>2 DEF SleepersCounted, Releasing, Zero
<1>4. NoPanic /\ CounterIsOwed /\ OneFinisher /\ FinisherAlone
      /\ WordStaysZero /\ CountsOnTasks
  BY DEF NoPanic, CounterIsOwed, OneFinisher, FinisherAlone, WordStaysZero,
         CountsOnTasks, Zero, AddPoints
<1>5. QED
  BY <1>1, <1>3, <1>4 DEF IInv

\* A step of Add or Done changes the counter of the word and nothing else that
\* somebody else looks at.
LEMMA AddStep ==
  ASSUME IInv, NEW g \in Goroutines, NEW d \in Int, AddDelta(g, d),
         pc[g] = "idle"
  PROVE  /\ state' \in State
         /\ state'.counter = state.counter + d
         /\ state'.waiters = state.waiters
         /\ \/ /\ state'.counter < 0 \/ Misuse(state', d)
               /\ pc' = [pc EXCEPT ![g] = "panic"]
            \/ /\ state'.counter > 0 \/ state'.waiters = 0
               /\ pc' = pc /\ old' = [old EXCEPT ![g] = Zero]
            \/ /\ state'.counter = 0 /\ state'.waiters > 0
               /\ ~Misuse(state', d)
               /\ pc' = [pc EXCEPT ![g] = "sanity"]
               /\ old' = [old EXCEPT ![g] = state']
<1>1. state \in State /\ pc \in [Goroutines -> Points]
  BY DEF IInv, TypeOK
<1>2. state' = [state EXCEPT !.counter = @ + d]
  BY DEF AddDelta
<1>3. /\ state' \in State
      /\ state'.counter = state.counter + d /\ state'.waiters = state.waiters
      /\ state'.counter \in Int /\ state'.waiters \in Nat
  BY <1>1, <1>2, Words, Fields
<1>4. CASE state'.counter < 0 \/ Misuse(state', d)
  BY <1>2, <1>3, <1>4 DEF AddDelta, Goto
<1>5. CASE /\ ~(state'.counter < 0 \/ Misuse(state', d))
           /\ state'.counter > 0 \/ state'.waiters = 0
  <2>1. pc' = [pc EXCEPT ![g] = "idle"] /\ old' = [old EXCEPT ![g] = Zero]
    BY <1>2, <1>5 DEF AddDelta, Goto
  <2>2. QED
    BY <1>1, <1>3, <1>5, <2>1
<1>6. CASE /\ ~(state'.counter < 0 \/ Misuse(state', d))
           /\ ~(state'.counter > 0 \/ state'.waiters = 0)
  <2>1. /\ pc' = [pc EXCEPT ![g] = "sanity"]
        /\ old' = [old EXCEPT ![g] = state']
    BY <1>2, <1>6 DEF AddDelta, Goto
  <2>2. state'.counter = 0 /\ state'.waiters > 0
    BY <1>3, <1>6
  <2>3. QED
    BY <1>3, <1>6, <2>1, <2>2
<1>7. QED
  BY <1>4, <1>5, <1>6

\* A call of Add that the comment allows.
LEMMA AddInv ==
  ASSUME IInv, NEW g \in Goroutines, NEW n \in 1..MaxDelta, Add(g, n)
  PROVE  IInv'
<1>0. TypeOK /\ n \in Nat /\ n > 0 /\ owed \in Nat
  BY WaitGroupAssumption DEF IInv, TypeOK
<1>1. /\ pc[g] = "idle" /\ AddDelta(g, n)
      /\ owed' = owed + n /\ UNCHANGED <<sema, left>>
      /\ owed > 0 \/ \A h \in Goroutines : pc[h] \notin WaitPoints
  BY DEF Add
<1>2. state.counter = owed /\ state.counter \in Int /\ state.waiters \in Nat
  BY Fields DEF IInv, TypeOK, CounterIsOwed
<1>3. /\ state' \in State /\ state'.counter = owed + n
      /\ state'.waiters = state.waiters
  BY <1>0, <1>1, <1>2, AddStep
<1>4. /\ sema = 0
      /\ \A h \in Goroutines : pc[h] \notin AddPoints \cup {"check"}
      /\ owed = 0 => state.waiters = 0
  <2>1. CASE owed > 0
    BY <2>1, Busy
  <2>2. CASE ~(owed > 0)
    BY <1>1, <2>2, Rest
  <2>3. QED
    BY <2>1, <2>2
<1>5. ~Misuse(state', n)
  BY <1>0, <1>2, <1>3, <1>4 DEF Misuse
<1>6. pc' = pc /\ old' = [old EXCEPT ![g] = Zero]
  BY <1>0, <1>1, <1>3, <1>5, AddStep
<1>7. TypeOK'
  BY <1>0, <1>1, <1>3, <1>6 DEF TypeOK, State, Zero
<1>8. NoPanic' /\ CounterIsOwed' /\ OneFinisher' /\ FinisherAlone'
      /\ WordStaysZero'
  <2>1. NoPanic' /\ CounterIsOwed'
    BY <1>1, <1>3, <1>6 DEF IInv, NoPanic, CounterIsOwed
  <2>2. OneFinisher' /\ FinisherAlone' /\ WordStaysZero'
    BY <1>0, <1>1, <1>4, <1>6
       DEF TypeOK, OneFinisher, FinisherAlone, WordStaysZero, AddPoints
  <2>3. QED
    BY <2>1, <2>2
<1>9. SleepersCounted'
  BY <1>1, <1>3, <1>6 DEF IInv, SleepersCounted, Releasing, Count, At
<1>10. CountsOnTasks'
  BY <1>0, <1>1, <1>6 DEF IInv, TypeOK, CountsOnTasks
<1>11. QED
  BY <1>7, <1>8, <1>9, <1>10 DEF IInv

\* A task ends; the last one finds the goroutines that wait.
LEMMA DoneInv ==
  ASSUME IInv, NEW g \in Goroutines, Done(g)
  PROVE  IInv'
<1>0. TypeOK /\ owed \in Nat
  BY DEF IInv, TypeOK
<1>1. /\ pc[g] = "idle" /\ AddDelta(g, -1) /\ owed > 0
      /\ owed' = owed - 1 /\ UNCHANGED <<sema, left>>
  BY DEF Done
<1>2. state.counter = owed /\ state.counter \in Int /\ state.waiters \in Nat
  BY Fields DEF IInv, TypeOK, CounterIsOwed
<1>3. /\ state' \in State /\ state'.counter = owed - 1
      /\ state'.waiters = state.waiters
      /\ \/ /\ state'.counter < 0 \/ Misuse(state', -1)
            /\ pc' = [pc EXCEPT ![g] = "panic"]
         \/ pc' = pc /\ old' = [old EXCEPT ![g] = Zero]
         \/ /\ state'.counter = 0 /\ state'.waiters > 0
            /\ pc' = [pc EXCEPT ![g] = "sanity"]
            /\ old' = [old EXCEPT ![g] = state']
  BY <1>1, <1>2, AddStep
<1>4. /\ sema = 0
      /\ \A h \in Goroutines : pc[h] \notin AddPoints \cup {"check"}
  BY <1>1, Busy
<1>5. ~(state'.counter < 0 \/ Misuse(state', -1))
  BY <1>0, <1>1, <1>3 DEF Misuse
<1>6. SleepersCounted /\ Releasing = {}
  BY <1>4 DEF IInv, Releasing, AddPoints
<1>7. CASE pc' = pc /\ old' = [old EXCEPT ![g] = Zero]
  <2>1. TypeOK'
    BY <1>0, <1>1, <1>3, <1>7 DEF TypeOK, State, Zero
  <2>2. NoPanic' /\ CounterIsOwed'
    BY <1>1, <1>3, <1>7 DEF IInv, NoPanic, CounterIsOwed
  <2>3. OneFinisher' /\ FinisherAlone' /\ WordStaysZero'
    BY <1>0, <1>1, <1>4, <1>7
       DEF TypeOK, OneFinisher, FinisherAlone, WordStaysZero, AddPoints
  <2>4. SleepersCounted'
    BY <1>1, <1>3, <1>6, <1>7 DEF SleepersCounted, Releasing, Count, At
  <2>5. CountsOnTasks'
    BY <1>0, <1>1, <1>7 DEF IInv, TypeOK, CountsOnTasks
  <2>6. QED
    BY <2>1, <2>2, <2>3, <2>4, <2>5 DEF IInv
<1>8. CASE /\ state'.counter = 0 /\ state'.waiters > 0
           /\ pc' = [pc EXCEPT ![g] = "sanity"]
           /\ old' = [old EXCEPT ![g] = state']
  <2>1. TypeOK'
    BY <1>0, <1>1, <1>3, <1>8 DEF TypeOK, Points, AddPoints
  <2>2. NoPanic' /\ CounterIsOwed'
    BY <1>0, <1>1, <1>3, <1>8 DEF IInv, TypeOK, NoPanic, CounterIsOwed
  <2>3. OneFinisher' /\ FinisherAlone'
    BY <1>0, <1>1, <1>4, <1>8
       DEF TypeOK, OneFinisher, FinisherAlone, AddPoints
  <2>4. WordStaysZero'
    BY <1>0, <1>1, <1>4, <1>8 DEF TypeOK, WordStaysZero, AddPoints
  <2>5. Releasing' = {} /\ Sleepers' = Sleepers
    <3>1. Releasing' = {}
      BY <1>0, <1>6, <1>8 DEF TypeOK, Releasing
    <3>2. Sleepers' = Sleepers
      <4>1. /\ Sleepers \in Nat
            /\ Sleepers' = Sleepers + (IF "sanity" = "sleep" THEN 1 ELSE 0)
                                    - (IF pc[g] = "sleep" THEN 1 ELSE 0)
        BY <1>0, <1>8, SleeperCounts, Zenon
      <4>2. QED
        BY <1>1, <4>1
    <3>3. QED
      BY <3>1, <3>2
  <2>6. SleepersCounted'
    BY <1>1, <1>3, <1>6, <2>5 DEF SleepersCounted, Sleepers
  <2>7. CountsOnTasks'
    BY <1>0, <1>1, <1>8 DEF IInv, TypeOK, CountsOnTasks
  <2>8. QED
    BY <2>1, <2>2, <2>3, <2>4, <2>6, <2>7 DEF IInv
<1>9. QED
  BY <1>3, <1>5, <1>7, <1>8

\* What the steps of a call under way have in common: a goroutine moves from
\* the points of one call to another of its points, or back to idle.
LEMMA MoveInv ==
  ASSUME IInv, NEW g \in Goroutines, NEW p \in Points \ {"panic"},
         pc' = [pc EXCEPT ![g] = p],
         UNCHANGED <<state, sema, owed>>,
         pc[g] \notin AddPoints, p \notin AddPoints,
         p = "check" => pc[g] = "check",
         p = "sleep" <=> pc[g] = "sleep",
         NEW o \in State, old' = [old EXCEPT ![g] = o],
         p = "cas" => o.counter # 0,
         left' = left
  PROVE  IInv'
<1>0. TypeOK
  BY DEF IInv
<1>1. TypeOK'
  BY <1>0 DEF TypeOK
<1>2. NoPanic' /\ CounterIsOwed'
  BY <1>0 DEF IInv, TypeOK, NoPanic, CounterIsOwed
<1>3. OneFinisher' /\ FinisherAlone'
  BY <1>0 DEF IInv, TypeOK, OneFinisher, FinisherAlone, AddPoints
<1>4. WordStaysZero' /\ CountsOnTasks'
  BY <1>0 DEF IInv, TypeOK, WordStaysZero, CountsOnTasks, AddPoints
<1>5. Releasing' = Releasing
  BY <1>0 DEF TypeOK, Releasing, AddPoints
<1>6. Sleepers' = Sleepers
  <2>1. /\ Sleepers \in Nat
        /\ Sleepers' = Sleepers + (IF p = "sleep" THEN 1 ELSE 0)
                                - (IF pc[g] = "sleep" THEN 1 ELSE 0)
    BY <1>0, SleeperCounts, Zenon
  <2>2. QED
    BY <2>1
<1>7. SleepersCounted'
  BY <1>5, <1>6 DEF IInv, SleepersCounted, Sleepers
<1>8. QED
  BY <1>1, <1>2, <1>3, <1>4, <1>7 DEF IInv

\* Every step preserves it.
LEMMA WaitGroupNextInv == IInv /\ [Next]_vars => IInv'
<1> SUFFICES ASSUME IInv, [Next]_vars PROVE IInv'
  OBVIOUS
<1>0. TypeOK /\ pc \in [Goroutines -> Points]
      /\ IsFiniteSet(Goroutines)
  BY WaitGroupAssumption DEF IInv, TypeOK
<1>a. Zero \in State /\ Zero.counter = 0 /\ Zero.waiters = 0
  BY DEF Zero, State
<1>b. state \in State /\ state.counter \in Int /\ state.waiters \in Nat
      /\ sema \in Nat
  BY <1>0, Fields DEF TypeOK
<1>1. ASSUME NEW g \in Goroutines, NEW n \in 1..MaxDelta, Add(g, n)
      PROVE  IInv'
  BY <1>1, AddInv
<1>2. ASSUME NEW g \in Goroutines, Done(g)
      PROVE  IInv'
  BY <1>2, DoneInv
<1>3. ASSUME NEW g \in Goroutines, AddSanity(g)
      PROVE  IInv'
  <2>1. pc[g] = "sanity" /\ UNCHANGED <<state, sema, owed, old, left>>
    BY <1>3 DEF AddSanity
  <2>2. state = old[g]
    BY <2>1 DEF IInv, FinisherAlone
  <2>3. pc' = [pc EXCEPT ![g] = "reset"]
    BY <1>3, <2>2 DEF AddSanity, Goto
  <2>4. TypeOK'
    BY <1>0, <2>1, <2>3 DEF TypeOK, Points, AddPoints
  <2>5. NoPanic' /\ CounterIsOwed' /\ CountsOnTasks'
    BY <1>0, <2>1, <2>3
       DEF IInv, NoPanic, CounterIsOwed, CountsOnTasks
  <2>6. OneFinisher' /\ FinisherAlone' /\ WordStaysZero'
    BY <1>0, <2>1, <2>3
       DEF IInv, OneFinisher, FinisherAlone, WordStaysZero, AddPoints
  <2>7. Releasing' = Releasing
    BY <1>0, <2>1, <2>3 DEF Releasing
  <2>8. Sleepers' = Sleepers
    <3>1. /\ Sleepers \in Nat
          /\ Sleepers' = Sleepers + (IF "reset" = "sleep" THEN 1 ELSE 0)
                                  - (IF pc[g] = "sleep" THEN 1 ELSE 0)
      BY <1>0, <2>3, SleeperCounts, Zenon
    <3>2. QED
      BY <2>1, <3>1
  <2>9. SleepersCounted'
    BY <2>1, <2>7, <2>8 DEF IInv, SleepersCounted, Sleepers
  <2>10. QED
    BY <2>4, <2>5, <2>6, <2>9 DEF IInv
<1>4. ASSUME NEW g \in Goroutines, AddReset(g)
      PROVE  IInv'
  <2>1. /\ pc[g] = "reset" /\ pc' = [pc EXCEPT ![g] = "release"]
        /\ state' = Zero /\ UNCHANGED <<sema, owed>>
        /\ left' = [left EXCEPT ![g] = old[g].waiters]
        /\ old' = [old EXCEPT ![g] = Zero]
    BY <1>4 DEF AddReset, Goto
  <2>2. /\ state = old[g] /\ state.counter = 0 /\ state.waiters > 0
        /\ sema = 0
    BY <2>1 DEF IInv, FinisherAlone
  <2>3. \A h \in Goroutines : pc[h] \in AddPoints => h = g
    BY <2>1 DEF IInv, OneFinisher, AddPoints
  <2>4. TypeOK'
    BY <1>0, <1>a, <1>b, <2>1, <2>2 DEF TypeOK, Points, AddPoints
  <2>5. NoPanic' /\ CountsOnTasks'
    BY <1>0, <2>1 DEF IInv, TypeOK, NoPanic, CountsOnTasks
  <2>6. CounterIsOwed'
    BY <1>a, <2>1, <2>2 DEF IInv, CounterIsOwed
  <2>7. OneFinisher' /\ FinisherAlone' /\ WordStaysZero'
    BY <1>0, <2>1, <2>3
       DEF OneFinisher, FinisherAlone, WordStaysZero, AddPoints
  <2>8. Releasing = {} /\ Releasing' = {g}
    BY <1>0, <2>1, <2>3 DEF Releasing, AddPoints
  <2>9. Sleepers' = Sleepers
    <3>1. /\ Sleepers \in Nat
          /\ Sleepers' = Sleepers + (IF "release" = "sleep" THEN 1 ELSE 0)
                                  - (IF pc[g] = "sleep" THEN 1 ELSE 0)
      BY <1>0, <2>1, SleeperCounts, Zenon
    <3>2. QED
      BY <2>1, <3>1
  <2>10. left'[g] = state.waiters /\ Sleepers = state.waiters
    BY <1>0, <1>b, <2>1, <2>2, <2>8
       DEF IInv, TypeOK, SleepersCounted, Sleepers
  <2>11. SleepersCounted'
    BY <1>a, <1>b, <2>1, <2>2, <2>8, <2>9, <2>10
       DEF SleepersCounted, Sleepers
  <2>12. QED
    BY <2>4, <2>5, <2>6, <2>7, <2>11 DEF IInv
<1>5. ASSUME NEW g \in Goroutines, AddRelease(g)
      PROVE  IInv'
  <2>1. /\ pc[g] = "release" /\ sema' = sema + 1
        /\ left' = [left EXCEPT ![g] = @ - 1]
        /\ UNCHANGED <<state, owed, old>>
        /\ \/ left[g] = 1 /\ pc' = [pc EXCEPT ![g] = "idle"]
           \/ left[g] # 1 /\ pc' = pc
    BY <1>0, <1>5 DEF AddRelease, Goto
  <2>2. state = Zero
    BY <2>1 DEF IInv, WordStaysZero
  <2>3. \A h \in Goroutines : pc[h] \in AddPoints => h = g
    BY <2>1 DEF IInv, OneFinisher, AddPoints
  <2>4. Releasing = {g}
    BY <2>1, <2>3 DEF Releasing, AddPoints
  <2>5. /\ left[g] \in Nat /\ left[g] > 0 /\ left'[g] = left[g] - 1
        /\ Sleepers = sema + left[g]
    BY <1>0, <1>a, <1>b, <2>1, <2>2, <2>4
       DEF IInv, TypeOK, SleepersCounted, Sleepers
  <2>6. TypeOK'
    BY <1>0, <2>1, <2>5 DEF TypeOK, Points
  <2>7. NoPanic' /\ CounterIsOwed' /\ CountsOnTasks'
    BY <1>0, <2>1 DEF IInv, NoPanic, CounterIsOwed, CountsOnTasks
  <2>8. OneFinisher' /\ FinisherAlone' /\ WordStaysZero'
    BY <1>0, <2>1, <2>2, <2>3
       DEF OneFinisher, FinisherAlone, WordStaysZero, AddPoints
  <2>9. CASE left[g] = 1 /\ pc' = [pc EXCEPT ![g] = "idle"]
    <3>1. Releasing' = {}
      BY <1>0, <2>4, <2>9 DEF Releasing
    <3>2. Sleepers' = Sleepers
      <4>1. /\ Sleepers \in Nat
            /\ Sleepers' = Sleepers + (IF "idle" = "sleep" THEN 1 ELSE 0)
                                    - (IF pc[g] = "sleep" THEN 1 ELSE 0)
        BY <1>0, <2>9, SleeperCounts, Zenon
      <4>2. QED
        BY <2>1, <4>1
    <3>3. SleepersCounted'
      BY <1>a, <1>b, <2>1, <2>2, <2>5, <2>9, <3>1, <3>2
         DEF SleepersCounted, Sleepers
    <3>4. QED
      BY <2>6, <2>7, <2>8, <3>3 DEF IInv
  <2>10. CASE left[g] # 1 /\ pc' = pc
    <3>1. Releasing' = {g} /\ Sleepers' = Sleepers
      BY <2>4, <2>10 DEF Releasing, Sleepers, Count, At
    <3>2. SleepersCounted'
      BY <1>a, <1>b, <2>1, <2>2, <2>5, <2>10, <3>1
         DEF SleepersCounted, Sleepers
    <3>3. QED
      BY <2>6, <2>7, <2>8, <3>2 DEF IInv
  <2>11. QED
    BY <2>1, <2>9, <2>10
<1>6. ASSUME NEW g \in Goroutines, WaitLoad(g)
      PROVE  IInv'
  <2>1. pc[g] \in {"idle", "wait"} /\ UNCHANGED <<state, sema, owed, left>>
    BY <1>6 DEF WaitLoad
  <2>2. CASE state.counter = 0
    <3>1. pc' = [pc EXCEPT ![g] = "idle"] /\ old' = [old EXCEPT ![g] = old[g]]
          /\ old[g] \in State
      BY <1>0, <1>6, <2>2 DEF WaitLoad, Goto, TypeOK
    <3>2. "idle" \in Points \ {"panic"} /\ "idle" \notin AddPoints
          /\ pc[g] \notin AddPoints
      BY <2>1 DEF AddPoints, Points
    <3>3. QED
      BY <2>1, <3>1, <3>2, MoveInv
  <2>3. CASE state.counter # 0
    <3>1. pc' = [pc EXCEPT ![g] = "cas"] /\ old' = [old EXCEPT ![g] = state]
      BY <1>6, <2>3 DEF WaitLoad, Goto
    <3>2. QED
      BY <1>b, <2>1, <2>3, <3>1, MoveInv DEF AddPoints, Points, WaitPoints
  <2>4. QED
    BY <2>2, <2>3
<1>7. ASSUME NEW g \in Goroutines, WaitCAS(g), state # old[g]
      PROVE  IInv'
  <2>1. /\ pc[g] = "cas" /\ pc' = [pc EXCEPT ![g] = "wait"]
        /\ old' = [old EXCEPT ![g] = Zero]
        /\ UNCHANGED <<state, sema, owed, left>>
    BY <1>7 DEF WaitCAS, Goto
  <2>2. "wait" \in Points \ {"panic"} /\ "wait" \notin AddPoints
        /\ pc[g] \notin AddPoints
    BY <2>1 DEF AddPoints, Points, WaitPoints
  <2>3. QED
    BY <1>a, <2>1, <2>2, MoveInv
<1>8. ASSUME NEW g \in Goroutines, WaitCAS(g), state = old[g]
      PROVE  IInv'
  <2>1. /\ pc[g] = "cas" /\ pc' = [pc EXCEPT ![g] = "sleep"]
        /\ state' = [state EXCEPT !.waiters = @ + 1]
        /\ old' = [old EXCEPT ![g] = Zero]
        /\ UNCHANGED <<sema, owed, left>>
    BY <1>8 DEF WaitCAS, Goto
  <2>2. /\ state' \in State /\ state'.counter = state.counter
        /\ state'.waiters = state.waiters + 1
    BY <1>b, <2>1, Words
  <2>3. state.counter # 0 /\ owed > 0
    BY <1>0, <1>8, <2>1 DEF IInv, TypeOK, CountsOnTasks, CounterIsOwed
  <2>4. /\ sema = 0
        /\ \A h \in Goroutines : pc[h] \notin AddPoints \cup {"check"}
    BY <2>3, Busy
  <2>5. TypeOK'
    BY <1>0, <1>a, <2>1, <2>2 DEF TypeOK, Points, WaitPoints
  <2>6. NoPanic' /\ CounterIsOwed' /\ CountsOnTasks'
    BY <1>0, <2>1, <2>2
       DEF IInv, TypeOK, NoPanic, CounterIsOwed, CountsOnTasks
  <2>7. OneFinisher' /\ FinisherAlone' /\ WordStaysZero'
    BY <1>0, <2>1, <2>4
       DEF OneFinisher, FinisherAlone, WordStaysZero, AddPoints
  <2>8. Releasing = {} /\ Releasing' = {}
    BY <1>0, <2>1, <2>4 DEF Releasing, AddPoints
  <2>9. Sleepers \in Nat /\ Sleepers' = Sleepers + 1
    <3>1. /\ Sleepers \in Nat
          /\ Sleepers' = Sleepers + (IF "sleep" = "sleep" THEN 1 ELSE 0)
                                  - (IF pc[g] = "sleep" THEN 1 ELSE 0)
      BY <1>0, <2>1, SleeperCounts, Zenon
    <3>2. QED
      BY <2>1, <3>1
  <2>10. SleepersCounted'
    BY <1>b, <2>1, <2>2, <2>8, <2>9 DEF IInv, SleepersCounted, Sleepers
  <2>11. QED
    BY <2>5, <2>6, <2>7, <2>10 DEF IInv
<1>9. ASSUME NEW g \in Goroutines, WaitSleep(g)
      PROVE  IInv'
  <2>1. /\ pc[g] = "sleep" /\ pc' = [pc EXCEPT ![g] = "check"]
        /\ sema > 0 /\ sema' = sema - 1
        /\ UNCHANGED <<state, owed, old, left>>
    BY <1>9 DEF WaitSleep, Goto
  <2>2. state = Zero
    BY <2>1 DEF IInv, WordStaysZero
  <2>3. TypeOK'
    BY <1>0, <1>b, <2>1 DEF TypeOK, Points, WaitPoints
  <2>4. NoPanic' /\ CounterIsOwed' /\ CountsOnTasks'
    BY <1>0, <2>1 DEF IInv, NoPanic, CounterIsOwed, CountsOnTasks
  <2>5. OneFinisher' /\ WordStaysZero'
    BY <1>0, <2>1, <2>2 DEF IInv, OneFinisher, WordStaysZero, AddPoints
  <2>6. FinisherAlone'
    BY <1>0, <1>a, <2>1, <2>2 DEF IInv, FinisherAlone
  <2>7. Releasing' = Releasing
    BY <1>0, <2>1 DEF Releasing
  <2>8. Sleepers \in Nat /\ Sleepers' = Sleepers - 1
    <3>1. /\ Sleepers \in Nat
          /\ Sleepers' = Sleepers + (IF "check" = "sleep" THEN 1 ELSE 0)
                                  - (IF pc[g] = "sleep" THEN 1 ELSE 0)
      BY <1>0, <2>1, SleeperCounts, Zenon
    <3>2. QED
      BY <2>1, <3>1
  <2>9. SleepersCounted'
    <3>1. \A h \in Goroutines : left[h] \in Nat
      BY <1>0 DEF TypeOK
    <3>2. Releasing \subseteq Goroutines
      BY DEF Releasing
    <3>3. Releasing = {} => Sleepers' = state'.waiters + sema'
      BY <1>b, <2>1, <2>8 DEF IInv, SleepersCounted, Sleepers
    <3>4. ASSUME NEW h \in Releasing
          PROVE  left[h] > 0 /\ Sleepers' = state.waiters + sema' + left[h]
      <4>1. left[h] > 0 /\ Sleepers = state.waiters + sema + left[h]
        BY <3>4 DEF IInv, SleepersCounted, Sleepers
      <4>2. QED
        BY <1>b, <2>1, <2>8, <3>1, <3>2, <4>1
    <3>5. QED
      BY <2>1, <2>7, <3>3, <3>4 DEF SleepersCounted, Sleepers
  <2>10. QED
    BY <2>3, <2>4, <2>5, <2>6, <2>9 DEF IInv
<1>10. ASSUME NEW g \in Goroutines, WaitCheck(g)
       PROVE  IInv'
  <2>1. pc[g] = "check" /\ UNCHANGED <<state, sema, owed, old, left>>
    BY <1>10 DEF WaitCheck
  <2>2. state = Zero
    BY <2>1 DEF IInv, WordStaysZero
  <2>3. /\ pc' = [pc EXCEPT ![g] = "idle"] /\ old' = [old EXCEPT ![g] = old[g]]
        /\ old[g] \in State
    BY <1>0, <1>10, <2>2 DEF WaitCheck, Goto, TypeOK
  <2>4. "idle" \in Points \ {"panic"} /\ "idle" \notin AddPoints
        /\ pc[g] \notin AddPoints
    BY <2>1 DEF AddPoints, Points
  <2>5. QED
    BY <2>1, <2>3, <2>4, MoveInv
<1>11. CASE UNCHANGED vars
  BY <1>11
     DEF vars, IInv, TypeOK, NoPanic, CounterIsOwed, OneFinisher, FinisherAlone,
         SleepersCounted, WordStaysZero, CountsOnTasks, Releasing, Count, At
<1>12. QED
  BY <1>1, <1>2, <1>3, <1>4, <1>5, <1>6, <1>7, <1>8, <1>9, <1>10, <1>11
     DEF Next

\* IInv is an invariant of sync.WaitGroup, for every finite set of goroutines
\* and tasks.
THEOREM WaitGroupInvariant == Spec => []IInv
<1>1. QED
  BY WaitGroupInitInv, WaitGroupNextInv, PTL DEF Spec

\* Legal use reaches none of the three panics: the counter is never negative,
\* no Add meets a goroutine that waits for an earlier set of tasks, and no Wait
\* wakes up in a word that is used again.
THEOREM LegalUseNeverPanics == Spec => []NoPanic
<1>1. IInv => NoPanic
  BY DEF IInv
<1>2. QED
  BY <1>1, WaitGroupInvariant, PTL

\* A goroutine that slept in Wait goes on only when all tasks have ended.
THEOREM Barrier == Spec => []WaitIsBarrier
<1>1. IInv => WaitIsBarrier
  <2> SUFFICES ASSUME IInv, NEW g \in Goroutines, pc[g] = "check"
               PROVE  owed = 0
    BY DEF WaitIsBarrier
  <2>1. state = Zero
    BY DEF IInv, WordStaysZero
  <2>2. QED
    BY <2>1 DEF IInv, CounterIsOwed, Zero
<1>2. QED
  BY <1>1, WaitGroupInvariant, PTL

(***************************************************************************)
(* sync.Cond                                                               *)
(***************************************************************************)

\* The goroutines of a Cond are finitely many.
LEMMA UsersFinite ==
  IsFiniteSet(Users) /\ Cardinality(Users) \in Nat
BY CondAssumption, FS_CardinalityType

\* A set of releases is finite; it is that of one goroutine's releases from the
\* a-th on larger than what is left without them.
LEMMA ReleasesCounted ==
  ASSUME NEW S \in SUBSET (Users \X (1..Cardinality(Users)))
  PROVE  IsFiniteSet(S) /\ Cardinality(S) \in Nat
<1>1. IsFiniteSet(1..Cardinality(Users))
  BY UsersFinite, FS_Interval
<1>2. IsFiniteSet(Users \X (1..Cardinality(Users)))
  BY <1>1, UsersFinite, FS_Product
<1>3. QED
  BY <1>2, FS_Subset, FS_CardinalityType

LEMMA ReleasesMore ==
  ASSUME NEW S \in SUBSET (Users \X (1..Cardinality(Users))),
         NEW T \in SUBSET (Users \X (1..Cardinality(Users))),
         NEW g \in Users, NEW a \in Nat, NEW b \in Nat,
         a <= b, b <= Cardinality(Users),
         \A h \in Users, k \in 1..Cardinality(Users) :
           <<h, k>> \in S <=> <<h, k>> \in T \/ (h = g /\ a < k /\ k <= b),
         \A k \in 1..Cardinality(Users) : a < k /\ k <= b => <<g, k>> \notin T
  PROVE  Cardinality(S) = Cardinality(T) + b - a
<1> DEFINE one   == {g}
           range == (a + 1)..b
           extra == one \X range
<1>1. IsFiniteSet(T) /\ Cardinality(T) \in Nat
  BY ReleasesCounted
<1>2. IsFiniteSet(one) /\ Cardinality(one) = 1
  <2>1. one = {} \cup {g} /\ g \notin {}
    OBVIOUS
  <2>2. /\ IsFiniteSet({} \cup {g})
        /\ Cardinality({} \cup {g}) =
             IF g \in {} THEN Cardinality({}) ELSE Cardinality({}) + 1
    BY FS_EmptySet, FS_AddElement, Zenon
  <2>3. QED
    BY <2>1, <2>2, FS_EmptySet
<1>3. IsFiniteSet(range) /\ Cardinality(range) = b - a
  <2>1. a + 1 \in Int /\ b \in Int
    OBVIOUS
  <2>2. /\ IsFiniteSet(range)
        /\ Cardinality(range) = IF a + 1 > b THEN 0 ELSE b - (a + 1) + 1
    BY <2>1, FS_Interval, Zenon
  <2> HIDE DEF range
  <2>3. QED
    BY <2>2
<1>4. range \subseteq 1..Cardinality(Users)
      /\ \A k \in 1..Cardinality(Users) : k \in range <=> a < k /\ k <= b
  BY UsersFinite
<1>5. S = T \cup extra /\ T \cap extra = {}
  <2> HIDE DEF range
  <2>1. extra \subseteq Users \X (1..Cardinality(Users))
    BY <1>4
  <2>2. \A r \in Users \X (1..Cardinality(Users)) :
          /\ r \in S <=> r \in T \cup extra
          /\ ~(r \in T /\ r \in extra)
    <3> SUFFICES ASSUME NEW h \in Users, NEW k \in 1..Cardinality(Users)
                 PROVE  /\ <<h, k>> \in S <=> <<h, k>> \in T \cup extra
                        /\ ~(<<h, k>> \in T /\ <<h, k>> \in extra)
      OBVIOUS
    <3>1. <<h, k>> \in extra <=> h = g /\ a < k /\ k <= b
      BY <1>4
    <3> HIDE DEF extra
    <3>2. QED
      BY <3>1
  <2> HIDE DEF extra
  <2>3. QED
    BY <2>1, <2>2
<1> HIDE DEF one, range
<1>6. IsFiniteSet(extra) /\ Cardinality(extra) = Cardinality(one) * Cardinality(range)
  BY <1>2, <1>3, FS_Product, Zenon
<1>7. Cardinality(extra) = b - a
  <2>1. Cardinality(extra) = 1 * (b - a)
    BY <1>2, <1>3, <1>6, Zenon
  <2> HIDE DEF extra
  <2>2. QED
    BY <2>1
<1> HIDE DEF extra
<1>8. Cardinality(T \cap extra) = 0
  BY <1>5, FS_EmptySet
<1>9. Cardinality(T \cup extra) =
        Cardinality(T) + Cardinality(extra) - Cardinality(T \cap extra)
  BY <1>1, <1>6, FS_Union, Zenon
<1>10. QED
  BY <1>1, <1>5, <1>7, <1>8, <1>9

\* The r-th release of g is on its way.
OnItsWay(g, k) ==
  \/ k <= toRelease[g]
  \/ \E i \in DOMAIN queue : queue[i].g = g /\ k <= queue[i].nrelease

LEMMA ReleasesAre ==
  /\ Releases \in SUBSET (Users \X (1..Cardinality(Users)))
  /\ \A g \in Users, k \in 1..Cardinality(Users) :
       <<g, k>> \in Releases <=> OnItsWay(g, k)
BY DEF Releases, OnItsWay

\* How the releases change when those of g grow from a to b, or shrink.
LEMMA ReleasesGrow ==
  ASSUME NEW g \in Users, NEW a \in Nat, NEW b \in Nat,
         a <= b, b <= Cardinality(Users),
         \A h \in Users, k \in 1..Cardinality(Users) :
           OnItsWay(h, k)' <=> OnItsWay(h, k) \/ (h = g /\ a < k /\ k <= b),
         \A k \in 1..Cardinality(Users) : a < k /\ k <= b => ~OnItsWay(g, k)
  PROVE  Cardinality(Releases') = Cardinality(Releases) + b - a
<1>1. /\ Releases' \in SUBSET (Users \X (1..Cardinality(Users)))
      /\ \A h \in Users, k \in 1..Cardinality(Users) :
           <<h, k>> \in Releases' <=> OnItsWay(h, k)'
  BY DEF Releases, OnItsWay
<1>2. QED
  BY <1>1, ReleasesAre, ReleasesMore

LEMMA ReleasesShrink ==
  ASSUME NEW g \in Users, NEW a \in Nat, NEW b \in Nat,
         a <= b, b <= Cardinality(Users),
         \A h \in Users, k \in 1..Cardinality(Users) :
           OnItsWay(h, k) <=> OnItsWay(h, k)' \/ (h = g /\ a < k /\ k <= b),
         \A k \in 1..Cardinality(Users) : a < k /\ k <= b => ~OnItsWay(g, k)'
  PROVE  Cardinality(Releases) = Cardinality(Releases') + b - a
<1>1. /\ Releases' \in SUBSET (Users \X (1..Cardinality(Users)))
      /\ \A h \in Users, k \in 1..Cardinality(Users) :
           <<h, k>> \in Releases' <=> OnItsWay(h, k)'
  BY DEF Releases, OnItsWay
<1>2. QED
  BY <1>1, ReleasesAre, ReleasesMore

\* The numbers of waiting calls before and after one goroutine moves.
LEMMA WaitsMove ==
  ASSUME CondTypeOK, NEW g \in Users, NEW p, at' = [at EXCEPT ![g] = p]
  PROVE  /\ Count(at, Waits) \in Nat
         /\ Count(at', Waits) = Count(at, Waits) + Weight(p, Waits) - Weight(at[g], Waits)
<1>1. IsFiniteSet(Users) /\ at \in [Users -> CondPoints]
  BY UsersFinite DEF CondTypeOK
<1>2. Count(at, Waits) \in Nat
  BY <1>1, CountType
<1>3. Count(at', Waits) = Count(at, Waits) + Weight(p, Waits) - Weight(at[g], Waits)
  BY <1>1, CountMove, Zenon
<1>4. QED
  BY <1>2, <1>3

\* The same when the goroutines of S, all of them waiting, wait no longer.
LEMMA WaitsEnd ==
  ASSUME CondTypeOK, CondTypeOK', NEW S \in SUBSET Users,
         \A h \in S : at[h] \in Waits,
         \A h \in Users : at'[h] \in Waits <=> at[h] \in Waits /\ h \notin S
  PROVE  /\ Count(at, Waits) \in Nat /\ Cardinality(S) \in Nat
         /\ Count(at', Waits) = Count(at, Waits) - Cardinality(S)
<1> DEFINE W == At(at, Waits)
<1>1. at \in [Users -> CondPoints] /\ at' \in [Users -> CondPoints]
  BY DEF CondTypeOK
<1>2. W \in SUBSET Users /\ At(at', Waits) = W \ S /\ W \cap S = S
  BY <1>1 DEF At
<1>3. IsFiniteSet(W) /\ IsFiniteSet(S) /\ Cardinality(S) \in Nat /\ Cardinality(W) \in Nat
  BY <1>2, UsersFinite, FS_Subset, FS_CardinalityType
<1> HIDE DEF W
<1>4. Cardinality(W \ S) = Cardinality(W) - Cardinality(W \cap S)
  BY <1>3, FS_Difference, Zenon
<1>5. Count(at, Waits) = Cardinality(W) /\ Count(at', Waits) = Cardinality(W \ S)
  BY <1>2 DEF Count, W
<1>6. QED
  BY <1>2, <1>3, <1>4, <1>5

\* A point where a goroutine neither is in the queue nor has a release.
Apart(p) == p \notin {"asleep", "release", "releasing"}

\* A step that neither the queue nor a release has part in.
LEMMA QuietStep ==
  ASSUME CondInv, NEW g \in Users, NEW p \in CondPoints,
         at' = [at EXCEPT ![g] = p],
         Apart(at[g]), Apart(p),
         UNCHANGED <<queue, toRelease>>,
         L' \in Users \cup {NoOne}, waiters' \in Nat,
         waiters' = waiters + Weight(p, Waits) - Weight(at[g], Waits)
  PROVE  CondInv'
<1>1. CondTypeOK'
  BY DEF CondInv, CondTypeOK
<1>2. QueueOfOneKind'
  BY DEF CondInv, QueueOfOneKind
<1>3. \A h \in Users : \A x \in {"asleep", "release", "releasing"} :
        at'[h] = x <=> at[h] = x
  BY DEF CondInv, CondTypeOK, Apart
<1>4. QueueIsAsleep'
  BY <1>3 DEF CondInv, QueueIsAsleep, Acquires
<1>5. ReleasesBounded'
  BY <1>3 DEF CondInv, ReleasesBounded
<1>6. WaitersCounted'
  <2>1. Releases' = Releases
    BY DEF Releases
  <2>2. CondTypeOK /\ waiters \in Nat /\ Cardinality(Releases) \in Nat
    BY ReleasesAre, ReleasesCounted DEF CondInv, CondTypeOK
  <2>3. /\ Count(at, Waits) \in Nat
        /\ Count(at', Waits) = Count(at, Waits) + Weight(p, Waits) - Weight(at[g], Waits)
    BY <2>2, WaitsMove
  <2>4. QED
    BY <2>1, <2>2, <2>3 DEF CondInv, WaitersCounted, Weight
<1>7. QED
  BY <1>1, <1>2, <1>4, <1>5, <1>6 DEF CondInv

\* A Signal or Broadcast call takes its count: these many releases are on
\* their way.
LEMMA CountTaken ==
  ASSUME CondInv, NEW g \in Users, SignalCAS(g), waiters # 0
  PROVE  CondInv'
<1> DEFINE k == waiters - waiters'
<1>1. /\ at[g] \in {"signal", "broadcast"}
      /\ waiters' = IF at[g] = "broadcast" THEN 0 ELSE waiters - 1
      /\ toRelease' = [toRelease EXCEPT ![g] = k]
      /\ at' = [at EXCEPT ![g] = "release"]
      /\ UNCHANGED <<L, queue>>
  BY DEF SignalCAS, CondGoto
<1>2. CondTypeOK /\ waiters \in Nat /\ Cardinality(Releases) \in Nat
  BY ReleasesAre, ReleasesCounted DEF CondInv, CondTypeOK
<1>3. waiters' \in Nat /\ k \in Nat /\ 0 < k /\ k <= waiters /\ waiters' = waiters - k
  BY <1>1, <1>2
<1>4. /\ Count(at, Waits) \in Nat
      /\ Count(at', Waits) = Count(at, Waits) + Weight("release", Waits) - Weight(at[g], Waits)
  BY <1>1, <1>2, WaitsMove
<1>5. Weight("release", Waits) = 0 /\ Weight(at[g], Waits) = 0
  BY <1>1 DEF Weight, Waits
<1>6. k <= Cardinality(Users)
  <2>1. Count(at, Waits) <= Cardinality(Users)
    BY UsersFinite, CountBounded DEF CondInv, CondTypeOK
  <2> HIDE DEF k
  <2>2. QED
    BY <1>2, <1>3, <1>4, <2>1, UsersFinite DEF CondInv, WaitersCounted
<1> HIDE DEF k
<1>7. CondTypeOK'
  BY <1>1, <1>3 DEF CondInv, CondTypeOK, CondPoints, Signals
<1>8. QueueOfOneKind'
  BY <1>1 DEF CondInv, QueueOfOneKind
<1>9. QueueIsAsleep'
  <2>1. \A h \in Users : \A x \in {"asleep", "releasing"} : at'[h] = x <=> at[h] = x
    BY <1>1, <1>2 DEF CondTypeOK
  <2>2. QED
    BY <1>1, <2>1 DEF CondInv, QueueIsAsleep, Acquires
<1>10. ReleasesBounded'
  BY <1>1, <1>2, <1>3, <1>6, UsersFinite DEF CondInv, ReleasesBounded, CondTypeOK
<1>11. Cardinality(Releases') = Cardinality(Releases) + k - 0
  <2>1. toRelease[g] = 0 /\ toRelease'[g] = k
        /\ \A h \in Users : h # g => toRelease'[h] = toRelease[h]
    BY <1>1, <1>2 DEF CondInv, ReleasesBounded, CondTypeOK
  <2>2. \A i \in DOMAIN queue : queue[i].g = g => FALSE
    BY <1>1 DEF CondInv, QueueIsAsleep, Acquires
  <2>3. \A j \in 1..Cardinality(Users) : ~OnItsWay(g, j)
    BY <2>1, <2>2 DEF OnItsWay
  <2>4. \A h \in Users, j \in 1..Cardinality(Users) :
          OnItsWay(h, j)' <=> OnItsWay(h, j) \/ (h = g /\ 0 < j /\ j <= k)
    BY <1>1, <1>3, <2>1, <2>2 DEF OnItsWay
  <2>5. \A j \in 1..Cardinality(Users) : 0 < j /\ j <= k => ~OnItsWay(g, j)
    BY <2>3
  <2>6. 0 \in Nat /\ 0 <= k
    BY <1>3
  <2>7. QED
    BY <1>3, <1>6, <2>4, <2>5, <2>6, ReleasesGrow, Zenon
<1>12. WaitersCounted'
  <2>1. Count(at, Waits) = waiters + Cardinality(Releases)
    BY DEF CondInv, WaitersCounted
  <2>2. Count(at', Waits) = Count(at, Waits)
    BY <1>4, <1>5
  <2>3. QED
    BY <1>2, <1>3, <1>11, <2>1, <2>2 DEF WaitersCounted
<1>13. QED
  BY <1>7, <1>8, <1>9, <1>10, <1>12 DEF CondInv

\* What the queue holds.
QueueIs ==
  /\ Len(queue) \in Nat /\ DOMAIN queue = 1..Len(queue)
  /\ \A i \in 1..Len(queue) :
       /\ queue[i].g \in Users
       /\ queue[i].nrelease \in {-1} \cup 1..Cardinality(Users)
       /\ queue[i].nrelease < 0 => at[queue[i].g] = "asleep"
       /\ queue[i].nrelease > 0 => at[queue[i].g] = "releasing"
       /\ toRelease[queue[i].g] = 0
  /\ \A i, j \in 1..Len(queue) : queue[i].g = queue[j].g => i = j

LEMMA QueueFacts == ASSUME CondInv PROVE QueueIs
<1>1. queue \in Seq(Sudog)
  BY DEF CondInv, CondTypeOK
<1>2. Len(queue) \in Nat /\ DOMAIN queue = 1..Len(queue)
  BY <1>1, LenProperties
<1>3. \A i \in 1..Len(queue) : queue[i] \in Sudog
  BY <1>1, ElementOfSeq
<1>4. ASSUME NEW i \in 1..Len(queue)
      PROVE  /\ queue[i].g \in Users
             /\ queue[i].nrelease \in {-1} \cup 1..Cardinality(Users)
             /\ queue[i].nrelease < 0 => at[queue[i].g] = "asleep"
             /\ queue[i].nrelease > 0 => at[queue[i].g] = "releasing"
             /\ toRelease[queue[i].g] = 0
  <2>1. queue[i].g \in Users /\ queue[i].nrelease \in {-1} \cup 1..Cardinality(Users)
    BY <1>2, <1>3 DEF Sudog, CondInv, ReleasesBounded
  <2>2. queue[i].nrelease < 0 => at[queue[i].g] = "asleep"
    BY <1>2, <2>1 DEF CondInv, QueueIsAsleep, Acquires
  <2>3. queue[i].nrelease > 0 => at[queue[i].g] = "releasing"
    BY <1>2, <2>1 DEF CondInv, QueueIsAsleep, Acquires
  <2>4. toRelease[queue[i].g] = 0
    BY <2>1, <2>2, <2>3, UsersFinite DEF CondInv, ReleasesBounded
  <2>5. QED
    BY <2>1, <2>2, <2>3, <2>4
<1>5. QED
  BY <1>2, <1>4 DEF CondInv, QueueIsAsleep, QueueIs

\* Whether the queue is of acquires or of releases, and who sleeps in it.
LEMMA QueueOfAcquires ==
  ASSUME CondInv
  PROVE  /\ ~ReleasePending <=> \A i \in 1..Len(queue) : queue[i].nrelease < 0
         /\ ReleasePending => \A i \in 1..Len(queue) : queue[i].nrelease > 0
         /\ \A h \in Users :
              /\ at[h] = "asleep" <=>
                   \E i \in 1..Len(queue) : queue[i].g = h /\ queue[i].nrelease < 0
              /\ at[h] = "releasing" <=>
                   \E i \in 1..Len(queue) : queue[i].g = h /\ queue[i].nrelease > 0
<1>1. QueueIs /\ queue \in Seq(Sudog)
  BY QueueFacts DEF CondInv, CondTypeOK
<1>2. ReleasePending <=> 1 \in 1..Len(queue) /\ queue[1].nrelease > 0
  BY <1>1 DEF ReleasePending, QueueIs
<1>3. \A i \in 1..Len(queue) : queue[i].nrelease < 0 <=> ~(queue[i].nrelease > 0)
  BY <1>1, UsersFinite DEF QueueIs
<1>4. \/ \A i \in 1..Len(queue) : queue[i].nrelease < 0
      \/ \A i \in 1..Len(queue) : queue[i].nrelease > 0
  BY <1>1 DEF CondInv, QueueOfOneKind, QueueIs
<1>5. /\ ~ReleasePending <=> \A i \in 1..Len(queue) : queue[i].nrelease < 0
      /\ ReleasePending => \A i \in 1..Len(queue) : queue[i].nrelease > 0
  <2>1. \A i \in 1..Len(queue) : 1 \in 1..Len(queue)
    BY <1>1 DEF QueueIs
  <2>2. QED
    BY <1>2, <1>3, <1>4, <2>1
<1>6. ASSUME NEW h \in Users
      PROVE  /\ at[h] = "asleep" <=>
                  \E i \in 1..Len(queue) : queue[i].g = h /\ queue[i].nrelease < 0
             /\ at[h] = "releasing" <=>
                  \E i \in 1..Len(queue) : queue[i].g = h /\ queue[i].nrelease > 0
  BY <1>1, <1>3 DEF CondInv, QueueIsAsleep, QueueIs, Acquires
<1>7. QED
  BY <1>5, <1>6

\* A queue of sudogs with a sudog added at its end.
LEMMA QueueAppended ==
  ASSUME NEW q \in Seq(Sudog), NEW s \in Sudog
  PROVE  /\ Append(q, s) \in Seq(Sudog) /\ Len(Append(q, s)) = Len(q) + 1
         /\ Len(q) \in Nat /\ DOMAIN Append(q, s) = 1..(Len(q) + 1)
         /\ \A i \in 1..Len(q) : Append(q, s)[i] = q[i]
         /\ Append(q, s)[Len(q) + 1] = s
<1>1. /\ Append(q, s) \in Seq(Sudog) /\ Len(Append(q, s)) = Len(q) + 1
      /\ \A i \in 1..Len(q) : Append(q, s)[i] = q[i]
      /\ Append(q, s)[Len(q) + 1] = s
  BY AppendProperties
<1>2. Len(q) \in Nat /\ DOMAIN Append(q, s) = 1..(Len(q) + 1)
  BY <1>1, LenProperties
<1>3. QED
  BY <1>1, <1>2

\* The same of a queue without its first k sudogs.
LEMMA QueueShortened ==
  ASSUME NEW q \in Seq(Sudog), NEW k \in 0..Len(q)
  PROVE  LET r == SubSeq(q, k + 1, Len(q))
         IN /\ r \in Seq(Sudog) /\ Len(r) = Len(q) - k
            /\ Len(q) \in Nat /\ DOMAIN r = 1..(Len(q) - k)
            /\ \A i \in 1..(Len(q) - k) : r[i] = q[k + i]
<1> DEFINE r == SubSeq(q, k + 1, Len(q))
<1>1. Len(q) \in Nat /\ \A i \in 1..Len(q) : q[i] \in Sudog
  BY LenProperties, ElementOfSeq
<1>2. k + 1 \in Int /\ Len(q) \in Int /\ k \in Int /\ 0 <= k /\ k <= Len(q)
      /\ \A i \in (k + 1)..Len(q) : q[i] \in Sudog
  BY <1>1
<1>3. /\ r \in Seq(Sudog)
      /\ Len(r) = IF k + 1 <= Len(q) THEN Len(q) - (k + 1) + 1 ELSE 0
      /\ \A i \in 1..(Len(q) - (k + 1) + 1) : r[i] = q[(k + 1) + i - 1]
  BY <1>2, SubSeqProperties, SMT
<1> HIDE DEF r
<1>4. Len(r) = Len(q) - k
  BY <1>2, <1>3
<1>5. DOMAIN r = 1..(Len(q) - k)
  BY <1>3, <1>4, LenProperties
<1>6. ASSUME NEW i \in 1..(Len(q) - k)
      PROVE  r[i] = q[k + i]
  <2>1. i \in 1..(Len(q) - (k + 1) + 1) /\ (k + 1) + i - 1 = k + i
    BY <1>2
  <2>2. QED
    BY <1>3, <2>1
<1>7. QED
  BY <1>1, <1>3, <1>4, <1>5, <1>6 DEF r

\* syncsemacquire with no release pending: g goes to sleep at the end.
LEMMA AcquireSleeps ==
  ASSUME CondInv, NEW g \in Users, Syncsemacquire(g), ~ReleasePending
  PROVE  CondInv'
<1> DEFINE s == [g |-> g, nrelease |-> -1]
           m == Len(queue)
<1>1. /\ at[g] = "acquire"
      /\ queue' = Append(queue, s)
      /\ at' = [at EXCEPT ![g] = "asleep"]
      /\ UNCHANGED <<L, waiters, toRelease>>
  BY DEF Syncsemacquire, CondGoto
<1>2. CondTypeOK /\ queue \in Seq(Sudog) /\ s \in Sudog
      /\ waiters \in Nat /\ Cardinality(Releases) \in Nat
  BY ReleasesAre, ReleasesCounted DEF CondInv, CondTypeOK, Sudog
<1>3. QueueIs
  BY QueueFacts
<1>4. /\ queue' \in Seq(Sudog) /\ m \in Nat /\ DOMAIN queue' = 1..(m + 1)
      /\ \A i \in 1..m : queue'[i] = queue[i]
      /\ queue'[m + 1].g = g /\ queue'[m + 1].nrelease = -1
  BY <1>1, <1>2, QueueAppended
<1>5. /\ \A i \in 1..m : queue[i].nrelease < 0 /\ queue[i].g # g
      /\ \A h \in Users :
           /\ at[h] = "asleep" <=> \E i \in 1..m : queue[i].g = h
           /\ at[h] # "releasing"
  <2>1. /\ \A i \in 1..m : queue[i].nrelease < 0
        /\ \A h \in Users :
             /\ at[h] = "asleep" <=>
                  \E i \in 1..m : queue[i].g = h /\ queue[i].nrelease < 0
             /\ at[h] = "releasing" <=>
                  \E i \in 1..m : queue[i].g = h /\ queue[i].nrelease > 0
    BY QueueOfAcquires
  <2>2. \A i \in 1..m : ~(queue[i].nrelease > 0)
    BY <1>3, <2>1 DEF QueueIs
  <2>3. QED
    BY <1>1, <2>1, <2>2
<1>6. at'[g] = "asleep" /\ \A h \in Users : h # g => at'[h] = at[h]
  BY <1>1, <1>2 DEF CondTypeOK
<1>7. \A i \in 1..(m + 1) : i \in 1..m \/ i = m + 1
  BY <1>4
<1> HIDE DEF s, m
<1>8. CondTypeOK'
  BY <1>1, <1>2, <1>4 DEF CondTypeOK, CondPoints, Waits
<1>9. \A i \in 1..(m + 1) : queue'[i].nrelease < 0
  BY <1>4, <1>5, <1>7
<1>10. QueueOfOneKind'
  BY <1>4, <1>9 DEF QueueOfOneKind
<1>11. QueueIsAsleep'
  <2>1. \A i, j \in 1..(m + 1) : queue'[i].g = queue'[j].g => i = j
    BY <1>3, <1>4, <1>5, <1>7 DEF QueueIs, m
  <2>2. Acquires' = 1..(m + 1)
    BY <1>4, <1>9 DEF Acquires
  <2>3. ASSUME NEW h \in Users
        PROVE  /\ at'[h] = "asleep" <=> \E i \in 1..(m + 1) : queue'[i].g = h
               /\ at'[h] # "releasing"
    <3>1. 1..m \subseteq 1..(m + 1) /\ m + 1 \in 1..(m + 1)
      BY <1>4
    <3>2. QED
      BY <1>4, <1>5, <1>6, <1>7, <3>1
  <2>4. QED
    BY <1>4, <2>1, <2>2, <2>3 DEF QueueIsAsleep
<1>12. ReleasesBounded'
  <2>1. \A i \in 1..(m + 1) : queue'[i].nrelease \in {-1} \cup 1..Cardinality(Users)
    BY <1>3, <1>4, <1>7 DEF QueueIs, m
  <2>2. \A h \in Users : at'[h] = "release" <=> at[h] = "release"
    BY <1>1, <1>6
  <2>3. QED
    BY <1>1, <1>4, <2>1, <2>2 DEF CondInv, ReleasesBounded
<1>13. Cardinality(Releases') = Cardinality(Releases) + 0 - 0
  <2>1. \A h \in Users, k \in 1..Cardinality(Users) : OnItsWay(h, k)' <=> OnItsWay(h, k)
    <3>1. \A k \in 1..Cardinality(Users) :
            /\ \A i \in 1..m : ~(k <= queue[i].nrelease)
            /\ \A i \in 1..(m + 1) : ~(k <= queue'[i].nrelease)
      <4>1. \A i \in 1..m : queue[i].nrelease = -1
        BY <1>3, <1>5, UsersFinite DEF QueueIs, m
      <4>2. \A i \in 1..(m + 1) : queue'[i].nrelease = -1
        BY <1>4, <1>7, <4>1
      <4>3. QED
        BY <4>1, <4>2, UsersFinite
    <3>2. DOMAIN queue = 1..m
      BY <1>3 DEF QueueIs, m
    <3>3. QED
      BY <1>1, <1>4, <3>1, <3>2 DEF OnItsWay
  <2>2. QED
    BY <2>1, UsersFinite, ReleasesGrow
<1>14. WaitersCounted'
  <2>1. Count(at, Waits) = waiters + Cardinality(Releases)
    BY DEF CondInv, WaitersCounted
  <2>2. Count(at', Waits) = Count(at, Waits)
    <3>1. /\ Count(at, Waits) \in Nat
          /\ Count(at', Waits) =
               Count(at, Waits) + Weight("asleep", Waits) - Weight(at[g], Waits)
      BY <1>1, <1>2, WaitsMove
    <3>2. Weight("asleep", Waits) = 1 /\ Weight(at[g], Waits) = 1
      BY <1>1 DEF Weight, Waits
    <3>3. QED
      BY <3>1, <3>2
  <2>3. QED
    BY <1>1, <1>2, <1>13, <2>1, <2>2 DEF WaitersCounted
<1>15. QED
  BY <1>8, <1>10, <1>11, <1>12, <1>14 DEF CondInv
\* syncsemacquire that meets the release at the head of the queue.
LEMMA AcquireMeetsRelease ==
  ASSUME CondInv, NEW g \in Users, Syncsemacquire(g), ReleasePending
  PROVE  CondInv'
<1> DEFINE m == Len(queue)
           r == queue[1].g
           v == queue[1].nrelease
           last == v = 1
           d == IF last THEN 1 ELSE 0
<1>1. CondTypeOK /\ queue \in Seq(Sudog) /\ QueueIs
      /\ waiters \in Nat /\ Cardinality(Releases) \in Nat
  BY QueueFacts, ReleasesAre, ReleasesCounted DEF CondInv, CondTypeOK
<1>2. /\ m \in Nat /\ DOMAIN queue = 1..m /\ 1 \in 1..m
      /\ queue # <<>> /\ Head(queue) = queue[1]
  BY <1>1 DEF ReleasePending, QueueIs
<1>3. /\ at[g] = "acquire"
      /\ queue' = IF last THEN Tail(queue) ELSE [queue EXCEPT ![1].nrelease = v - 1]
      /\ at' = [h \in Users |->
                  IF h = g THEN "locking"
                  ELSE IF h \notin (IF last THEN {r} ELSE {}) THEN at[h]
                  ELSE IF at[h] = "asleep" THEN "locking" ELSE "running"]
      /\ UNCHANGED <<L, waiters, toRelease>>
  BY <1>2 DEF Syncsemacquire, TakeRelease, Ready
<1>4. /\ \A i \in 1..m : queue[i].nrelease > 0 /\ queue[i].g # g
      /\ \A h \in Users :
           /\ at[h] # "asleep"
           /\ at[h] = "releasing" <=> \E i \in 1..m : queue[i].g = h
  <2>1. /\ \A i \in 1..m : queue[i].nrelease > 0
        /\ \A h \in Users :
             /\ at[h] = "asleep" <=>
                  \E i \in 1..m : queue[i].g = h /\ queue[i].nrelease < 0
             /\ at[h] = "releasing" <=>
                  \E i \in 1..m : queue[i].g = h /\ queue[i].nrelease > 0
    BY QueueOfAcquires
  <2>2. \A i \in 1..m : ~(queue[i].nrelease < 0)
    BY <1>1, <2>1 DEF QueueIs
  <2>3. QED
    BY <1>3, <2>1, <2>2
<1>5. /\ r \in Users /\ r # g /\ at[r] = "releasing"
      /\ v \in 1..Cardinality(Users) /\ v \in Nat /\ v - 1 \in Nat
  BY <1>1, <1>2, <1>4, UsersFinite DEF QueueIs
<1>6. /\ at'[g] = "locking" /\ at'[r] = IF last THEN "running" ELSE at[r]
      /\ \A h \in Users : h # g /\ h # r => at'[h] = at[h]
  BY <1>3, <1>5
<1>7. /\ queue' \in Seq(Sudog) /\ DOMAIN queue' = 1..(m - d)
      /\ \A i \in 1..(m - d) :
           /\ queue'[i].g = queue[i + d].g
           /\ queue'[i].nrelease = IF i + d = 1 THEN v - 1 ELSE queue[i + d].nrelease
      /\ d \in {0, 1}
  <2>1. CASE last
    <3>1. /\ Tail(queue) \in Seq(Sudog) /\ Len(Tail(queue)) = m - 1
          /\ \A i \in 1..(m - 1) : Tail(queue)[i] = queue[i + 1]
      BY <1>1, <1>2, HeadTailProperties
    <3>2. DOMAIN queue' = 1..(m - 1)
      BY <1>3, <2>1, <3>1, LenProperties
    <3> HIDE DEF m, r, v
    <3>3. d = 1 /\ \A i \in 1..(m - 1) : i + 1 # 1
      BY <1>2, <2>1
    <3>4. QED
      BY <1>3, <2>1, <3>1, <3>2, <3>3
  <2>2. CASE ~last
    <3>1. \A i \in 1..m : queue[i] \in Sudog
      BY <1>1, ElementOfSeq
    <3>2. [queue[1] EXCEPT !.nrelease = v - 1] \in Sudog
      BY <1>2, <1>5, <3>1 DEF Sudog
    <3>3. queue' = [queue EXCEPT ![1] = [queue[1] EXCEPT !.nrelease = v - 1]]
      BY <1>2, <1>3, <2>2
    <3>4. /\ queue' \in Seq(Sudog) /\ Len(queue') = m
          /\ \A i \in 1..m : queue'[i] =
               IF i = 1 THEN [queue[1] EXCEPT !.nrelease = v - 1] ELSE queue[i]
      BY <1>1, <1>2, <3>2, <3>3, ExceptSeq
    <3>5. DOMAIN queue' = 1..m
      BY <3>4, LenProperties
    <3>6. queue'[1].g = r /\ queue'[1].nrelease = v - 1
      BY <1>2, <3>1, <3>4 DEF Sudog
    <3>7. \A i \in 1..m : i # 1 => queue'[i] = queue[i]
      BY <3>4
    <3>8. d = 0 /\ m - 0 = m /\ \A i \in 1..m : i + 0 = i
      BY <1>2, <2>2
    <3> HIDE DEF m, v, d, last
    <3>9. QED
      BY <3>4, <3>5, <3>6, <3>7, <3>8
  <2>3. QED
    BY <2>1, <2>2
<1> HIDE DEF m
<1>8. \A i \in 1..(m - d) : i + d \in 1..m
  BY <1>2, <1>7
<1>9. last => \A i \in 1..m : i = 1 \/ i - 1 \in 1..(m - d)
  BY <1>2
<1>10. ~last => m - d = m /\ \A i \in 1..m : i + d = i
  BY <1>2
<1>11. \A i \in 1..(m - d) : queue'[i].nrelease \in 1..Cardinality(Users)
  <2>1. SUFFICES ASSUME NEW i \in 1..(m - d)
                 PROVE  queue'[i].nrelease \in 1..Cardinality(Users)
    OBVIOUS
  <2>2. \A j \in 1..m : queue[j].nrelease \in 1..Cardinality(Users)
    BY <1>1, <1>4, UsersFinite DEF QueueIs, m
  <2>3. CASE i + d = 1
    <3>1. ~last
      BY <1>2, <1>7, <2>3
    <3>2. v - 1 \in 1..Cardinality(Users)
      BY <1>5, <3>1, UsersFinite
    <3> HIDE DEF v, last, d
    <3>3. QED
      BY <1>7, <2>3, <3>2
  <2>4. CASE i + d # 1
    BY <1>7, <1>8, <2>2, <2>4
  <2>5. QED
    BY <2>3, <2>4
<1> HIDE DEF r, v, last, d
<1>12. CondTypeOK'
  BY <1>1, <1>3, <1>7 DEF CondTypeOK, CondPoints
<1>13. QueueOfOneKind'
  <2>1. \A i \in 1..(m - d) : queue'[i].nrelease > 0
    BY <1>11, UsersFinite
  <2>2. QED
    BY <1>7, <2>1 DEF QueueOfOneKind
<1>14. QueueIsAsleep'
  <2>1. \A i, j \in 1..(m - d) : queue'[i].g = queue'[j].g => i = j
    <3>1. \A i, j \in 1..m : queue[i].g = queue[j].g => i = j
      BY <1>1 DEF QueueIs, m
    <3>2. \A i, j \in 1..(m - d) : i + d = j + d => i = j
      BY <1>2, <1>7
    <3>3. QED
      BY <1>7, <1>8, <3>1, <3>2
  <2>2. Acquires' = {}
    BY <1>7, <1>11, UsersFinite DEF Acquires
  <2>3. ASSUME NEW h \in Users
        PROVE  /\ at'[h] # "asleep"
               /\ at'[h] = "releasing" <=> \E i \in 1..(m - d) : queue'[i].g = h
    <3>1. at'[h] # "asleep"
      BY <1>4, <1>5, <1>6
    <3>2. ASSUME NEW i \in 1..(m - d), queue'[i].g = h
          PROVE  at'[h] = "releasing"
      <4>1. at[h] = "releasing" /\ h # g /\ queue[i + d].g = h
        BY <1>4, <1>7, <1>8, <3>2
      <4>2. last => h # r
        <5>1. last => i + d # 1
          BY <1>2 DEF d
        <5>2. QED
          BY <1>1, <1>2, <1>8, <4>1, <5>1 DEF QueueIs, m, r
      <4>3. QED
        BY <1>6, <4>1, <4>2
    <3>3. ASSUME at'[h] = "releasing"
          PROVE  \E i \in 1..(m - d) : queue'[i].g = h
      <4>1. h # g /\ at[h] = "releasing" /\ (last => h # r)
        BY <1>5, <1>6, <3>3
      <4>2. PICK i \in 1..m : queue[i].g = h
        BY <1>4, <4>1
      <4>3. CASE last
        <5>1. i # 1
          BY <4>1, <4>2, <4>3 DEF r
        <5>2. i - 1 \in 1..(m - d) /\ (i - 1) + d = i
          BY <1>2, <1>9, <4>3, <5>1 DEF d
        <5>3. QED
          BY <1>7, <4>2, <5>2
      <4>4. CASE ~last
        BY <1>7, <1>10, <4>2, <4>4
      <4>5. QED
        BY <4>3, <4>4
    <3>4. QED
      BY <3>1, <3>2, <3>3
  <2>4. QED
    BY <1>7, <2>1, <2>2, <2>3 DEF QueueIsAsleep
<1>15. ReleasesBounded'
  <2>1. \A h \in Users : at'[h] = "release" <=> at[h] = "release"
    BY <1>3, <1>5, <1>6
  <2>2. QED
    BY <1>3, <1>7, <1>11, <2>1 DEF CondInv, ReleasesBounded
<1>16. Cardinality(Releases) = Cardinality(Releases') + v - (v - 1)
  <2>1. ASSUME NEW h \in Users, NEW k \in 1..Cardinality(Users)
        PROVE  OnItsWay(h, k) <=> OnItsWay(h, k)' \/ (h = r /\ v - 1 < k /\ k <= v)
    <3>1. OnItsWay(h, k) <=>
            k <= toRelease[h] \/ \E i \in 1..m : queue[i].g = h /\ k <= queue[i].nrelease
      BY <1>2 DEF OnItsWay
    <3>2. OnItsWay(h, k)' <=>
            \/ k <= toRelease[h]
            \/ \E i \in 1..(m - d) : queue'[i].g = h /\ k <= queue'[i].nrelease
      BY <1>3, <1>7 DEF OnItsWay
    <3>3. CASE h = r
      <4>1. \A i \in 1..m : queue[i].g = r => i = 1
        BY <1>1, <1>2 DEF QueueIs, m, r
      <4>2. toRelease[r] = 0
        BY <1>1, <1>2 DEF QueueIs, m, r
      <4>3. OnItsWay(h, k) <=> k <= v
        BY <1>2, <3>1, <3>3, <4>1, <4>2 DEF r, v
      <4>4. OnItsWay(h, k)' <=> k <= v - 1
        <5>1. CASE last
          <6>1. \A i \in 1..(m - d) : i + d # 1
            BY <1>2, <5>1 DEF d
          <6>2. \A i \in 1..(m - d) : queue'[i].g # r
            BY <1>7, <1>8, <4>1, <6>1
          <6>3. v = 1
            BY <5>1 DEF last
          <6>4. QED
            BY <3>2, <3>3, <4>2, <6>2, <6>3
        <5>2. CASE ~last
          <6>1. \A i \in 1..(m - d) : i \in 1..m /\ queue'[i].g = queue[i].g
            BY <1>7, <1>10, <5>2
          <6>2. 1 \in 1..(m - d) /\ queue'[1].g = r /\ queue'[1].nrelease = v - 1
            BY <1>2, <1>7, <1>10, <5>2 DEF r
          <6>3. QED
            BY <1>5, <3>2, <3>3, <4>1, <4>2, <6>1, <6>2
        <5>3. QED
          BY <5>1, <5>2
      <4>5. QED
        BY <1>5, <3>3, <4>3, <4>4
    <3>4. CASE h # r
      <4>1. ASSUME NEW i \in 1..m, queue[i].g = h, k <= queue[i].nrelease
            PROVE  OnItsWay(h, k)'
        <5>1. i # 1
          BY <3>4, <4>1 DEF r
        <5>2. i - d \in 1..(m - d) /\ (i - d) + d = i
          BY <1>2, <1>7, <5>1
        <5>3. queue'[i - d].g = queue[i].g /\ queue'[i - d].nrelease = queue[i].nrelease
          BY <1>7, <5>1, <5>2
        <5>4. QED
          BY <3>2, <4>1, <5>2, <5>3
      <4>2. ASSUME NEW i \in 1..(m - d), queue'[i].g = h, k <= queue'[i].nrelease
            PROVE  OnItsWay(h, k)
        <5>1. queue[i + d].g = h /\ i + d \in 1..m
          BY <1>7, <1>8, <4>2
        <5>2. i + d # 1
          BY <3>4, <5>1 DEF r
        <5>3. queue'[i].nrelease = queue[i + d].nrelease
          BY <1>7, <5>2
        <5>4. QED
          BY <3>1, <4>2, <5>1, <5>3
      <4>3. QED
        BY <3>1, <3>2, <3>4, <4>1, <4>2
    <3>5. QED
      BY <3>3, <3>4
  <2>2. ASSUME NEW h \in Users, h = r,
               NEW k \in 1..Cardinality(Users), v - 1 < k, k <= v
        PROVE  ~OnItsWay(h, k)'
    <3>1. toRelease'[h] = 0
      BY <1>1, <1>2, <1>3, <2>2 DEF QueueIs, m, r
    <3>2. ASSUME NEW i \in 1..(m - d), queue'[i].g = h
          PROVE  ~(k <= queue'[i].nrelease)
      <4>1. i + d = 1
        BY <1>1, <1>2, <1>7, <1>8, <2>2, <3>2 DEF QueueIs, m, r
      <4>2. queue'[i].nrelease = v - 1
        BY <1>7, <4>1
      <4>3. QED
        BY <1>5, <2>2, <4>2
    <3>3. ~(k <= toRelease'[h])
      BY <3>1
    <3>4. QED
      BY <1>7, <3>2, <3>3 DEF OnItsWay
  <2>3. v - 1 <= v /\ v <= Cardinality(Users)
    BY <1>5, UsersFinite
  <2>4. PICK h \in Users, b \in Nat : h = r /\ b = v
    BY <1>5
  <2>5. PICK a \in Nat : a = v - 1
    BY <1>5
  <2>6. a <= b /\ b <= Cardinality(Users)
    BY <2>3, <2>4, <2>5
  <2>7. \A e \in Users, k \in 1..Cardinality(Users) :
          OnItsWay(e, k) <=> OnItsWay(e, k)' \/ (e = h /\ a < k /\ k <= b)
    BY <2>1, <2>4, <2>5
  <2>8. \A k \in 1..Cardinality(Users) : a < k /\ k <= b => ~OnItsWay(h, k)'
    BY <2>2, <2>4, <2>5
  <2>9. Cardinality(Releases) = Cardinality(Releases') + b - a
    BY <2>6, <2>7, <2>8, ReleasesShrink
  <2>10. QED
    BY <2>4, <2>5, <2>9
<1>17. WaitersCounted'
  <2>1. Count(at, Waits) = waiters + Cardinality(Releases)
    BY DEF CondInv, WaitersCounted
  <2>2. Count(at', Waits) = Count(at, Waits) - 1
    <3> DEFINE S == {g}
    <3>1. \A h \in Users : at'[h] \in Waits <=> at[h] \in Waits /\ h # g
      BY <1>3, <1>5, <1>6 DEF Waits
    <3>2. S \in SUBSET Users /\ \A h \in S : at[h] \in Waits
      BY <1>3 DEF Waits
    <3>3. \A h \in Users : at'[h] \in Waits <=> at[h] \in Waits /\ h \notin S
      BY <3>1
    <3>4. Cardinality(S) = 1
      BY FS_Singleton
    <3> HIDE DEF S
    <3>5. Count(at', Waits) = Count(at, Waits) - Cardinality(S)
      BY <1>1, <1>12, <3>2, <3>3, WaitsEnd
    <3>6. QED
      BY <3>4, <3>5
  <2>3. Cardinality(Releases') \in Nat /\ Count(at, Waits) \in Nat
    <3>1. Releases' \in SUBSET (Users \X (1..Cardinality(Users)))
      BY DEF Releases
    <3>2. QED
      BY <1>1, <2>1, <3>1, ReleasesCounted
  <2>4. Cardinality(Releases') = Cardinality(Releases) - 1
    BY <1>1, <1>5, <1>16, <2>3
  <2>5. QED
    BY <1>1, <1>3, <2>1, <2>2, <2>3, <2>4 DEF WaitersCounted
<1>18. QED
  BY <1>12, <1>13, <1>14, <1>15, <1>17 DEF CondInv
\* The first k of the queue are k goroutines.
LEMMA FirstOfQueue ==
  ASSUME QueueIs, NEW k \in Nat, k <= Len(queue)
  PROVE  LET S == {queue[i].g : i \in 1..k}
         IN S \in SUBSET Users /\ Cardinality(S) = k
<1> DEFINE S == {queue[i].g : i \in 1..k}
           f == [i \in 1..k |-> queue[i].g]
           I == 1..k
<1>1. I \subseteq 1..Len(queue)
  BY DEF QueueIs
<1>2. S \in SUBSET Users
  BY <1>1 DEF QueueIs
<1>3. IsFiniteSet(I) /\ Cardinality(I) = k
  <2>1. /\ IsFiniteSet(1..k)
        /\ Cardinality(1..k) = IF 1 > k THEN 0 ELSE k - 1 + 1
    BY FS_Interval
  <2>2. QED
    BY <2>1
<1>4. f \in Bijection(I, S)
  <2>1. f \in [I -> S]
    OBVIOUS
  <2>2. \A i, j \in I : f[i] = f[j] => i = j
    BY <1>1 DEF QueueIs
  <2>3. \A x \in S : \E i \in I : f[i] = x
    OBVIOUS
  <2>4. DOMAIN f = I
    OBVIOUS
  <2> HIDE DEF f, I, S
  <2>5. QED
    BY <2>1, <2>2, <2>3, <2>4 DEF Bijection, Injection, Surjection, IsInjective
<1>5. Cardinality(S) = Cardinality(I)
  <2> HIDE DEF f, I, S
  <2>1. ExistsBijection(I, S)
    BY <1>4 DEF ExistsBijection
  <2>2. QED
    BY <1>3, <2>1, FS_Bijection
<1>6. QED
  BY <1>2, <1>3, <1>5

\* How many of the acquires of the queue a release of b satisfies.
LEMMA SatisfiedIs ==
  ASSUME CondInv, NEW b \in Nat, b > 0
  PROVE  /\ ReleasePending => Satisfied(b) = 0
         /\ ~ReleasePending =>
              Satisfied(b) = IF Len(queue) < b THEN Len(queue) ELSE b
<1>1. QueueIs
  BY QueueFacts
<1>2. CASE ReleasePending
  <2>1. \A i \in 1..Len(queue) : queue[i].nrelease > 0
    BY <1>2, QueueOfAcquires
  <2>2. Acquires = {}
    BY <1>1, <2>1, UsersFinite DEF Acquires, QueueIs
  <2>3. Cardinality(Acquires) = 0
    BY <2>2, FS_EmptySet
  <2>4. QED
    BY <1>2, <2>3 DEF Satisfied
<1>3. CASE ~ReleasePending
  <2>1. \A i \in 1..Len(queue) : queue[i].nrelease < 0
    BY <1>3, QueueOfAcquires
  <2>2. Acquires = 1..Len(queue)
    BY <1>1, <2>1 DEF Acquires, QueueIs
  <2>3. Cardinality(Acquires) = Len(queue)
    <3>1. Len(queue) \in Nat
      BY <1>1 DEF QueueIs
    <3>2. Cardinality(1..Len(queue)) = IF 1 > Len(queue) THEN 0 ELSE Len(queue) - 1 + 1
      BY <3>1, FS_Interval
    <3>3. QED
      BY <2>2, <3>1, <3>2
  <2>4. QED
    BY <1>3, <2>3 DEF Satisfied
<1>4. QED
  BY <1>2, <1>3

\* k is how many of b it satisfies.
Satisfies(k, b) ==
  /\ ReleasePending => k = 0
  /\ ~ReleasePending => k = IF Len(queue) < b THEN Len(queue) ELSE b

\* What a release of b does: the first k of the queue are woken.
ReleaseStep(g, k, b) ==
  /\ at[g] = "release" /\ b = toRelease[g]
  /\ k <= Len(queue) /\ k <= b
  /\ \A i \in 1..k : queue[i].nrelease < 0
  /\ toRelease' = [toRelease EXCEPT ![g] = 0]
  /\ UNCHANGED <<L, waiters>>
  /\ at' \in [Users -> CondPoints]
  /\ at'[g] = IF k = b THEN "running" ELSE "releasing"
  /\ \A h \in Users \ {g} :
       at'[h] = IF \E i \in 1..k : queue[i].g = h THEN "locking" ELSE at[h]

LEMMA ReleaseSteps ==
  ASSUME CondInv, NEW g \in Users, Syncsemrelease(g),
         NEW b \in Nat, b = toRelease[g], NEW k, k = Satisfied(b)
  PROVE  /\ k \in Nat /\ 0 < b /\ b <= Cardinality(Users)
         /\ ReleaseStep(g, k, b)
         /\ LET rest == SubSeq(queue, k + 1, Len(queue))
            IN queue' = IF k = b THEN rest
                        ELSE Append(rest, [g |-> g, nrelease |-> b - k])
         /\ Satisfies(k, b)
<1>1. CondTypeOK /\ QueueIs /\ at[g] = "release"
  BY QueueFacts DEF CondInv, Syncsemrelease
<1>2. 0 < b /\ b <= Cardinality(Users)
  BY <1>1, UsersFinite DEF CondInv, ReleasesBounded
<1>3. Satisfies(k, b)
  BY <1>2, SatisfiedIs DEF Satisfies
<1>4. Len(queue) \in Nat /\ k \in Nat /\ k <= Len(queue) /\ k <= b
  <2>1. Len(queue) \in Nat
    BY <1>1 DEF QueueIs
  <2>2. \/ k = 0
        \/ k = Len(queue) /\ Len(queue) < b
        \/ k = b /\ ~(Len(queue) < b)
    BY <1>3 DEF Satisfies
  <2>3. CASE k = 0
    BY <1>2, <2>1, <2>3
  <2>4. CASE k = Len(queue) /\ Len(queue) < b
    BY <1>2, <2>1, <2>4
  <2>5. CASE k = b /\ ~(Len(queue) < b)
    BY <1>2, <2>1, <2>5
  <2>6. QED
    BY <2>2, <2>3, <2>4, <2>5
<1>5. ASSUME NEW i \in 1..k
      PROVE  i \in 1..Len(queue) /\ queue[i].nrelease < 0 /\ at[queue[i].g] = "asleep"
  <2>1. i \in 1..Len(queue) /\ ~ReleasePending
    BY <1>3, <1>4 DEF Satisfies
  <2>2. queue[i].nrelease < 0
    BY <2>1, QueueOfAcquires
  <2>3. QED
    BY <1>1, <2>1, <2>2 DEF QueueIs
<1>6. /\ queue' = IF k = b THEN SubSeq(queue, k + 1, Len(queue))
                  ELSE Append(SubSeq(queue, k + 1, Len(queue)),
                              [g |-> g, nrelease |-> b - k])
      /\ at' = [h \in Users |->
                  IF h = g THEN IF k = b THEN "running" ELSE "releasing"
                  ELSE IF h \notin {queue[i].g : i \in 1..k} THEN at[h]
                  ELSE IF at[h] = "asleep" THEN "locking" ELSE "running"]
      /\ toRelease' = [toRelease EXCEPT ![g] = 0]
      /\ UNCHANGED <<L, waiters>>
  BY DEF Syncsemrelease, Ready
<1>7. at'[g] = IF k = b THEN "running" ELSE "releasing"
  BY <1>6
<1>8. ASSUME NEW h \in Users \ {g}
      PROVE  at'[h] = IF \E i \in 1..k : queue[i].g = h THEN "locking" ELSE at[h]
  BY <1>5, <1>6
<1>9. at' \in [Users -> CondPoints]
  <2>1. \A h \in Users : at'[h] \in CondPoints
    BY <1>1, <1>7, <1>8 DEF CondTypeOK, CondPoints, Signals
  <2>2. QED
    BY <1>6, <2>1
<1>10. ReleaseStep(g, k, b)
  BY <1>1, <1>4, <1>5, <1>6, <1>7, <1>8, <1>9 DEF ReleaseStep
<1>11. QED
  BY <1>2, <1>3, <1>4, <1>6, <1>10
\* The queue after it: what was left, and g when it has releases left.
QueueLeft(g, k, b) ==
  /\ queue' \in Seq(Sudog)
  /\ DOMAIN queue' = 1..(IF k = b THEN Len(queue) - k ELSE Len(queue) - k + 1)
  /\ \A i \in 1..(Len(queue) - k) : queue'[i] = queue[k + i]
  /\ k # b => /\ queue'[Len(queue) - k + 1].g = g
              /\ queue'[Len(queue) - k + 1].nrelease = b - k

LEMMA QueueLeftIs ==
  ASSUME CondInv, NEW g \in Users, NEW k \in Nat, NEW b \in Nat,
         k <= Len(queue), k <= b,
         LET rest == SubSeq(queue, k + 1, Len(queue))
         IN queue' = IF k = b THEN rest
                     ELSE Append(rest, [g |-> g, nrelease |-> b - k])
  PROVE  QueueLeft(g, k, b)
<1> DEFINE m == Len(queue)
           rest == SubSeq(queue, k + 1, m)
           s == [g |-> g, nrelease |-> b - k]
<1>1. queue \in Seq(Sudog) /\ s \in Sudog /\ m \in Nat /\ k \in 0..m
  BY LenProperties DEF CondInv, CondTypeOK, Sudog
<1>2. /\ rest \in Seq(Sudog) /\ Len(rest) = m - k /\ DOMAIN rest = 1..(m - k)
      /\ \A i \in 1..(m - k) : rest[i] = queue[k + i]
  BY <1>1, QueueShortened
<1>3. queue' = IF k = b THEN rest ELSE Append(rest, s)
  OBVIOUS
<1>4. s.g = g /\ s.nrelease = b - k
  OBVIOUS
<1> HIDE DEF rest, s
<1>5. CASE k = b
  BY <1>2, <1>3, <1>5 DEF QueueLeft
<1>6. CASE k # b
  <2>1. /\ Append(rest, s) \in Seq(Sudog)
        /\ DOMAIN Append(rest, s) = 1..(m - k + 1)
        /\ \A i \in 1..(m - k) : Append(rest, s)[i] = rest[i]
        /\ Append(rest, s)[m - k + 1] = s
    <3>1. /\ Append(rest, s) \in Seq(Sudog)
          /\ DOMAIN Append(rest, s) = 1..(Len(rest) + 1)
          /\ \A i \in 1..Len(rest) : Append(rest, s)[i] = rest[i]
          /\ Append(rest, s)[Len(rest) + 1] = s
      BY <1>1, <1>2, QueueAppended, Zenon
    <3>2. Len(rest) = m - k
      BY <1>2
    <3>3. QED
      BY <3>1, <3>2
  <2> HIDE DEF m
  <2>2. /\ queue' \in Seq(Sudog) /\ DOMAIN queue' = 1..(m - k + 1)
        /\ \A i \in 1..(m - k) : queue'[i] = queue[k + i]
        /\ queue'[m - k + 1].g = g /\ queue'[m - k + 1].nrelease = b - k
    BY <1>2, <1>3, <1>4, <1>6, <2>1
  <2>3. QED
    BY <1>6, <2>2 DEF QueueLeft, m
<1>7. QED
  BY <1>5, <1>6

\* The Wait calls and the releases that have met are counted no longer.
LEMMA ReleaseCounted ==
  ASSUME CondInv, NEW g \in Users, NEW k \in Nat, NEW b \in Nat,
         0 < b, b <= Cardinality(Users), ReleaseStep(g, k, b), QueueLeft(g, k, b)
  PROVE  CondTypeOK' /\ WaitersCounted'
<1> DEFINE m == Len(queue)
           e == IF k = b THEN m - k ELSE m - k + 1
           S == {queue[i].g : i \in 1..k}
<1>1. /\ CondTypeOK /\ QueueIs /\ m \in Nat /\ DOMAIN queue = 1..m
      /\ at[g] = "release" /\ b = toRelease[g] /\ k <= m /\ k <= b
      /\ \A i \in 1..k : queue[i].nrelease < 0
      /\ waiters \in Nat /\ waiters' = waiters /\ UNCHANGED L
  BY QueueFacts DEF CondInv, CondTypeOK, ReleaseStep, QueueIs
<1>2. toRelease'[g] = 0 /\ \A h \in Users : h # g => toRelease'[h] = toRelease[h]
  BY <1>1 DEF ReleaseStep, CondTypeOK
<1>3. CondTypeOK'
  BY <1>1 DEF ReleaseStep, QueueLeft, CondTypeOK
<1>4. /\ Count(at, Waits) \in Nat
      /\ Count(at', Waits) = Count(at, Waits) - k
  <2>1. S \in SUBSET Users /\ Cardinality(S) = k
    BY <1>1, FirstOfQueue
  <2>2. \A h \in S : at[h] = "asleep"
    <3>1. 1..k \subseteq 1..m
      BY <1>1
    <3>2. QED
      BY <1>1, <3>1 DEF QueueIs
  <2>3. \A h \in Users : h # g =>
          at'[h] = IF h \in S THEN "locking" ELSE at[h]
    BY DEF ReleaseStep
  <2>4. at'[g] \notin Waits /\ at[g] \notin Waits
    BY <1>1 DEF ReleaseStep, Waits
  <2> HIDE DEF S
  <2>5. \A h \in S : at[h] \in Waits
    BY <2>2 DEF Waits
  <2>6. \A h \in Users : at'[h] \in Waits <=> at[h] \in Waits /\ h \notin S
    BY <2>3, <2>4 DEF Waits
  <2>7. QED
    BY <1>1, <1>3, <2>1, <2>5, <2>6, WaitsEnd
<1>5. Cardinality(Releases) = Cardinality(Releases') + b - (b - k)
  <2>1. /\ DOMAIN queue' = 1..e
        /\ \A i \in 1..(m - k) : queue'[i] = queue[k + i]
        /\ k # b => queue'[m - k + 1].g = g /\ queue'[m - k + 1].nrelease = b - k
    BY DEF QueueLeft
  <2>2. \A i \in 1..m : queue[i].g # g
    BY <1>1, UsersFinite DEF QueueIs
  <2>3. /\ \A i \in 1..m : i \in 1..k \/ (i - k \in 1..(m - k) /\ k + (i - k) = i)
        /\ \A i \in 1..(m - k) : k + i \in 1..m /\ i \in 1..e
        /\ \A i \in 1..e : i \in 1..(m - k) \/ (k # b /\ i = m - k + 1)
        /\ k # b => m - k + 1 \in 1..e
    BY <1>1
  <2> HIDE DEF m, e
  <2>4. ASSUME NEW h \in Users, NEW j \in 1..Cardinality(Users)
        PROVE  /\ OnItsWay(h, j) <=>
                    \/ j <= toRelease[h]
                    \/ \E i \in 1..(m - k) : queue[k + i].g = h /\ j <= queue[k + i].nrelease
               /\ OnItsWay(h, j)' <=>
                    \/ h # g /\ j <= toRelease[h]
                    \/ h = g /\ j <= b - k
                    \/ \E i \in 1..(m - k) : queue[k + i].g = h /\ j <= queue[k + i].nrelease
    <3>1. \A i \in 1..k : ~(j <= queue[i].nrelease)
      <4>1. \A i \in 1..k : queue[i].nrelease = -1
        BY <1>1, <2>3, UsersFinite DEF QueueIs, m
      <4>2. QED
        BY <4>1, UsersFinite
    <3>2. OnItsWay(h, j) <=>
            \/ j <= toRelease[h]
            \/ \E i \in 1..(m - k) : queue[k + i].g = h /\ j <= queue[k + i].nrelease
      BY <1>1, <2>3, <3>1 DEF OnItsWay
    <3>3. (\E i \in 1..e : queue'[i].g = h /\ j <= queue'[i].nrelease) <=>
            \/ k # b /\ h = g /\ j <= b - k
            \/ \E i \in 1..(m - k) : queue[k + i].g = h /\ j <= queue[k + i].nrelease
      BY <2>1, <2>3
    <3>4. j <= toRelease'[h] <=> h # g /\ j <= toRelease[h]
      BY <1>2
    <3>5. k = b => ~(j <= b - k)
      OBVIOUS
    <3>6. QED
      BY <2>1, <3>2, <3>3, <3>4, <3>5 DEF OnItsWay
  <2>5. \A i \in 1..(m - k) : queue[k + i].g # g
    BY <2>2, <2>3
  <2>6. ASSUME NEW h \in Users, NEW j \in 1..Cardinality(Users)
        PROVE  /\ OnItsWay(h, j) <=> OnItsWay(h, j)' \/ (h = g /\ b - k < j /\ j <= b)
               /\ b - k < j /\ h = g => ~OnItsWay(h, j)'
    <3>1. CASE h = g
      BY <1>1, <2>4, <2>5, <3>1
    <3>2. CASE h # g
      BY <2>4, <3>2
    <3>3. QED
      BY <3>1, <3>2
  <2>7. b - k \in Nat /\ b - k <= b
    BY <1>1
  <2>8. QED
    BY <2>6, <2>7, ReleasesShrink
<1>6. Cardinality(Releases) \in Nat /\ Cardinality(Releases') \in Nat
  <2>1. Releases' \in SUBSET (Users \X (1..Cardinality(Users)))
    BY DEF Releases
  <2>2. QED
    BY <2>1, ReleasesAre, ReleasesCounted
<1>7. WaitersCounted'
  <2>1. Count(at, Waits) = waiters + Cardinality(Releases)
    BY DEF CondInv, WaitersCounted
  <2>2. Cardinality(Releases) = Cardinality(Releases') + k
    BY <1>5, <1>6
  <2>3. Count(at', Waits) = waiters' + Cardinality(Releases')
    BY <1>1, <1>4, <1>6, <2>1, <2>2
  <2>4. QED
    BY <2>3 DEF WaitersCounted
<1>8. QED
  BY <1>3, <1>7
\* The queue is of one kind again, and its sudogs are those who sleep.
LEMMA ReleaseQueued ==
  ASSUME CondInv, NEW g \in Users, NEW k \in Nat, NEW b \in Nat,
         0 < b, b <= Cardinality(Users), ReleaseStep(g, k, b), QueueLeft(g, k, b),
         Satisfies(k, b)
  PROVE  QueueOfOneKind' /\ QueueIsAsleep' /\ ReleasesBounded'
<1> DEFINE m == Len(queue)
           e == IF k = b THEN m - k ELSE m - k + 1
<1>1. /\ CondTypeOK /\ QueueIs /\ m \in Nat /\ DOMAIN queue = 1..m
      /\ at[g] = "release" /\ k <= m /\ k <= b
  BY QueueFacts DEF CondInv, ReleaseStep, QueueIs
<1>2. /\ DOMAIN queue' = 1..e
      /\ \A i \in 1..(m - k) : queue'[i] = queue[k + i]
      /\ k # b => queue'[m - k + 1].g = g /\ queue'[m - k + 1].nrelease = b - k
  BY DEF QueueLeft
\* The indices of the old queue: those woken and those kept, and the new ones.
<1> DEFINE Old  == 1..m
           Gone == 1..k
           Kept == 1..(m - k)
           New  == 1..e
           last == m - k + 1
<1>3. /\ \A i \in Old : i \in Gone \/ \E j \in Kept : i = k + j
      /\ \A j \in Kept : k + j \in Old /\ j \in New /\ j # last
      /\ \A i \in New : i \in Kept \/ (k # b /\ i = last)
      /\ k # b => last \in New
      /\ \A i \in Gone : i \in Old
      /\ \A i \in Gone, j \in Kept : i # k + j
      /\ \A i, j \in Kept : k + i = k + j => i = j
  <2>1. ASSUME NEW i \in Old PROVE i \in Gone \/ \E j \in Kept : i = k + j
    <3>1. i \in Gone \/ (i - k \in Kept /\ i = k + (i - k))
      BY <1>1
    <3>2. QED
      BY <3>1
  <2>2. /\ \A j \in Kept : k + j \in Old /\ j \in New /\ j # last
        /\ \A i \in New : i \in Kept \/ (k # b /\ i = last)
        /\ k # b => last \in New
    BY <1>1
  <2>3. /\ \A i \in Gone : i \in Old
        /\ \A i \in Gone, j \in Kept : i # k + j
        /\ \A i, j \in Kept : k + i = k + j => i = j
    BY <1>1
  <2>4. QED
    BY <2>1, <2>2, <2>3
<1>4. /\ at'[g] = IF k = b THEN "running" ELSE "releasing"
      /\ \A h \in Users : h # g =>
           at'[h] = IF \E i \in Gone : queue[i].g = h THEN "locking" ELSE at[h]
      /\ toRelease' = [toRelease EXCEPT ![g] = 0]
      /\ \A i \in Gone : queue[i].nrelease < 0
  BY DEF ReleaseStep
<1>5. /\ \A i \in Old : queue[i].g # g /\ queue[i].g \in Users
      /\ \A i, j \in Old : queue[i].g = queue[j].g => i = j
      /\ \A i \in Old : ~(queue[i].nrelease < 0 /\ queue[i].nrelease > 0)
      /\ \A i \in Old : queue[i].nrelease \in {-1} \cup 1..Cardinality(Users)
      /\ \A i \in Old : at[queue[i].g] # "release"
  <2>1. \A i \in Old : ~(queue[i].nrelease < 0 /\ queue[i].nrelease > 0)
    BY <1>1 DEF QueueIs
  <2>2. \A i \in Old : at[queue[i].g] # "release"
    <3>1. SUFFICES ASSUME NEW i \in Old PROVE at[queue[i].g] # "release"
      OBVIOUS
    <3>2. queue[i].nrelease < 0 \/ queue[i].nrelease > 0
      BY <1>1, UsersFinite DEF QueueIs
    <3>3. QED
      BY <1>1, <3>2 DEF QueueIs
  <2>3. \A i \in Old : queue[i].g # g
    BY <1>1, <2>2
  <2>4. QED
    BY <1>1, <2>1, <2>2, <2>3 DEF QueueIs
<1>6. /\ \A i \in Kept : queue'[i] = queue[k + i]
      /\ k # b => queue'[last].g = g /\ queue'[last].nrelease = b - k
  BY <1>2
\* While g has releases left, the queue is one of releases.
<1>7. /\ k = b => \A i \in Old : queue[i].nrelease < 0
      /\ k # b => \A i \in Kept : queue[k + i].nrelease > 0
  <2>1. CASE ReleasePending
    <3>1. k = 0 /\ k # b
      BY <2>1 DEF Satisfies
    <3>2. \A i \in Old : queue[i].nrelease > 0
      BY <2>1, QueueOfAcquires
    <3> HIDE DEF Old, Kept
    <3>3. QED
      BY <1>3, <3>1, <3>2, Zenon
  <2>2. CASE ~ReleasePending
    <3>1. k # b => k = m
      BY <2>2 DEF Satisfies
    <3>2. k # b => Kept = {}
      <4>1. k = m => m - k = 0
        BY <1>1
      <4>2. QED
        BY <3>1, <4>1
    <3>3. \A i \in Old : queue[i].nrelease < 0
      BY <2>2, QueueOfAcquires
    <3>4. QED
      BY <3>2, <3>3, Zenon
  <2>3. QED
    BY <2>1, <2>2
<1>8. k # b => b - k > 0 /\ b - k \in 1..Cardinality(Users)
  BY <1>1, UsersFinite
<1>9. /\ \A h \in Users : at[h] = "asleep" <=>
           \E i \in Old : queue[i].g = h /\ queue[i].nrelease < 0
      /\ \A h \in Users : at[h] = "releasing" <=>
           \E i \in Old : queue[i].g = h /\ queue[i].nrelease > 0
  BY QueueOfAcquires
<1>10. DOMAIN queue' = New
  BY <1>2
<1> HIDE DEF Old, Gone, Kept, New, last, m, e
<1>11. /\ k = b => \A i \in New : queue'[i].nrelease < 0
       /\ k # b => \A i \in New : queue'[i].nrelease > 0
  <2>1. ASSUME k = b, NEW i \in New PROVE queue'[i].nrelease < 0
    BY <1>3, <1>6, <1>7, <2>1, Zenon
  <2>2. ASSUME k # b, NEW i \in New PROVE queue'[i].nrelease > 0
    <3>1. CASE i = last
      BY <1>6, <1>8, <2>2, <3>1
    <3>2. CASE i # last
      BY <1>3, <1>6, <1>7, <2>2, <3>2, Zenon
    <3>3. QED
      BY <3>1, <3>2
  <2>3. QED
    BY <2>1, <2>2
<1>12. QueueOfOneKind'
  BY <1>10, <1>11 DEF QueueOfOneKind
<1>13. ReleasesBounded'
  <2>1. ASSUME NEW i \in New
        PROVE  queue'[i].nrelease \in {-1} \cup 1..Cardinality(Users)
    <3>1. CASE i \in Kept
      BY <1>3, <1>5, <1>6, <3>1, Zenon
    <3>2. CASE i \notin Kept
      BY <1>3, <1>6, <1>8, <3>2
    <3>3. QED
      BY <3>1, <3>2
  <2>2. ASSUME NEW h \in Users
        PROVE  /\ toRelease'[h] \in 0..Cardinality(Users)
               /\ toRelease'[h] > 0 <=> at'[h] = "release"
    <3>1. /\ toRelease[h] \in 0..Cardinality(Users)
          /\ toRelease[h] > 0 <=> at[h] = "release"
      BY DEF CondInv, ReleasesBounded
    <3>2. CASE h = g
      <4>1. toRelease'[h] = 0
        BY <1>1, <1>4, <3>2 DEF CondTypeOK
      <4>2. at'[h] # "release"
        BY <1>4, <3>2
      <4>3. QED
        BY <4>1, <4>2, UsersFinite
    <3>3. CASE h # g
      <4>1. toRelease'[h] = toRelease[h]
        BY <1>1, <1>4, <3>3 DEF CondTypeOK
      <4>2. \A i \in Gone : at[queue[i].g] # "release"
        BY <1>3, <1>5, Zenon
      <4>3. at'[h] = "release" <=> at[h] = "release"
        BY <1>4, <3>3, <4>2
      <4>4. QED
        BY <3>1, <4>1, <4>3
    <3>4. QED
      BY <3>2, <3>3
  <2>3. QED
    BY <1>10, <2>1, <2>2 DEF ReleasesBounded
<1>14. QueueIsAsleep'
  <2>1. ASSUME NEW i \in New, NEW j \in New, queue'[i].g = queue'[j].g
        PROVE  i = j
    <3>1. \A x \in Kept : queue'[x].g # g
      <4>1. SUFFICES ASSUME NEW x \in Kept PROVE queue'[x].g # g
        OBVIOUS
      <4>2. queue'[x] = queue[k + x] /\ k + x \in Old
        BY <1>3, <1>6
      <4>3. QED
        BY <1>5, <4>2
    <3>2. i \in Kept <=> j \in Kept
      BY <1>3, <1>6, <2>1, <3>1, Zenon
    <3>3. CASE i \in Kept
      <4>1. queue[k + i].g = queue[k + j].g /\ k + i \in Old /\ k + j \in Old
        BY <1>3, <1>6, <2>1, <3>2, <3>3, Zenon
      <4>2. k + i = k + j
        BY <1>5, <4>1, Zenon
      <4>3. QED
        BY <1>3, <3>2, <3>3, <4>2, Zenon
    <3>4. CASE i \notin Kept
      BY <1>3, <3>2, <3>4, Zenon
    <3>5. QED
      BY <3>3, <3>4
  <2>2. ASSUME NEW h \in Users
        PROVE  /\ at'[h] = "asleep" <=> k = b /\ \E i \in New : queue'[i].g = h
               /\ at'[h] = "releasing" <=> k # b /\ \E i \in New : queue'[i].g = h
    <3>1. CASE h = g
      <4>1. k # b => \E i \in New : queue'[i].g = h
        BY <1>3, <1>6, <3>1, Zenon
      <4>2. at'[h] = IF k = b THEN "running" ELSE "releasing"
        BY <1>4, <3>1
      <4>3. CASE k = b
        <5>1. \A i \in New : queue'[i].g # h
          <6>1. SUFFICES ASSUME NEW i \in New PROVE queue'[i].g # h
            OBVIOUS
          <6>2. queue'[i] = queue[k + i] /\ k + i \in Old
            BY <1>3, <1>6, <4>3
          <6>3. QED
            BY <1>5, <3>1, <6>2
        <5>2. at'[h] = "running"
          BY <4>2, <4>3
        <5>3. QED
          BY <4>3, <5>1, <5>2
      <4>4. CASE k # b
        BY <4>1, <4>2, <4>4
      <4>5. QED
        BY <4>3, <4>4
    <3>2. CASE h # g
      <4>1. (\E i \in New : queue'[i].g = h) <=> \E i \in Kept : queue[k + i].g = h
        BY <1>3, <1>6, <3>2, Zenon
      <4>2. CASE \E i \in Gone : queue[i].g = h
        <5>1. at'[h] = "locking"
          BY <1>4, <3>2, <4>2
        <5>2. ~\E i \in Kept : queue[k + i].g = h
          BY <1>3, <1>5, <4>2, Zenon
        <5>3. QED
          BY <4>1, <5>1, <5>2
      <4>3. CASE ~\E i \in Gone : queue[i].g = h
        <5>1. at'[h] = at[h]
          BY <1>4, <3>2, <4>3
        <5>2. (\E i \in Old : queue[i].g = h) <=> \E i \in Kept : queue[k + i].g = h
          BY <1>3, <4>3, Zenon
        <5>3. CASE k = b
          <6>1. \A i \in Old : queue[i].nrelease < 0 /\ ~(queue[i].nrelease > 0)
            BY <1>5, <1>7, <5>3, Zenon
          <6>2. /\ at[h] = "asleep" <=> \E i \in Old : queue[i].g = h
                /\ at[h] # "releasing"
            BY <1>9, <6>1, Zenon
          <6>3. QED
            BY <4>1, <5>1, <5>2, <5>3, <6>2
        <5>4. CASE k # b
          <6>1. \A i \in Old : i \notin Gone =>
                  queue[i].nrelease > 0 /\ ~(queue[i].nrelease < 0)
            BY <1>3, <1>5, <1>7, <5>4, Zenon
          <6>2. \A i \in Old : queue[i].g = h => i \notin Gone
            BY <4>3, Zenon
          <6>3. /\ at[h] = "releasing" <=> \E i \in Old : queue[i].g = h
                /\ at[h] # "asleep"
            BY <1>9, <6>1, <6>2, Zenon
          <6>4. QED
            BY <4>1, <5>1, <5>2, <5>4, <6>3
        <5>5. QED
          BY <5>3, <5>4
      <4>4. QED
        BY <4>2, <4>3
    <3>3. QED
      BY <3>1, <3>2
  <2>3. Acquires' = IF k = b THEN New ELSE {}
    <3>1. Acquires' = {i \in New : queue'[i].nrelease < 0}
      BY <1>10 DEF Acquires
    <3>2. k # b => \A i \in New : ~(queue'[i].nrelease < 0)
      <4>1. \A i \in New : queue'[i].nrelease \in {-1} \cup 1..Cardinality(Users)
        BY <1>10, <1>13 DEF ReleasesBounded
      <4>2. QED
        BY <1>11, <4>1, UsersFinite
    <3>3. QED
      BY <1>11, <3>1, <3>2
  <2>4. /\ \A i, j \in DOMAIN queue' : queue'[i].g = queue'[j].g => i = j
        /\ \A h \in Users :
             /\ at'[h] = "asleep" <=> \E i \in Acquires' : queue'[i].g = h
             /\ at'[h] = "releasing" <=>
                  \E i \in DOMAIN queue' \ Acquires' : queue'[i].g = h
    <3>1. CASE k = b
      <4>1. Acquires' = New /\ DOMAIN queue' \ Acquires' = {}
        BY <1>10, <2>3, <3>1
      <4>2. QED
        BY <1>10, <2>1, <2>2, <3>1, <4>1, Zenon
    <3>2. CASE k # b
      <4>1. Acquires' = {} /\ DOMAIN queue' \ Acquires' = New
        BY <1>10, <2>3, <3>2
      <4>2. QED
        BY <1>10, <2>1, <2>2, <3>2, <4>1, Zenon
    <3>3. QED
      BY <3>1, <3>2
  <2>5. QED
    BY <2>4 DEF QueueIsAsleep
<1>15. QED
  BY <1>12, <1>13, <1>14

LEMMA ReleaseInv ==
  ASSUME CondInv, NEW g \in Users, Syncsemrelease(g)
  PROVE  CondInv'
<1>1. toRelease[g] \in Nat /\ toRelease[g] > 0
  BY UsersFinite DEF CondInv, ReleasesBounded, CondTypeOK, Syncsemrelease
<1>2. PICK b \in Nat : b = toRelease[g] /\ b > 0
  BY <1>1
<1>3. PICK k : k = Satisfied(b)
  OBVIOUS
<1>4. /\ k \in Nat /\ 0 < b /\ b <= Cardinality(Users)
      /\ ReleaseStep(g, k, b)
      /\ queue' = IF k = b THEN SubSeq(queue, k + 1, Len(queue))
                  ELSE Append(SubSeq(queue, k + 1, Len(queue)),
                              [g |-> g, nrelease |-> b - k])
      /\ Satisfies(k, b)
  BY <1>2, <1>3, ReleaseSteps
<1>5. k <= Len(queue) /\ k <= b
  BY <1>4 DEF ReleaseStep
<1>6. QueueLeft(g, k, b)
  BY <1>4, <1>5, QueueLeftIs
<1>7. CondTypeOK' /\ WaitersCounted'
  BY <1>4, <1>6, ReleaseCounted
<1>8. QueueOfOneKind' /\ QueueIsAsleep' /\ ReleasesBounded'
  BY <1>4, <1>6, ReleaseQueued
<1>9. QED
  BY <1>7, <1>8 DEF CondInv

LEMMA CondInitInv == CondInit => CondInv
<1> SUFFICES ASSUME CondInit PROVE CondInv
  OBVIOUS
<1>1. CondTypeOK
  BY EmptySeq DEF CondInit, CondTypeOK, CondPoints
<1>2. DOMAIN queue = {}
  BY DEF CondInit
<1>3. QueueOfOneKind /\ QueueIsAsleep
  BY <1>2 DEF CondInit, QueueOfOneKind, QueueIsAsleep, Acquires
<1>4. ReleasesBounded
  BY <1>2, UsersFinite DEF CondInit, ReleasesBounded
<1>5. WaitersCounted
  <2>1. Releases = {}
    BY <1>2, UsersFinite DEF Releases, CondInit
  <2>2. Cardinality(Releases) = 0
    BY <2>1, FS_EmptySet
  <2>3. Count(at, Waits) = 0
    BY <1>1, UsersFinite, CountType DEF CondInit, CondTypeOK, Waits
  <2>4. QED
    BY <2>2, <2>3 DEF CondInit, WaitersCounted
<1>6. QED
  BY <1>1, <1>3, <1>4, <1>5 DEF CondInv

LEMMA CondNextInv == CondInv /\ [CondNext]_condVars => CondInv'
<1> SUFFICES ASSUME CondInv, [CondNext]_condVars PROVE CondInv'
  OBVIOUS
<1>1. CondTypeOK /\ L \in Users \cup {NoOne} /\ waiters \in Nat
  BY DEF CondInv, CondTypeOK
<1>2. ASSUME NEW g \in Users, LockCall(g)
      PROVE  CondInv'
  <2>1. /\ Weight("locking", Waits) = 0 /\ Weight(at[g], Waits) = 0
        /\ Apart("locking") /\ Apart(at[g]) /\ "locking" \in CondPoints
    BY <1>2 DEF LockCall, Weight, Waits, Apart, CondPoints
  <2>2. /\ at' = [at EXCEPT ![g] = "locking"]
        /\ UNCHANGED <<L, waiters, queue, toRelease>>
    BY <1>2 DEF LockCall, CondGoto
  <2>3. waiters' = waiters + Weight("locking", Waits) - Weight(at[g], Waits)
    BY <1>1, <2>1, <2>2
  <2>4. QED
    BY <1>1, <2>1, <2>2, <2>3, QuietStep
<1>3. ASSUME NEW g \in Users, Lock(g)
      PROVE  CondInv'
  <2>1. /\ Weight("running", Waits) = 0 /\ Weight(at[g], Waits) = 0
        /\ Apart("running") /\ Apart(at[g]) /\ "running" \in CondPoints
    BY <1>3 DEF Lock, Weight, Waits, Apart, CondPoints
  <2>2. /\ at' = [at EXCEPT ![g] = "running"] /\ L' = g
        /\ UNCHANGED <<waiters, queue, toRelease>>
    BY <1>3 DEF Lock, CondGoto
  <2>3. waiters' = waiters + Weight("running", Waits) - Weight(at[g], Waits)
    BY <1>1, <2>1, <2>2
  <2>4. QED
    BY <1>1, <2>1, <2>2, <2>3, QuietStep
<1>4. ASSUME NEW g \in Users, Unlock(g)
      PROVE  CondInv'
  <2>1. /\ Weight("running", Waits) = 0 /\ at[g] = "running"
        /\ Apart("running") /\ "running" \in CondPoints
    BY <1>4 DEF Unlock, Weight, Waits, Apart, CondPoints
  <2>2. /\ at' = [at EXCEPT ![g] = "running"] /\ L' = NoOne
        /\ UNCHANGED <<waiters, queue, toRelease>>
    BY <1>1, <1>4 DEF Unlock, CondTypeOK
  <2>3. waiters' = waiters + Weight("running", Waits) - Weight(at[g], Waits)
    BY <1>1, <2>1, <2>2
  <2>4. QED
    BY <1>1, <2>1, <2>2, <2>3, QuietStep
<1>5. ASSUME NEW g \in Users, WaitCount(g)
      PROVE  CondInv'
  <2>1. /\ Weight("counted", Waits) = 1 /\ Weight(at[g], Waits) = 0
        /\ Apart("counted") /\ Apart(at[g]) /\ "counted" \in CondPoints
    BY <1>5 DEF WaitCount, Weight, Waits, Apart, CondPoints
  <2>2. /\ at' = [at EXCEPT ![g] = "counted"] /\ waiters' = waiters + 1
        /\ UNCHANGED <<L, queue, toRelease>>
    BY <1>5 DEF WaitCount, CondGoto
  <2>3. /\ waiters' = waiters + Weight("counted", Waits) - Weight(at[g], Waits)
        /\ waiters' \in Nat
    BY <1>1, <2>1, <2>2
  <2>4. QED
    BY <1>1, <2>1, <2>2, <2>3, QuietStep
<1>6. ASSUME NEW g \in Users, WaitUnlock(g)
      PROVE  CondInv'
  <2>1. /\ Weight("acquire", Waits) = 1 /\ Weight(at[g], Waits) = 1
        /\ Apart("acquire") /\ Apart(at[g]) /\ "acquire" \in CondPoints
    BY <1>6 DEF WaitUnlock, Weight, Waits, Apart, CondPoints
  <2>2. /\ at' = [at EXCEPT ![g] = "acquire"] /\ L' = NoOne
        /\ UNCHANGED <<waiters, queue, toRelease>>
    BY <1>6 DEF WaitUnlock, CondGoto
  <2>3. waiters' = waiters + Weight("acquire", Waits) - Weight(at[g], Waits)
    BY <1>1, <2>1, <2>2
  <2>4. QED
    BY <1>1, <2>1, <2>2, <2>3, QuietStep
<1>7. ASSUME NEW g \in Users, SignalCall(g)
      PROVE  CondInv'
  <2>1. PICK p \in {"signal", "broadcast"} : at' = [at EXCEPT ![g] = p]
    BY <1>7 DEF SignalCall, CondGoto
  <2>2. /\ Weight(p, Waits) = 0 /\ Weight(at[g], Waits) = 0
        /\ Apart(p) /\ Apart(at[g]) /\ p \in CondPoints
        /\ UNCHANGED <<L, waiters, queue, toRelease>>
    BY <1>7 DEF SignalCall, Weight, Waits, Apart, CondPoints, Signals
  <2>3. waiters' = waiters + Weight(p, Waits) - Weight(at[g], Waits)
    BY <1>1, <2>2
  <2>4. QED
    BY <1>1, <2>1, <2>2, <2>3, QuietStep
<1>8. ASSUME NEW g \in Users, SignalCAS(g)
      PROVE  CondInv'
  <2>1. CASE waiters = 0
    <3>1. /\ Weight("running", Waits) = 0 /\ Weight(at[g], Waits) = 0
          /\ Apart("running") /\ Apart(at[g]) /\ "running" \in CondPoints
      BY <1>8 DEF SignalCAS, Weight, Waits, Apart, CondPoints
    <3>2. /\ at' = [at EXCEPT ![g] = "running"]
          /\ UNCHANGED <<L, waiters, queue, toRelease>>
      BY <1>8, <2>1 DEF SignalCAS, CondGoto
    <3>3. waiters' = waiters + Weight("running", Waits) - Weight(at[g], Waits)
      BY <1>1, <3>1, <3>2
    <3>4. QED
      BY <1>1, <3>1, <3>2, <3>3, QuietStep
  <2>2. CASE waiters # 0
    BY <1>8, <2>2, CountTaken
  <2>3. QED
    BY <2>1, <2>2
<1>9. ASSUME NEW g \in Users, Syncsemacquire(g)
      PROVE  CondInv'
  BY <1>9, AcquireSleeps, AcquireMeetsRelease
<1>10. CASE UNCHANGED condVars
  BY <1>10 DEF condVars, CondInv, CondTypeOK, QueueOfOneKind, QueueIsAsleep, Acquires,
               ReleasesBounded, WaitersCounted, Releases, Count, At
<1>11. QED
  BY <1>2, <1>3, <1>4, <1>5, <1>6, <1>7, <1>8, <1>9, <1>10, ReleaseInv
     DEF CondNext, Begin, CondContinue

\* Callers, the counter and the queue of the semaphore agree in every reachable
\* state, for every finite set of goroutines: the queue is of one kind, its sudogs
\* are the calls that sleep, and each Wait call is counted or has a release on
\* its way to it.
THEOREM CondInvariant == CondSpec => []CondInv
<1>1. CondInit => CondInv
  BY CondInitInv
<1>2. CondInv /\ [CondNext]_condVars => CondInv'
  BY CondNextInv
<1>3. QED
  BY <1>1, <1>2, PTL DEF CondSpec
=============================================================================
