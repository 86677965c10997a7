------------------------------ MODULE WaitGroup ------------------------------
(***************************************************************************)
(* sync.WaitGroup (sync/waitgroup.go): a counter of tasks and a count of   *)
(* the goroutines in Wait, kept in one 64-bit word, and a semaphore        *)
(* (Semaphore.tla) on which the latter sleep.                              *)
(*                                                                         *)
(* owed, a ghost variable, is the number of tasks whose Done call is still *)
(* to come; with it the calling conditions of the comment on Add are       *)
(* stated.                                                                 *)
(***************************************************************************)
EXTENDS Counting, Integers

CONSTANTS
  Goroutines,
  Tasks,        \* the goroutines among them that run the tasks and do not wait
  MaxDelta      \* bound of the model: how many tasks are owed at most

ASSUME WaitGroupAssumption ==
  /\ IsFiniteSet(Goroutines)
  /\ Tasks \in SUBSET Goroutines
  /\ MaxDelta \in Nat \ {0}

VARIABLES
  state,    \* *wg.state(): counter and waiters
  sema,
  owed,
  pc,
  old,      \* the local state of Add and of Wait
  left      \* the local w of Add's loop

vars == <<state, sema, owed, pc, old, left>>

State == [counter : Int, waiters : Nat]

Zero == [counter |-> 0, waiters |-> 0]

WaitPoints == {"wait", "cas", "sleep", "check"}
AddPoints  == {"sanity", "reset", "release"}
Points     == {"idle", "panic"} \cup WaitPoints \cup AddPoints

TypeOK ==
  /\ state \in State
  /\ sema \in Nat
  /\ owed \in Nat
  /\ pc \in [Goroutines -> Points]
  /\ old \in [Goroutines -> State]
  /\ left \in [Goroutines -> Nat]

Init ==
  /\ state = Zero
  /\ sema = 0
  /\ owed = 0
  /\ pc = [g \in Goroutines |-> "idle"]
  /\ old = [g \in Goroutines |-> Zero]
  /\ left = [g \in Goroutines |-> 0]

Goto(g, p) == pc' = [pc EXCEPT ![g] = p]
-----------------------------------------------------------------------------
(* Add and Done *)

\* A positive delta from zero means that some goroutine waits already, and
\* that it was not there before the first Add.
Misuse(s, delta) == s.waiters # 0 /\ delta > 0 /\ s.counter = delta

\* atomic.AddUint64(statep, uint64(delta)<<32) and the tests on its result.
AddDelta(g, delta) ==
  LET s == [state EXCEPT !.counter = @ + delta]
      p == IF s.counter < 0 \/ Misuse(s, delta) THEN "panic"
           ELSE IF s.counter > 0 \/ s.waiters = 0 THEN "idle"
           ELSE "sanity"
  IN /\ state' = s
     /\ Goto(g, p)
     /\ old' = [old EXCEPT ![g] = IF p = "sanity" THEN s ELSE Zero]

\* Add with a positive delta.  From zero, the calls of Wait on earlier sets of
\* tasks have returned; otherwise a task that is still owed makes the call.
Add(g, n) ==
  /\ pc[g] = "idle"
  /\ owed + n <= MaxDelta
  /\ owed > 0 \/ (state.counter = 0 /\ \A h \in Goroutines : pc[h] \notin WaitPoints)
  /\ owed' = owed + n
  /\ AddDelta(g, n)
  /\ UNCHANGED <<sema, left>>

\* A task ends.
Done(g) ==
  /\ pc[g] = "idle" /\ g \in Tasks
  /\ owed > 0
  /\ owed' = owed - 1
  /\ AddDelta(g, -1)
  /\ UNCHANGED <<sema, left>>

\* "Still do a cheap sanity check to detect WaitGroup misuse."
AddSanity(g) ==
  /\ pc[g] = "sanity"
  /\ Goto(g, IF state # old[g] THEN "panic" ELSE "reset")
  /\ UNCHANGED <<state, sema, owed, old, left>>

\* Faulty variant: the word keeps its waiters.
AddKeepsWaiters(g) ==
  /\ pc[g] = "reset"
  /\ left' = [left EXCEPT ![g] = old[g].waiters]
  /\ old' = [old EXCEPT ![g] = Zero]
  /\ Goto(g, "release")
  /\ UNCHANGED <<state, sema, owed>>

\* Reset waiters count to 0: a plain store on the whole word.
AddReset(g) ==
  /\ pc[g] = "reset"
  /\ state' = Zero
  /\ left' = [left EXCEPT ![g] = old[g].waiters]
  /\ old' = [old EXCEPT ![g] = Zero]
  /\ Goto(g, "release")
  /\ UNCHANGED <<sema, owed>>

\* Faulty variant: one permit too many.
AddReleaseOneMore(g) ==
  /\ pc[g] = "release"
  /\ sema' = sema + 1
  /\ left' = [left EXCEPT ![g] = @ - 1]
  /\ Goto(g, IF left[g] = 0 THEN "idle" ELSE "release")
  /\ UNCHANGED <<state, owed, old>>

\* for ; w != 0; w-- { runtime_Semrelease(&wg.sema) }, which begins with w # 0.
AddRelease(g) ==
  /\ pc[g] = "release"
  /\ sema' = sema + 1
  /\ left' = [left EXCEPT ![g] = @ - 1]
  /\ Goto(g, IF left[g] = 1 THEN "idle" ELSE "release")
  /\ UNCHANGED <<state, owed, old>>
-----------------------------------------------------------------------------
(* Wait *)

\* The call, or the loop again: the word is read.
WaitLoad(g) ==
  /\ pc[g] \in {"idle", "wait"} /\ g \notin Tasks
  /\ IF state.counter = 0
     THEN Goto(g, "idle") /\ UNCHANGED old
     ELSE Goto(g, "cas") /\ old' = [old EXCEPT ![g] = state]
  /\ UNCHANGED <<state, sema, owed, left>>

\* Faulty variant: a store in place of the compare-and-swap.
WaitStore(g) ==
  /\ pc[g] = "cas"
  /\ state' = [old[g] EXCEPT !.waiters = @ + 1]
  /\ Goto(g, "sleep")
  /\ old' = [old EXCEPT ![g] = Zero]
  /\ UNCHANGED <<sema, owed, left>>

\* Increment waiters count.
WaitCAS(g) ==
  /\ pc[g] = "cas"
  /\ \/ /\ state = old[g]
        /\ state' = [state EXCEPT !.waiters = @ + 1]
        /\ Goto(g, "sleep")
     \/ /\ state # old[g]
        /\ Goto(g, "wait")
        /\ UNCHANGED state
  /\ old' = [old EXCEPT ![g] = Zero]
  /\ UNCHANGED <<sema, owed, left>>

\* runtime_Semacquire(&wg.sema)
WaitSleep(g) ==
  /\ pc[g] = "sleep"
  /\ sema > 0
  /\ sema' = sema - 1
  /\ Goto(g, "check")
  /\ UNCHANGED <<state, owed, old, left>>

\* The word must still be zero: otherwise the group is used again too early.
WaitCheck(g) ==
  /\ pc[g] = "check"
  /\ Goto(g, IF state # Zero THEN "panic" ELSE "idle")
  /\ UNCHANGED <<state, sema, owed, old, left>>
-----------------------------------------------------------------------------
Continue(g) ==
  \/ AddSanity(g) \/ AddReset(g) \/ AddRelease(g)
  \/ (pc[g] = "wait" /\ WaitLoad(g)) \/ WaitCAS(g) \/ WaitCheck(g)

Next ==
  \E g \in Goroutines :
    \/ \E n \in 1..MaxDelta : Add(g, n)
    \/ Done(g) \/ AddSanity(g) \/ AddReset(g) \/ AddRelease(g)
    \/ WaitLoad(g) \/ WaitCAS(g) \/ WaitSleep(g) \/ WaitCheck(g)

Spec == Init /\ [][Next]_vars

\* Calls go on, tasks end, and a permit goes to some sleeper.
Fairness ==
  /\ \A g \in Goroutines : WF_vars(Continue(g))
  /\ WF_vars(\E g \in Goroutines : Done(g))
  /\ WF_vars(\E g \in Goroutines : WaitSleep(g))

FairSpec == Spec /\ Fairness
-----------------------------------------------------------------------------
(* Properties *)

\* Legal use never panics: not on a negative counter, nor on misuse, nor on
\* reuse.
NoPanic == \A g \in Goroutines : pc[g] # "panic"

\* The counter is the number of tasks still to end.
CounterIsOwed == state.counter = owed

\* A goroutine that was asleep in Wait goes on only when all tasks have ended.
WaitIsBarrier == \A g \in Goroutines : pc[g] = "check" => owed = 0

\* One call of Add or Done at a time wakes the sleepers: the one that has
\* brought the counter to zero.
OneFinisher ==
  \A g, h \in Goroutines :
    pc[g] \in AddPoints /\ pc[h] \in AddPoints => g = h

\* Until it has reset the word, nobody changes that and no permit is there.
FinisherAlone ==
  \A g \in Goroutines :
    pc[g] \in {"sanity", "reset"} =>
      /\ state = old[g]
      /\ state.counter = 0 /\ state.waiters > 0
      /\ sema = 0

\* Every sleeper is counted in the word, or has a permit, or gets it from the
\* Add call that brought the counter to zero.
Releasing == {g \in Goroutines : pc[g] = "release"}

SleepersCounted ==
  /\ Releasing = {} => Count(pc, {"sleep"}) = state.waiters + sema
  /\ \A g \in Releasing :
       /\ left[g] > 0
       /\ Count(pc, {"sleep"}) = state.waiters + sema + left[g]

\* From the first permit to the last check the word stays zero: no permit and
\* no wakeup of one set of tasks is there when the next set starts.
WordStaysZero ==
  sema > 0 \/ (\E g \in Goroutines : pc[g] \in {"release", "check"})
    => state = Zero

\* Wait counts itself only on a word with tasks.
CountsOnTasks == \A g \in Goroutines : pc[g] = "cas" => old[g].counter # 0

\* The word, the semaphore and the tasks agree between any two steps.
IInv ==
  /\ TypeOK
  /\ NoPanic
  /\ CounterIsOwed
  /\ OneFinisher
  /\ FinisherAlone
  /\ SleepersCounted
  /\ WordStaysZero
  /\ CountsOnTasks

\* When no Add with a positive delta comes any more, every Wait returns.
WaitReturns ==
  <>[][\A g \in Goroutines, n \in 1..MaxDelta : ~Add(g, n)]_vars
    => \A g \in Goroutines : pc[g] \in WaitPoints ~> pc[g] = "idle"
=============================================================================
