------------------------------- MODULE SemaRoot -------------------------------
(***************************************************************************)
(* The asynchronous semaphores of runtime/sema.go, on which sync and net   *)
(* put goroutines to sleep.  A semaphore is a word; the goroutines blocked *)
(* on all the words that hash to one semaRoot share its lock, its queue of *)
(* waiters and the counter nwait, which semrelease reads without the lock. *)
(*                                                                         *)
(* A step is one access to a word that is shared without the lock, or a    *)
(* critical section with at most one such access.                          *)
(***************************************************************************)
EXTENDS Counting, SequencesExt

CONSTANTS
  Callers,
  Addrs,        \* the semaphores of one root
  NoAddr,
  MaxPermits    \* bound of the model: releases stop when a word is at it

ASSUME SemaAssumption ==
  /\ IsFiniteSet(Callers)
  /\ NoAddr \notin Addrs
  /\ MaxPermits \in Nat

VARIABLES
  count,     \* the word of each semaphore
  nwait,     \* root.nwait
  lock,      \* root.lock: the set of its holders
  queue,     \* the goroutines of the list from root.head to root.tail
  point,     \* where each goroutine is in its call
  addr       \* the addr argument of the call each goroutine is in (s.elem)

semaVars == <<count, nwait, lock, queue, point, addr>>

\* "recheck" and "undo" are inside the critical section of semacquire.
AcquirePoints == {"slow", "recheck", "undo", "parked", "woken"}
ReleasePoints == {"released", "search"}
SemaPoints    == {"idle"} \cup AcquirePoints \cup ReleasePoints

SemaTypeOK ==
  /\ count \in [Addrs -> Nat]
  /\ nwait \in Nat
  /\ lock \in SUBSET Callers
  /\ queue \in Seq(Callers)
  /\ point \in [Callers -> SemaPoints]
  /\ addr \in [Callers -> Addrs \cup {NoAddr}]
  /\ \A g \in Callers : point[g] = "idle" <=> addr[g] = NoAddr

SemaInit ==
  /\ count = [a \in Addrs |-> 0]
  /\ nwait = 0
  /\ lock = {}
  /\ queue = <<>>
  /\ point = [g \in Callers |-> "idle"]
  /\ addr = [g \in Callers |-> NoAddr]

SemaGoto(g, p) == point' = [point EXCEPT ![g] = p] /\ UNCHANGED addr

SemaCall(g, a, p) ==
  point' = [point EXCEPT ![g] = p] /\ addr' = [addr EXCEPT ![g] = a]

SemaReturn(g) == SemaCall(g, NoAddr, "idle")

\* Faulty variant: the word is decremented without a look at it.
TakePermitUnchecked(a) == count' = [count EXCEPT ![a] = @ - 1]

\* cansemacquire(addr): one permit of a is taken.
TakePermit(a) ==
  /\ count[a] > 0
  /\ count' = [count EXCEPT ![a] = @ - 1]
-----------------------------------------------------------------------------
(* semacquire *)

\* The call and its easy case.
SemacquireEasy(g, a) ==
  /\ point[g] = "idle"
  /\ \/ TakePermit(a) /\ UNCHANGED <<point, addr>>
     \/ count[a] = 0 /\ UNCHANGED count /\ SemaCall(g, a, "slow")
  /\ UNCHANGED <<nwait, lock, queue>>

\* lock(&root.lock); xadd(&root.nwait, 1)
SemacquireLock(g) ==
  /\ point[g] = "slow"
  /\ lock = {}
  /\ lock' = {g}
  /\ nwait' = nwait + 1
  /\ SemaGoto(g, "recheck")
  /\ UNCHANGED <<count, queue>>

\* queue and dequeue of the list of waiters.
Enqueue(g) == queue' = Append(queue, g)

Dequeue(i) == queue' = RemoveAt(queue, i)

\* Faulty variant: no second look at the word before going to sleep.
SemacquireNoRecheck(g) ==
  /\ point[g] = "recheck"
  /\ Enqueue(g)
  /\ lock' = lock \ {g}
  /\ SemaGoto(g, "parked")
  /\ UNCHANGED <<count, nwait>>

\* cansemacquire once more; without a permit the goroutine queues itself, and
\* the lock is released when it has stopped running (goparkunlock).
SemacquireRecheck(g) ==
  /\ point[g] = "recheck"
  /\ \/ /\ TakePermit(addr[g])
        /\ SemaGoto(g, "undo")
        /\ UNCHANGED <<queue, lock>>
     \/ /\ count[addr[g]] = 0
        /\ Enqueue(g)
        /\ lock' = lock \ {g}
        /\ SemaGoto(g, "parked")
        /\ UNCHANGED count
  /\ UNCHANGED nwait

\* Faulty variant: the goroutine leaves without taking itself off nwait.
SemacquireForgets(g) ==
  /\ point[g] = "undo"
  /\ lock' = lock \ {g}
  /\ SemaReturn(g)
  /\ UNCHANGED <<count, nwait, queue>>

\* xadd(&root.nwait, -1); unlock(&root.lock)
SemacquireUndo(g) ==
  /\ point[g] = "undo"
  /\ nwait' = nwait - 1
  /\ lock' = lock \ {g}
  /\ SemaReturn(g)
  /\ UNCHANGED <<count, queue>>

\* Running again: the permit may be gone, and then the loop starts over.
SemacquireWoken(g) ==
  /\ point[g] = "woken"
  /\ \/ TakePermit(addr[g]) /\ SemaReturn(g)
     \/ count[addr[g]] = 0 /\ UNCHANGED count /\ SemaGoto(g, "slow")
  /\ UNCHANGED <<nwait, lock, queue>>
-----------------------------------------------------------------------------
(* semrelease *)

\* xadd(addr, 1)
SemreleaseAdd(g, a) ==
  /\ point[g] = "idle"
  /\ count[a] < MaxPermits
  /\ count' = [count EXCEPT ![a] = @ + 1]
  /\ SemaCall(g, a, "released")
  /\ UNCHANGED <<nwait, lock, queue>>

\* Easy case: no waiters.
SemreleaseEasy(g) ==
  /\ point[g] = "released"
  /\ IF nwait = 0 THEN SemaReturn(g) ELSE SemaGoto(g, "search")
  /\ UNCHANGED <<count, nwait, lock, queue>>

\* The first waiter for addr: the loop over the list.
FirstWaiter(a) == SelectInSeq(queue, LAMBDA g : addr[g] = a)

\* The critical section of semrelease, and goready of the waiter it found.
SemreleaseSearch(g) ==
  /\ point[g] = "search"
  /\ lock = {}
  /\ LET i == FirstWaiter(addr[g])
     IN IF nwait = 0 \/ i = 0
        THEN UNCHANGED <<nwait, queue>> /\ SemaReturn(g)
        ELSE /\ nwait' = nwait - 1
             /\ Dequeue(i)
             /\ point' = [point EXCEPT ![g] = "idle", ![queue[i]] = "woken"]
             /\ addr' = [addr EXCEPT ![g] = NoAddr]
  /\ UNCHANGED <<count, lock>>
-----------------------------------------------------------------------------
SemaBegin(g) == \E a \in Addrs : SemacquireEasy(g, a) \/ SemreleaseAdd(g, a)

\* The steps of a call under way.
SemaContinue(g) ==
  \/ SemacquireLock(g) \/ SemacquireRecheck(g) \/ SemacquireUndo(g)
  \/ SemacquireWoken(g)
  \/ SemreleaseEasy(g) \/ SemreleaseSearch(g)

SemaNext == \E g \in Callers : SemaBegin(g) \/ SemaContinue(g)

SemaSpec == SemaInit /\ [][SemaNext]_semaVars

\* A runnable goroutine runs.
SemaFairness == \A g \in Callers : WF_semaVars(SemaContinue(g))

SemaFairSpec == SemaSpec /\ SemaFairness

-----------------------------------------------------------------------------
(* Properties *)

\* root.lock is held by the goroutine that is inside its critical section.
LockHeld ==
  /\ lock = {g \in Callers : point[g] \in {"recheck", "undo"}}
  /\ Cardinality(lock) <= 1

\* The queue holds the parked goroutines, each once.
QueueIsParked ==
  /\ Range(queue) = {g \in Callers : point[g] = "parked"}
  /\ \A i, j \in DOMAIN queue : queue[i] = queue[j] => i = j

\* nwait, read without the lock, is exact: the queued goroutines and the one
\* that is about to queue itself or to leave.  A semrelease that reads zero
\* leaves nobody behind.
SemaWaitersCounted ==
  nwait = Count(point, {"parked", "recheck", "undo"})

\* The goroutines in a call on a, at one of the points P.
CallsAt(a, P) == {g \in Callers : addr[g] = a /\ point[g] \in P}

\* No lost wakeup: while somebody is parked at a semaphore, every permit of it
\* is accounted for by a semrelease that has still to look for a waiter or by
\* a waiter that has been woken and has still to try.
SemaNoLostWakeup ==
  \A a \in Addrs :
    CallsAt(a, {"parked"}) # {}
      => count[a] <= Cardinality(CallsAt(a, ReleasePoints \cup {"woken"}))

\* The queue, the lock-free counter and the permits agree between any two steps.
SemaInv ==
  SemaTypeOK /\ LockHeld /\ QueueIsParked /\ SemaWaitersCounted /\ SemaNoLostWakeup

\* No call starts any more.
SemaQuiet == <>[][\A g \in Callers : ~SemaBegin(g)]_semaVars

\* Then a permit and a goroutine waiting for it do not remain side by side.
PermitsAreTaken ==
  SemaQuiet => \A a \in Addrs :
             count[a] > 0 /\ CallsAt(a, AcquirePoints \ {"undo"}) # {}
               ~> count[a] = 0 \/ CallsAt(a, AcquirePoints \ {"undo"}) = {}

\* The abstract semaphores: a call that has taken its permit waits no more.
waiting ==
  [g \in Callers |->
    IF point[g] \in AcquirePoints \ {"undo"} THEN addr[g] ELSE NoAddr]

Semaphores == INSTANCE Semaphore WITH Goroutines <- Callers, permits <- count

\* Permits are neither made up nor lost on the slow path, and a call returns
\* only with a permit of its own semaphore, though the queue is shared.
ImplementsSemaphore == Semaphores!Spec
=============================================================================
