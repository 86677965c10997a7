--------------------------------- MODULE Cond ---------------------------------
(***************************************************************************)
(* sync.Cond (sync/cond.go) and its synchronous semaphore (syncsemacquire  *)
(* and syncsemrelease of runtime/sema.go).  A Wait call counts itself in   *)
(* waiters, unlocks c.L and meets a release in the semaphore's queue; the  *)
(* queue holds either sleeping acquires or sleeping releases.              *)
(***************************************************************************)
EXTENDS Counting, Integers, SequencesExt

CONSTANTS Users, NoOne

ASSUME CondAssumption ==
  /\ IsFiniteSet(Users)
  /\ NoOne \notin Users

VARIABLES
  L,         \* who holds c.L
  waiters,   \* c.waiters
  queue,     \* c.sema: sudogs with their g and nrelease, from head to tail
  at,        \* where each goroutine is
  toRelease  \* how many a Signal or Broadcast call releases (old - new)

condVars == <<L, waiters, queue, at, toRelease>>

\* "counted" and "acquire" are a Wait call before it reaches the semaphore;
\* "signal" and "broadcast" are before the compare-and-swap.
Waits      == {"counted", "acquire", "asleep"}
Signals    == {"signal", "broadcast", "release", "releasing"}
CondPoints == {"running", "locking"} \cup Waits \cup Signals

Sudog == [g : Users, nrelease : Int]

CondTypeOK ==
  /\ L \in Users \cup {NoOne}
  /\ waiters \in Nat
  /\ queue \in Seq(Sudog)
  /\ at \in [Users -> CondPoints]
  /\ toRelease \in [Users -> Nat]

CondInit ==
  /\ L = NoOne
  /\ waiters = 0
  /\ queue = <<>>
  /\ at = [g \in Users |-> "running"]
  /\ toRelease = [g \in Users |-> 0]

CondGoto(g, p) == at' = [at EXCEPT ![g] = p]

\* The queue's goroutines in S become runnable; g itself goes on to p.
Ready(g, p, S) ==
  at' = [h \in Users |->
          IF h = g THEN p
          ELSE IF h \notin S THEN at[h]
          ELSE IF at[h] = "asleep" THEN "locking" ELSE "running"]
-----------------------------------------------------------------------------
(* The lock of the callers *)

LockCall(g) ==
  /\ at[g] = "running" /\ L # g
  /\ CondGoto(g, "locking")
  /\ UNCHANGED <<L, waiters, queue, toRelease>>

\* c.L.Lock() returns: that of a caller, or the one at the end of Wait.
Lock(g) ==
  /\ at[g] = "locking"
  /\ L = NoOne
  /\ L' = g
  /\ CondGoto(g, "running")
  /\ UNCHANGED <<waiters, queue, toRelease>>

Unlock(g) ==
  /\ at[g] = "running" /\ L = g
  /\ L' = NoOne
  /\ UNCHANGED <<waiters, queue, at, toRelease>>
-----------------------------------------------------------------------------
(* Wait *)

\* atomic.AddUint32(&c.waiters, 1)
WaitCount(g) ==
  /\ at[g] = "running" /\ L = g
  /\ waiters' = waiters + 1
  /\ CondGoto(g, "counted")
  /\ UNCHANGED <<L, queue, toRelease>>

WaitUnlock(g) ==
  /\ at[g] = "counted"
  /\ L' = NoOne
  /\ CondGoto(g, "acquire")
  /\ UNCHANGED <<waiters, queue, toRelease>>

\* The semaphore has a release pending.
ReleasePending == queue # <<>> /\ Head(queue).nrelease > 0

\* Faulty variant: the release stays in the queue when it is used up.
TakeReleaseKeeps == [queue EXCEPT ![1].nrelease = @ - 1]

\* The queue when one of the pending releases is used up; the sleeping release
\* call is done when it was its last.
TakeRelease ==
  IF Head(queue).nrelease = 1
  THEN Tail(queue)
  ELSE [queue EXCEPT ![1].nrelease = @ - 1]

\* syncsemacquire: one critical section.
Syncsemacquire(g) ==
  /\ at[g] = "acquire"
  /\ \/ /\ ReleasePending
        /\ queue' = TakeRelease
        /\ Ready(g, "locking",
                 IF Head(queue).nrelease = 1 THEN {Head(queue).g} ELSE {})
     \/ /\ ~ReleasePending
        /\ queue' = Append(queue, [g |-> g, nrelease |-> -1])
        /\ CondGoto(g, "asleep")
  /\ UNCHANGED <<L, waiters, toRelease>>
-----------------------------------------------------------------------------
(* Signal and Broadcast, with or without c.L *)

SignalCall(g) ==
  /\ at[g] = "running"
  /\ \E p \in {"signal", "broadcast"} : CondGoto(g, p)
  /\ UNCHANGED <<L, waiters, queue, toRelease>>

\* Faulty variant: a swap that leaves waiters as it was.
SignalUncounted(g) ==
  /\ at[g] \in {"signal", "broadcast"}
  /\ IF waiters = 0
     THEN CondGoto(g, "running") /\ UNCHANGED toRelease
     ELSE toRelease' = [toRelease EXCEPT ![g] = 1] /\ CondGoto(g, "release")
  /\ UNCHANGED <<L, waiters, queue>>

\* The loop of signalImpl: the value it swaps is the one it has read.
SignalCAS(g) ==
  /\ at[g] \in {"signal", "broadcast"}
  /\ IF waiters = 0
     THEN CondGoto(g, "running") /\ UNCHANGED <<waiters, toRelease>>
     ELSE /\ waiters' = IF at[g] = "broadcast" THEN 0 ELSE waiters - 1
          /\ toRelease' = [toRelease EXCEPT ![g] = waiters - waiters']
          /\ CondGoto(g, "release")
  /\ UNCHANGED <<L, queue>>

\* The sleeping acquires at the head of the queue, and how many a release of k
\* satisfies.
Acquires == {i \in DOMAIN queue : queue[i].nrelease < 0}

Satisfied(k) == IF Cardinality(Acquires) < k THEN Cardinality(Acquires) ELSE k

\* syncsemrelease: one critical section.
Syncsemrelease(g) ==
  /\ at[g] = "release"
  /\ LET k    == Satisfied(toRelease[g])
         rest == SubSeq(queue, k + 1, Len(queue))
         wake == {queue[i].g : i \in 1..k}
     IN IF toRelease[g] = k
        THEN queue' = rest /\ Ready(g, "running", wake)
        ELSE /\ queue' = Append(rest, [g |-> g, nrelease |-> toRelease[g] - k])
             /\ Ready(g, "releasing", wake)
  /\ toRelease' = [toRelease EXCEPT ![g] = 0]
  /\ UNCHANGED <<L, waiters>>
-----------------------------------------------------------------------------
Begin(g) == LockCall(g) \/ WaitCount(g) \/ SignalCall(g)

CondContinue(g) ==
  \/ Unlock(g)
  \/ WaitUnlock(g) \/ Syncsemacquire(g)
  \/ SignalCAS(g) \/ Syncsemrelease(g)

CondNext == \E g \in Users : Begin(g) \/ CondContinue(g) \/ Lock(g)

CondSpec == CondInit /\ [][CondNext]_condVars

\* Calls go on and a holder of c.L that calls nothing unlocks it; a free c.L
\* is taken by somebody who wants it.
CondFairness ==
  /\ \A g \in Users : WF_condVars(CondContinue(g))
  /\ WF_condVars(\E g \in Users : Lock(g))

CondFairSpec == CondSpec /\ CondFairness
-----------------------------------------------------------------------------
(* Properties *)

\* The queue holds acquires or releases, not both: the loop of syncsemrelease
\* and the test of syncsemacquire look at its head only.
QueueOfOneKind ==
  \/ \A i \in DOMAIN queue : queue[i].nrelease < 0
  \/ \A i \in DOMAIN queue : queue[i].nrelease > 0

\* Each sudog stands for a goroutine that sleeps in the call it is for.
QueueIsAsleep ==
  /\ \A i, j \in DOMAIN queue : queue[i].g = queue[j].g => i = j
  /\ \A g \in Users :
       /\ at[g] = "asleep" <=> \E i \in Acquires : queue[i].g = g
       /\ at[g] = "releasing" <=> \E i \in DOMAIN queue \ Acquires : queue[i].g = g

\* What a call releases is bounded by the goroutines there are, and an acquire
\* has no number of its own.
ReleasesBounded ==
  /\ \A i \in DOMAIN queue : queue[i].nrelease \in {-1} \cup 1..Cardinality(Users)
  /\ \A g \in Users : toRelease[g] \in 0..Cardinality(Users)
  /\ \A g \in Users : toRelease[g] > 0 <=> at[g] = "release"

\* Releases that were swapped out of waiters and have not met an acquire: the
\* k-th of g is in its call or in its sudog.
Releases ==
  {r \in Users \X (1..Cardinality(Users)) :
    \/ r[2] <= toRelease[r[1]]
    \/ \E i \in DOMAIN queue : queue[i].g = r[1] /\ r[2] <= queue[i].nrelease}

\* No release waits for an acquire that does not come, and no Wait call is
\* forgotten: the Wait calls that have not met a release are those in waiters
\* and those a release is on its way to.
WaitersCounted == Count(at, Waits) = waiters + Cardinality(Releases)

\* Callers, counter and queue agree between any two steps.
CondInv ==
  /\ CondTypeOK
  /\ QueueOfOneKind
  /\ QueueIsAsleep
  /\ ReleasesBounded
  /\ WaitersCounted

\* A Signal or Broadcast call, which blocks until its acquires have come,
\* returns; also when its caller holds c.L.
SignalReturns ==
  \A g \in Users : at[g] \in {"release", "releasing"} ~> at[g] = "running"
=============================================================================
