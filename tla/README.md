# TLA+ models of Go 1.5's concurrency core

The repository is the standard library and tool chain of Go 1.5 for
linux/amd64.  This directory models the part of it that every Go program leans
on and that tests reach worst: the goroutine semaphores and channels of package
`runtime`, the primitives that package `sync` builds on them, the scheduler
underneath, the network descriptor with its poller, and the concurrent garbage
collector.  Paths below are relative to `src/src/`.

## 1. The system

### Components, their state, and how they interact

| component | code | state | operations |
|---|---|---|---|
| semaphores | `runtime/sema.go` | a word per semaphore; per root: lock, list of waiters, `nwait` | `semacquire`, `semrelease` |
| synchronous semaphore | `runtime/sema.go` | a list of acquires or of releases | `syncsemacquire`, `syncsemrelease` |
| Mutex | `sync/mutex.go` | one word (locked, woken, waiters), one semaphore | `Lock`, `Unlock` |
| RWMutex | `sync/rwmutex.go` | `w`, `readerCount`, `readerWait`, two semaphores | `RLock`, `RUnlock`, `Lock`, `Unlock` |
| WaitGroup | `sync/waitgroup.go` | one word (counter, waiters), one semaphore | `Add`, `Done`, `Wait` |
| Once | `sync/once.go` | `done`, a Mutex | `Do` |
| Cond | `sync/cond.go` | `waiters`, a synchronous semaphore | `Wait`, `Signal`, `Broadcast` |
| channels, select | `runtime/chan.go`, `runtime/select.go` | buffer, closed, two queues of sudogs, `selectdone` | send, receive, close, select, non-blocking forms |
| run queues | `runtime/proc1.go` | per P: ring, head, tail, `runnext`; the global queue | `runqput`, `runqget`, `runqsteal`, `globrunqget` |
| Ms and Ps | `runtime/proc1.go` | who owns which P, idle lists, `nmspinning`, `stopwait` | `findrunnable`, `startm`, `stopm`, `handoffp`, system calls, `retake`, stopping the world, `checkdead` |
| netFD | `net/fd_mutex.go`, `net/fd_unix.go` | closed flag, references, two locks with waiters, two semaphores | `RWLock`, `RWUnlock`, `Incref`, `Decref`, `IncrefAndClose` |
| network poller | `runtime/netpoll.go` | `rg`, `wg`, deadlines, timers, `seq`, `closing` | reset, wait, ready, set deadline, unblock, close, open |
| collector | `runtime/mgc.go`, `mgcmark.go`, `mbarrier.go`, `mgcsweep.go`, `mcentral.go` | mark bits, grey objects, phase, stack barriers, `sweepgen` of spans, mcaches | write barrier, marking, root jobs, mark termination, sweeping, refill |

`sync` and `net` call the semaphores (`runtime_Semacquire`,
`runtime_Semrelease`, `runtime_Syncsem...`); a semaphore parks and readies
goroutines (`goparkunlock`, `goready`) and protects its list with a runtime
lock.  Channels do the same with a lock per channel; a select holds the locks
of all its channels.  RWMutex and Once contain a Mutex; Cond is used with a
Locker; a netFD contains an fdMutex and calls the poller, whose timers and
events come from other threads.  Parking and readying are the scheduler's: a
readied goroutine enters a run queue, and a thread is woken for it if none is
looking for work already.  The collector stops the world by way of the
scheduler, and goroutines meet it in the write barrier and in the allocator.

Every interaction is shared memory between goroutines and threads that may be
delayed anywhere; nothing is persisted, and the only messages are wakeups,
readiness events and timers, which may be late.  Hard behaviour is therefore:
the order of lock-free reads and writes, a value that is stale by the time a
compare-and-swap, a wakeup or a timer uses it, a wakeup that goes to the wrong
goroutine or to nobody, and a counter whose meaning changes with the phase of a
protocol.

What makes each of them correct:

* semaphores: a permit is taken by one acquire of the same word; while somebody
  is parked no permit lies about that nobody is on the way to;
* Mutex, RWMutex: exclusion; no lost wakeup; the counters mean what the code
  takes them for; no false panic; writers are not starved;
* WaitGroup: `Wait` is a barrier; a word that is reused for the next set of
  tasks carries nothing over; no panic in legal use;
* Once: `f` runs once and no `Do` returns before it has ended;
* Cond: each `Wait` that is counted meets a release; `Signal` returns;
* channels: values are neither lost, duplicated nor reordered; a select takes
  one case; nobody sleeps beside a goroutine it could meet, or beside a value;
  close releases everybody;
* run queues: no goroutine is lost or run by two Ps; the order is that of plain
  queues but for the order within a batch; a ring never overflows;
* Ms and Ps: a P has one owner; no runnable goroutine waits beside an idle P;
  no false report of a deadlock; the world is stopped when it is said to be;
* netFD: nobody works on a destroyed descriptor or on its successor; Close
  wakes everybody; no readiness, deadline or close is missed by a goroutine that
  is about to sleep; a timer expires only the deadline it was set for;
* collector: nothing reachable is freed; what the barrier promises holds
  whenever the pause relies on it; each span is swept once per cycle.

`PROJECT.json` lists all components with their status, and the hazards of the
code with the line where they bite and the properties that watch them.

## 2. The modules

| module | models | composed of |
|---|---|---|
| `Counting` | number of goroutines at given program points | |
| `AbstractLock` | what `sync.Locker` promises | |
| `Mutex` | `sync.Mutex` | implements `AbstractLock` |
| `Semaphore` | what semaphores promise | |
| `SemaRoot` | `semacquire`/`semrelease` over a shared root | implements `Semaphore` |
| `RWMutex` | `sync.RWMutex` | abstract mutex and semaphores |
| `WaitGroup` | `sync.WaitGroup` | abstract semaphore |
| `Once` | `sync.Once` | abstract mutex |
| `Cond` | `sync.Cond` with `syncsemacquire`/`syncsemrelease` | abstract lock |
| `CondBroadcast` | `Cond` with a history variable, for one documented promise | `Cond` |
| `Channels` | what channels and select promise | |
| `Chan`, `MCChan` | `chansend`, `chanrecv`, `closechan`, `selectgo` | implements `Channels` |
| `RunQueues` | plain queues with batches, `runnext` and a global queue | |
| `RunQueue` | `runqput` to `runqsteal`, `globrunqget` on the ring | implements `RunQueues` |
| `Sched`, `MCSched` | threads, processors, system calls, stopping the world | queue lengths only |
| `NetFD`, `MCNetFD` | fdMutex and poller of a descriptor and of the next in its pollDesc | abstract semaphores |
| `GC`, `MCGC` | collections, concurrent and forced, with write barrier, stack barriers and sweeping | |
| `CommonTheorems`, `LockProofs`, `SyncProofs`, `ChanProofs`, `RunQueueProofs`, `SchedProofs`, `NetFDProofs`, `GCProofs` | theorems and proofs | |

How state and actions correspond to the code:

* A program counter (`pc[g]`, in `Mutex` `at`, in `SemaRoot` `point`) names the place of a goroutine (in `RunQueue` and
  `GC` a P, in `Sched` an M or sysmon) between two accesses to shared memory;
  each atomic operation, each plain read or write of shared state outside a
  lock, each semaphore call and each critical section under a runtime lock is
  one action, named after its function (`LockCAS`, `RUnlockAdd`,
  `SemreleaseSearch`).  Local variables that live across such steps are
  variables indexed by goroutine (`old`, `awoke`, `iter`, `r`, `left`, `n`).
* Packed words are records of their fields.  In `RWMutex` the bias
  `rwmutexMaxReaders` is the constant `MaxReaders`, larger than the number of
  goroutines as in the code.
* Blocking is a guard (`sema > 0`) where the code below is modelled elsewhere
  (`SemaRoot` shows that semaphores are that), and a parked state plus a wakeup
  in `SemaRoot`, `Cond`, `Chan`, `NetFD` and `Sched`, which are about the
  wakeups.
* In `Cond` and `Chan` a list of sudogs is a sequence of goroutines.  In `Chan` a
  value is named by its sender, which is enough to tell lost, duplicated and
  reordered values; `hand[g]` is the dequeued goroutine that `g` will ready after
  the unlock; `done` is `selectdone`, kept for every operation; `out[h]` of a
  parked goroutine is `gp.param` with the element written for it.  All cases of
  a select are looked at under all its locks, so they form one action; which
  case `pollorder` reaches first is free.  Looking at an unbuffered channel in
  vain empties its queue of claimed selects (`Looked`, `Drop`): the fast path
  of other goroutines can see that.
* `Cond.Wait` ends with `c.L.Lock()`; Signal's load and compare-and-swap are one
  action, since a swap succeeds only on the value just read.
* `RunQueue` keeps the ring with its head and tail modulo `W`, and every load,
  store and compare-and-swap of another P's words as a step: a thief copies,
  then claims, then publishes, with the owner free to wrap around in between.
  The refinement maps what lies between head and tail to a queue and what a
  thief has claimed to its hand.
* `Sched` keeps a run queue as its length, because `RunQueue` has the rest, and
  counts the goroutines that threads carry.  Its steps are the reads and writes
  of `npidle`, `nmspinning`, `p.status`, `gcwaiting` and the critical sections
  of `sched.lock`.  `missed` is a history variable: a P was left idle by one of
  the two steps named at `WorkConserved`.
* `NetFD` has the word of each fdMutex as a record, the `rg`/`wg` word with its
  four kinds of value, the critical section of `pd.lock` as a record of what it
  has still to do (stores and unblocks inside it are visible to goroutines that
  read without the lock), and the kernel as a set of directions with data, a set
  with an unreported edge and a set of events the poller holds.  Descriptors
  are numbered; all are given the same pollDesc, as `pollcache` may do.
* `GC` has objects of one pointer and a global.  Marking steps are those of
  background workers, idle workers and assists; the coordinator's point `gc`
  stands for `gcphase` and its companions.  A stack is a sequence of segments,
  each a set of pointers: the stack barriers that were installed and not hit yet
  cut it (`stack[p][i]`; `top[p]` is the youngest segment, whose frames have run
  since the scan).  `ScanStack` cuts it wherever `gcInstallStackBarrier` may;
  `Return` hits a barrier; `Recover` unwinds some; `MarkRoot` scans the youngest
  segment only, as `scanstack` does in the pause, and removes all barriers.  The
  older segments change by what the code does to them: a nil (`Drop`), a store
  with a write barrier (`StoreUp`), a bulk copy that unwinds the barriers instead
  (`CopyUp`), and a send into the stack of a parked receiver, with a write
  barrier (`Send`).

Operators called *Faulty variant* are not part of a model: each is the nearby
mistake that breaks one of the properties, and documents what the property is
able to see.

## 3. What the runs check

Runs that pass:

| run | instance | shows |
|---|---|---|
| `mutex` | 3 goroutines, 1 round of spinning | `OneHolder`, `NoLostWakeup`, the inductive `MutexInv`; refinement of `AbstractLock` with its progress; pending `Lock` calls return |
| `sema` | 4 goroutines, 2 words on one root, 2 permits | `SemaInv` (queue, lock, `nwait`), `SemaNoLostWakeup`, refinement of `Semaphore`, permits get taken |
| `rwmutex` | 5 goroutines, bias 6 | `Exclusion`, `NoFalsePanic`, `IInv` (what both counters and all permits mean), a writer gets in, pending calls return |
| `waitgroup` | 5 goroutines (2 of them tasks), at most 4 tasks owed | `NoPanic`, `WaitIsBarrier`, `IInv` (who finishes a set, and that it finishes alone), `WaitReturns` |
| `once` | 5 goroutines | `ReturnAfterRun`, `OnceInv` (with: `f` runs once) |
| `cond` | 4 goroutines | `CondInv` (queue of one kind, its sudogs are the sleepers, each counted Wait has its release), `SignalReturns` |
| `chan` | 3 goroutines, 3 channels (2 buffered, 1 not) | the inductive `IInv` (queues, claims, outcomes, buffers, no throw), `NoMatchAsleep`, `NoLostWakeup`, refinement of `Channels` |
| `runq` | 2 Ps, ring of 4 slots, counters modulo 8, 7 goroutines | the inductive `IInv` (with `NoThrow`: no overflow, no second lock; no goroutine in two places), refinement of `RunQueues` |
| `sched` | 3 Ms, 3 Ps, 3 goroutines, sysmon | `IInv` (a P is in one place; `nmspinning`, `stopwait` and goroutines are exact), `NoThrow` (with: no false deadlock), `WorkConserved` |
| `netfd` | 3 goroutines (2 that read or write, 1 that sets deadlines; all close), 2 descriptors in turn, one direction (w), 2 sets of deadlines | `IInv` (reference counts; nobody works on a destroyed descriptor), `NoThrow`, `NoLostWakeup`, `OwnDeadlines` |
| `gc` | 2 Ps, one with a goroutine, a stack barrier, a span of 2 objects | `NoDangling`, `NoThrow`, `ScannedPointsToMarked`, the inductive `IInv` |

One run finds the code at odds with its documentation: `cond_broadcast`.  "Broadcast
wakes all goroutines waiting on c" (`sync/cond.go:76`), but a Wait that starts
after the count takes the release of an earlier one, which sleeps on.

The models also reach four states that comments in the code deny or do not
mention.  They are no runs of their own; each is a hazard in `PROJECT.json` with
a note, and the properties are stated so that they hold beside it:

* a new reader may take the permit meant for one that the previous Unlock woke,
  and read while the next Lock is blocked (`sync/rwmutex.go:73-75`); that
  writer still waits for the right number of readers;
* an Add that starts while the counter is positive but whose addition comes
  after the last Done panics (`sync/waitgroup.go:39-41`);
* a close between the two reads of a fast path makes a non-blocking send give
  up on a channel that was never "not ready" (`runtime/chan.go:133-136`);
* a select woken for one channel may take a value of another, and the next
  receiver of the first stays parked beside its value until a later operation
  (`runtime/select.go:434`); `NoLostWakeup` of `Chan` is therefore about
  channels that no blocking select shares with others.

`WorkConserved` names two steps after which a goroutine may wait beside an idle
P: a `handoffp` that relies on a spinning thread, which has just found work, or
on another idle P, and a `wakep` that counts a thread and then finds no idle P.
The goroutine then waits for the next scheduling step of the P that has it.  The
model remembers for good that such a step was made (`missed`); the property is
about the runs, and the beginnings of runs, without one.

### Bounds, and why they are enough

Three goroutines make every two-party race with a bystander; four or five are
used where a protocol has more roles (a writer, two waves of readers and the
next writer; two tasks, an adder and two waiters; a release, its waiter, a
barging acquire and a second address).  Goroutines call in a loop, so a run
covers sequences of any length; counters stay bounded because each goroutine
counts once.  The cuts are:

* `MaxPermits` (a word is not released above 2: one permit left over beside one
  taken), `MaxDelta` (tasks owed), `ActiveSpin` (1 instead of 4 rounds: a second
  round repeats the first);
* in `Chan`, capacity 1 makes full and empty adjacent and every wakeup decisive;
  channel a is for single operations, b and u for a select over a buffered and
  an unbuffered channel, and a and u may be closed;
* in `RunQueue`, a ring of 4 with counters modulo 8 wraps within a run (`Start`
  puts it just before), 7 goroutines fill the ring once over, and one P that
  creates work beside one that steals makes both victims of the other; `MaxG`
  ends a run, at which Ps go on looking for work;
* in `Sched`, the number of threads: the instance was also checked with 4 Ms and
  2 Ps;
* in `NetFD`, 2 descriptors (the pollDesc is reused once), 2 sets of deadlines
  (one replaces the other), one direction, and roles: g1 and g2 read or write, g3
  sets deadlines, each of them closes, so that one can hold the lock, one wait
  for it and one close.  What is specific to two directions is the common timer
  and the order of two unblocks, which were checked on an instance with both
  directions, one user and one set of deadlines.  The proof covers all numbers;
* in `GC`, one busy P, one that marks, sweeps and sends what the global points
  to, and two objects: one can hide the other.  `MaxBarriers` is 1: a stack has
  one segment that runs and one that does not.  The proof covers all numbers.

Symmetry of goroutines (`chan`, and g1 and g2 of `netfd`), of objects (`gc`) and
of Ms and Ps (`sched`) is used; these runs check safety only, for which it is sound.
`gc` also takes two states for one (`FullSpansAside`) that differ only in a full
span a P has cached while the collector marks: until the pause flushes the
caches all spans are swept and no slot is freed, so nothing can come of it.

Deadlock is checked for `mutex`, `rwmutex`, `waitgroup`, `runq`, `netfd` and
`gc`.  It is not where a program may legitimately stop: everybody acquires and
nobody releases (`sema`), everybody waits and nobody signals (`cond`), everybody
is parked (`chan`), all `Do` calls have returned (`once`), `checkdead` has ended
the program (`sched`).

## 4. Fairness

Five modules state fairness: `Mutex`, `SemaRoot`, `RWMutex`, `WaitGroup`, `Cond`.
It is weak fairness of the steps of a call that has nothing to wait for: the
scheduler runs every runnable goroutine (`runtime/proc1.go`: the global queue is
polled every 61st time, `sysmon` preempts).  Where goroutines compete for a
permit or a lock, fairness is of the competition as a whole (`\E g : ...`):
somebody gets it, not a chosen one, because neither semaphores nor runtime locks
are fair.  A holder is assumed to unlock, a task to end.  Nothing is assumed
about new calls; properties that need them to stop say so (`Quiet`).  For this
reason "every Lock returns" is claimed only once new calls stop: a steady
stream of lockers can starve a sleeper in this version of `sync.Mutex`.
`WriterGetsIn` needs no such condition: readers that keep coming are counted
off in front of the writer, and no promise is made about competing writers,
which wait for `w`.

The other modules are checked for safety, with lost wakeups stated as
invariants ("who sleeps has somebody on the way"), which need no fairness and
allow symmetry.

## 5. What is proved

Each proof has one step per action and one below it per conjunct that the action
disturbs.  Those of package `sync`, of the semaphores and of channels use the same
facts about counts and queues (`CommonTheorems`: how `Count` changes when one
goroutine moves, what a zero count means, how counts of disjoint sets of points
add up, what a queue without repetitions is with one element less or more).  Specifications that are proved about in one module have names of their own for
what all have (`MutexSpec`, `SemaSpec` beside the `Spec` of `RWMutex`).

`LockProofs`, for every finite set of goroutines and every spinning bound
(`MutexAssumption`): `MutexInvariant`, `MutexSafety`, `SleepersAreWoken`,
`MutexRefinement` of `AbstractLock`.  Exclusion is not inductive: it rests on the
word agreeing with the program counters.  `MutexInv` adds that `locked` is set exactly while someone
is inside, that the waiters field counts sleepers less the permits in flight,
that `woken` is owned by at most one goroutine (a permit, an `Unlock` about to
release one, or an awake locker), and that when none of these is there, a free
mutex with waiters has an `Unlock` or a locker about to look at the word.

`LockProofs` again, for every finite set of goroutines smaller than `MaxReaders`
(`RWMutexAssumption`): `Invariant`, `MutualExclusion`, `LegalUseNeverPanics`.
The bound is needed: with more readers than the bias the code does fail.
Exclusion rests on what the two counters mean at every point of the methods;
`ReadersLeft` says how the number a writer waits for is made of readers inside,
readers about to leave and the permit on its way.  `Numbers`, `Moves` and
`TheWriter` state the arithmetic once, `ReaderInv` and `WriterInv` handle the
steps of each side.

`LockProofs` a third time, for every finite set of goroutines, every set of
semaphores that share a root and every bound (`SemaAssumption`): `SemaInvariant`,
`PermitsAreLookedAfter` (no lost wakeup), `SemaRefinement` of `Semaphore`.  `SemaInv`
is inductive as the run checks it: lock, queue without repetitions, exact
`nwait`, and for each word "somebody parked implies no more permits than
goroutines that will still look".  `SearchOutcome` says what the critical
section of `semrelease` does, in terms of who is parked instead of positions in
the list.

`SyncProofs`, for all goroutines, sets of tasks and bounds
(`WaitGroupAssumption`): `WaitGroupInvariant`, `LegalUseNeverPanics`, `Barrier`.  That the
panic at the sanity test is out of reach is not inductive: it needs
`FinisherAlone` (from the addition that reaches zero with waiters until the
reset, nobody else is between its load and its swap with that word in hand, and
no task is owed) and `WordStaysZero`: from the reset to the last look at the word
of those that it woke, the counter is zero.  The barrier is that word read as
number of tasks.

`SyncProofs` again, for every finite set of callers (`OnceAssumption`): `OnceInvariant`
and `OnceCorrect` (`f` runs once; nobody returns before).  At most one goroutine
is inside the mutex, so `ran` is 1 with `done` unset exactly while that
goroutine is at `f` or about to store.

`SyncProofs` a third time, for every finite set of users (`CondAssumption`):
`CondInvariant`.  "The releases under way and the calls in `waiters` are
the calls of Wait that have not met a release" is inductive only with what the
queue of the synchronous semaphore looks like: acquires or releases, never both
(`QueueOfOneKind`), each sudog with the one goroutine that sleeps for it
(`QueueIsAsleep`), and releases no larger than the number of users
(`ReleasesBounded`), since a release is counted as a pair of the releasing
goroutine and a number.  `ReleaseCounted` is the loop of `syncsemrelease` that
takes acquires off the queue, `ReleaseQueued` what is left of a release that did
not find enough of them; `ReleasesMore`, `ReleasesGrow`, `ReleasesShrink` and
`WaitsEnd` are the changes of the two sides of the sum.

`ChanProofs`, for every finite set of goroutines, every set of channels with any
capacities, and every set of operations with finitely many cases
(`ChanAssumption`): `Invariant`, `NobodyMissed` (`NoMatchAsleep`), `NoWakeupLost`
(`NoLostWakeup`), `Refinement` of `Channels`.  That nothing throws and that no
goroutine is readied twice is inductive with four agreements: `PointsAgree` (what
a goroutine has by where it is), `QueuesAreSleepers` (a queue of sudogs, less the
claimed selects in it, is those that sleep on that case), `ClaimedOnce` (who is
claimed is in exactly one hand) and `OutcomesFit` (what it is handed is an outcome
of one of its cases, or nothing if it may start over).  `AttemptIs` says once, for
all of `chansend`, `chanrecv` and `selectgo`, what a pass over the cases comes to
in those terms, in place of positions in queues; everything after it is about the
ways such a pass ends.  `NobodyMissed` follows from the invariant and from one
fact: who parks has looked at all its cases and found nobody.  `NoWakeupLost`
counts: `EnoughNext` and `AttemptEnough` compare what one step does to the values
or free slots of a channel with what it does to the goroutines on their way to
it.  In the refinement the outcome of a waiter is what the goroutine that has
claimed it holds for it (`outcome`), so an operation of two takes effect at the
claim; `SeenClaimed` shows that a claim gives outcomes to these two only, and
`DeliverRefines` that the delivery is invisible.

`RunQueueProofs`, for every finite set of Ps, rings of any even size, any modulus
that is a multiple of it and at least twice as large, any starting value of the
counters and any number of goroutines (`RunQueueAssumption`): `Invariant`,
`NothingThrows` (`NoThrow`), `Refinement` (of `RunQueues`).  That a ring never holds more than its size is
inductive only with what everybody has read: `HeadsAreOld` says that a head in a
local variable is one that the victim had, that the tail has not come round to it,
and that what a thief counted behind it fits its own ring, which is empty
(`PointsAgree`); `LockKept` that who puts goroutines under `sched.lock` has
room for them; `SlotsFilled` that each slot from head to tail, and each a thief has
claimed, holds a goroutine, and that a thief's copies are right as long as the
head it read is the head.  `DistIs`, `PlusIs` and `SlotIs` turn the remainders into
comparisons (`ModIs`: quotient and remainder are unique), `HeadSteps` and
`TailSteps` say what moves of the counters do to all distances.  `OthersStay` and
`OthersFollow` show once that a step of one P leaves the others what they know: it
changes its own ring only where it has no goroutine, or moves a head, and then
those that read the old one will find that they came too late.  For the
refinement the invariant also says that no goroutine is in two of the places
(`Alone`) or twice in one (`Lined`, `HandsApart`), and that only those that have
become runnable are anywhere (`Numbered`).  `Exchange` shows this once for a step
that moves goroutines between two places; each action of `RunQueues` has a lemma
that a step with its effect on `Queue` and `Hand` is that action (`TakeMaps`,
`PutMaps`, ...); and each step of the rings is shown to have such an effect
(`GrabWonRefines`: the thief whose compare-and-swap succeeds has in its copies what
was the front of the victim's queue; `CommitRefines`: they join its own queue but
for the last), or none, as a thief's copies before it claims them.

`GCProofs`, for all Ps, objects, spans and barriers of a stack (`GCAssumption`):
`Invariant`, `MemorySafety` (`NoDangling`), `BarrierPromise`, `ChecksHold`
(`NoThrow`).  `IInv` ties mark bits, grey objects and pointers in hand to the
phases (`MarkInv`), sweep generations to sweepers and caches (`SweepInv`), stack
barriers to the time from a stack's scan to its turn in the pause (`StackInv`),
scanned stacks to marked objects (`RootInv`), and says that nothing reachable is
free or condemned (`ReachInv`).  Two steps carry the argument.  In the pause a
stack that ran is scanned only below the lowest barrier that was not hit:
`RootInv` has kept since its scan that an older segment points to objects that
are marked or, until the world has stopped, in the hand of a P that will mark
them, so the whole stack points to marked objects (`MarkRootMarksStack`).  It is
kept because the steps that move pointers without a barrier add nothing to older
segments (`MoveFacts`), and because those that write there have the pointer at
hand (`WriteFacts`, `RootWrite`).  And at the end of the mark nothing is grey, all
roots are scanned, and `ScannedPointsToMarked` makes the unmarked objects
unreachable at the moment they become condemned.

`NetFDProofs`, for every finite set of goroutines, any assignment of roles, every
number of descriptors and every set of times (`NetFDAssumption`): `Invariant`,
`NothingThrows`, `WakeupsAreKept`, `TimersKeepToTheirDeadlines`.  The throws and
the lost wakeups follow from what several words say together, so `IInv` has one
conjunct per agreement.  `RefsInv`: references, locks and waiters in the word of
an fdMutex are the numbers of goroutines at the points that hold or await them,
in spite of barging and of a Close that counts all waiters out at once.
`OwnerInv` and `CloseInv`: who holds a reference finds the pollDesc to be still
that of its descriptor, and a closed descriptor has been evicted or one call is
about to evict it.  `WordInv` and `WakeInv`: what `rg` and `wg` say, and that who
has looked in vain will be told of what has come since, by the kernel, by the
poller or by the holder of `pd.lock`.  `TimerInv`: a timer of the present `seq`,
armed or taken off the heap, is for a deadline that is set.  Lemma `Alone` is
where the two files meet: the lock of a direction, with the exact counts, makes
one goroutine per direction the only one to work with a word, which is what
`netpollblock` throws without.  `Counts`, `MoveFrame`, `EnterFrame` and
`LeaveFrame` do the arithmetic of all steps of the fdMutex once.

`SchedProofs`, for any finite numbers of threads, Ps (one at least: `procresize`
throws otherwise) and goroutines (`SchedAssumption`): `Invariant`,
`NothingThrows`, `WorkIsConserved`.  What the runtime checks is not inductive:
that `checkdead` is right in a thread that parks rests on the places of all Ps,
on the number of goroutines in hands and queues, and on the queues of idle Ps
being empty, all at once.  `PointInv` says what a thread has by where it is,
`LinkInv` and `HeldInv` that a P is with one M, left in a system call, stopped,
idle, or in exactly one hand; `StopInv` that `stopwait` is the number of Ps that
have still to stop; `QueueInv` which queues are empty; `SpinnersInv` and
`GoroutinesInv` that `nmspinning` and the goroutines are exact; `WorkInv` that
while a P is idle, a queue with work has a spinning thread or one that will look
at it.  `AllParked` is the step to `checkdead`: with all threads parked and
sysmon not pretending to run, every P is idle, every queue empty, and every
goroutine waiting.  Each conjunct has lemmas for the kinds of step there are: one
that moves no P (`Shift`, `Quiet`, `Moves`), one that gives a P up (`ReleaseInv`),
takes one (`AcquireInv`), or hands one to another thread (`GiveInv`), the
stop and the start of the world.  Numbers of places in queues and of threads
are cardinalities (`PlacesMove`, `SetMove`).

Only model-checked: everything about liveness, which the proof system does not
cover.

## 6. Not modelled

* Most of the repository's 389,000 lines: the compiler, linker, assembler and
  other commands, generated tables, and sequential libraries (formats,
  encodings, arithmetic, text).  They have no interleavings, and unit tests and
  the Go test suite reach them better than an explicit-state checker.  The
  share of lines that the models cover is small for that reason; within
  `runtime`, `sync` and `net` they cover the protocols, not the code around them.
* The memory model below sequential consistency: on amd64 the operations used
  here are sequentially consistent, plain reads of shared words excepted only
  where the code holds the lock.
* Race-detector hooks, profiling (`releasetime`), tracing, copying of stacks:
  they do not change the protocols.
* Overflow of counters (2^30 readers, 2^29 waiters, 2^20 references of an
  fdMutex): the code panics or does not handle it.
* `sync.Locker` values other than a Mutex; copies of a used Mutex or Cond
  (`copyChecker`); misuse that throws at once (unlock of an unlocked mutex).
* Channels: nil channels, which only block for ever, and the heap sort that puts
  the locks of a select in order; the models hold all locks at once.
* `Sched`: Ms locked to a goroutine, the poller's place in `findrunnable`, helpers
  of the collector, changes of GOMAXPROCS, preemption requests, `newproc` and
  `goexit`.  Reads of the other Ps' queues (`runqempty`) are single reads, as
  lengths are single words here.
* `NetFD`: an open that fails in `netpollopen` (`runtime/netpoll.go:107`,
  `net/fd_poll_runtime.go:36-38`: the descriptor is left without a pollDesc, and
  its caller closes it); every `Open` of the model succeeds.  That a Close returns is not a temporal property; that nobody it
  must wake sleeps on, and that reference counts are exact, are invariants.
* The collector: work buffers and how idle workers agree that there is nothing
  left (`work.nwait`, `getfull`), pacing, bitmaps, finalizers, large objects,
  proportional sweeping; how `bgsweep` parks and is woken (it may sweep whenever
  the world runs); goroutines that start or end, and more goroutines than Ps,
  but for those that come by to send.
* Stack barriers: only those that were not hit are represented, so neither
  `stkbarPos` as a number nor the throw "stack barrier lost" is.  Frames of one
  segment are not told apart: writes among them need no barrier in the model,
  which only allows more.  Frames of deferred calls, stacks that are copied
  while they have barriers (`adjuststkbar`), and partial copies by package
  `reflect` into a caller's frame (`typedmemmovepartial`, `runtime/mbarrier.go:196-206`,
  returns without unwinding where the target is not in the heap) are left out.
* Below and beside: futex locks and notes, `timerproc` and its heap, the signal
  queue, the lock-free stack, `parfor`, the memory allocator apart from span
  caches, `sync.Pool`.  The first four are small protocols of one sleeper
  each, taken as atomic by the models above them.
* Users of the core: `io.Pipe`, `database/sql`, `net/http`, `net/rpc`,
  `singleflight`.

## 7. Remaining work

1. `FutexLock` (lock and note over futexes) under `AbstractLock`, and the lock
   order of select.
2. `Timers` (no timer earlier than the sleep of `timerproc`) and `SigQueue`.
3. `Sched` with the poller as a source of work and with threads locked to a
   goroutine; `RunQueue` inside it on a very small instance.
4. Termination of the concurrent mark, with work buffers.
5. Clients: `io.Pipe` over `Cond`, the pool of `database/sql`.
