---------------------------------- MODULE GC ----------------------------------
(***************************************************************************)
(* One collection after another (runtime/mgc.go, mgcmark.go, mbarrier.go,  *)
(* mgcsweep.go, and the span caches of mcache.go and mcentral.go that the  *)
(* allocator feeds from): goroutines read, write and allocate while the    *)
(* collector marks concurrently behind a write barrier, stops the world to *)
(* finish, and leaves the sweeping to whoever comes by.                    *)
(*                                                                         *)
(* A busy P runs one goroutine, and turns to marking or sweeping when the   *)
(* code does: at an allocation or in the scheduler.  The coordinator, gc(),*)
(* is an actor of its own; gcphase, gcBlackenEnabled, gcBlackenPromptly and*)
(* the stopping of the world are written by nobody else, so they follow    *)
(* from the point it has reached.  An object has one pointer.              *)
(*                                                                         *)
(* A stack is seen as the collector sees it: it is one set of pointers but *)
(* for the stack barriers that the concurrent scan puts over some returns. *)
(* Those not hit yet cut it into segments.  Only the frames of the youngest*)
(* segment have run since the scan, and only these are scanned again.      *)
(*                                                                         *)
(* How workers find out that no work is left is left out: the concurrent   *)
(* mark may end at any time, for the pause that follows does not rely on   *)
(* it, and the drain of the pause ends when nothing is grey.  So is the    *)
(* parking of bgsweep: it may sweep whenever the world is not stopped.     *)
(***************************************************************************)
EXTENDS Naturals, FiniteSets

CONSTANTS
  Procs,       \* the Ps, each with its gcWork and its mcache
  Busy,        \* those that have a goroutine to run; the others are idle but
               \* for goroutines that come by to send what a global points to
  Objects,     \* the slots of the heap
  Spans,       \* the spans: a partition of the slots
  Null,        \* the nil pointer
  Data,        \* the global variables: a root of one pointer
  MaxBarriers  \* the bound of the model on the barriers of a stack

NoSpan == {}
Slots == Objects \cup {Data}
Pointer == Objects \cup {Null}

\* The segments of a stack, the oldest first; a barrier ends each but the youngest.
Segments == 1..(MaxBarriers + 1)

\* The actors that sweep spans: Ps, bgsweep and the coordinator.
Sweepers == Procs \cup {"bgsweep", "gc"}

\* A job of markroot: the globals, the mcaches, or the stack of a P's goroutine.
Roots == Busy \cup {"data"}
TerminationRoots == Roots \cup {"caches"}

ASSUME GCAssumption ==
  /\ Busy \subseteq Procs
  /\ Procs \cap {"bgsweep", "gc", "data", "caches"} = {}
  /\ Null \notin Objects /\ Data \notin Objects /\ Null # Data
  /\ \A s \in Spans : s \subseteq Objects /\ s # {}
  /\ \A s, t \in Spans : s = t \/ s \cap t = {}
  /\ UNION Spans = Objects
  /\ MaxBarriers \in Nat

VARIABLES
  ptr,      \* what each object, and the globals, point to
  stack,    \* the objects the segments of each goroutine's stack point to
  top,      \* its youngest segment, the one that runs
  free,     \* the slots on the free lists of their spans
  marked,   \* the mark bits
  pc,       \* what each P does
  hand,     \* the pointer a P is about to grey
  gcw,      \* the work buffer cached on each P
  full,     \* the objects in the buffers of work.full
  valid,    \* gp.gcscanvalid: not run since its stack was scanned
  gc,       \* how far gc() is
  mode,     \* its mode
  todo,     \* the root jobs that are left
  lag,      \* mheap_.sweepgen - span.sweepgen
  span,     \* the span each sweeper has claimed
  cache     \* the span each P allocates from

heapvars  == <<ptr, stack, top, free>>
markvars  == <<marked, hand, gcw, full>>
sweepvars == <<lag, span, cache>>
gcvars    == <<gc, mode, todo, valid>>
vars == <<ptr, stack, top, free, marked, pc, hand, gcw, full, valid, gc, mode, todo,
          lag, span, cache>>

\* The points of the coordinator, in order.
OffPoints == {"idle", "sweepterm", "stop1"}
GCPoints  == OffPoints \cup {"reset", "scan", "mark1", "mark2", "stop2", "termination"}

writeBarrierEnabled == gc \notin OffPoints
gcBlackenEnabled    == gc \in {"reset", "scan", "mark1", "mark2", "stop2"}
gcBlackenPromptly   == gc \in {"mark2", "stop2"}
gcwaiting           == gc \in {"stop1", "stop2", "termination"}

\* The points of a P: the goroutine runs, its write barrier is under way, it
\* sweeps; or it marks: as a worker, in an assist, as a helper of the pause.
Mutating == {"run", "shade", "shadeput", "sweep", "refill"}
Marking  == {"mark", "test", "put"}
Points   == Mutating \cup Marking

TypeOK ==
  /\ ptr \in [Slots -> Pointer]
  /\ stack \in [Busy -> [Segments -> SUBSET Objects]] /\ top \in [Busy -> Segments]
  /\ free \in SUBSET Objects /\ marked \in SUBSET Objects
  /\ pc \in [Procs -> Points]
  /\ hand \in [Procs -> Pointer]
  /\ gcw \in [Procs -> SUBSET Objects] /\ full \in SUBSET Objects
  /\ valid \in [Busy -> BOOLEAN]
  /\ gc \in GCPoints /\ mode \in {"background", "force", "forceblock"}
  /\ todo \in SUBSET TerminationRoots
  /\ lag \in [Spans -> Nat]
  /\ span \in [Sweepers -> Spans \cup {NoSpan}]
  /\ cache \in [Procs -> Spans \cup {NoSpan}]

\* No object is in use, no collection has run.
Init ==
  /\ ptr = [s \in Slots |-> Null]
  /\ stack = [p \in Busy |-> [i \in Segments |-> {}]] /\ top = [p \in Busy |-> 1]
  /\ free = Objects /\ marked = {}
  /\ pc = [p \in Procs |-> "run"]
  /\ hand = [p \in Procs |-> Null]
  /\ gcw = [p \in Procs |-> {}] /\ full = {}
  /\ valid = [p \in Busy |-> FALSE]
  /\ gc = "idle" /\ mode = "background" /\ todo = {}
  /\ lag = [s \in Spans |-> 0]
  /\ span = [a \in Sweepers |-> NoSpan]
  /\ cache = [p \in Procs |-> NoSpan]

\* The grey objects: marked, and in some buffer to be scanned.
GreyObjects == {o \in Objects : o \in full \/ \E p \in Procs : o \in gcw[p]}

Goto(p, point) == pc' = [pc EXCEPT ![p] = point]

\* A P that stops for the collector does so where its goroutine runs.
CanRun(p) == pc[p] = "run" /\ ~gcwaiting
-----------------------------------------------------------------------------
(* The goroutines *)

\* Faulty variant: what runs keeps gcscanvalid.
RunsUnnoticed(p) == UNCHANGED valid

\* What runs loses gcscanvalid (casgstatus).
Runs(p) == valid' = [q \in Busy |-> valid[q] /\ q # p]

\* What a goroutine can lay hands on: the pointers on its stack, those of all its
\* frames, for pointers to their variables are passed down the calls.
Known(p) == {o \in Objects : p \in Busy /\ \E i \in Segments : o \in stack[p][i]}

\* Segment i of p's stack comes to point to the objects S.
SetSegment(p, i, S) == stack' = [stack EXCEPT ![p][i] = S]

\* The goroutine copies a pointer from its stack, an object or a global to the
\* frames that run; no barrier.
Load(p) ==
  /\ CanRun(p)
  /\ \E x \in Known(p) \cup {ptr[s] : s \in Known(p) \cup {Data}} :
       x # Null /\ SetSegment(p, top[p], stack[p][top[p]] \cup {x})
  /\ Runs(p)
  /\ UNCHANGED <<ptr, top, free, pc, gc, mode, todo>>
  /\ UNCHANGED markvars /\ UNCHANGED sweepvars

\* It forgets a pointer, in whatever frame: a nil needs no barrier.
Drop(p) ==
  /\ CanRun(p)
  /\ \E i \in Segments : \E o \in stack[p][i] : SetSegment(p, i, stack[p][i] \ {o})
  /\ Runs(p)
  /\ UNCHANGED <<ptr, top, free, pc, gc, mode, todo>>
  /\ UNCHANGED markvars /\ UNCHANGED sweepvars

\* The barriers from segment i on are no more: segment i is the youngest, and points
\* to S (gcUnwindBarriers, gcRemoveStackBarriers).
RemoveBarriers(p, i, S) ==
  /\ stack' = [stack EXCEPT ![p] =
                 [j \in Segments |-> IF j < i THEN @[j] ELSE IF j = i THEN S ELSE {}]]
  /\ top' = [top EXCEPT ![p] = i]

\* A return that hits a barrier goes by way of stackBarrier, which counts it; the
\* results X stay behind in the caller's frame.
Return(p) ==
  /\ CanRun(p) /\ top[p] > 1
  /\ \E X \in SUBSET stack[p][top[p]] :
       RemoveBarriers(p, top[p] - 1, stack[p][top[p] - 1] \cup X)
  /\ Runs(p)
  /\ UNCHANGED <<ptr, free, pc, gc, mode, todo>>
  /\ UNCHANGED markvars /\ UNCHANGED sweepvars

\* recovery: a panic is over in the frame that deferred, and younger frames and the
\* barriers over their returns are gone.
Recover(p) ==
  /\ CanRun(p)
  /\ \E i \in Segments : i < top[p] /\ RemoveBarriers(p, i, stack[p][i])
  /\ Runs(p)
  /\ UNCHANGED <<ptr, free, pc, gc, mode, todo>>
  /\ UNCHANGED markvars /\ UNCHANGED sweepvars

\* The write barrier, if it is on, once x has been stored; a nil needs none.
\* Nothing can stop the P in between.
WriteBarrier(p, x) ==
  IF writeBarrierEnabled /\ x # Null
  THEN hand' = [hand EXCEPT ![p] = x] /\ Goto(p, "shade")
  ELSE UNCHANGED <<hand, pc>>

\* Faulty variant: the store of a pointer without its barrier.
StoreWithoutBarrier(p) ==
  /\ CanRun(p)
  /\ \E s \in Known(p) \cup {Data}, x \in Known(p) \cup {Null} :
       ptr' = [ptr EXCEPT ![s] = x]
  /\ Runs(p)
  /\ UNCHANGED <<stack, top, free, marked, pc, hand, gcw, full, gc, mode, todo>>
  /\ UNCHANGED sweepvars

\* writebarrierptr, on an object or a global.
Store(p) ==
  /\ CanRun(p)
  /\ \E s \in Known(p) \cup {Data}, x \in Known(p) \cup {Null} :
       ptr' = [ptr EXCEPT ![s] = x] /\ WriteBarrier(p, x)
  /\ Runs(p)
  /\ UNCHANGED <<stack, top, free, marked, gcw, full, gc, mode, todo>>
  /\ UNCHANGED sweepvars

\* Faulty variant: no barrier for what is not in the heap.
StoreUpWithoutBarrier(p) ==
  /\ CanRun(p)
  /\ \E i \in Segments, x \in Known(p) :
       i < top[p] /\ SetSegment(p, i, stack[p][i] \cup {x})
  /\ Runs(p)
  /\ UNCHANGED <<ptr, top, free, marked, pc, hand, gcw, full, gc, mode, todo>>
  /\ UNCHANGED sweepvars

\* writebarrierptr, on a variable of an older frame: the compiler takes it for one
\* that may be in the heap.
StoreUp(p) ==
  /\ CanRun(p)
  /\ \E i \in Segments, x \in Known(p) :
       i < top[p] /\ SetSegment(p, i, stack[p][i] \cup {x}) /\ WriteBarrier(p, x)
  /\ Runs(p)
  /\ UNCHANGED <<ptr, top, free, marked, gcw, full, gc, mode, todo>>
  /\ UNCHANGED sweepvars

\* typedmemmove to an older frame: heapBitsBulkBarrier shades nothing there but
\* unwinds the barriers, for the pause to scan that frame again.
CopyUp(p) ==
  /\ CanRun(p)
  /\ \E i \in Segments, x \in Known(p) :
       i < top[p] /\ RemoveBarriers(p, i, {x} \cup UNION {stack[p][j] : j \in i..top[p]})
  /\ Runs(p)
  /\ UNCHANGED <<ptr, free, pc, gc, mode, todo>>
  /\ UNCHANGED markvars /\ UNCHANGED sweepvars

\* syncsend: a pointer is written to any frame of another goroutine, which waits to
\* receive: it keeps its gcscanvalid, and the write barrier has to make up for that.
Send(p) ==
  /\ CanRun(p)
  /\ \E r \in Busy \ {p}, i \in Segments, x \in Known(p) \cup {ptr[Data]} :
       /\ pc[r] = "run" /\ i <= top[r] /\ x # Null
       /\ SetSegment(r, i, stack[r][i] \cup {x})
       /\ WriteBarrier(p, x)
  /\ Runs(p)
  /\ UNCHANGED <<ptr, top, free, marked, gcw, full, gc, mode, todo>>
  /\ UNCHANGED sweepvars

\* A new object is black once the collector blackens promptly.
MarkNew(o) == IF gcBlackenPromptly THEN marked \cup {o} ELSE marked

\* mallocgc: a free slot of the cached span, zeroed, and possibly an assist.
Alloc(p) ==
  /\ CanRun(p)
  /\ \E o \in cache[p] \cap free :
       /\ free' = free \ {o}
       /\ ptr' = [ptr EXCEPT ![o] = Null]
       /\ SetSegment(p, top[p], stack[p][top[p]] \cup {o})
       /\ marked' = MarkNew(o)
  /\ UNCHANGED pc \/ (gcBlackenEnabled /\ Goto(p, "mark"))
  /\ Runs(p)
  /\ UNCHANGED <<top, hand, gcw, full, gc, mode, todo>>
  /\ UNCHANGED sweepvars

\* The pointer at hand is grey or black already, or it is to be marked
\* (isMarked, setMarked: another P may mark it in between).
TestMark(p) ==
  /\ pc[p] \in {"shade", "test"}
  /\ IF hand[p] \in marked
     THEN /\ hand' = [hand EXCEPT ![p] = Null]
          /\ Goto(p, IF pc[p] = "shade" THEN "run" ELSE "mark")
     ELSE /\ Goto(p, IF pc[p] = "shade" THEN "shadeput" ELSE "put")
          /\ UNCHANGED hand
  /\ UNCHANGED <<marked, gcw, full>>
  /\ UNCHANGED heapvars /\ UNCHANGED gcvars /\ UNCHANGED sweepvars

\* It is marked and queued.  The buffer goes to work.full when that fills it,
\* and from a write barrier at once when caching is over.
Grey(p) ==
  /\ pc[p] \in {"shadeput", "put"}
  /\ marked' = marked \cup {hand[p]}
  /\ \/ /\ full' = full \cup gcw[p] \cup {hand[p]}
        /\ gcw' = [gcw EXCEPT ![p] = {}]
     \/ /\ ~(pc[p] = "shadeput" /\ gcBlackenPromptly)
        /\ gcw' = [gcw EXCEPT ![p] = @ \cup {hand[p]}]
        /\ UNCHANGED full
  /\ hand' = [hand EXCEPT ![p] = Null]
  /\ Goto(p, IF pc[p] = "shadeput" THEN "run" ELSE "mark")
  /\ UNCHANGED heapvars /\ UNCHANGED gcvars /\ UNCHANGED sweepvars
-----------------------------------------------------------------------------
(* Marking *)

\* A worker starts, and stops, when the scheduler wants it (findRunnableGCWorker,
\* gcDrainUntilPreempt); an assist has marked enough or found nothing to do.
StartWorker(p) ==
  /\ CanRun(p) /\ gcBlackenEnabled
  /\ Goto(p, "mark")
  /\ UNCHANGED heapvars /\ UNCHANGED markvars /\ UNCHANGED gcvars /\ UNCHANGED sweepvars

StopWorker(p) ==
  /\ pc[p] = "mark" /\ gc # "termination"
  /\ Goto(p, "run")
  /\ UNCHANGED heapvars /\ UNCHANGED markvars /\ UNCHANGED gcvars /\ UNCHANGED sweepvars

\* One object is taken from the buffer and its pointer read (scanobject).
Scan(p) ==
  /\ pc[p] = "mark"
  /\ \E b \in gcw[p] :
       /\ hand' = [hand EXCEPT ![p] = ptr[b]]
       /\ Goto(p, IF ptr[b] = Null THEN "mark" ELSE "test")
       /\ gcw' = [gcw EXCEPT ![p] = @ \ {b}]
  /\ UNCHANGED <<marked, full>>
  /\ UNCHANGED heapvars /\ UNCHANGED gcvars /\ UNCHANGED sweepvars

\* An empty gcWork takes a buffer: some of the objects of work.full.
GetFull(p) ==
  /\ pc[p] = "mark" /\ gcw[p] = {}
  /\ \E B \in SUBSET full :
       /\ B # {}
       /\ gcw' = [gcw EXCEPT ![p] = B]
       /\ full' = full \ B
  /\ UNCHANGED <<marked, hand, pc>>
  /\ UNCHANGED heapvars /\ UNCHANGED gcvars /\ UNCHANGED sweepvars

\* A P gives its buffer away: while it marks (balance), and, once caching is
\* over, when it stops and at the safe point of forEachP.
Dispose(p) ==
  /\ pc[p] = "mark" \/ (pc[p] = "run" /\ gcBlackenPromptly)
  /\ gcw[p] # {}
  /\ full' = full \cup gcw[p]
  /\ gcw' = [gcw EXCEPT ![p] = {}]
  /\ UNCHANGED <<marked, hand, pc>>
  /\ UNCHANGED heapvars /\ UNCHANGED gcvars /\ UNCHANGED sweepvars
-----------------------------------------------------------------------------
(* Sweeping, and the caches of spans *)

InCache(s) == \E p \in Procs : cache[p] = s

SpansOf(n) == {s \in Spans : lag[s] = n}

\* mSpan_Sweep for the slots S: what is not marked is free, and the marks are
\* cleared for the next cycle.
Reclaim(S) ==
  /\ free' = free \cup (S \ marked)
  /\ ptr' = [s \in Slots |-> IF s \in S \ marked THEN Null ELSE ptr[s]]
  /\ marked' = marked \ S

\* Faulty variant: a span that is being swept can be claimed.
ClaimUnchecked(a, s) ==
  /\ lag[s] # 0
  /\ lag' = [lag EXCEPT ![s] = 1]
  /\ span' = [span EXCEPT ![a] = s]

\* The compare-and-swap of a span's sweepgen.
Claim(a, s) ==
  /\ lag[s] = 2
  /\ lag' = [lag EXCEPT ![s] = 1]
  /\ span' = [span EXCEPT ![a] = s]

\* The sweep of the claimed span, which ends with its sweepgen.
SweepClaimed(a) ==
  /\ Reclaim(span[a])
  /\ lag' = [lag EXCEPT ![span[a]] = 0]
  /\ span' = [span EXCEPT ![a] = NoSpan]

\* A goroutine sweeps in proportion to what it allocates (deductSweepCredit).
SweepOne(p) ==
  /\ CanRun(p)
  /\ \E s \in Spans : Claim(p, s)
  /\ Goto(p, "sweep")
  /\ UNCHANGED cache
  /\ UNCHANGED heapvars /\ UNCHANGED markvars /\ UNCHANGED gcvars

\* mCache_Refill: the cached span is full and is given up.
NeedsSpan(p) == CanRun(p) /\ cache[p] \cap free = {}

\* mCentral_CacheSpan takes a swept span with free slots,
Refill(p) ==
  /\ NeedsSpan(p)
  /\ \E s \in SpansOf(0) :
       /\ ~InCache(s) /\ s \cap free # {}
       /\ cache' = [cache EXCEPT ![p] = s]
  /\ UNCHANGED <<pc, lag, span>>
  /\ UNCHANGED heapvars /\ UNCHANGED markvars /\ UNCHANGED gcvars

\* or one it sweeps first.
RefillClaim(p) ==
  /\ NeedsSpan(p)
  /\ \E s \in Spans : Claim(p, s)
  /\ cache' = [cache EXCEPT ![p] = NoSpan]
  /\ Goto(p, "refill")
  /\ UNCHANGED heapvars /\ UNCHANGED markvars /\ UNCHANGED gcvars

FinishSweepOne(p) ==
  /\ pc[p] \in {"sweep", "refill"}
  /\ SweepClaimed(p)
  /\ IF pc[p] = "refill" /\ span[p] \cap free' # {}
     THEN cache' = [cache EXCEPT ![p] = span[p]]
     ELSE UNCHANGED cache
  /\ Goto(p, "run")
  /\ UNCHANGED <<stack, top, hand, gcw, full>>
  /\ UNCHANGED gcvars

\* The background sweeper takes span after span.
BgSweepClaim ==
  /\ span["bgsweep"] = NoSpan /\ ~gcwaiting
  /\ \E s \in Spans : Claim("bgsweep", s)
  /\ UNCHANGED <<cache, pc>>
  /\ UNCHANGED heapvars /\ UNCHANGED markvars /\ UNCHANGED gcvars

BgSweep ==
  /\ span["bgsweep"] # NoSpan
  /\ SweepClaimed("bgsweep")
  /\ UNCHANGED <<stack, top, pc, hand, gcw, full, cache>>
  /\ UNCHANGED gcvars

-----------------------------------------------------------------------------
(* The coordinator *)

\* gc() begins, in the background or forced, by sweeping what is left.
StartCycle ==
  /\ gc = "idle"
  /\ gc' = "sweepterm"
  /\ mode' \in {"background", "force", "forceblock"}
  /\ UNCHANGED <<todo, valid, pc>>
  /\ UNCHANGED heapvars /\ UNCHANGED markvars /\ UNCHANGED sweepvars

SweepTermClaim ==
  /\ gc = "sweepterm" /\ span["gc"] = NoSpan
  /\ IF SpansOf(2) # {}
     THEN (\E s \in Spans : Claim("gc", s)) /\ UNCHANGED gc
     ELSE gc' = "stop1" /\ UNCHANGED <<lag, span>>
  /\ UNCHANGED <<cache, pc, mode, todo, valid>>
  /\ UNCHANGED heapvars /\ UNCHANGED markvars

SweepTerm ==
  /\ span["gc"] # NoSpan
  /\ SweepClaimed("gc")
  /\ UNCHANGED <<stack, top, pc, hand, gcw, full, cache>>
  /\ UNCHANGED gcvars

\* Every P has stopped at a safe point, and nobody is within a sweep.
WorldStopped ==
  /\ \A p \in Procs : pc[p] = "run"
  /\ span["bgsweep"] = NoSpan

\* finishsweep_m: whatever was not swept is.
FinishSweep ==
  /\ Reclaim(UNION (Spans \ SpansOf(0)))
  /\ lag' = [s \in Spans |-> 0]

\* gcMark begins: nothing is cached, all Ps mark, all roots are jobs.
StartTermination ==
  /\ gc' = "termination"
  /\ full' = GreyObjects
  /\ gcw' = [p \in Procs |-> {}]
  /\ todo' = TerminationRoots
  /\ pc' = [p \in Procs |-> "mark"]

\* The first pause of a concurrent cycle: the barrier goes on, the world on.
StartScan ==
  /\ gc = "stop1" /\ WorldStopped /\ mode = "background"
  /\ FinishSweep
  /\ gc' = "reset"
  /\ UNCHANGED <<stack, top, pc, hand, gcw, full, valid, mode, todo, span, cache>>

\* A forced collection does all its marking in the pause.
StartForced ==
  /\ gc = "stop1" /\ WorldStopped /\ mode # "background"
  /\ FinishSweep
  /\ valid' = [p \in Busy |-> FALSE]      \* gcResetGState
  /\ StartTermination
  /\ UNCHANGED <<stack, top, hand, mode, span, cache>>

\* gcscan_m: no stack has been scanned,
ResetStacks ==
  /\ gc = "reset"
  /\ valid' = [p \in Busy |-> FALSE]
  /\ todo' = Roots
  /\ gc' = "scan"
  /\ UNCHANGED <<mode, pc>>
  /\ UNCHANGED heapvars /\ UNCHANGED markvars /\ UNCHANGED sweepvars

\* What the globals or a stack point to and is not marked yet.
Unmarked(S) == (S \ {Null}) \ marked

\* one root after the other is; a goroutine is scanned where it stopped, into the
\* gcWork of the P that does it, and gets barriers over some returns, which the sizes
\* of its frames decide: they cut the stack into n segments that point to S,
ScanStack(r, p) ==
  /\ gc = "scan" /\ r \in todo /\ r \in Busy /\ pc[r] = "run" /\ pc[p] = "run"
  /\ marked' = marked \cup Known(r)
  /\ gcw' = [gcw EXCEPT ![p] = @ \cup Unmarked(Known(r))]
  /\ \E n \in Segments, S \in [Segments -> SUBSET Known(r)] :
       /\ UNION {S[i] : i \in 1..n} = Known(r)
       /\ \A i \in Segments : i > n => S[i] = {}
       /\ stack' = [stack EXCEPT ![r] = S] /\ top' = [top EXCEPT ![r] = n]
  /\ valid' = [valid EXCEPT ![r] = TRUE]
  /\ todo' = todo \ {r}
  /\ UNCHANGED <<ptr, free, hand, full, gc, mode, pc>>
  /\ UNCHANGED sweepvars

\* and the globals into a gcWork of the job's own.
MarkData ==
  /\ marked' = marked \cup ({ptr[Data]} \ {Null})
  /\ full' = full \cup Unmarked({ptr[Data]})

ScanData ==
  /\ gc = "scan" /\ "data" \in todo
  /\ MarkData
  /\ todo' = todo \ {"data"}
  /\ UNCHANGED <<hand, gcw, gc, mode, valid, pc>>
  /\ UNCHANGED heapvars /\ UNCHANGED sweepvars

\* The scan is over and the mark goes on; then the globals are scanned again
\* and workers may cache no more; then the world stops.
EndScan ==
  /\ gc = "scan" /\ todo = {}
  /\ gc' = "mark1"
  /\ UNCHANGED <<mode, todo, valid, pc>>
  /\ UNCHANGED heapvars /\ UNCHANGED markvars /\ UNCHANGED sweepvars

Rescan ==
  /\ gc = "mark1"
  /\ MarkData
  /\ gc' = "mark2"
  /\ UNCHANGED <<hand, gcw, mode, todo, valid, pc>>
  /\ UNCHANGED heapvars /\ UNCHANGED sweepvars

EndMark ==
  /\ gc = "mark2"
  /\ gc' = "stop2"
  /\ UNCHANGED <<mode, todo, valid, pc>>
  /\ UNCHANGED heapvars /\ UNCHANGED markvars /\ UNCHANGED sweepvars

\* The second pause.
StopForTermination ==
  /\ gc = "stop2" /\ WorldStopped
  /\ StartTermination
  /\ UNCHANGED <<marked, hand, valid, mode>>
  /\ UNCHANGED heapvars /\ UNCHANGED sweepvars

\* Each P of the pause takes root jobs: a stack that has not run since its scan
\* is not scanned again, any other is up to the lowest barrier that was not hit, and
\* the barriers are removed; the globals are scanned, the mcaches are given up.
MarkRoot(p) ==
  /\ gc = "termination" /\ pc[p] = "mark"
  /\ \/ /\ "data" \in todo /\ MarkData
        /\ todo' = todo \ {"data"} /\ UNCHANGED <<stack, top, valid, cache>>
     \/ /\ "caches" \in todo
        /\ cache' = [q \in Procs |-> NoSpan]
        /\ todo' = todo \ {"caches"} /\ UNCHANGED <<stack, top, valid, marked, full>>
     \/ \E r \in Busy \cap todo :
          /\ IF valid[r] THEN UNCHANGED <<marked, full>>
             ELSE /\ marked' = marked \cup stack[r][top[r]]
                  /\ full' = full \cup Unmarked(stack[r][top[r]])
          /\ RemoveBarriers(r, 1, Known(r))
          /\ valid' = [valid EXCEPT ![r] = TRUE]
          /\ todo' = todo \ {r} /\ UNCHANGED cache
  /\ UNCHANGED <<ptr, free, hand, gcw, pc, gc, mode, lag, span>>

\* Nothing is left to mark: the barrier goes off, gcSweep makes every span one to
\* sweep (and sweeps them there if the caller wants to wait), the world goes on.
EndCycle ==
  /\ gc = "termination" /\ todo = {} /\ full = {}
  /\ \A p \in Procs : pc[p] = "mark" /\ gcw[p] = {}
  /\ IF mode = "forceblock"
     THEN Reclaim(Objects) /\ UNCHANGED lag
     ELSE lag' = [s \in Spans |-> lag[s] + 2] /\ UNCHANGED <<free, ptr, marked>>
  /\ gc' = "idle" /\ mode' = "background"
  /\ pc' = [p \in Procs |-> "run"]
  /\ UNCHANGED <<stack, top, hand, gcw, full, todo, valid, span, cache>>
-----------------------------------------------------------------------------
\* The goroutine of a P; nothing makes it do any of this.
Mutate(p) ==
  \/ Load(p) \/ Drop(p) \/ Return(p) \/ Recover(p)
  \/ Store(p) \/ StoreUp(p) \/ CopyUp(p)
  \/ Alloc(p) \/ SweepOne(p) \/ Refill(p) \/ RefillClaim(p)

\* What a P in the middle of something goes on to do.
Continue(p) == TestMark(p) \/ Grey(p) \/ FinishSweepOne(p)

Mark(p) == StartWorker(p) \/ StopWorker(p) \/ Scan(p) \/ GetFull(p) \/ Dispose(p) \/ MarkRoot(p)

Background == BgSweepClaim \/ BgSweep

Coordinate ==
  \/ StartCycle \/ SweepTermClaim \/ SweepTerm \/ StartScan \/ StartForced \/ ResetStacks
  \/ (\E r \in Busy, p \in Procs : ScanStack(r, p)) \/ ScanData \/ EndScan
  \/ Rescan \/ EndMark \/ StopForTermination \/ EndCycle

Next ==
  \/ \E p \in Busy : Mutate(p)
  \/ \E p \in Procs : Send(p) \/ Continue(p) \/ Mark(p)
  \/ Background \/ Coordinate

Spec == Init /\ [][Next]_vars
-----------------------------------------------------------------------------
(* Safety *)

\* What the last mark found to be garbage and no sweep has freed yet.
Condemned ==
  {o \in Objects \ free : o \notin marked /\ \E s \in Spans : o \in s /\ lag[s] # 0}

\* No goroutine and no global holds a pointer to memory that has been freed, nor
\* would it come by one through an object it holds.
NoDangling ==
  /\ ptr[Data] \notin free
  /\ \A p \in Busy : \A o \in Known(p) : o \notin free /\ ptr[o] \notin free

\* None of the runtime's own checks can fail: a span that is not swept is in no
\* mcache ("freespan into cached span") and is unswept in no pause that marks
\* ("gc: unswept span"), it is swept by the one who claimed it ("bad span
\* state"), nobody drains with the barrier off ("phase incorrect"), no scan finds
\* barriers of an earlier cycle on a stack ("g already has stack barriers").
NoThrow ==
  /\ \A s \in Spans : lag[s] # 0 => ~InCache(s) /\ ~writeBarrierEnabled
  /\ \A a \in Sweepers : span[a] # NoSpan =>
       lag[span[a]] = 1 /\ \A b \in Sweepers : span[b] = span[a] => b = a
  /\ \A p \in Procs : cache[p] # NoSpan => \A q \in Procs : cache[q] = cache[p] => q = p
  /\ \A p \in Procs : pc[p] \in Marking => writeBarrierEnabled
  /\ \A p \in Busy : gc = "scan" /\ p \in todo => top[p] = 1

\* While the barrier is on, what a scanned object points to is marked, or some P
\* is about to mark it: the write barrier's promise, which lets the pause scan
\* no object a second time.
ScannedPointsToMarked ==
  writeBarrierEnabled =>
    \A o \in marked \ GreyObjects :
      ptr[o] \in marked \cup {Null} \/ \E p \in Procs : hand[p] = ptr[o]

\* Sweeping: a span is being swept as long as its sweeper holds it, P's sweep
\* where they say so, a span in a cache is swept.
SweepInv ==
  /\ \A s \in Spans : lag[s] \in 0..2
  /\ \A p \in Procs : span[p] # NoSpan <=> pc[p] \in {"sweep", "refill"}
  /\ span["gc"] # NoSpan => gc = "sweepterm"
  /\ gc = "termination" /\ "caches" \notin todo => \A p \in Procs : cache[p] = NoSpan

\* The mark bits: none on a free slot; none on a swept span between cycles,
\* when no P marks and nothing is grey.
MarkInv ==
  /\ marked \cap free = {}
  /\ GreyObjects \subseteq marked
  /\ \A p \in Procs :
       /\ hand[p] # Null <=> pc[p] \in {"shade", "shadeput", "test", "put"}
       /\ hand[p] \notin free
       /\ gc = "termination" => pc[p] \in Marking
  /\ ~writeBarrierEnabled =>
       /\ GreyObjects = {}
       /\ \A p \in Procs : pc[p] \in {"run", "sweep", "refill"}
       /\ \A s \in Spans : lag[s] = 0 => s \cap marked = {}

\* The segments of a stack: its youngest is the last that points to anything, and
\* there are barriers only from its scan to its turn in the pause.
StackInv ==
  \A p \in Busy :
    /\ \A i \in Segments : i > top[p] => stack[p][i] = {}
    /\ top[p] # 1 =>
         /\ writeBarrierEnabled /\ gc # "reset"
         /\ gc = "scan" => p \notin todo
         /\ gc = "termination" => p \in todo

\* The roots: a stack that has not run since its scan, and any frame above a barrier
\* that was not hit, points to objects that are marked or, till the world stops, at
\* hand to be marked; what the pause has scanned points to marked objects.
RootInv ==
  /\ writeBarrierEnabled /\ gc # "reset" =>
       \A p \in Busy, i \in Segments : valid[p] \/ i < top[p] =>
         \A o \in stack[p][i] \ marked :
           gc # "termination" /\ \E q \in Procs : hand[q] = o
  /\ gc = "termination" =>
       /\ \A p \in Busy \ todo : Known(p) \subseteq marked
       /\ "data" \notin todo => ptr[Data] \in marked \cup {Null}

\* Nothing that can be reached is free or condemned.
ReachInv ==
  LET Lost == free \cup Condemned IN
    /\ ptr[Data] \notin Lost
    /\ \A p \in Busy : Known(p) \cap Lost = {}
    /\ \A o \in Objects \ Lost : ptr[o] \notin Lost

\* The inductive invariant: the runtime's checks, the barrier's promise and what
\* ties mark bits, sweep generations and caches to the phases of the cycle.
IInv ==
  /\ TypeOK
  /\ NoThrow
  /\ SweepInv
  /\ MarkInv
  /\ ScannedPointsToMarked
  /\ StackInv
  /\ RootInv
  /\ ReachInv
=============================================================================
