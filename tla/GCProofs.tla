------------------------------- MODULE GCProofs -------------------------------
(***************************************************************************)
(* For any number of Ps, objects and spans: IInv of GC.tla is an inductive *)
(* invariant, and no goroutine ever comes by a pointer to freed memory.    *)
(* One lemma per conjunct says that a step keeps it; under it each action   *)
(* that could break it has a step of its own.  What a goroutine does to a  *)
(* stack is stated first, segment by segment.                              *)
(***************************************************************************)
EXTENDS GC, TLAPS

USE GCAssumption DEF NoSpan, Slots, Pointer, Sweepers, Roots, TerminationRoots

\* Whoever has a span has claimed it, and no collection marks meanwhile.
LEMMA Sweeping ==
  ASSUME IInv, NEW a \in Sweepers, span[a] # NoSpan
  PROVE  span[a] \in Spans /\ lag[span[a]] = 1 /\ ~writeBarrierEnabled
BY DEF IInv, TypeOK, NoThrow

\* Nothing condemned is left while the barrier is on, and no free slot is known.
LEMMA NotFree ==
  ASSUME IInv
  PROVE  /\ writeBarrierEnabled => Condemned = {}
         /\ ptr[Data] \notin free
         /\ \A p \in Procs : Known(p) \subseteq Objects /\ Known(p) \cap free = {}
         /\ writeBarrierEnabled => \A o \in Objects \ free : ptr[o] \notin free
<1>1. writeBarrierEnabled => Condemned = {}
  BY DEF IInv, NoThrow, Condemned
<1>2. /\ ptr[Data] \notin free
      /\ \A p \in Procs : Known(p) \subseteq Objects /\ Known(p) \cap free = {}
  BY DEF IInv, ReachInv, Known
<1>3. \A o \in Objects \ (free \cup Condemned) : ptr[o] \notin free
  BY DEF IInv, ReachInv
<1>4. QED
  BY <1>1, <1>2, <1>3

\* A span has one sweeper: the parts of NoThrow that are about sweepers.
OneSweeper ==
  /\ \A a \in Sweepers : span[a] # NoSpan => lag[span[a]] = 1
  /\ \A a, b \in Sweepers : span[a] = span[b] => a = b \/ span[a] = NoSpan

\* The checks that are about spans, caches and the points of the Ps: all but the one
\* on stack barriers, which StackInv answers for.
Checks ==
  /\ \A s \in Spans : lag[s] # 0 => ~InCache(s) /\ ~writeBarrierEnabled
  /\ OneSweeper
  /\ \A p, q \in Procs : cache[p] = cache[q] => p = q \/ cache[p] = NoSpan
  /\ \A p \in Procs : pc[p] \in Marking => writeBarrierEnabled

LEMMA ChecksNoThrow ==
  /\ NoThrow => Checks
  /\ Checks /\ StackInv => NoThrow
<1>1. NoThrow => Checks
  BY DEF NoThrow, Checks, OneSweeper
<1>2. StackInv => \A p \in Busy : gc = "scan" /\ p \in todo => top[p] = 1
  BY DEF StackInv
<1>3. QED
  BY <1>1, <1>2 DEF NoThrow, Checks, OneSweeper

\* Who sweeps nothing claims a span: nobody has it, and no other changes.
LEMMA ClaimFacts ==
  ASSUME IInv, NEW a \in Sweepers, NEW s \in Spans, span[a] = NoSpan, Claim(a, s)
  PROVE  /\ lag' \in [Spans -> Nat] /\ span' \in [Sweepers -> Spans \cup {NoSpan}]
         /\ lag[s] = 2 /\ lag'[s] = 1 /\ \A u \in Spans : u # s => lag'[u] = lag[u]
         /\ span'[a] = s /\ \A b \in Sweepers : b # a => span'[b] = span[b]
         /\ OneSweeper'
<1>1. /\ lag \in [Spans -> Nat] /\ span \in [Sweepers -> Spans \cup {NoSpan}]
      /\ NoSpan \notin Spans /\ s # NoSpan
  BY DEF IInv, TypeOK
<1>2. lag' = [lag EXCEPT ![s] = 1] /\ span' = [span EXCEPT ![a] = s] /\ lag[s] = 2
  BY DEF Claim
<1>3. /\ lag' \in [Spans -> Nat] /\ span' \in [Sweepers -> Spans \cup {NoSpan}]
      /\ lag'[s] = 1 /\ \A u \in Spans : u # s => lag'[u] = lag[u]
      /\ span'[a] = s /\ \A b \in Sweepers : b # a => span'[b] = span[b]
  BY <1>1, <1>2
<1>4. OneSweeper
  BY DEF IInv, NoThrow, OneSweeper
<1>5. \A b \in Sweepers : span[b] # s
  BY <1>1, <1>2, <1>4 DEF OneSweeper
<1>6. ASSUME NEW b \in Sweepers, span'[b] # NoSpan PROVE lag'[span'[b]] = 1
  <2>1. CASE b = a
    BY <1>3, <2>1
  <2>2. CASE b # a
    <3>1. span'[b] = span[b] /\ span[b] # s /\ span[b] # NoSpan /\ span[b] \in Spans
      BY <1>1, <1>3, <1>5, <1>6, <2>2
    <3>2. QED
      BY <1>3, <1>4, <3>1 DEF OneSweeper
  <2>3. QED
    BY <2>1, <2>2
<1>7. ASSUME NEW b \in Sweepers, NEW c \in Sweepers, span'[b] = span'[c]
      PROVE  b = c \/ span'[b] = NoSpan
  BY <1>3, <1>4, <1>5, <1>7 DEF OneSweeper
<1>8. QED
  BY <1>2, <1>3, <1>6, <1>7 DEF OneSweeper

\* Who has a span sweeps it: it is swept, and no other changes.
LEMMA SweepFacts ==
  ASSUME IInv, NEW a \in Sweepers, span[a] # NoSpan, SweepClaimed(a)
  PROVE  /\ lag' \in [Spans -> Nat] /\ span' \in [Sweepers -> Spans \cup {NoSpan}]
         /\ span[a] \in Spans /\ span[a] \subseteq Objects /\ Reclaim(span[a])
         /\ lag[span[a]] = 1 /\ lag'[span[a]] = 0 /\ ~writeBarrierEnabled
         /\ \A u \in Spans : u # span[a] => lag'[u] = lag[u]
         /\ span'[a] = NoSpan /\ \A b \in Sweepers : b # a => span'[b] = span[b]
         /\ OneSweeper'
<1>1. /\ lag \in [Spans -> Nat] /\ span \in [Sweepers -> Spans \cup {NoSpan}]
      /\ NoSpan \notin Spans
  BY DEF IInv, TypeOK
<1>2. /\ lag' = [lag EXCEPT ![span[a]] = 0] /\ span' = [span EXCEPT ![a] = NoSpan]
      /\ Reclaim(span[a])
  BY DEF SweepClaimed
<1>3. span[a] \in Spans /\ lag[span[a]] = 1 /\ ~writeBarrierEnabled
  BY Sweeping
<1>4. span[a] \subseteq Objects
  BY <1>3
<1>5. /\ lag' \in [Spans -> Nat] /\ span' \in [Sweepers -> Spans \cup {NoSpan}]
      /\ lag'[span[a]] = 0 /\ \A u \in Spans : u # span[a] => lag'[u] = lag[u]
      /\ span'[a] = NoSpan /\ \A b \in Sweepers : b # a => span'[b] = span[b]
  BY <1>1, <1>2, <1>3
<1>6. OneSweeper
  BY DEF IInv, NoThrow, OneSweeper
<1>7. ASSUME NEW b \in Sweepers, span'[b] # NoSpan PROVE lag'[span'[b]] = 1
  <2>1. b # a /\ span'[b] = span[b]
    BY <1>5, <1>7
  <2>2. span[b] \in Spans /\ lag[span[b]] = 1 /\ span[b] # span[a]
    BY <1>1, <1>6, <1>7, <2>1 DEF OneSweeper
  <2>3. QED
    BY <1>5, <2>1, <2>2
<1>8. ASSUME NEW b \in Sweepers, NEW c \in Sweepers, span'[b] = span'[c]
      PROVE  b = c \/ span'[b] = NoSpan
  BY <1>5, <1>6, <1>8 DEF OneSweeper
<1>9. QED
  BY <1>2, <1>3, <1>4, <1>5, <1>7, <1>8 DEF OneSweeper

\* The segments are numbered from one on.
LEMMA SegmentFacts ==
  /\ 1 \in Segments
  /\ \A i \in Segments : i \in Nat /\ i >= 1 /\ (i > 1 => i - 1 \in Segments)
BY DEF Segments

\* What runs keeps no gcscanvalid, and nothing gets one by running.
LEMMA RunsFacts ==
  ASSUME TypeOK, NEW p \in Procs, Runs(p)
  PROVE  /\ valid' \in [Busy -> BOOLEAN]
         /\ \A q \in Busy : valid'[q] => valid[q] /\ q # p
<1>1. valid' = [q \in Busy |-> valid[q] /\ q # p]
  BY DEF Runs
<1>2. QED
  BY <1>1, Zenon

\* A stack one segment of which is written.
LEMMA SetSegmentFacts ==
  ASSUME TypeOK, NEW p \in Busy, NEW i \in Segments, NEW S \in SUBSET Objects,
         SetSegment(p, i, S)
  PROVE  /\ stack' \in [Busy -> [Segments -> SUBSET Objects]]
         /\ \A q \in Busy, j \in Segments :
              stack'[q][j] = IF q = p /\ j = i THEN S ELSE stack[q][j]
BY DEF TypeOK, SetSegment

\* A stack that has lost its barriers from a segment on.
LEMMA RemoveBarriersFacts ==
  ASSUME TypeOK, NEW p \in Busy, NEW i \in Segments, NEW S \in SUBSET Objects,
         RemoveBarriers(p, i, S)
  PROVE  /\ stack' \in [Busy -> [Segments -> SUBSET Objects]]
         /\ \A q \in Busy, j \in Segments :
              stack'[q][j] = IF q # p \/ j < i THEN stack[q][j] ELSE IF j = i THEN S ELSE {}
         /\ top' \in [Busy -> Segments]
         /\ \A q \in Busy : top'[q] = IF q = p THEN i ELSE top[q]
BY DEF TypeOK, RemoveBarriers

\* The steps of a goroutine that move pointers between its frames without a barrier.
Moves(p) == Load(p) \/ Drop(p) \/ Return(p) \/ Recover(p) \/ CopyUp(p)

\* They add nothing to the older segments, and nothing but what the goroutine can
\* lay hands on to the youngest.
LEMMA MoveFacts ==
  ASSUME IInv, NEW p \in Busy, Moves(p)
  PROVE  /\ CanRun(p) /\ Runs(p)
         /\ UNCHANGED <<ptr, free, pc, gc, mode, todo>>
         /\ UNCHANGED markvars /\ UNCHANGED sweepvars
         /\ stack' \in [Busy -> [Segments -> SUBSET Objects]]
         /\ top' \in [Busy -> Segments] /\ top'[p] <= top[p]
         /\ \A q \in Busy \ {p} :
              top'[q] = top[q] /\ \A j \in Segments : stack'[q][j] = stack[q][j]
         /\ \A j \in Segments :
              /\ j < top'[p] => stack'[p][j] \subseteq stack[p][j]
              /\ j > top'[p] => stack'[p][j] = {}
         /\ \A j \in Segments : \A o \in stack'[p][j] :
              o \in Known(p) \/ \E s \in Known(p) \cup {Data} : o = ptr[s]
<1>1. /\ TypeOK /\ p \in Procs /\ top[p] \in Segments /\ Known(p) \subseteq Objects
      /\ \A j \in Segments : stack[p][j] \subseteq Known(p)
      /\ \A j \in Segments : j > top[p] => stack[p][j] = {}
  BY DEF IInv, TypeOK, Known, StackInv
<1>0. /\ top \in [Busy -> Segments] /\ top[p] \in Nat /\ \A j \in Segments : j \in Nat
      /\ stack \in [Busy -> [Segments -> SUBSET Objects]]
  BY <1>1, SegmentFacts DEF TypeOK
<1>2. /\ CanRun(p) /\ Runs(p)
      /\ UNCHANGED <<ptr, free, pc, gc, mode, todo>>
      /\ UNCHANGED markvars /\ UNCHANGED sweepvars
  BY DEF Moves, Load, Drop, Return, Recover, CopyUp
<1>3. CASE Load(p)
  <2>1. PICK x \in Known(p) \cup {ptr[s] : s \in Known(p) \cup {Data}} :
           x # Null /\ SetSegment(p, top[p], stack[p][top[p]] \cup {x})
    BY <1>3 DEF Load
  <2>2. x \in Objects /\ top' = top
    BY <1>1, <1>3, <2>1 DEF Load, TypeOK
  <2>3. stack[p][top[p]] \cup {x} \in SUBSET Objects
    BY <1>1, <2>2
  <2>4. /\ stack' \in [Busy -> [Segments -> SUBSET Objects]]
        /\ \A q \in Busy, j \in Segments :
             stack'[q][j] = IF q = p /\ j = top[p] THEN stack[p][top[p]] \cup {x} ELSE stack[q][j]
    BY <1>1, <2>1, <2>3, SetSegmentFacts
  <2>5. \A j \in Segments : \A o \in stack'[p][j] :
          o \in Known(p) \/ \E s \in Known(p) \cup {Data} : o = ptr[s]
    BY <1>1, <2>1, <2>4
  <2>6. \A j \in Segments :
          /\ j < top'[p] => stack'[p][j] \subseteq stack[p][j]
          /\ j > top'[p] => stack'[p][j] = {}
    BY <1>0, <1>1, <2>2, <2>4
  <2>7. top' \in [Busy -> Segments] /\ top'[p] <= top[p]
    BY <1>0, <2>2
  <2>8. QED
    BY <1>2, <2>2, <2>4, <2>5, <2>6, <2>7
<1>4. CASE Drop(p)
  <2>1. PICK i \in Segments : \E o \in stack[p][i] : SetSegment(p, i, stack[p][i] \ {o})
    BY <1>4 DEF Drop
  <2>2. PICK o \in stack[p][i] : SetSegment(p, i, stack[p][i] \ {o})
    BY <2>1
  <2>3. stack[p][i] \ {o} \in SUBSET Objects /\ top' = top
    BY <1>1, <1>4 DEF Drop
  <2>4. /\ stack' \in [Busy -> [Segments -> SUBSET Objects]]
        /\ \A q \in Busy, j \in Segments :
             stack'[q][j] = IF q = p /\ j = i THEN stack[p][i] \ {o} ELSE stack[q][j]
    BY <1>1, <2>2, <2>3, SetSegmentFacts
  <2>5. \A j \in Segments : stack'[p][j] \subseteq stack[p][j]
    BY <2>4
  <2>6. top' \in [Busy -> Segments] /\ top'[p] <= top[p]
    BY <1>0, <2>3
  <2>7. QED
    BY <1>1, <1>2, <2>3, <2>4, <2>5, <2>6
<1>5. ASSUME NEW i \in Segments, NEW S \in SUBSET Objects, RemoveBarriers(p, i, S),
             i < top[p],
             \A o \in S : o \in Known(p)
      PROVE  /\ stack' \in [Busy -> [Segments -> SUBSET Objects]]
             /\ top' \in [Busy -> Segments] /\ top'[p] <= top[p]
             /\ \A q \in Busy \ {p} :
                  top'[q] = top[q] /\ \A j \in Segments : stack'[q][j] = stack[q][j]
             /\ \A j \in Segments :
                  /\ j < top'[p] => stack'[p][j] \subseteq stack[p][j]
                  /\ j > top'[p] => stack'[p][j] = {}
             /\ \A j \in Segments : \A o \in stack'[p][j] : o \in Known(p)
  <2>1. /\ stack' \in [Busy -> [Segments -> SUBSET Objects]]
        /\ \A q \in Busy, j \in Segments :
             stack'[q][j] = IF q # p \/ j < i THEN stack[q][j] ELSE IF j = i THEN S ELSE {}
        /\ top' \in [Busy -> Segments]
        /\ \A q \in Busy : top'[q] = IF q = p THEN i ELSE top[q]
    BY <1>1, <1>5, RemoveBarriersFacts
  <2>2. i \in Nat /\ top'[p] = i /\ top'[p] <= top[p]
    BY <1>0, <1>5, <2>1
  <2>3. \A j \in Segments :
          /\ j < top'[p] => stack'[p][j] = stack[p][j]
          /\ j = top'[p] => stack'[p][j] = S
          /\ j > top'[p] => stack'[p][j] = {}
    BY <1>0, <2>1, <2>2
  <2>4. \A j \in Segments : \A o \in stack'[p][j] : o \in Known(p)
    BY <1>1, <1>5, <2>1
  <2>5. QED
    BY <2>1, <2>2, <2>3, <2>4
<1>6. CASE Return(p)
  <2>1. PICK X \in SUBSET stack[p][top[p]] :
           RemoveBarriers(p, top[p] - 1, stack[p][top[p] - 1] \cup X)
    BY <1>6 DEF Return
  <2>2. top[p] - 1 \in Segments /\ top[p] - 1 < top[p]
    BY <1>1, <1>6, SegmentFacts DEF Return
  <2>3. stack[p][top[p] - 1] \cup X \subseteq Known(p)
    BY <1>1, <2>1, <2>2
  <2>4. QED
    BY <1>1, <1>2, <1>5, <2>1, <2>2, <2>3
<1>7. CASE Recover(p)
  <2>1. PICK i \in Segments : i < top[p] /\ RemoveBarriers(p, i, stack[p][i])
    BY <1>7 DEF Recover
  <2>2. QED
    BY <1>1, <1>2, <1>5, <2>1
<1>8. CASE CopyUp(p)
  <2>1. PICK i \in Segments, x \in Known(p) :
           /\ i < top[p]
           /\ RemoveBarriers(p, i, {x} \cup UNION {stack[p][j] : j \in i..top[p]})
    BY <1>8 DEF CopyUp
  <2>2. i..top[p] \subseteq Segments
    BY <1>1, <2>1 DEF Segments
  <2>3. ASSUME NEW o \in {x} \cup UNION {stack[p][j] : j \in i..top[p]} PROVE o \in Known(p)
    <3>1. CASE o = x
      BY <2>1, <3>1
    <3>2. CASE o \in UNION {stack[p][j] : j \in i..top[p]}
      <4>1. PICK j \in i..top[p] : o \in stack[p][j]
        BY <3>2
      <4>2. j \in Segments
        BY <2>2
      <4>3. QED
        BY <1>1, <4>1, <4>2
    <3>3. QED
      BY <3>1, <3>2
  <2>4. QED
    BY <1>1, <1>2, <1>5, <2>1, <2>3
<1>9. QED
  BY <1>3, <1>4, <1>6, <1>7, <1>8 DEF Moves

\* A pointer that is written to a frame that is not to run, of the goroutine's own
\* stack or of another's, is one that can be reached, and has a barrier.
LEMMA WriteFacts ==
  ASSUME IInv, NEW p \in Procs, (p \in Busy /\ StoreUp(p)) \/ Send(p)
  PROVE  /\ CanRun(p) /\ Runs(p)
         /\ UNCHANGED <<ptr, top, free, marked, gcw, full, gc, mode, todo>>
         /\ UNCHANGED sweepvars
         /\ stack' \in [Busy -> [Segments -> SUBSET Objects]]
         /\ \E x \in Objects :
              /\ WriteBarrier(p, x) /\ x \notin free \cup Condemned
              /\ \A q \in Busy, j \in Segments :
                   /\ stack'[q][j] \subseteq stack[q][j] \cup {x}
                   /\ j > top[q] => stack'[q][j] = stack[q][j]
<1>1. TypeOK /\ Known(p) \subseteq Objects /\ Known(p) \cap (free \cup Condemned) = {}
  BY DEF IInv, Known, ReachInv
<1>2. ptr[Data] \in Pointer /\ ptr[Data] \notin free \cup Condemned
  BY DEF IInv, ReachInv, TypeOK
<1>3. /\ CanRun(p) /\ Runs(p)
      /\ UNCHANGED <<ptr, top, free, marked, gcw, full, gc, mode, todo>>
      /\ UNCHANGED sweepvars
  BY DEF StoreUp, Send
<1>4. PICK r \in Busy, i \in Segments, x \in Known(p) \cup {ptr[Data]} :
         i <= top[r] /\ x # Null /\ SetSegment(r, i, stack[r][i] \cup {x}) /\ WriteBarrier(p, x)
  <2>1. CASE p \in Busy /\ StoreUp(p)
    <3>1. PICK i \in Segments, x \in Known(p) :
             i < top[p] /\ SetSegment(p, i, stack[p][i] \cup {x}) /\ WriteBarrier(p, x)
      BY <2>1 DEF StoreUp
    <3>2. i \in Nat /\ top[p] \in Nat /\ x \in Objects
      <4>1. top[p] \in Segments
        BY <1>1, <2>1 DEF TypeOK
      <4>2. QED
        BY <1>1, <3>1, <4>1, SegmentFacts
    <3>4. i <= top[p] /\ x # Null
      BY <3>1, <3>2
    <3>3. QED
      BY <2>1, <3>1, <3>4
  <2>2. CASE Send(p)
    BY <2>2 DEF Send
  <2>3. QED
    BY <2>1, <2>2
<1>5. x \in Objects /\ x \notin free \cup Condemned
  BY <1>1, <1>2, <1>4
<1>6. stack[r][i] \cup {x} \in SUBSET Objects
  BY <1>1, <1>5 DEF TypeOK
<1>7. /\ stack' \in [Busy -> [Segments -> SUBSET Objects]]
      /\ \A q \in Busy, j \in Segments :
           stack'[q][j] = IF q = r /\ j = i THEN stack[r][i] \cup {x} ELSE stack[q][j]
  BY <1>1, <1>4, <1>6, SetSegmentFacts
<1>8. \A q \in Busy, j \in Segments :
        /\ stack'[q][j] \subseteq stack[q][j] \cup {x}
        /\ j > top[q] => stack'[q][j] = stack[q][j]
  <2>1. i \in Nat /\ top[r] \in Nat /\ \A j \in Segments : j \in Nat
    BY <1>1, SegmentFacts DEF TypeOK
  <2>2. \A j \in Segments : j > top[r] => j # i
    BY <1>4, <2>1
  <2>3. QED
    BY <1>7, <2>2
<1>9. QED
  BY <1>3, <1>4, <1>5, <1>7, <1>8

\* A new object is known to the goroutine that allocates it.
LEMMA AllocFacts ==
  ASSUME IInv, NEW p \in Busy, Alloc(p)
  PROVE  /\ CanRun(p) /\ Runs(p)
         /\ UNCHANGED <<top, hand, gcw, full, gc, mode, todo>> /\ UNCHANGED sweepvars
         /\ UNCHANGED pc \/ (gcBlackenEnabled /\ Goto(p, "mark"))
         /\ stack' \in [Busy -> [Segments -> SUBSET Objects]]
         /\ \A q \in Busy, j \in Segments :
              q # p \/ j # top[p] => stack'[q][j] = stack[q][j]
         /\ \E o \in cache[p] \cap free :
              /\ o \in Objects /\ cache[p] \in Spans
              /\ free' = free \ {o} /\ ptr' = [ptr EXCEPT ![o] = Null] /\ marked' = MarkNew(o)
              /\ \A q \in Busy, j \in Segments :
                   stack'[q][j] = IF q = p /\ j = top[p] THEN stack[q][j] \cup {o} ELSE stack[q][j]
<1>1. TypeOK /\ p \in Procs /\ top[p] \in Segments
  BY DEF IInv, TypeOK
<1>2. PICK o \in cache[p] \cap free :
         /\ free' = free \ {o} /\ ptr' = [ptr EXCEPT ![o] = Null] /\ marked' = MarkNew(o)
         /\ SetSegment(p, top[p], stack[p][top[p]] \cup {o})
  BY DEF Alloc
<1>3. o \in Objects /\ cache[p] \in Spans
  BY <1>1, <1>2 DEF TypeOK
<1>4. stack[p][top[p]] \cup {o} \in SUBSET Objects
  BY <1>1, <1>3 DEF TypeOK
<1>5. /\ stack' \in [Busy -> [Segments -> SUBSET Objects]]
      /\ \A q \in Busy, j \in Segments :
           stack'[q][j] = IF q = p /\ j = top[p] THEN stack[p][top[p]] \cup {o} ELSE stack[q][j]
  BY <1>1, <1>2, <1>4, SetSegmentFacts
<1>6. /\ CanRun(p) /\ Runs(p)
      /\ UNCHANGED <<top, hand, gcw, full, gc, mode, todo>> /\ UNCHANGED sweepvars
      /\ UNCHANGED pc \/ (gcBlackenEnabled /\ Goto(p, "mark"))
  BY DEF Alloc
<1>7. \A q \in Busy, j \in Segments :
        stack'[q][j] = IF q = p /\ j = top[p] THEN stack[q][j] \cup {o} ELSE stack[q][j]
  BY <1>5
<1>8. \A q \in Busy, j \in Segments :
        q # p \/ j # top[p] => stack'[q][j] = stack[q][j]
  BY <1>5
<1>9. QED
  BY <1>2, <1>3, <1>5, <1>6, <1>7, <1>8

\* The scan of a stack divides it.
LEMMA ScanStackFacts ==
  ASSUME IInv, NEW r \in Busy, NEW p \in Procs, ScanStack(r, p)
  PROVE  /\ stack' \in [Busy -> [Segments -> SUBSET Objects]]
         /\ top' \in [Busy -> Segments]
         /\ \A q \in Busy \ {r} :
              top'[q] = top[q] /\ \A j \in Segments : stack'[q][j] = stack[q][j]
         /\ \A j \in Segments :
              /\ stack'[r][j] \subseteq Known(r)
              /\ j > top'[r] => stack'[r][j] = {}
         /\ Known(r) \subseteq Objects
<1>1. TypeOK /\ Known(r) \subseteq Objects
  BY DEF IInv, Known
<1>2. PICK n \in Segments, S \in [Segments -> SUBSET Known(r)] :
         /\ \A i \in Segments : i > n => S[i] = {}
         /\ stack' = [stack EXCEPT ![r] = S] /\ top' = [top EXCEPT ![r] = n]
  BY DEF ScanStack
<1>3. S \in [Segments -> SUBSET Objects]
  BY <1>1
<1>4. stack' \in [Busy -> [Segments -> SUBSET Objects]] /\ top' \in [Busy -> Segments]
  BY <1>1, <1>2, <1>3 DEF TypeOK
<1>5. /\ \A q \in Busy \ {r} : top'[q] = top[q] /\ stack'[q] = stack[q]
      /\ top'[r] = n /\ stack'[r] = S
  BY <1>1, <1>2 DEF TypeOK
<1>6. \A j \in Segments : S[j] \subseteq Known(r)
  OBVIOUS
<1>7. QED
  BY <1>1, <1>2, <1>4, <1>5, <1>6

\* The pause scans what may hold white pointers of a stack, and undivides it.
LEMMA MarkRootFacts ==
  ASSUME IInv, NEW p \in Procs, MarkRoot(p)
  PROVE  /\ gc = "termination" /\ UNCHANGED <<ptr, free, hand, gcw, pc, gc, mode, lag, span>>
         /\ \/ /\ "data" \in todo /\ MarkData
               /\ todo' = todo \ {"data"} /\ UNCHANGED <<stack, top, valid, cache>>
            \/ /\ "caches" \in todo
               /\ cache' = [q \in Procs |-> NoSpan]
               /\ todo' = todo \ {"caches"} /\ UNCHANGED <<stack, top, valid, marked, full>>
            \/ \E r \in Busy \cap todo :
                 /\ IF valid[r] THEN UNCHANGED <<marked, full>>
                    ELSE /\ marked' = marked \cup stack[r][top[r]]
                         /\ full' = full \cup Unmarked(stack[r][top[r]])
                 /\ stack' \in [Busy -> [Segments -> SUBSET Objects]]
                 /\ \A q \in Busy, j \in Segments :
                      stack'[q][j] = IF q # r THEN stack[q][j] ELSE IF j = 1 THEN Known(r) ELSE {}
                 /\ top' \in [Busy -> Segments]
                 /\ \A q \in Busy : top'[q] = IF q = r THEN 1 ELSE top[q]
                 /\ valid' = [valid EXCEPT ![r] = TRUE]
                 /\ todo' = todo \ {r} /\ UNCHANGED cache
<1>1. TypeOK /\ \A r \in Busy : Known(r) \in SUBSET Objects
  BY DEF IInv, Known
<1>2. ASSUME NEW r \in Busy, RemoveBarriers(r, 1, Known(r))
      PROVE  /\ stack' \in [Busy -> [Segments -> SUBSET Objects]]
             /\ \A q \in Busy, j \in Segments :
                  stack'[q][j] = IF q # r THEN stack[q][j] ELSE IF j = 1 THEN Known(r) ELSE {}
             /\ top' \in [Busy -> Segments]
             /\ \A q \in Busy : top'[q] = IF q = r THEN 1 ELSE top[q]
  <2>1. /\ stack' \in [Busy -> [Segments -> SUBSET Objects]]
        /\ \A q \in Busy, j \in Segments :
             stack'[q][j] = IF q # r \/ j < 1 THEN stack[q][j] ELSE IF j = 1 THEN Known(r) ELSE {}
        /\ top' \in [Busy -> Segments]
        /\ \A q \in Busy : top'[q] = IF q = r THEN 1 ELSE top[q]
    BY <1>1, <1>2, SegmentFacts, RemoveBarriersFacts
  <2>2. \A j \in Segments : ~(j < 1)
    BY SegmentFacts
  <2>3. QED
    BY <2>1, <2>2
<1>3. gc = "termination" /\ UNCHANGED <<ptr, free, hand, gcw, pc, gc, mode, lag, span>>
  BY DEF MarkRoot
<1>4. \/ /\ "data" \in todo /\ MarkData
         /\ todo' = todo \ {"data"} /\ UNCHANGED <<stack, top, valid, cache>>
      \/ /\ "caches" \in todo
         /\ cache' = [q \in Procs |-> NoSpan]
         /\ todo' = todo \ {"caches"} /\ UNCHANGED <<stack, top, valid, marked, full>>
      \/ \E r \in Busy \cap todo :
           /\ IF valid[r] THEN UNCHANGED <<marked, full>>
              ELSE /\ marked' = marked \cup stack[r][top[r]]
                   /\ full' = full \cup Unmarked(stack[r][top[r]])
           /\ RemoveBarriers(r, 1, Known(r))
           /\ valid' = [valid EXCEPT ![r] = TRUE]
           /\ todo' = todo \ {r} /\ UNCHANGED cache
  BY DEF MarkRoot
<1>5. QED
  BY <1>2, <1>3, <1>4

\* What it marks is known, or the globals point to it, and goes to work.full.
LEMMA MarkRootMarks ==
  ASSUME IInv, NEW p \in Procs, MarkRoot(p)
  PROVE  \E S \in SUBSET Pointer :
           /\ S \cap free = {}
           /\ marked' = marked \cup (S \ {Null}) /\ full' = full \cup Unmarked(S)
<1>1. /\ marked \in SUBSET Objects /\ full \in SUBSET Objects
      /\ ptr[Data] \in Pointer /\ ptr[Data] \notin free
  BY NotFree DEF IInv, TypeOK
<1>2. CASE MarkData
  BY <1>1, <1>2 DEF MarkData
<1>3. CASE UNCHANGED <<marked, full>>
  <2>1. /\ {} \cap free = {} /\ marked' = marked \cup ({} \ {Null})
        /\ full' = full \cup Unmarked({}) /\ {} \in SUBSET Pointer
    BY <1>3 DEF Unmarked
  <2>2. QED
    BY <2>1
<1>4. CASE \E r \in Busy : /\ marked' = marked \cup stack[r][top[r]]
                         /\ full' = full \cup Unmarked(stack[r][top[r]])
  <2>1. PICK r \in Busy : /\ marked' = marked \cup stack[r][top[r]]
                         /\ full' = full \cup Unmarked(stack[r][top[r]])
    BY <1>4
  <2>2. stack[r][top[r]] \subseteq Known(r) /\ stack[r][top[r]] \subseteq Objects
    BY DEF Known, IInv, TypeOK
  <2>3. stack[r][top[r]] \cap free = {} /\ stack[r][top[r]] \ {Null} = stack[r][top[r]]
    BY <2>2, NotFree
  <2>4. QED
    BY <2>1, <2>2, <2>3
<1>5. QED
  BY <1>2, <1>3, <1>4, MarkRootFacts

\* The barrier puts the pointer at hand, where it is on.
LEMMA BarrierFacts ==
  ASSUME TypeOK, NEW p \in Procs, NEW x \in Pointer, WriteBarrier(p, x)
  PROVE  /\ hand' \in [Procs -> Pointer] /\ pc' \in [Procs -> Points]
         /\ \A q \in Procs \ {p} : hand'[q] = hand[q] /\ pc'[q] = pc[q]
         /\ IF writeBarrierEnabled /\ x # Null
            THEN hand'[p] = x /\ pc'[p] = "shade"
            ELSE hand'[p] = hand[p] /\ pc'[p] = pc[p]
<1>1. pc \in [Procs -> Points] /\ hand \in [Procs -> Pointer] /\ "shade" \in Points
  BY DEF TypeOK, Points, Mutating
<1>2. CASE writeBarrierEnabled /\ x # Null
  BY <1>1, <1>2 DEF WriteBarrier, Goto
<1>3. CASE ~(writeBarrierEnabled /\ x # Null)
  BY <1>1, <1>3 DEF WriteBarrier
<1>4. QED
  BY <1>2, <1>3

\* The heap when a set of slots has been swept.
LEMMA ReclaimFacts ==
  ASSUME TypeOK, NEW S \in SUBSET Objects, Reclaim(S)
  PROVE  /\ ptr' \in [Slots -> Pointer]
         /\ free' \in SUBSET Objects /\ free' = free \cup (S \ marked)
         /\ marked' \in SUBSET Objects /\ marked' = marked \ S
         /\ ptr'[Data] = ptr[Data]
         /\ \A o \in Objects : ptr'[o] = IF o \in S \ marked THEN Null ELSE ptr[o]
BY DEF TypeOK, Reclaim

\* Every step keeps the types.
LEMMA TypeOKStep == IInv /\ [Next]_vars => TypeOK'
<1> SUFFICES ASSUME IInv, [Next]_vars PROVE TypeOK'
  OBVIOUS
<1>0. TypeOK
  BY DEF IInv
<1> USE <1>0 DEF TypeOK, Points, Mutating, Marking, OffPoints, GCPoints, GreyObjects,
     heapvars, markvars, sweepvars, gcvars
<1>1. ASSUME NEW p \in Busy, Moves(p) PROVE TypeOK'
  <2>1. valid' \in [Busy -> BOOLEAN]
    BY <1>1, MoveFacts, RunsFacts
  <2>2. /\ UNCHANGED <<ptr, free, pc, gc, mode, todo>>
        /\ UNCHANGED markvars /\ UNCHANGED sweepvars
        /\ stack' \in [Busy -> [Segments -> SUBSET Objects]] /\ top' \in [Busy -> Segments]
    BY <1>1, MoveFacts
  <2>3. QED
    BY <2>1, <2>2
<1>2. ASSUME NEW p \in Procs, (p \in Busy /\ StoreUp(p)) \/ Send(p) PROVE TypeOK'
  <2>1. PICK x \in Objects : WriteBarrier(p, x)
    BY <1>2, WriteFacts
  <2>2. hand' \in [Procs -> Pointer] /\ pc' \in [Procs -> Points]
    BY <2>1, BarrierFacts
  <2>3. valid' \in [Busy -> BOOLEAN]
    BY <1>2, WriteFacts, RunsFacts
  <2>4. /\ UNCHANGED <<ptr, top, free, marked, gcw, full, gc, mode, todo>>
        /\ UNCHANGED sweepvars
        /\ stack' \in [Busy -> [Segments -> SUBSET Objects]]
    BY <1>2, WriteFacts
  <2>5. QED
    BY <2>2, <2>3, <2>4
<1>3. ASSUME NEW p \in Busy, Store(p) PROVE TypeOK'
  <2>1. PICK s \in Known(p) \cup {Data}, x \in Known(p) \cup {Null} :
           ptr' = [ptr EXCEPT ![s] = x] /\ WriteBarrier(p, x)
    BY <1>3 DEF Store
  <2>2. p \in Procs /\ x \in Pointer
    BY <1>3 DEF Known
  <2>3. ptr' \in [Slots -> Pointer]
    BY <2>1, <2>2
  <2>4. hand' \in [Procs -> Pointer] /\ pc' \in [Procs -> Points]
    BY <2>1, <2>2, BarrierFacts
  <2>5. QED
    BY <2>2, <2>3, <2>4, <1>3, RunsFacts DEF Store
<1>4. ASSUME NEW p \in Busy, Alloc(p) PROVE TypeOK'
  <2>1. PICK o \in Objects : ptr' = [ptr EXCEPT ![o] = Null] /\ free' = free \ {o} /\ marked' = MarkNew(o)
    BY <1>4, AllocFacts
  <2>2. /\ UNCHANGED <<top, hand, gcw, full, gc, mode, todo>> /\ UNCHANGED sweepvars
        /\ UNCHANGED pc \/ Goto(p, "mark")
        /\ stack' \in [Busy -> [Segments -> SUBSET Objects]]
    BY <1>4, AllocFacts
  <2>3. valid' \in [Busy -> BOOLEAN]
    <3>1. Runs(p)
      BY <1>4 DEF Alloc
    <3>2. QED
      BY <3>1, RunsFacts
  <2>4. pc' \in [Procs -> Points]
    <3>1. UNCHANGED pc \/ pc' = [pc EXCEPT ![p] = "mark"]
      BY <2>2 DEF Goto
    <3>2. QED
      BY <3>1
  <2>5. /\ ptr' \in [Slots -> Pointer] /\ free' \in SUBSET Objects
        /\ marked' \in SUBSET Objects
    BY <2>1 DEF MarkNew
  <2>6. QED
    BY <2>2, <2>3, <2>4, <2>5
<1>5. ASSUME NEW p \in Busy, SweepOne(p) PROVE TypeOK'
  BY <1>5 DEF SweepOne, CanRun, Goto, Claim
<1>6. ASSUME NEW p \in Busy, Refill(p) PROVE TypeOK'
  BY <1>6 DEF Refill, NeedsSpan, CanRun, SpansOf, InCache
<1>7. ASSUME NEW p \in Busy, RefillClaim(p) PROVE TypeOK'
  BY <1>7 DEF RefillClaim, NeedsSpan, CanRun, Claim, Goto
<1>8. ASSUME NEW p \in Procs, TestMark(p) PROVE TypeOK'
  <2>1. hand' \in [Procs -> Pointer]
    BY <1>8 DEF TestMark
  <2>2. pc' \in [Procs -> Points]
    BY <1>8 DEF TestMark, Goto
  <2>3. QED
    BY <2>1, <2>2, <1>8 DEF TestMark
<1>9. ASSUME NEW p \in Procs, Grey(p) PROVE TypeOK'
  <2>1. hand[p] \in Objects
    BY <1>9 DEF Grey, IInv, MarkInv
  <2>2. marked' \in SUBSET Objects /\ full' \in SUBSET Objects
    BY <1>9, <2>1 DEF Grey
  <2>3. gcw' \in [Procs -> SUBSET Objects]
    BY <1>9, <2>1 DEF Grey
  <2>4. pc' \in [Procs -> Points] /\ hand' \in [Procs -> Pointer]
    BY <1>9 DEF Grey, Goto
  <2>5. QED
    BY <1>9, <2>2, <2>3, <2>4 DEF Grey
<1>10. ASSUME NEW p \in Procs, FinishSweepOne(p) PROVE TypeOK'
  <2>1. span[p] # NoSpan /\ SweepClaimed(p)
    BY <1>10 DEF FinishSweepOne, IInv, SweepInv
  <2>2. /\ lag' \in [Spans -> Nat] /\ span' \in [Sweepers -> Spans \cup {NoSpan}]
        /\ span[p] \in Spans /\ span[p] \subseteq Objects /\ Reclaim(span[p])
    BY <2>1, SweepFacts
  <2>3. ptr' \in [Slots -> Pointer] /\ free' \in SUBSET Objects /\ marked' \in SUBSET Objects
    BY <2>2, ReclaimFacts
  <2>4. cache' \in [Procs -> Spans \cup {NoSpan}] /\ pc' \in [Procs -> Points]
    BY <1>10, <2>2 DEF FinishSweepOne, Goto
  <2>5. QED
    BY <1>10, <2>2, <2>3, <2>4 DEF FinishSweepOne
<1>11. ASSUME NEW p \in Procs, StartWorker(p) PROVE TypeOK'
  BY <1>11 DEF StartWorker, CanRun, Goto
<1>12. ASSUME NEW p \in Procs, StopWorker(p) PROVE TypeOK'
  BY <1>12 DEF StopWorker, Goto
<1>13. ASSUME NEW p \in Procs, Scan(p) PROVE TypeOK'
  BY <1>13 DEF Scan, Goto
<1>14. ASSUME NEW p \in Procs, GetFull(p) PROVE TypeOK'
  BY <1>14 DEF GetFull
<1>15. ASSUME NEW p \in Procs, Dispose(p) PROVE TypeOK'
  BY <1>15 DEF Dispose
<1>16. ASSUME NEW p \in Procs, MarkRoot(p) PROVE TypeOK'
  <2>1. marked' \in SUBSET Objects /\ full' \in SUBSET Objects
    BY <1>16 DEF MarkRoot, MarkData, Unmarked
  <2>2. todo' \subseteq todo
    BY <1>16 DEF MarkRoot
  <2>3. cache' \in [Procs -> Spans \cup {NoSpan}] /\ valid' \in [Busy -> BOOLEAN]
    <3>1. \/ UNCHANGED valid
          \/ \E r \in Busy : valid' = [valid EXCEPT ![r] = TRUE]
      BY <1>16 DEF MarkRoot
    <3>2. UNCHANGED cache \/ cache' = [q \in Procs |-> NoSpan]
      BY <1>16 DEF MarkRoot
    <3>3. valid' \in [Busy -> BOOLEAN]
      BY <3>1
    <3>4. cache' \in [Procs -> Spans \cup {NoSpan}]
      BY <3>2
    <3>5. QED
      BY <3>3, <3>4
  <2>4. stack' \in [Busy -> [Segments -> SUBSET Objects]] /\ top' \in [Busy -> Segments]
    BY <1>16, MarkRootFacts
  <2>5. QED
    BY <2>1, <2>2, <2>3, <2>4, <1>16 DEF MarkRoot
<1>17. ASSUME BgSweepClaim PROVE TypeOK'
  <2>1. PICK s \in Spans : Claim("bgsweep", s)
    BY <1>17 DEF BgSweepClaim
  <2>2. lag' \in [Spans -> Nat] /\ span' \in [Sweepers -> Spans \cup {NoSpan}]
    BY <2>1 DEF Claim
  <2>3. QED
    BY <2>2, <1>17 DEF BgSweepClaim
<1>18. ASSUME BgSweep PROVE TypeOK'
  BY <1>18 DEF BgSweep, SweepClaimed, Reclaim
<1>20. ASSUME StartCycle PROVE TypeOK'
  BY <1>20 DEF StartCycle
<1>21. ASSUME SweepTermClaim PROVE TypeOK'
  <2>1. CASE SpansOf(2) # {}
    <3>1. PICK s \in Spans : Claim("gc", s)
      BY <1>21, <2>1 DEF SweepTermClaim
    <3>2. lag' \in [Spans -> Nat] /\ span' \in [Sweepers -> Spans \cup {NoSpan}]
      BY <3>1 DEF Claim
    <3>3. QED
      BY <3>2, <1>21, <2>1 DEF SweepTermClaim
  <2>2. CASE SpansOf(2) = {}
    <3>1. UNCHANGED <<lag, span>>
      BY <1>21, <2>2 DEF SweepTermClaim
    <3>2. QED
      BY <1>21, <2>2, <3>1 DEF SweepTermClaim
  <2>3. QED
    BY <2>1, <2>2
<1>22. ASSUME SweepTerm PROVE TypeOK'
  BY <1>22 DEF SweepTerm, SweepClaimed, Reclaim
<1>23. ASSUME StartScan PROVE TypeOK'
  BY <1>23 DEF StartScan, WorldStopped, FinishSweep, Reclaim, SpansOf
<1>24. ASSUME StartForced PROVE TypeOK'
  BY <1>24 DEF StartForced, WorldStopped, FinishSweep, Reclaim, SpansOf, StartTermination
<1>25. ASSUME ResetStacks PROVE TypeOK'
  BY <1>25 DEF ResetStacks
<1>26. ASSUME ScanData PROVE TypeOK'
  BY <1>26 DEF ScanData, MarkData, Unmarked
<1>27. ASSUME EndScan PROVE TypeOK'
  BY <1>27 DEF EndScan
<1>28. ASSUME Rescan PROVE TypeOK'
  BY <1>28 DEF Rescan, MarkData, Unmarked
<1>29. ASSUME EndMark PROVE TypeOK'
  BY <1>29 DEF EndMark
<1>30. ASSUME StopForTermination PROVE TypeOK'
  BY <1>30 DEF StopForTermination, WorldStopped, StartTermination
<1>31. ASSUME EndCycle PROVE TypeOK'
  <2>1. lag' \in [Spans -> Nat]
    BY <1>31 DEF EndCycle
  <2>2. marked' \in SUBSET Objects /\ free' \in SUBSET Objects /\ ptr' \in [Slots ->
       Pointer]
    BY <1>31 DEF EndCycle, Reclaim
  <2>3. pc' \in [Procs -> Points]
    BY <1>31 DEF EndCycle
  <2>4. QED
    BY <2>1, <2>2, <2>3, <1>31 DEF EndCycle
<1>32. ASSUME NEW r \in Busy, NEW p \in Procs, ScanStack(r, p) PROVE TypeOK'
  <2>1. /\ stack' \in [Busy -> [Segments -> SUBSET Objects]] /\ top' \in [Busy -> Segments]
        /\ Known(r) \subseteq Objects
    BY <1>32, ScanStackFacts
  <2>2. marked' \in SUBSET Objects /\ gcw' \in [Procs -> SUBSET Objects]
    BY <1>32, <2>1 DEF ScanStack, Unmarked
  <2>3. QED
    BY <2>1, <2>2, <1>32 DEF ScanStack
<1>33. CASE UNCHANGED vars
  BY <1>33 DEF vars
<1>34. QED
  BY <1>1, <1>2, <1>3, <1>4, <1>5, <1>6, <1>7, <1>8, <1>9, <1>10, <1>11, <1>12, <1>13,
       <1>14, <1>15, <1>16, <1>17, <1>18, <1>20, <1>21, <1>22, <1>23, <1>24,
       <1>25, <1>26, <1>27, <1>28, <1>29, <1>30, <1>31, <1>32, <1>33 DEF Next, Mutate,
       Continue, Mark, Background, Coordinate, Moves

\* A claim keeps the checks, whatever caches are given up with it.
LEMMA ClaimChecks ==
  ASSUME IInv, NEW a \in Sweepers, NEW s \in Spans, span[a] = NoSpan, Claim(a, s),
         \A q \in Procs : cache'[q] = cache[q] \/ cache'[q] = NoSpan,
         \A q \in Procs : pc'[q] \in Marking => pc[q] \in Marking,
         UNCHANGED gc
  PROVE  Checks'
<1>1. Checks /\ NoSpan \notin Spans
  BY ChecksNoThrow DEF IInv
<1>2. /\ lag[s] = 2 /\ \A u \in Spans : u # s => lag'[u] = lag[u]
      /\ OneSweeper'
  BY ClaimFacts
<1>3. writeBarrierEnabled' = writeBarrierEnabled
  BY DEF writeBarrierEnabled
<1>4. ASSUME NEW u \in Spans, lag'[u] # 0
      PROVE  ~InCache(u)' /\ ~writeBarrierEnabled'
  <2>1. lag[u] # 0
    BY <1>2, <1>4
  <2>2. ~InCache(u) /\ ~writeBarrierEnabled
    BY <1>1, <2>1 DEF Checks
  <2>3. QED
    BY <1>1, <1>3, <2>2 DEF InCache
<1>5. ASSUME NEW p \in Procs, NEW q \in Procs, cache'[p] = cache'[q]
      PROVE  p = q \/ cache'[p] = NoSpan
  BY <1>1, <1>5 DEF Checks
<1>6. \A p \in Procs : pc'[p] \in Marking => writeBarrierEnabled'
  BY <1>1, <1>3 DEF Checks
<1>7. QED
  BY <1>2, <1>4, <1>5, <1>6 DEF Checks, OneSweeper

\* So does a sweep, after which the span may be cached.
LEMMA SweepChecks ==
  ASSUME IInv, NEW a \in Sweepers, span[a] # NoSpan, SweepClaimed(a),
         \A q \in Procs : cache'[q] = cache[q] \/ (q = a /\ cache'[q] = span[a]),
         \A q \in Procs : pc'[q] \in Marking => pc[q] \in Marking,
         UNCHANGED gc
  PROVE  Checks'
<1>1. Checks /\ NoSpan \notin Spans
  BY ChecksNoThrow DEF IInv
<1>2. /\ span[a] \in Spans /\ lag[span[a]] = 1 /\ lag'[span[a]] = 0
      /\ \A u \in Spans : u # span[a] => lag'[u] = lag[u]
      /\ OneSweeper'
  BY SweepFacts
<1>3. writeBarrierEnabled' = writeBarrierEnabled
  BY DEF writeBarrierEnabled
<1>4. ~InCache(span[a])
  BY <1>1, <1>2 DEF Checks
<1>5. ASSUME NEW u \in Spans, lag'[u] # 0
      PROVE  ~InCache(u)' /\ ~writeBarrierEnabled'
  <2>1. u # span[a] /\ lag[u] # 0
    BY <1>2, <1>5
  <2>2. ~InCache(u) /\ ~writeBarrierEnabled
    BY <1>1, <2>1 DEF Checks
  <2>3. QED
    BY <1>3, <2>1, <2>2 DEF InCache
<1>6. ASSUME NEW p \in Procs, NEW q \in Procs, cache'[p] = cache'[q]
      PROVE  p = q \/ cache'[p] = NoSpan
  <2>1. cache[p] # span[a] /\ cache[q] # span[a]
    BY <1>4 DEF InCache
  <2>2. QED
    BY <1>1, <1>6, <2>1 DEF Checks
<1>7. \A p \in Procs : pc'[p] \in Marking => writeBarrierEnabled'
  BY <1>1, <1>3 DEF Checks
<1>8. QED
  BY <1>2, <1>5, <1>6, <1>7 DEF Checks, OneSweeper

\* So the sweepers that go from span to span keep them.
LEMMA ClaimingChecks ==
  ASSUME IInv, BgSweepClaim \/ SweepTermClaim
  PROVE  Checks'
<1>1. CASE BgSweepClaim
  <2>1. PICK s \in Spans : Claim("bgsweep", s)
    BY <1>1 DEF BgSweepClaim
  <2>2. span["bgsweep"] = NoSpan /\ UNCHANGED <<cache, pc, gc>>
    BY <1>1 DEF BgSweepClaim, gcvars
  <2>3. QED
    BY <2>1, <2>2, ClaimChecks
<1>2. CASE SweepTermClaim /\ SpansOf(2) # {}
  <2>1. PICK s \in Spans : Claim("gc", s)
    BY <1>2 DEF SweepTermClaim
  <2>2. span["gc"] = NoSpan /\ UNCHANGED <<cache, pc, gc>>
    BY <1>2 DEF SweepTermClaim
  <2>3. QED
    BY <2>1, <2>2, ClaimChecks
<1>3. CASE SweepTermClaim /\ SpansOf(2) = {}
  <2>1. /\ UNCHANGED <<lag, span, cache, pc>> /\ gc = "sweepterm" /\ gc' = "stop1"
    BY <1>3 DEF SweepTermClaim
  <2>2. Checks
    BY ChecksNoThrow DEF IInv
  <2>3. QED
    BY <2>1, <2>2 DEF Checks, OneSweeper, InCache, writeBarrierEnabled, OffPoints
<1>4. QED
  BY <1>1, <1>2, <1>3

\* Every step keeps what the runtime's checks rest on: a span has one sweeper and
\* one cache at most, and the spans are swept before the barrier goes on.
LEMMA ChecksStep == IInv /\ [Next]_vars => Checks'
<1> SUFFICES ASSUME IInv, [Next]_vars PROVE Checks'
  OBVIOUS
<1>0. TypeOK /\ Checks /\ SweepInv /\ StackInv
  BY ChecksNoThrow DEF IInv
<1> USE <1>0 DEF TypeOK, Points, Mutating, Marking, OffPoints, GCPoints,
     writeBarrierEnabled, gcBlackenEnabled, gcBlackenPromptly, gcwaiting, GreyObjects,
     heapvars, markvars, sweepvars, gcvars, Checks, OneSweeper, SweepInv, InCache
<1>1. ASSUME NEW p \in Busy, SweepOne(p) PROVE Checks'
  <2>1. PICK s \in Spans : Claim(p, s)
    BY <1>1 DEF SweepOne
  <2>2. /\ pc[p] = "run" /\ pc' = [pc EXCEPT ![p] = "sweep"] /\ UNCHANGED <<cache, gc>>
    BY <1>1 DEF SweepOne, CanRun, Goto
  <2>3. span[p] = NoSpan /\ \A q \in Procs : pc'[q] \in Marking => pc[q] \in Marking
    BY <2>2
  <2>4. QED
    BY <2>1, <2>2, <2>3, ClaimChecks
<1>2. ASSUME NEW p \in Busy, Refill(p) PROVE Checks'
  BY <1>2 DEF Refill, NeedsSpan, CanRun, SpansOf, InCache
<1>3. ASSUME NEW p \in Busy, RefillClaim(p) PROVE Checks'
  <2>1. PICK s \in Spans : Claim(p, s)
    BY <1>3 DEF RefillClaim
  <2>2. /\ pc[p] = "run" /\ pc' = [pc EXCEPT ![p] = "refill"] /\ UNCHANGED gc
        /\ cache' = [cache EXCEPT ![p] = NoSpan]
    BY <1>3 DEF RefillClaim, NeedsSpan, CanRun, Goto
  <2>3. span[p] = NoSpan /\ \A q \in Procs : pc'[q] \in Marking => pc[q] \in Marking
    BY <2>2
  <2>4. \A q \in Procs : cache'[q] = cache[q] \/ cache'[q] = NoSpan
    BY <2>2
  <2>5. QED
    BY <2>1, <2>2, <2>3, <2>4, ClaimChecks
<1>4. ASSUME NEW p \in Procs, FinishSweepOne(p) PROVE Checks'
  <2>1. span[p] # NoSpan /\ SweepClaimed(p) /\ UNCHANGED gc
    BY <1>4 DEF FinishSweepOne
  <2>2. \A q \in Procs : pc'[q] \in Marking => pc[q] \in Marking
    BY <1>4 DEF FinishSweepOne, Goto
  <2>3. \A q \in Procs : cache'[q] = cache[q] \/ (q = p /\ cache'[q] = span[p])
    BY <1>4 DEF FinishSweepOne
  <2>4. QED
    BY <2>1, <2>2, <2>3, SweepChecks
<1>5. ASSUME BgSweepClaim PROVE Checks'
  BY <1>5, ClaimingChecks
<1>6. ASSUME BgSweep PROVE Checks'
  <2>1. span["bgsweep"] # NoSpan /\ SweepClaimed("bgsweep") /\ UNCHANGED <<cache, pc, gc>>
    BY <1>6 DEF BgSweep
  <2>2. QED
    BY <2>1, SweepChecks
<1>7. ASSUME SweepTermClaim PROVE Checks'
  BY <1>7, ClaimingChecks
<1>8. ASSUME SweepTerm PROVE Checks'
  <2>1. span["gc"] # NoSpan /\ SweepClaimed("gc") /\ UNCHANGED <<cache, pc, gc>>
    BY <1>8 DEF SweepTerm
  <2>2. QED
    BY <2>1, SweepChecks
<1>9. ASSUME NEW p \in Procs, MarkRoot(p) PROVE Checks'
  BY <1>9 DEF MarkRoot, MarkData, Unmarked
<1>10. ASSUME EndCycle PROVE Checks'
  BY <1>10 DEF EndCycle, Reclaim
<1>11. ASSUME StartScan PROVE Checks'
  BY <1>11 DEF StartScan, WorldStopped, FinishSweep, Reclaim, SpansOf
<1>12. ASSUME StartForced PROVE Checks'
  <2>1. \A a \in Sweepers : span[a] = NoSpan
    BY <1>12 DEF StartForced, WorldStopped
  <2>2. /\ lag' = [s \in Spans |-> 0] /\ UNCHANGED <<span, cache>>
        /\ gc' = "termination"
    BY <1>12 DEF StartForced, FinishSweep, StartTermination
  <2>3. QED
    BY <2>1, <2>2
<1>13. ASSUME NEW p \in Procs, TestMark(p) \/ Grey(p) PROVE Checks'
  BY <1>13 DEF Goto, TestMark, Grey
<1>19. ASSUME NEW p \in Busy, Moves(p) PROVE Checks'
  <2>1. UNCHANGED <<lag, span, cache, pc, gc>>
    BY <1>19, MoveFacts
  <2>2. QED
    BY <2>1
<1>20. ASSUME NEW p \in Procs, NEW x \in Pointer, pc[p] = "run", WriteBarrier(p, x),
              UNCHANGED <<lag, span, cache, gc>>
      PROVE  Checks'
  BY <1>20, BarrierFacts
<1>21. ASSUME NEW p \in Procs, (p \in Busy /\ StoreUp(p)) \/ Send(p) PROVE Checks'
  <2>1. pc[p] = "run" /\ UNCHANGED <<lag, span, cache, gc>> /\ \E x \in Objects : WriteBarrier(p, x)
    BY <1>21, WriteFacts DEF CanRun
  <2>2. QED
    BY <1>20, <2>1
<1>22. ASSUME NEW p \in Busy, Store(p) PROVE Checks'
  <2>1. pc[p] = "run" /\ UNCHANGED <<lag, span, cache, gc>> /\ \E x \in Pointer : WriteBarrier(p, x)
    BY <1>22 DEF Store, CanRun, Known
  <2>2. QED
    BY <1>20, <2>1
<1>23. ASSUME NEW p \in Busy, Alloc(p) PROVE Checks'
  <2>1. UNCHANGED <<lag, span, cache, gc>>
    BY <1>23 DEF Alloc
  <2>2. UNCHANGED pc \/ (gcBlackenEnabled /\ pc' = [pc EXCEPT ![p] = "mark"])
    BY <1>23 DEF Alloc, Goto
  <2>3. QED
    BY <2>1, <2>2
<1>14. ASSUME NEW p \in Procs, StartWorker(p) \/ StopWorker(p) PROVE Checks'
  BY <1>14 DEF StartWorker, CanRun, Goto, StopWorker
<1>24. ASSUME NEW p \in Procs, Scan(p) PROVE Checks'
  BY <1>24 DEF Scan, Goto
<1>25. ASSUME NEW p \in Procs, GetFull(p) \/ Dispose(p) PROVE Checks'
  BY <1>25 DEF GetFull, Dispose
<1>15. ASSUME StartCycle \/ ResetStacks \/ ScanData \/ EndScan \/ Rescan
     PROVE  Checks'
  BY <1>15 DEF StartCycle, ResetStacks, ScanData, MarkData, Unmarked,
       EndScan, Rescan
<1>16. ASSUME EndMark \/ StopForTermination PROVE Checks'
  BY <1>16 DEF EndMark, StopForTermination, WorldStopped, StartTermination
<1>17. ASSUME NEW r \in Busy, NEW p \in Procs, ScanStack(r, p) PROVE Checks'
  BY <1>17 DEF ScanStack, Unmarked
<1>18. CASE UNCHANGED vars
  BY <1>18 DEF vars
<1>26. ASSUME NEW p \in Busy, Mutate(p) PROVE Checks'
  <2>1. CASE Moves(p)
    BY <1>19, <2>1
  <2>2. CASE Store(p) \/ StoreUp(p) \/ Alloc(p)
    BY <1>21, <1>22, <1>23, <2>2
  <2>3. CASE SweepOne(p) \/ Refill(p) \/ RefillClaim(p)
    BY <1>1, <1>2, <1>3, <2>3
  <2>4. QED
    BY <1>26, <2>1, <2>2, <2>3 DEF Mutate, Moves
<1>27. ASSUME NEW p \in Procs, Continue(p) \/ Mark(p) PROVE Checks'
  <2>1. CASE Continue(p)
    BY <1>4, <1>13, <2>1 DEF Continue
  <2>2. CASE Mark(p)
    BY <1>9, <1>14, <1>24, <1>25, <2>2 DEF Mark
  <2>3. QED
    BY <1>27, <2>1, <2>2
<1>28. ASSUME Background \/ Coordinate PROVE Checks'
  <2>1. CASE Background
    BY <1>5, <1>6, <2>1 DEF Background
  <2>2. CASE Coordinate
    BY <1>7, <1>8, <1>10, <1>11, <1>12, <1>15, <1>16, <1>17, <2>2 DEF Coordinate
  <2>3. QED
    BY <1>28, <2>1, <2>2
<1>29. QED
  BY <1>18, <1>21, <1>26, <1>27, <1>28 DEF Next

\* Every step keeps the segments as they are told apart: a step of a goroutine is in
\* its youngest, and the pause leaves no barrier behind.
LEMMA StackInvStep == IInv /\ [Next]_vars => StackInv'
<1> SUFFICES ASSUME IInv, [Next]_vars PROVE StackInv'
  OBVIOUS
<1>0. TypeOK /\ StackInv
  BY DEF IInv
<1> USE <1>0, SegmentFacts DEF TypeOK, OffPoints, GCPoints, writeBarrierEnabled,
     heapvars, markvars, sweepvars, gcvars, StackInv
<1>1. ASSUME NEW p \in Busy, Moves(p) PROVE StackInv'
  <2>1. /\ UNCHANGED <<gc, todo>> /\ top' \in [Busy -> Segments] /\ top'[p] <= top[p]
        /\ \A q \in Busy \ {p} :
             top'[q] = top[q] /\ \A j \in Segments : stack'[q][j] = stack[q][j]
        /\ \A j \in Segments : j > top'[p] => stack'[p][j] = {}
    BY <1>1, MoveFacts
  <2>2. top'[p] # 1 => top[p] # 1
    BY <2>1
  <2>3. QED
    BY <2>1, <2>2
<1>2. ASSUME NEW p \in Procs, (p \in Busy /\ StoreUp(p)) \/ Send(p) PROVE StackInv'
  <2>1. /\ UNCHANGED <<gc, todo, top>>
        /\ \A q \in Busy, j \in Segments : j > top[q] => stack'[q][j] = stack[q][j]
    BY <1>2, WriteFacts
  <2>2. QED
    BY <2>1
<1>3. ASSUME NEW p \in Busy, Alloc(p) PROVE StackInv'
  <2>1. /\ UNCHANGED <<gc, todo, top>>
        /\ \A q \in Busy, j \in Segments :
             q # p \/ j # top[p] => stack'[q][j] = stack[q][j]
    BY <1>3, AllocFacts
  <2>3. ASSUME NEW q \in Busy, NEW j \in Segments, j > top[q] PROVE stack'[q][j] = stack[q][j]
    <3>1. top[q] \in Nat /\ j \in Nat
      OBVIOUS
    <3>2. j # top[q]
      BY <2>3, <3>1
    <3>3. QED
      BY <2>1, <3>2
  <2>4. QED
    BY <2>1, <2>3
<1>4. ASSUME NEW r \in Busy, NEW p \in Procs, ScanStack(r, p) PROVE StackInv'
  <2>1. /\ \A q \in Busy \ {r} :
             top'[q] = top[q] /\ \A j \in Segments : stack'[q][j] = stack[q][j]
        /\ \A j \in Segments : j > top'[r] => stack'[r][j] = {}
    BY <1>4, ScanStackFacts
  <2>2. gc = "scan" /\ gc' = gc /\ todo' = todo \ {r}
    BY <1>4 DEF ScanStack
  <2>3. QED
    BY <2>1, <2>2
<1>5. ASSUME NEW p \in Procs, MarkRoot(p) PROVE StackInv'
  <2>1. gc = "termination" /\ gc' = gc
    BY <1>5, MarkRootFacts
  <2>2. CASE UNCHANGED <<stack, top>> /\ \E d \in {"data", "caches"} : todo' = todo \ {d}
    BY <2>1, <2>2
  <2>3. CASE \E r \in Busy :
               /\ \A q \in Busy, j \in Segments :
                    stack'[q][j] = IF q # r THEN stack[q][j] ELSE IF j = 1 THEN Known(r) ELSE {}
               /\ \A q \in Busy : top'[q] = IF q = r THEN 1 ELSE top[q]
               /\ todo' = todo \ {r}
    <3>1. PICK r \in Busy :
             /\ \A q \in Busy, j \in Segments :
                  stack'[q][j] = IF q # r THEN stack[q][j] ELSE IF j = 1 THEN Known(r) ELSE {}
             /\ \A q \in Busy : top'[q] = IF q = r THEN 1 ELSE top[q]
             /\ todo' = todo \ {r}
      BY <2>3
    <3>2. \A j \in Segments : j > 1 => stack'[r][j] = {}
      BY <3>1
    <3>3. top'[r] = 1
      BY <3>1
    <3>4. \A q \in Busy \ {r} :
            /\ top'[q] = top[q] /\ \A j \in Segments : stack'[q][j] = stack[q][j]
            /\ q \in todo' <=> q \in todo
      BY <3>1
    <3>5. QED
      BY <2>1, <3>2, <3>3, <3>4
  <2>4. QED
    BY <1>5, <2>2, <2>3, MarkRootFacts
<1>6. ASSUME UNCHANGED <<stack, top, gc, todo>> PROVE StackInv'
  BY <1>6
<1>7. ASSUME NEW p \in Busy, Store(p) \/ SweepOne(p) \/ Refill(p) \/ RefillClaim(p)
      PROVE  UNCHANGED <<stack, top, gc, todo>>
  BY <1>7 DEF Store, SweepOne, Refill, RefillClaim
<1>8. ASSUME NEW p \in Procs, Continue(p) PROVE UNCHANGED <<stack, top, gc, todo>>
  BY <1>8 DEF Continue, TestMark, Grey, FinishSweepOne
<1>9. ASSUME NEW p \in Procs, Mark(p), ~MarkRoot(p) PROVE UNCHANGED <<stack, top, gc, todo>>
  BY <1>9 DEF Mark, StartWorker, StopWorker, Scan, GetFull, Dispose
<1>10. ASSUME Background \/ SweepTerm PROVE UNCHANGED <<stack, top, gc, todo>>
  BY <1>10 DEF Background, BgSweepClaim, BgSweep, SweepTerm
<1>11. ASSUME StartCycle \/ SweepTermClaim \/ StartScan \/ StartForced \/ ResetStacks
       PROVE  StackInv'
  BY <1>11 DEF StartCycle, SweepTermClaim, StartScan, StartForced, StartTermination,
     FinishSweep, Reclaim, ResetStacks
<1>12. ASSUME ScanData PROVE StackInv'
  BY <1>12 DEF ScanData
<1>13. ASSUME EndScan \/ Rescan \/ EndMark PROVE StackInv'
  BY <1>13 DEF EndScan, Rescan, EndMark
<1>14. ASSUME StopForTermination \/ EndCycle PROVE StackInv'
  BY <1>14 DEF StopForTermination, StartTermination, EndCycle
<1>15. CASE UNCHANGED vars
  BY <1>6, <1>15 DEF vars
<1>16. QED
  BY <1>1, <1>2, <1>3, <1>4, <1>5, <1>6, <1>7, <1>8, <1>9, <1>10, <1>11, <1>12, <1>13,
     <1>14, <1>15 DEF Next, Mutate, Mark, Coordinate, Moves

\* So every step keeps all the checks.
LEMMA NoThrowStep == IInv /\ [Next]_vars => NoThrow'
<1> SUFFICES ASSUME IInv, [Next]_vars PROVE NoThrow'
  OBVIOUS
<1>1. Checks'
  BY ChecksStep
<1>2. \A p \in Busy : gc' = "scan" /\ p \in todo' => top'[p] = 1
  BY StackInvStep DEF StackInv
<1>3. QED
  BY <1>1, <1>2 DEF NoThrow, Checks, OneSweeper

\* Every step keeps the tie between a P's point, the span it has claimed and the
\* phase.
LEMMA SweepInvStep == IInv /\ [Next]_vars => SweepInv'
<1> SUFFICES ASSUME IInv, [Next]_vars PROVE SweepInv'
  OBVIOUS
<1> USE DEF IInv, TypeOK, Points, Mutating, Marking, OffPoints, GCPoints,
     writeBarrierEnabled, gcBlackenEnabled, gcBlackenPromptly, gcwaiting, GreyObjects,
     heapvars, markvars, sweepvars, gcvars, NoThrow, SweepInv
<1>1. ASSUME NEW p \in Busy, SweepOne(p) PROVE SweepInv'
  BY <1>1 DEF SweepOne, CanRun, Goto, Claim
<1>2. ASSUME NEW p \in Busy, RefillClaim(p) PROVE SweepInv'
  BY <1>2 DEF RefillClaim, NeedsSpan, CanRun, Claim, Goto
<1>3. ASSUME NEW p \in Procs, FinishSweepOne(p) PROVE SweepInv'
  BY <1>3 DEF FinishSweepOne, SweepClaimed, Reclaim, Goto
<1>4. ASSUME BgSweepClaim PROVE SweepInv'
  BY <1>4 DEF BgSweepClaim, Claim, SpansOf
<1>5. ASSUME BgSweep PROVE SweepInv'
  BY <1>5 DEF BgSweep, SweepClaimed, Reclaim
<1>6. ASSUME SweepTermClaim PROVE SweepInv'
  BY <1>6 DEF SweepTermClaim, Claim, SpansOf
<1>7. ASSUME SweepTerm PROVE SweepInv'
  BY <1>7 DEF SweepTerm, SweepClaimed, Reclaim
<1>8. ASSUME NEW p \in Procs, MarkRoot(p) PROVE SweepInv'
  BY <1>8 DEF MarkRoot, MarkData, Unmarked
<1>9. ASSUME EndCycle PROVE SweepInv'
  <2>1. \A s \in Spans : lag[s] = 0
    BY <1>9 DEF EndCycle
  <2>2. \A s \in Spans : lag'[s] \in {0, 2}
    BY <1>9, <2>1 DEF EndCycle
  <2>3. gc' = "idle" /\ UNCHANGED <<span, cache>> /\ \A q \in Procs : pc'[q] = "run"
    BY <1>9 DEF EndCycle
  <2>4. \A q \in Procs : span[q] = NoSpan
    BY <1>9 DEF EndCycle
  <2>5. span["gc"] = NoSpan
    BY <1>9 DEF EndCycle
  <2>6. QED
    BY <2>2, <2>3, <2>4, <2>5
<1>10. ASSUME StartForced PROVE SweepInv'
  <2>1. /\ gc = "stop1" /\ \A q \in Procs : pc[q] = "run"
        /\ gc' = "termination" /\ todo' = TerminationRoots /\ UNCHANGED <<span, cache>>
        /\ lag' = [s \in Spans |-> 0] /\ pc' = [q \in Procs |-> "mark"]
    BY <1>10 DEF StartForced, WorldStopped, FinishSweep, StartTermination
  <2>2. span["gc"] = NoSpan /\ \A q \in Procs : span[q] = NoSpan
    BY <2>1
  <2>3. QED
    BY <2>1, <2>2
<1>11. ASSUME NEW p \in Busy, Refill(p) PROVE SweepInv'
  BY <1>11 DEF Refill, NeedsSpan, CanRun, SpansOf, InCache
<1>12. ASSUME UNCHANGED <<lag, span, cache, gc, todo>>,
              \A q \in Procs : pc'[q] \in {"sweep", "refill"} <=> pc[q] \in {"sweep", "refill"}
       PROVE  SweepInv'
  BY <1>12
<1>18. ASSUME NEW p \in Procs, NEW x \in Pointer, pc[p] = "run", WriteBarrier(p, x),
              UNCHANGED <<lag, span, cache, gc, todo>>
       PROVE  SweepInv'
  <2>1. \A q \in Procs : pc'[q] \in {"sweep", "refill"} <=> pc[q] \in {"sweep", "refill"}
    BY <1>18, BarrierFacts
  <2>2. QED
    BY <1>12, <1>18, <2>1
<1>19. ASSUME NEW p \in Procs, (p \in Busy /\ StoreUp(p)) \/ Send(p) PROVE SweepInv'
  <2>1. /\ pc[p] = "run" /\ UNCHANGED <<lag, span, cache, gc, todo>>
        /\ \E x \in Objects : WriteBarrier(p, x)
    BY <1>19, WriteFacts DEF CanRun
  <2>2. QED
    BY <1>18, <2>1
<1>20. ASSUME NEW p \in Busy, Store(p) PROVE SweepInv'
  <2>1. /\ pc[p] = "run" /\ UNCHANGED <<lag, span, cache, gc, todo>>
        /\ \E x \in Pointer : WriteBarrier(p, x)
    BY <1>20 DEF Store, CanRun, Known
  <2>2. QED
    BY <1>18, <2>1
<1>21. ASSUME NEW p \in Busy, Moves(p) PROVE SweepInv'
  <2>1. UNCHANGED <<lag, span, cache, gc, todo, pc>>
    BY <1>21, MoveFacts
  <2>2. QED
    BY <1>12, <2>1
<1>22. ASSUME NEW p \in Busy, Alloc(p) PROVE SweepInv'
  <2>1. UNCHANGED <<lag, span, cache, gc, todo>>
    BY <1>22 DEF Alloc
  <2>2. pc[p] = "run" /\ (UNCHANGED pc \/ pc' = [pc EXCEPT ![p] = "mark"])
    BY <1>22 DEF Alloc, CanRun, Goto
  <2>3. \A q \in Procs : pc'[q] \in {"sweep", "refill"} <=> pc[q] \in {"sweep", "refill"}
    BY <2>2
  <2>4. QED
    BY <1>12, <2>1, <2>3
<1>23. ASSUME NEW p \in Procs, TestMark(p) \/ Grey(p) PROVE SweepInv'
  <2>1. UNCHANGED <<lag, span, cache, gc, todo>>
    BY <1>23 DEF TestMark, Grey
  <2>2. \A q \in Procs : pc'[q] \in {"sweep", "refill"} <=> pc[q] \in {"sweep", "refill"}
    BY <1>23 DEF TestMark, Grey, Goto
  <2>3. QED
    BY <1>12, <2>1, <2>2
<1>13. ASSUME NEW p \in Procs, StartWorker(p) \/ StopWorker(p) \/ Scan(p) \/ GetFull(p)
       \/ Dispose(p)
     PROVE  SweepInv'
  BY <1>13 DEF StartWorker, CanRun, Goto, StopWorker, Scan, GetFull, Dispose
<1>14. ASSUME StartCycle \/ StartScan \/ ResetStacks \/ ScanData \/
       EndScan
     PROVE  SweepInv'
  BY <1>14 DEF StartCycle, StartScan, WorldStopped, FinishSweep, Reclaim,
       SpansOf, ResetStacks, ScanData, MarkData, Unmarked, EndScan
<1>15. ASSUME Rescan \/ EndMark \/ StopForTermination PROVE SweepInv'
  BY <1>15 DEF Rescan, MarkData, Unmarked, EndMark, StopForTermination, WorldStopped,
       StartTermination
<1>16. ASSUME NEW r \in Busy, NEW p \in Procs, ScanStack(r, p) PROVE SweepInv'
  BY <1>16 DEF ScanStack, Unmarked
<1>17. CASE UNCHANGED vars
  BY <1>17 DEF vars
<1>24. ASSUME NEW p \in Busy, Mutate(p) PROVE SweepInv'
  <2>1. CASE Moves(p)
    BY <1>21, <2>1
  <2>2. CASE Store(p) \/ StoreUp(p) \/ Alloc(p)
    BY <1>19, <1>20, <1>22, <2>2
  <2>3. CASE SweepOne(p) \/ Refill(p) \/ RefillClaim(p)
    BY <1>1, <1>2, <1>11, <2>3
  <2>4. QED
    BY <1>24, <2>1, <2>2, <2>3 DEF Mutate, Moves
<1>25. ASSUME NEW p \in Procs, Continue(p) \/ Mark(p) PROVE SweepInv'
  <2>1. CASE Continue(p)
    BY <1>3, <1>23, <2>1 DEF Continue
  <2>2. CASE Mark(p)
    BY <1>8, <1>13, <2>2 DEF Mark
  <2>3. QED
    BY <1>25, <2>1, <2>2
<1>26. ASSUME Background \/ Coordinate PROVE SweepInv'
  <2>1. CASE Background
    BY <1>4, <1>5, <2>1 DEF Background
  <2>2. CASE Coordinate
    BY <1>6, <1>7, <1>9, <1>10, <1>14, <1>15, <1>16, <2>2 DEF Coordinate
  <2>3. QED
    BY <1>26, <2>1, <2>2
<1>27. QED
  BY <1>17, <1>19, <1>24, <1>25, <1>26 DEF Next

\* A sweep of a span takes the marks off its slots when nothing is grey.
LEMMA SweepMark ==
  ASSUME IInv, NEW a \in Sweepers, span[a] # NoSpan, SweepClaimed(a),
         UNCHANGED <<hand, gcw, full, gc>>,
         \A q \in Procs : pc'[q] = pc[q] \/ pc'[q] = "run"
  PROVE  MarkInv'
<1>1. MarkInv /\ TypeOK /\ \A s, t \in Spans : s = t \/ s \cap t = {}
  BY DEF IInv
<1>2. /\ span[a] \in Spans /\ span[a] \subseteq Objects /\ Reclaim(span[a])
      /\ ~writeBarrierEnabled /\ \A u \in Spans : u # span[a] => lag'[u] = lag[u]
  BY SweepFacts
<1>3. free' = free \cup (span[a] \ marked) /\ marked' = marked \ span[a]
  BY <1>1, <1>2, ReclaimFacts
<1>4. marked' \cap free' = {}
  BY <1>1, <1>3 DEF MarkInv
<1>5. GreyObjects' = {}
  BY <1>1, <1>2 DEF MarkInv, GreyObjects
<1>6. ASSUME NEW p \in Procs
      PROVE  /\ hand'[p] = Null /\ pc'[p] \in {"run", "sweep", "refill"}
             /\ gc' # "termination"
  BY <1>1, <1>2 DEF MarkInv, writeBarrierEnabled, OffPoints
<1>7. ASSUME NEW s \in Spans, lag'[s] = 0 PROVE s \cap marked' = {}
  <2>1. CASE s = span[a]
    BY <1>3, <2>1
  <2>2. CASE s # span[a]
    BY <1>1, <1>2, <1>3, <1>7, <2>2 DEF MarkInv
  <2>3. QED
    BY <2>1, <2>2
<1>8. Null \notin free'
  BY <1>1, <1>2, <1>3 DEF TypeOK
<1>9. QED
  BY <1>4, <1>5, <1>6, <1>7, <1>8 DEF MarkInv

\* A claim leaves the marks alone.
LEMMA ClaimMark ==
  ASSUME IInv, NEW a \in Sweepers, NEW s \in Spans, span[a] = NoSpan, Claim(a, s),
         UNCHANGED <<free, marked, hand, gcw, full, gc>>,
         \A q \in Procs : pc'[q] = pc[q] \/ (pc[q] = "run" /\ pc'[q] \in {"sweep", "refill"})
  PROVE  MarkInv'
<1>1. MarkInv
  BY DEF IInv
<1>2. \A u \in Spans : lag'[u] = 0 => lag[u] = 0
  BY ClaimFacts
<1>3. GreyObjects' = GreyObjects /\ writeBarrierEnabled' = writeBarrierEnabled
  BY DEF GreyObjects, writeBarrierEnabled
<1>4. ASSUME NEW p \in Procs
      PROVE  /\ hand'[p] # Null <=> pc'[p] \in {"shade", "shadeput", "test", "put"}
             /\ hand'[p] \notin free'
             /\ gc' = "termination" => pc'[p] \in Marking
             /\ ~writeBarrierEnabled' => pc'[p] \in {"run", "sweep", "refill"}
  BY <1>1, <1>3 DEF MarkInv, Marking
<1>5. QED
  BY <1>1, <1>2, <1>3, <1>4 DEF MarkInv

\* A write with its barrier puts a pointer at hand that is not free.
LEMMA WriteMark ==
  ASSUME IInv, NEW p \in Procs, NEW x \in Pointer, pc[p] = "run", x \notin free,
         WriteBarrier(p, x), UNCHANGED <<free, marked, gcw, full, gc, lag>>
  PROVE  MarkInv'
<1>1. MarkInv /\ TypeOK
  BY DEF IInv
<1>2. /\ \A q \in Procs \ {p} : hand'[q] = hand[q] /\ pc'[q] = pc[q]
      /\ IF writeBarrierEnabled /\ x # Null
         THEN hand'[p] = x /\ pc'[p] = "shade"
         ELSE hand'[p] = hand[p] /\ pc'[p] = pc[p]
  BY <1>1, BarrierFacts
<1>3. GreyObjects' = GreyObjects /\ writeBarrierEnabled' = writeBarrierEnabled
  BY DEF GreyObjects, writeBarrierEnabled
<1>4. gc # "termination"
  BY <1>1 DEF MarkInv, Marking
<1>5. ASSUME NEW q \in Procs
      PROVE  /\ hand'[q] # Null <=> pc'[q] \in {"shade", "shadeput", "test", "put"}
             /\ hand'[q] \notin free'
             /\ ~writeBarrierEnabled' => pc'[q] \in {"run", "sweep", "refill"}
  <2>1. CASE q = p
    BY <1>1, <1>2, <1>3, <2>1 DEF MarkInv
  <2>2. CASE q # p
    BY <1>1, <1>2, <1>3, <2>2 DEF MarkInv
  <2>3. QED
    BY <2>1, <2>2
<1>6. QED
  BY <1>1, <1>3, <1>4, <1>5 DEF MarkInv

\* Every step keeps the mark bits off the free slots, the grey among the marked,
\* and everything white where no cycle is under way.  A pointer that is about to
\* be marked is known, so it is not free.
LEMMA MarkInvStep == IInv /\ [Next]_vars => MarkInv'
<1> SUFFICES ASSUME IInv, [Next]_vars PROVE MarkInv'
  OBVIOUS
<1>0. /\ ptr \in [Slots -> Pointer] /\ free \in SUBSET Objects /\ marked \in SUBSET Objects
      /\ pc \in [Procs -> Points] /\ hand \in [Procs -> Pointer]
      /\ gcw \in [Procs -> SUBSET Objects] /\ full \in SUBSET Objects
      /\ lag \in [Spans -> Nat] /\ span \in [Sweepers -> Spans \cup {NoSpan}]
      /\ NoThrow /\ SweepInv /\ MarkInv
  BY DEF IInv, TypeOK
<1> USE <1>0 DEF Points, Mutating, Marking, OffPoints,
     writeBarrierEnabled, gcBlackenEnabled, gcBlackenPromptly, gcwaiting, GreyObjects,
     heapvars, markvars, sweepvars, gcvars, NoThrow, SweepInv, MarkInv
<1>1. ASSUME NEW p \in Busy, Moves(p) PROVE MarkInv'
  <2>1. UNCHANGED <<free, marked, hand, gcw, full, gc, lag, pc>>
    BY <1>1, MoveFacts
  <2>2. QED
    BY <2>1
<1>2. ASSUME NEW p \in Busy, Store(p) PROVE MarkInv'
  <2>1. PICK x \in Known(p) \cup {Null} : WriteBarrier(p, x)
    BY <1>2 DEF Store
  <2>2. x \in Pointer /\ x \notin free
    BY <2>1, NotFree
  <2>3. pc[p] = "run" /\ UNCHANGED <<free, marked, gcw, full, gc, lag>>
    BY <1>2 DEF Store, CanRun
  <2>4. QED
    BY <2>1, <2>2, <2>3, WriteMark
<1>26. ASSUME NEW p \in Procs, (p \in Busy /\ StoreUp(p)) \/ Send(p) PROVE MarkInv'
  <2>1. PICK x \in Objects : WriteBarrier(p, x) /\ x \notin free
    BY <1>26, WriteFacts
  <2>2. pc[p] = "run" /\ UNCHANGED <<free, marked, gcw, full, gc, lag>>
    BY <1>26, WriteFacts DEF CanRun
  <2>3. QED
    BY <2>1, <2>2, WriteMark
<1>3. ASSUME NEW p \in Busy, Alloc(p) PROVE MarkInv'
  <2>1. /\ pc[p] = "run" /\ UNCHANGED <<hand, gcw, full, gc, lag>>
        /\ UNCHANGED pc \/ (gcBlackenEnabled /\ pc' = [pc EXCEPT ![p] = "mark"])
    BY <1>3 DEF Alloc, CanRun, Goto
  <2>2. PICK o \in Objects : free' = free \ {o} /\ marked' = MarkNew(o)
    BY <1>3, AllocFacts
  <2>3. marked \subseteq marked' /\ marked' \cap free' = {}
    BY <2>2 DEF MarkNew
  <2>4. GreyObjects' \subseteq marked'
    BY <2>1, <2>3
  <2>5. \A q \in Procs :
          /\ hand'[q] # Null <=> pc'[q] \in {"shade", "shadeput", "test", "put"}
          /\ hand'[q] \notin free'
          /\ gc' = "termination" => pc'[q] \in Marking
    BY <2>1, <2>2
  <2>6. ~writeBarrierEnabled => marked' = marked /\ UNCHANGED pc
    BY <2>1, <2>2 DEF MarkNew
  <2>7. QED
    BY <2>1, <2>3, <2>4, <2>5, <2>6
<1>4. ASSUME NEW p \in Procs, TestMark(p) PROVE MarkInv'
  BY <1>4 DEF TestMark, Goto
<1>5. ASSUME NEW p \in Procs, Grey(p) PROVE MarkInv'
  BY <1>5 DEF Grey, Goto
<1>6. ASSUME NEW p \in Procs, FinishSweepOne(p) PROVE MarkInv'
  <2>1. span[p] # NoSpan /\ SweepClaimed(p) /\ UNCHANGED <<hand, gcw, full, gc>>
    BY <1>6 DEF FinishSweepOne
  <2>2. \A q \in Procs : pc'[q] = pc[q] \/ pc'[q] = "run"
    BY <1>6 DEF FinishSweepOne, Goto
  <2>3. QED
    BY <2>1, <2>2, SweepMark
<1>7. ASSUME NEW p \in Procs, Scan(p) PROVE MarkInv'
  <2>1. marked' \cap free' = {}
    BY <1>7, NotFree DEF Scan, Goto
  <2>2. \A q \in Procs : hand'[q] \notin free'
    BY <1>7, NotFree DEF Scan, Goto
  <2>3. GreyObjects' \subseteq marked'
    BY <1>7 DEF Scan, Goto
  <2>4. QED
    BY <1>7, <2>1, <2>2, <2>3 DEF Scan, Goto
<1>8. ASSUME NEW p \in Procs, GetFull(p) PROVE MarkInv'
  BY <1>8 DEF GetFull
<1>9. ASSUME NEW p \in Procs, Dispose(p) PROVE MarkInv'
  BY <1>9 DEF Dispose
<1>10. ASSUME NEW p \in Procs, MarkRoot(p) PROVE MarkInv'
  <2>1. UNCHANGED <<free, hand, gcw, pc, gc, lag>> /\ gc = "termination"
    BY <1>10, MarkRootFacts
  <2>2. PICK S \in SUBSET Pointer :
           /\ S \cap free = {}
           /\ marked' = marked \cup (S \ {Null}) /\ full' = full \cup Unmarked(S)
    BY <1>10, MarkRootMarks
  <2>3. marked' \cap free' = {} /\ GreyObjects' \subseteq marked'
    BY <2>1, <2>2 DEF Unmarked
  <2>4. QED
    BY <2>1, <2>3
<1>11. ASSUME BgSweep PROVE MarkInv'
  <2>1. span["bgsweep"] # NoSpan /\ SweepClaimed("bgsweep") /\ UNCHANGED <<hand, gcw, full, gc, pc>>
    BY <1>11 DEF BgSweep
  <2>2. QED
    BY <2>1, SweepMark
<1>12. ASSUME SweepTerm PROVE MarkInv'
  <2>1. span["gc"] # NoSpan /\ SweepClaimed("gc") /\ UNCHANGED <<hand, gcw, full, gc, pc>>
    BY <1>12 DEF SweepTerm
  <2>2. QED
    BY <2>1, SweepMark
<1>13. ASSUME StartScan PROVE MarkInv'
  BY <1>13 DEF StartScan, WorldStopped, FinishSweep, Reclaim, SpansOf
<1>14. ASSUME StartForced PROVE MarkInv'
  BY <1>14 DEF StartForced, WorldStopped, FinishSweep, Reclaim, SpansOf, StartTermination
<1>15. ASSUME NEW r \in Busy, NEW p \in Procs, ScanStack(r, p) PROVE MarkInv'
  <2>1. /\ gc = "scan" /\ UNCHANGED <<free, hand, full, pc, gc, lag>>
        /\ marked' = marked \cup Known(r)
        /\ gcw' = [gcw EXCEPT ![p] = @ \cup Unmarked(Known(r))]
    BY <1>15 DEF ScanStack
  <2>2. Known(r) \subseteq Objects /\ Known(r) \cap free = {}
    BY NotFree
  <2>3. marked' \cap free' = {}
    BY <2>1, <2>2
  <2>4. GreyObjects' \subseteq marked'
    BY <2>1 DEF Unmarked
  <2>5. QED
    BY <2>1, <2>3, <2>4
<1>16. ASSUME ScanData PROVE MarkInv'
  <2>1. marked' \cap free' = {}
    BY <1>16, NotFree DEF ScanData, MarkData, Unmarked
  <2>2. \A q \in Procs : hand'[q] \notin free'
    BY <1>16, NotFree DEF ScanData, MarkData, Unmarked
  <2>3. GreyObjects' \subseteq marked'
    BY <1>16 DEF ScanData, MarkData, Unmarked
  <2>4. QED
    BY <1>16, <2>1, <2>2, <2>3 DEF ScanData, MarkData, Unmarked
<1>17. ASSUME Rescan PROVE MarkInv'
  <2>1. marked' \cap free' = {}
    BY <1>17, NotFree DEF Rescan, MarkData, Unmarked
  <2>2. \A q \in Procs : hand'[q] \notin free'
    BY <1>17, NotFree DEF Rescan, MarkData, Unmarked
  <2>3. GreyObjects' \subseteq marked'
    BY <1>17 DEF Rescan, MarkData, Unmarked
  <2>4. QED
    BY <1>17, <2>1, <2>2, <2>3 DEF Rescan, MarkData, Unmarked
<1>18. ASSUME StopForTermination PROVE MarkInv'
  BY <1>18 DEF StopForTermination, WorldStopped, StartTermination
<1>19. ASSUME EndCycle PROVE MarkInv'
  BY <1>19 DEF EndCycle, Reclaim
<1>20. ASSUME NEW p \in Procs, Refill(p) \/ StartWorker(p) \/ StopWorker(p)
      PROVE  MarkInv'
  BY <1>20 DEF CanRun, Refill, NeedsSpan, StartWorker, StopWorker, Goto
<1>24. ASSUME NEW p \in Procs, SweepOne(p) \/ RefillClaim(p) PROVE MarkInv'
  <2>1. PICK u \in Spans : Claim(p, u)
    BY <1>24 DEF SweepOne, RefillClaim
  <2>2. /\ pc[p] = "run" /\ UNCHANGED <<free, marked, hand, gcw, full, gc>>
        /\ pc' = [pc EXCEPT ![p] = "sweep"] \/ pc' = [pc EXCEPT ![p] = "refill"]
    BY <1>24 DEF SweepOne, RefillClaim, NeedsSpan, CanRun, Goto
  <2>3. /\ span[p] = NoSpan
        /\ \A q \in Procs : pc'[q] = pc[q] \/ (pc[q] = "run" /\ pc'[q] \in {"sweep", "refill"})
    BY <2>2
  <2>4. QED
    BY <2>1, <2>2, <2>3, ClaimMark
<1>21. ASSUME BgSweepClaim \/ StartCycle \/ SweepTermClaim \/ ResetStacks
       \/ EndScan
     PROVE  MarkInv'
  BY <1>21 DEF BgSweepClaim, Claim, SpansOf, StartCycle, SweepTermClaim,
       ResetStacks, EndScan
<1>22. ASSUME EndMark PROVE MarkInv'
  BY <1>22 DEF EndMark
<1>23. CASE UNCHANGED vars
  BY <1>23 DEF vars
<1>25. ASSUME NEW p \in Busy, Mutate(p) PROVE MarkInv'
  BY <1>1, <1>2, <1>3, <1>20, <1>24, <1>25, <1>26 DEF Mutate, Moves
<1>27. ASSUME NEW p \in Procs, Continue(p) \/ Mark(p) PROVE MarkInv'
  BY <1>4, <1>5, <1>6, <1>7, <1>8, <1>9, <1>10, <1>20, <1>27 DEF Continue, Mark
<1>28. ASSUME Background \/ Coordinate PROVE MarkInv'
  BY <1>11, <1>12, <1>13, <1>14, <1>15, <1>16, <1>17, <1>18, <1>19, <1>21, <1>22, <1>28
     DEF Background, Coordinate
<1>29. QED
  BY <1>23, <1>25, <1>26, <1>27, <1>28 DEF Next

\* A store keeps the promise: what it stores is at hand.
LEMMA WritePromise ==
  ASSUME IInv, NEW p \in Procs, NEW x \in Pointer, pc[p] = "run", WriteBarrier(p, x),
         UNCHANGED <<marked, gcw, full, gc>>,
         \A o \in Objects : ptr'[o] = ptr[o] \/ ptr'[o] = x
  PROVE  ScannedPointsToMarked'
<1>1. /\ TypeOK /\ ScannedPointsToMarked /\ hand[p] = Null /\ marked \subseteq Objects
  BY DEF IInv, MarkInv, TypeOK
<1>2. GreyObjects' = GreyObjects /\ writeBarrierEnabled' = writeBarrierEnabled
  BY DEF GreyObjects, writeBarrierEnabled
<1>3. /\ \A q \in Procs \ {p} : hand'[q] = hand[q]
      /\ writeBarrierEnabled /\ x # Null => hand'[p] = x
  BY <1>1, BarrierFacts
<1>4. ASSUME writeBarrierEnabled, NEW o \in marked \ GreyObjects
      PROVE  ptr'[o] \in marked \cup {Null} \/ \E q \in Procs : hand'[q] = ptr'[o]
  <2>1. CASE ptr'[o] = x
    BY <1>3, <1>4, <2>1
  <2>2. CASE ptr'[o] = ptr[o]
    <3>1. ptr[o] \in marked \cup {Null} \/ \E q \in Procs : hand[q] = ptr[o]
      BY <1>1, <1>4 DEF ScannedPointsToMarked
    <3>2. QED
      BY <1>1, <1>3, <2>2, <3>1
  <2>3. QED
    BY <1>1, <2>1, <2>2
<1>5. QED
  BY <1>2, <1>4 DEF ScannedPointsToMarked

\* Every step keeps the write barrier's promise: a store of a pointer leaves it at
\* hand until it is marked, a scan likewise, and no mark is lost under the barrier.
LEMMA ScannedPointsToMarkedStep == IInv /\ [Next]_vars => ScannedPointsToMarked'
<1> SUFFICES ASSUME IInv, [Next]_vars PROVE ScannedPointsToMarked'
  OBVIOUS
<1>0. /\ ptr \in [Slots -> Pointer] /\ free \in SUBSET Objects /\ marked \in SUBSET Objects
      /\ pc \in [Procs -> Points] /\ hand \in [Procs -> Pointer]
      /\ gcw \in [Procs -> SUBSET Objects] /\ full \in SUBSET Objects
      /\ MarkInv /\ ScannedPointsToMarked
  BY DEF IInv, TypeOK
<1> USE <1>0 DEF Points, Mutating, Marking, OffPoints,
     writeBarrierEnabled, gcBlackenEnabled, gcBlackenPromptly, gcwaiting, GreyObjects,
     heapvars, markvars, sweepvars, gcvars, MarkInv, ScannedPointsToMarked
<1>1. ASSUME NEW p \in Busy, Store(p) PROVE ScannedPointsToMarked'
  <2>1. PICK s \in Known(p) \cup {Data}, x \in Known(p) \cup {Null} :
           ptr' = [ptr EXCEPT ![s] = x] /\ WriteBarrier(p, x)
    BY <1>1 DEF Store
  <2>2. /\ pc[p] = "run" /\ UNCHANGED <<marked, gcw, full, gc>> /\ x \in Pointer
        /\ \A o \in Objects : ptr'[o] = ptr[o] \/ ptr'[o] = x
    BY <1>1, <2>1 DEF Store, CanRun, Known
  <2>3. QED
    BY <2>1, <2>2, WritePromise
<1>2. ASSUME NEW p \in Busy, Alloc(p) PROVE ScannedPointsToMarked'
  <2>1. UNCHANGED <<hand, gcw, full, gc>>
    BY <1>2, AllocFacts
  <2>2. PICK o \in Objects : ptr' = [ptr EXCEPT ![o] = Null] /\ marked' = MarkNew(o)
    BY <1>2, AllocFacts
  <2>3. marked \subseteq marked' /\ marked' \subseteq marked \cup {o}
    BY <2>2 DEF MarkNew
  <2>4. ptr'[o] = Null /\ \A b \in Objects : b # o => ptr'[b] = ptr[b]
    BY <2>2
  <2>5. QED
    BY <2>1, <2>3, <2>4
<1>25. ASSUME NEW p \in Procs, (p \in Busy /\ StoreUp(p)) \/ Send(p)
       PROVE  ScannedPointsToMarked'
  <2>1. PICK x \in Objects : WriteBarrier(p, x)
    BY <1>25, WriteFacts
  <2>2. pc[p] = "run" /\ UNCHANGED <<ptr, marked, gcw, full, gc>>
    BY <1>25, WriteFacts DEF CanRun
  <2>3. QED
    BY <2>1, <2>2, WritePromise
<1>26. ASSUME NEW p \in Busy, Moves(p) PROVE ScannedPointsToMarked'
  <2>1. UNCHANGED <<ptr, marked, hand, gcw, full, gc>>
    BY <1>26, MoveFacts
  <2>2. QED
    BY <2>1
<1>3. ASSUME NEW p \in Procs, TestMark(p) PROVE ScannedPointsToMarked'
  BY <1>3 DEF TestMark, Goto
<1>4. ASSUME NEW p \in Procs, Grey(p) PROVE ScannedPointsToMarked'
  BY <1>4 DEF Grey, Goto
<1>5. ASSUME NEW p \in Procs, FinishSweepOne(p) PROVE ScannedPointsToMarked'
  <2>1. span[p] # NoSpan /\ UNCHANGED gc
    BY <1>5 DEF FinishSweepOne, IInv, SweepInv
  <2>2. ~writeBarrierEnabled
    BY <2>1, Sweeping
  <2>3. QED
    BY <2>1, <2>2
<1>6. ASSUME NEW p \in Procs, Scan(p) PROVE ScannedPointsToMarked'
  BY <1>6 DEF Scan, Goto
<1>7. ASSUME NEW p \in Procs, GetFull(p) PROVE ScannedPointsToMarked'
  BY <1>7 DEF GetFull
<1>8. ASSUME NEW p \in Procs, Dispose(p) PROVE ScannedPointsToMarked'
  BY <1>8 DEF Dispose
<1>9. ASSUME NEW p \in Procs, MarkRoot(p) PROVE ScannedPointsToMarked'
  <2>1. UNCHANGED <<ptr, hand, gcw, gc>>
    BY <1>9, MarkRootFacts
  <2>2. PICK S \in SUBSET Pointer :
           marked' = marked \cup (S \ {Null}) /\ full' = full \cup Unmarked(S)
    BY <1>9, MarkRootMarks
  <2>3. marked' \ GreyObjects' \subseteq marked \ GreyObjects
    BY <2>1, <2>2 DEF Unmarked
  <2>4. QED
    BY <2>1, <2>2, <2>3
<1>10. ASSUME BgSweep PROVE ScannedPointsToMarked'
  BY <1>10, Sweeping DEF BgSweep, SweepClaimed, Reclaim
<1>11. ASSUME SweepTerm PROVE ScannedPointsToMarked'
  BY <1>11, Sweeping DEF SweepTerm, SweepClaimed, Reclaim
<1>12. ASSUME StartScan PROVE ScannedPointsToMarked'
  BY <1>12 DEF StartScan, WorldStopped, FinishSweep, Reclaim, SpansOf
<1>13. ASSUME StartForced PROVE ScannedPointsToMarked'
  BY <1>13 DEF StartForced, WorldStopped, FinishSweep, Reclaim, SpansOf, StartTermination
<1>14. ASSUME NEW r \in Busy, NEW p \in Procs, ScanStack(r, p) PROVE ScannedPointsToMarked'
  <2>1. /\ UNCHANGED <<ptr, hand, full, gc>> /\ marked' = marked \cup Known(r)
        /\ gcw' = [gcw EXCEPT ![p] = @ \cup Unmarked(Known(r))]
    BY <1>14 DEF ScanStack
  <2>2. Known(r) \subseteq Objects
    BY DEF Known
  <2>3. marked' \ GreyObjects' \subseteq marked \ GreyObjects
    BY <2>1, <2>2 DEF Unmarked
  <2>4. QED
    BY <2>1, <2>3
<1>15. ASSUME ScanData PROVE ScannedPointsToMarked'
  BY <1>15 DEF ScanData, MarkData, Unmarked
<1>16. ASSUME Rescan PROVE ScannedPointsToMarked'
  BY <1>16 DEF Rescan, MarkData, Unmarked
<1>17. ASSUME StopForTermination PROVE ScannedPointsToMarked'
  BY <1>17 DEF StopForTermination, WorldStopped, StartTermination
<1>18. ASSUME EndCycle PROVE ScannedPointsToMarked'
  BY <1>18 DEF EndCycle, Reclaim
<1>19. ASSUME NEW p \in Procs, SweepOne(p) \/ Refill(p) \/
       RefillClaim(p) \/ StartWorker(p)
     PROVE  ScannedPointsToMarked'
  BY <1>19 DEF CanRun, SweepOne, Goto, Claim, Refill, NeedsSpan,
       SpansOf, InCache, RefillClaim, StartWorker
<1>20. ASSUME NEW p \in Procs, StopWorker(p) PROVE ScannedPointsToMarked'
  BY <1>20 DEF StopWorker, Goto
<1>21. ASSUME BgSweepClaim \/ StartCycle \/ SweepTermClaim \/ ResetStacks
       \/ EndScan
     PROVE  ScannedPointsToMarked'
  BY <1>21 DEF BgSweepClaim, Claim, SpansOf, StartCycle, SweepTermClaim,
       ResetStacks, EndScan
<1>22. ASSUME EndMark PROVE ScannedPointsToMarked'
  BY <1>22 DEF EndMark
<1>23. CASE UNCHANGED vars
  BY <1>23 DEF vars
<1>24. ASSUME NEW p \in Busy, Mutate(p) PROVE ScannedPointsToMarked'
  BY <1>1, <1>2, <1>19, <1>24, <1>25, <1>26 DEF Mutate, Moves
<1>27. ASSUME NEW p \in Procs, Continue(p) \/ Mark(p) PROVE ScannedPointsToMarked'
  BY <1>3, <1>4, <1>5, <1>6, <1>7, <1>8, <1>9, <1>19, <1>20, <1>27 DEF Continue, Mark
<1>28. ASSUME Background \/ Coordinate PROVE ScannedPointsToMarked'
  BY <1>10, <1>11, <1>12, <1>13, <1>14, <1>15, <1>16, <1>17, <1>18, <1>21, <1>22, <1>28
     DEF Background, Coordinate
<1>29. QED
  BY <1>23, <1>24, <1>25, <1>27, <1>28 DEF Next

\* What the scans of the roots have achieved stays, before the pause, while no mark is
\* lost, no pointer leaves a hand unmarked, and what comes to a frame that does not
\* run is marked or at hand.
LEMMA RootFrame ==
  ASSUME IInv, gc' # "termination",
         writeBarrierEnabled' /\ gc' # "reset" => writeBarrierEnabled /\ gc # "reset",
         marked \subseteq marked',
         \A q \in Procs : hand'[q] = hand[q] \/ hand[q] \in marked' \cup {Null},
         \A p \in Busy, i \in Segments :
           writeBarrierEnabled' /\ (valid'[p] \/ i < top'[p]) =>
             \A o \in stack'[p][i] :
               \/ (valid[p] \/ i < top[p]) /\ o \in stack[p][i]
               \/ o \in marked' \/ \E q \in Procs : hand'[q] = o,
         stack' \in [Busy -> [Segments -> SUBSET Objects]]
  PROVE  RootInv'
<1>1. ASSUME writeBarrierEnabled', gc' # "reset", NEW p \in Busy, NEW i \in Segments,
             valid'[p] \/ i < top'[p], NEW o \in stack'[p][i], o \notin marked'
      PROVE  \E q \in Procs : hand'[q] = o
  <2>1. CASE \E q \in Procs : hand'[q] = o
    BY <2>1
  <2>2. CASE (valid[p] \/ i < top[p]) /\ o \in stack[p][i]
    <3>1. o \in stack[p][i] \ marked
      BY <1>1, <2>2
    <3>2. RootInv /\ writeBarrierEnabled /\ gc # "reset"
      BY <1>1 DEF IInv
    <3>3. PICK q \in Procs : hand[q] = o
      BY <2>2, <3>1, <3>2 DEF RootInv
    <3>4. o # Null
      BY <1>1
    <3>5. QED
      BY <1>1, <3>3, <3>4
  <2>3. QED
    BY <1>1, <2>1, <2>2
<1>2. QED
  BY <1>1 DEF RootInv

\* It stays whatever is marked, in the pause too, while nothing else changes.
LEMMA RootMarkFrame ==
  ASSUME IInv, UNCHANGED <<ptr, stack, top, valid, gc, todo>>, marked \subseteq marked',
         \A q \in Procs : hand'[q] = hand[q] \/ hand[q] \in marked' \cup {Null}
  PROVE  RootInv'
<1>1. CASE gc = "termination"
  <2>1. \A p \in Busy : Known(p)' = Known(p)
    BY DEF Known
  <2>2. writeBarrierEnabled' = writeBarrierEnabled
    BY DEF writeBarrierEnabled
  <2>3. QED
    BY <1>1, <2>1, <2>2 DEF IInv, RootInv
<1>2. CASE gc # "termination"
  <2>1. writeBarrierEnabled' = writeBarrierEnabled
    BY DEF writeBarrierEnabled
  <2>2. stack' \in [Busy -> [Segments -> SUBSET Objects]]
    BY DEF IInv, TypeOK
  <2>3. QED
    BY <1>2, <2>1, <2>2, RootFrame
<1>3. QED
  BY <1>1, <1>2

\* And while the goroutines run, which is never in the pause.
LEMMA RunningGC ==
  ASSUME IInv, NEW p \in Procs, CanRun(p)
  PROVE  gc # "termination" /\ pc[p] = "run" /\ hand[p] = Null
BY DEF IInv, MarkInv, CanRun, gcwaiting

\* A write keeps it: what is written to a frame that is not to run is at hand.
LEMMA RootWrite ==
  ASSUME IInv, NEW p \in Procs, NEW x \in Pointer, CanRun(p), Runs(p), WriteBarrier(p, x),
         UNCHANGED <<top, marked, gc>>,
         stack' \in [Busy -> [Segments -> SUBSET Objects]],
         \A q \in Busy, j \in Segments : stack'[q][j] \subseteq stack[q][j] \cup {x}
  PROVE  RootInv'
<1>1. TypeOK /\ gc # "termination" /\ hand[p] = Null
  BY RunningGC DEF IInv
<1>2. /\ \A q \in Procs \ {p} : hand'[q] = hand[q]
      /\ writeBarrierEnabled /\ x # Null => hand'[p] = x
  BY <1>1, BarrierFacts
<1>3. \A q \in Busy : valid'[q] => valid[q]
  BY <1>1, RunsFacts
<1>4. writeBarrierEnabled' = writeBarrierEnabled
  BY DEF writeBarrierEnabled
<1>5. \A q \in Busy, j \in Segments : Null \notin stack'[q][j]
  OBVIOUS
<1>6. \A q \in Procs : hand'[q] = hand[q] \/ hand[q] \in marked' \cup {Null}
  BY <1>1, <1>2
<1>7. ASSUME NEW q \in Busy, NEW j \in Segments, writeBarrierEnabled', valid'[q] \/ j < top'[q],
             NEW o \in stack'[q][j]
      PROVE  \/ (valid[q] \/ j < top[q]) /\ o \in stack[q][j]
             \/ o \in marked' \/ \E r \in Procs : hand'[r] = o
  <2>1. CASE o = x
    BY <1>2, <1>4, <1>5, <1>7, <2>1
  <2>2. CASE o \in stack[q][j]
    BY <1>3, <1>7, <2>2
  <2>3. QED
    BY <1>7, <2>1, <2>2
<1>8. QED
  BY <1>1, <1>4, <1>6, <1>7, RootFrame

\* In the pause a stack is marked as a whole, although only its youngest segment is
\* scanned: the older ones were marked before.
LEMMA MarkRootMarksStack ==
  ASSUME IInv, gc = "termination", NEW r \in Busy,
         IF valid[r] THEN UNCHANGED <<marked, full>>
         ELSE /\ marked' = marked \cup stack[r][top[r]]
              /\ full' = full \cup Unmarked(stack[r][top[r]])
  PROVE  Known(r) \subseteq marked' /\ marked \subseteq marked'
<1>1. /\ RootInv /\ writeBarrierEnabled /\ top[r] \in Nat /\ \A i \in Segments : i \in Nat
      /\ \A i \in Segments : i > top[r] => stack[r][i] = {}
  <2>1. top[r] \in Segments /\ \A i \in Segments : i \in Nat
    BY SegmentFacts DEF IInv, TypeOK
  <2>2. RootInv /\ \A i \in Segments : i > top[r] => stack[r][i] = {}
    BY DEF IInv, StackInv
  <2>3. QED
    BY <2>1, <2>2 DEF writeBarrierEnabled, OffPoints
<1>2. marked \subseteq marked' /\ (~valid[r] => stack[r][top[r]] \subseteq marked')
  OBVIOUS
<1>3. \A i \in Segments : valid[r] \/ i < top[r] => stack[r][i] \subseteq marked
  BY <1>1 DEF RootInv
<1>4. ASSUME NEW i \in Segments PROVE stack[r][i] \subseteq marked'
  <2>1. CASE i < top[r]
    BY <1>2, <1>3, <2>1
  <2>2. CASE i > top[r]
    BY <1>1, <2>2
  <2>3. CASE i = top[r]
    BY <1>2, <1>3, <2>3
  <2>4. QED
    BY <1>1, <2>1, <2>2, <2>3
<1>5. QED
  BY <1>2, <1>4 DEF Known

\* Every step keeps what a scan of the roots has achieved: what runs loses its
\* gcscanvalid, what is written to a frame that does not run has a barrier, and
\* nothing runs in the pause.
LEMMA RootInvStep == IInv /\ [Next]_vars => RootInv'
<1> SUFFICES ASSUME IInv, [Next]_vars PROVE RootInv'
  OBVIOUS
<1>0. /\ TypeOK /\ RootInv /\ MarkInv /\ StackInv
      /\ \A i \in Segments : i \in Nat /\ ~(i < 1)
  BY SegmentFacts DEF IInv
<1> USE DEF OffPoints, writeBarrierEnabled
<1>1. ASSUME NEW p \in Busy, Moves(p) PROVE RootInv'
  <2>1. /\ CanRun(p) /\ Runs(p) /\ UNCHANGED <<marked, hand, gc>>
        /\ stack' \in [Busy -> [Segments -> SUBSET Objects]]
        /\ top' \in [Busy -> Segments] /\ top'[p] <= top[p]
        /\ \A q \in Busy \ {p} :
             top'[q] = top[q] /\ \A j \in Segments : stack'[q][j] = stack[q][j]
        /\ \A j \in Segments : j < top'[p] => stack'[p][j] \subseteq stack[p][j]
    BY <1>1, MoveFacts DEF markvars
  <2>2. gc # "termination" /\ \A q \in Busy : valid'[q] => valid[q] /\ q # p
    BY <1>0, <2>1, RunningGC, RunsFacts
  <2>3. top[p] \in Nat /\ top'[p] \in Nat
    BY <1>0, <2>1 DEF TypeOK
  <2>4. ASSUME NEW q \in Busy, NEW j \in Segments, valid'[q] \/ j < top'[q]
        PROVE  (valid[q] \/ j < top[q]) /\ stack'[q][j] \subseteq stack[q][j]
    <3>1. CASE q = p
      BY <1>0, <2>1, <2>2, <2>3, <2>4, <3>1
    <3>2. CASE q # p
      BY <2>1, <2>2, <2>4, <3>2
    <3>3. QED
      BY <3>1, <3>2
  <2>5. QED
    BY <2>1, <2>2, <2>4, RootFrame
<1>2. ASSUME NEW p \in Procs, (p \in Busy /\ StoreUp(p)) \/ Send(p) PROVE RootInv'
  BY <1>2, WriteFacts, RootWrite
<1>3. ASSUME NEW p \in Busy, Store(p) PROVE RootInv'
  <2>1. PICK x \in Known(p) \cup {Null} : WriteBarrier(p, x)
    BY <1>3 DEF Store
  <2>2. /\ CanRun(p) /\ Runs(p) /\ UNCHANGED <<stack, top, marked, gc>> /\ x \in Pointer
        /\ stack' \in [Busy -> [Segments -> SUBSET Objects]]
    BY <1>0, <1>3, <2>1 DEF Store, Known, TypeOK
  <2>3. QED
    BY <2>1, <2>2, RootWrite
<1>4. ASSUME NEW p \in Busy, Alloc(p) PROVE RootInv'
  <2>1. /\ CanRun(p) /\ Runs(p) /\ UNCHANGED <<top, hand, gc>>
        /\ stack' \in [Busy -> [Segments -> SUBSET Objects]]
        /\ \A q \in Busy, j \in Segments : q # p \/ j # top[p] => stack'[q][j] = stack[q][j]
        /\ \E o \in Objects : marked' = MarkNew(o)
    BY <1>4, AllocFacts
  <2>2. marked \subseteq marked'
    BY <2>1 DEF MarkNew
  <2>3. gc # "termination" /\ \A q \in Busy : valid'[q] => valid[q] /\ q # p
    BY <1>0, <2>1, RunningGC, RunsFacts
  <2>4. top[p] \in Nat
    BY <1>0 DEF TypeOK
  <2>5. ASSUME NEW q \in Busy, NEW j \in Segments, valid'[q] \/ j < top'[q]
        PROVE  (valid[q] \/ j < top[q]) /\ stack'[q][j] = stack[q][j]
    <3>1. q # p \/ j # top[p]
      BY <1>0, <2>1, <2>3, <2>4, <2>5
    <3>2. QED
      BY <2>1, <2>3, <2>5, <3>1
  <2>6. QED
    BY <2>1, <2>2, <2>3, <2>5, RootFrame
<1>5. ASSUME NEW p \in Procs, TestMark(p) \/ Grey(p) PROVE RootInv'
  <2>1. UNCHANGED <<ptr, stack, top, valid, gc, todo>> /\ marked \subseteq marked'
    BY <1>5 DEF TestMark, Grey, heapvars, gcvars
  <2>2. hand \in [Procs -> Pointer] /\ (hand' = [hand EXCEPT ![p] = Null] \/ UNCHANGED hand)
    BY <1>0, <1>5 DEF TestMark, Grey, TypeOK
  <2>3. UNCHANGED hand \/ hand[p] \in marked'
    BY <1>5 DEF TestMark, Grey
  <2>4. QED
    BY <2>1, <2>2, <2>3, RootMarkFrame
<1>6. ASSUME NEW p \in Procs, Scan(p) PROVE RootInv'
  <2>1. UNCHANGED <<ptr, stack, top, valid, gc, todo, marked>> /\ hand[p] = Null
    BY <1>0, <1>6 DEF Scan, heapvars, gcvars, MarkInv
  <2>2. \A q \in Procs \ {p} : hand'[q] = hand[q]
    BY <1>0, <1>6 DEF Scan, TypeOK
  <2>3. QED
    BY <2>1, <2>2, RootMarkFrame
<1>7. ASSUME NEW p \in Procs, MarkRoot(p) PROVE RootInv'
  <2>1. gc = "termination" /\ UNCHANGED <<ptr, hand, gc>>
    BY <1>7, MarkRootFacts
  <2>2. /\ \A q \in Busy \ todo : Known(q) \subseteq marked
        /\ "data" \notin todo => ptr[Data] \in marked \cup {Null}
        /\ \A q \in Busy, i \in Segments : valid[q] \/ i < top[q] => stack[q][i] \subseteq marked
    BY <1>0, <2>1 DEF RootInv
  <2>3. CASE /\ UNCHANGED <<stack, top, valid>> /\ marked \subseteq marked'
             /\ \E d \in {"data", "caches"} : todo' = todo \ {d}
             /\ "data" \notin todo' => "data" \notin todo \/ MarkData
    <3>1. \A q \in Busy : Known(q)' = Known(q) /\ (q \notin todo' => q \notin todo)
      BY <2>3 DEF Known
    <3>2. MarkData => ptr[Data] \in marked' \cup {Null}
      BY DEF MarkData
    <3>3. QED
      BY <2>1, <2>2, <2>3, <3>1, <3>2 DEF RootInv
  <2>4. ASSUME NEW r \in Busy \cap todo,
               IF valid[r] THEN UNCHANGED <<marked, full>>
               ELSE /\ marked' = marked \cup stack[r][top[r]]
                    /\ full' = full \cup Unmarked(stack[r][top[r]]),
               \A q \in Busy, j \in Segments :
                 stack'[q][j] = IF q # r THEN stack[q][j] ELSE IF j = 1 THEN Known(r) ELSE {},
               \A q \in Busy : top'[q] = IF q = r THEN 1 ELSE top[q],
               valid' = [valid EXCEPT ![r] = TRUE], todo' = todo \ {r}
        PROVE  RootInv'
    <3>1. Known(r) \subseteq marked' /\ marked \subseteq marked'
      BY <2>1, <2>4, MarkRootMarksStack
    <3>2. \A q \in Busy \ {r} :
            /\ valid'[q] = valid[q] /\ top'[q] = top[q] /\ (q \notin todo' => q \notin todo)
            /\ \A j \in Segments : stack'[q][j] = stack[q][j]
      BY <1>0, <2>4 DEF TypeOK
    <3>3. \A q \in Busy \ {r} : Known(q)' = Known(q)
      BY <3>2 DEF Known
    <3>4. \A j \in Segments : stack'[r][j] \subseteq marked'
      BY <2>4, <3>1
    <3>5. Known(r)' \subseteq marked'
      BY <3>4 DEF Known
    <3>6. \A q \in Busy, j \in Segments : valid'[q] \/ j < top'[q] => stack'[q][j] \subseteq marked'
      BY <2>2, <3>1, <3>2, <3>4
    <3>7. \A q \in Busy \ todo' : Known(q)' \subseteq marked'
      BY <2>2, <3>1, <3>2, <3>3, <3>5
    <3>8. "data" \notin todo' => "data" \notin todo
      BY <2>4
    <3>9. QED
      BY <2>1, <2>2, <3>1, <3>6, <3>7, <3>8 DEF RootInv
  <2>5. MarkData => marked \subseteq marked'
    BY DEF MarkData
  <2>6. QED
    BY <1>7, <2>3, <2>4, <2>5, MarkRootFacts
<1>8. ASSUME NEW r \in Busy, NEW p \in Procs, ScanStack(r, p) PROVE RootInv'
  <2>1. /\ gc = "scan" /\ UNCHANGED <<hand, gc>> /\ marked' = marked \cup Known(r)
        /\ valid' = [valid EXCEPT ![r] = TRUE]
    BY <1>8 DEF ScanStack
  <2>2. /\ stack' \in [Busy -> [Segments -> SUBSET Objects]]
        /\ \A q \in Busy \ {r} :
             top'[q] = top[q] /\ \A j \in Segments : stack'[q][j] = stack[q][j]
        /\ \A j \in Segments : stack'[r][j] \subseteq Known(r)
    BY <1>8, ScanStackFacts
  <2>3. \A q \in Busy \ {r} : valid'[q] = valid[q]
    BY <1>0, <2>1 DEF TypeOK
  <2>4. QED
    BY <2>1, <2>2, <2>3, RootFrame
<1>9. ASSUME StartForced \/ ResetStacks PROVE RootInv'
  <2>1. /\ gc \in {"stop1", "reset"} /\ UNCHANGED <<stack, top>>
        /\ valid' = [p \in Busy |-> FALSE] /\ Busy \cup {"data"} \subseteq todo'
    BY <1>9 DEF StartForced, ResetStacks, StartTermination, heapvars
  <2>2. \A p \in Busy : top[p] = 1 /\ ~valid'[p]
    BY <1>0, <2>1 DEF StackInv
  <2>3. UNCHANGED top
    BY <1>9 DEF StartForced, ResetStacks, heapvars
  <2>4. QED
    BY <1>0, <2>1, <2>2, <2>3 DEF RootInv
<1>10. ASSUME StopForTermination PROVE RootInv'
  <2>1. /\ \A q \in Procs : hand[q] = Null
        /\ UNCHANGED <<stack, top, valid, marked>>
        /\ gc = "stop2" /\ Busy \cup {"data"} \subseteq todo'
    BY <1>0, <1>10 DEF StopForTermination, StartTermination, WorldStopped, MarkInv, heapvars
  <2>2. \A p \in Busy, i \in Segments : stack[p][i] \subseteq Objects
    BY <1>0 DEF TypeOK
  <2>3. \A p \in Busy, i \in Segments : valid[p] \/ i < top[p] => stack[p][i] \subseteq marked
    BY <1>0, <2>1, <2>2 DEF RootInv
  <2>4. QED
    BY <2>1, <2>3 DEF RootInv
<1>11. ASSUME NEW p \in Procs, FinishSweepOne(p) PROVE RootInv'
  <2>1. span[p] # NoSpan /\ UNCHANGED gc
    BY <1>11 DEF FinishSweepOne, gcvars, IInv, SweepInv
  <2>2. QED
    BY <2>1, Sweeping DEF RootInv
<1>12. ASSUME BgSweep \/ SweepTerm PROVE RootInv'
  BY <1>12, Sweeping DEF BgSweep, SweepTerm, gcvars, RootInv
<1>13. ASSUME NEW p \in Procs, SweepOne(p) \/ Refill(p) \/ RefillClaim(p) PROVE RootInv'
  <2>1. UNCHANGED <<ptr, stack, top, valid, gc, todo, marked, hand>>
    BY <1>13 DEF SweepOne, Refill, RefillClaim, heapvars, markvars, gcvars
  <2>2. QED
    BY <2>1, RootMarkFrame
<1>14. ASSUME NEW p \in Procs, StartWorker(p) \/ StopWorker(p) \/ GetFull(p) \/ Dispose(p)
       PROVE  RootInv'
  <2>1. UNCHANGED <<ptr, stack, top, valid, gc, todo, marked, hand>>
    BY <1>14 DEF StartWorker, StopWorker, GetFull, Dispose, heapvars, markvars, gcvars
  <2>2. QED
    BY <2>1, RootMarkFrame
<1>15. ASSUME BgSweepClaim PROVE RootInv'
  <2>1. UNCHANGED <<ptr, stack, top, valid, gc, todo, marked, hand>>
    BY <1>15 DEF BgSweepClaim, heapvars, markvars, gcvars
  <2>2. QED
    BY <2>1, RootMarkFrame
<1>16. ASSUME ScanData \/ EndScan \/ Rescan \/ EndMark PROVE RootInv'
  <2>1. /\ gc \in {"scan", "mark1", "mark2"} /\ gc' \in {"scan", "mark1", "mark2", "stop2"}
        /\ UNCHANGED <<stack, top, valid, hand>> /\ marked \subseteq marked'
    BY <1>16 DEF ScanData, EndScan, Rescan, EndMark, MarkData, heapvars, markvars
  <2>2. stack' \in [Busy -> [Segments -> SUBSET Objects]]
    BY <1>0, <2>1 DEF TypeOK
  <2>3. QED
    BY <2>1, <2>2, RootFrame
<1>17. ASSUME StartCycle \/ SweepTermClaim \/ StartScan \/ EndCycle PROVE RootInv'
  <2>1. gc' \in OffPoints \cup {"reset"}
    BY <1>17 DEF StartCycle, SweepTermClaim, StartScan, EndCycle
  <2>2. QED
    BY <2>1 DEF RootInv
<1>18. CASE UNCHANGED vars
  <2>1. UNCHANGED <<ptr, stack, top, valid, gc, todo, marked, hand>>
    BY <1>18 DEF vars
  <2>2. QED
    BY <2>1, RootMarkFrame
<1>19. ASSUME NEW p \in Busy, Mutate(p) PROVE RootInv'
  BY <1>1, <1>2, <1>3, <1>4, <1>13, <1>19 DEF Mutate, Moves
<1>20. ASSUME NEW p \in Procs, Continue(p) \/ Mark(p) PROVE RootInv'
  BY <1>5, <1>6, <1>7, <1>11, <1>14, <1>20 DEF Continue, Mark
<1>21. ASSUME Background \/ Coordinate PROVE RootInv'
  BY <1>8, <1>9, <1>10, <1>12, <1>15, <1>16, <1>17, <1>21 DEF Background, Coordinate
<1>22. QED
  BY <1>2, <1>18, <1>19, <1>20, <1>21 DEF Next

\* What is neither free nor condemned: what the globals and the stacks point to, and
\* what such objects point to.  While the barrier is on nothing is condemned.
LEMMA NotLost ==
  ASSUME IInv
  PROVE  /\ Null \notin free \cup Condemned /\ free \cup Condemned \subseteq Objects
         /\ ptr[Data] \notin free \cup Condemned
         /\ \A q \in Procs : Known(q) \cap (free \cup Condemned) = {}
         /\ \A q \in Busy, j \in Segments : stack[q][j] \cap (free \cup Condemned) = {}
         /\ \A o \in Objects \ (free \cup Condemned) : ptr[o] \notin free \cup Condemned
         /\ writeBarrierEnabled /\ UNCHANGED lag => Condemned = {} /\ Condemned' = {}
<1>1. Null \notin free \cup Condemned /\ free \cup Condemned \subseteq Objects
  BY DEF IInv, TypeOK, Condemned
<1>2. /\ ptr[Data] \notin free \cup Condemned
      /\ \A q \in Busy : Known(q) \cap (free \cup Condemned) = {}
      /\ \A o \in Objects \ (free \cup Condemned) : ptr[o] \notin free \cup Condemned
  BY DEF IInv, ReachInv
<1>3. \A q \in Busy, j \in Segments : stack[q][j] \subseteq Known(q)
  BY DEF Known, IInv, TypeOK
<1>4. \A q \in Procs \ Busy : Known(q) = {}
  BY DEF Known
<1>5. writeBarrierEnabled /\ UNCHANGED lag => Condemned = {} /\ Condemned' = {}
  <2>1. writeBarrierEnabled => \A s \in Spans : lag[s] = 0
    BY DEF IInv, NoThrow
  <2>2. QED
    BY <2>1 DEF Condemned
<1>6. QED
  BY <1>1, <1>2, <1>3, <1>4, <1>5

\* What is reachable stays so off the lost slots while these stay the same, and what
\* is written anywhere is none of them.
LEMMA ReachFrame ==
  ASSUME free' \cup Condemned' = free \cup Condemned,
         ptr'[Data] \notin free \cup Condemned,
         \A q \in Busy, j \in Segments : stack'[q][j] \cap (free \cup Condemned) = {},
         \A o \in Objects \ (free \cup Condemned) : ptr'[o] \notin free \cup Condemned
  PROVE  ReachInv'
<1>1. \A q \in Busy : Known(q)' \cap (free \cup Condemned) = {}
  BY DEF Known
<1>2. QED
  BY <1>1 DEF ReachInv

\* So it does while only the stacks change.
LEMMA ReachStacks ==
  ASSUME IInv, UNCHANGED <<ptr, free>>, Condemned' = Condemned,
         \A q \in Busy, j \in Segments : stack'[q][j] \cap (free \cup Condemned) = {}
  PROVE  ReachInv'
BY NotLost, ReachFrame

\* It does while nothing changes but marks and points, under the barrier, and while
\* spans are claimed.
LEMMA ReachSame ==
  ASSUME IInv, UNCHANGED <<ptr, stack, free>>,
         \/ UNCHANGED lag /\ (writeBarrierEnabled \/ UNCHANGED marked)
         \/ UNCHANGED marked /\ \A s \in Spans : lag'[s] # 0 <=> lag[s] # 0
  PROVE  ReachInv'
<1>1. Condemned' = Condemned
  <2>1. CASE UNCHANGED marked /\ \A s \in Spans : lag'[s] # 0 <=> lag[s] # 0
    BY <2>1 DEF Condemned
  <2>2. CASE UNCHANGED lag /\ writeBarrierEnabled
    BY <2>2, NotLost
  <2>3. QED
    BY <2>1, <2>2
<1>2. QED
  BY <1>1, NotLost, ReachStacks

\* And while a sweep frees what is condemned and no more.
LEMMA ReachReclaim ==
  ASSUME IInv, NEW S \in SUBSET Objects, Reclaim(S), UNCHANGED stack,
         free' \cup Condemned' = free \cup Condemned
  PROVE  ReachInv'
<1>1. /\ ptr'[Data] = ptr[Data]
      /\ \A o \in Objects : ptr'[o] = ptr[o] \/ ptr'[o] = Null
  BY ReclaimFacts DEF IInv
<1>2. QED
  BY <1>1, NotLost, ReachFrame

\* The sweep of one span does that,
LEMMA SweepReach ==
  ASSUME IInv, NEW a \in Sweepers, span[a] # NoSpan, SweepClaimed(a), UNCHANGED stack
  PROVE  ReachInv'
<1>1. /\ span[a] \in Spans /\ span[a] \subseteq Objects /\ Reclaim(span[a])
      /\ lag[span[a]] = 1 /\ lag'[span[a]] = 0
      /\ \A u \in Spans : u # span[a] => lag'[u] = lag[u]
  BY SweepFacts
<1>2. free' = free \cup (span[a] \ marked) /\ marked' = marked \ span[a]
  BY <1>1, ReclaimFacts DEF IInv
<1>3. \A s \in Spans : s = span[a] \/ s \cap span[a] = {}
  BY <1>1
<1>4. Condemned' = Condemned \ span[a]
  <2>1. ASSUME NEW o \in Objects PROVE o \in Condemned' <=> o \in Condemned \ span[a]
    <3>1. CASE o \in span[a]
      <4>1. \A s \in Spans : o \in s => s = span[a]
        BY <1>3, <3>1
      <4>2. QED
        BY <1>1, <3>1, <4>1 DEF Condemned
    <3>2. CASE o \notin span[a]
      <4>1. /\ o \in free' <=> o \in free
            /\ o \in marked' <=> o \in marked
            /\ \A s \in Spans : o \in s => lag'[s] = lag[s]
        BY <1>1, <1>2, <3>2
      <4>2. QED
        BY <3>2, <4>1 DEF Condemned
    <3>3. QED
      BY <3>1, <3>2
  <2>2. QED
    BY <2>1 DEF Condemned
<1>5. span[a] \ marked \subseteq free \cup Condemned /\ Condemned \cap marked = {}
  BY <1>1 DEF Condemned
<1>6. free' \cup Condemned' = free \cup Condemned
  BY <1>2, <1>4, <1>5
<1>7. QED
  BY <1>1, <1>6, ReachReclaim

\* and so does what the coordinator sweeps as it starts.
LEMMA FinishReach ==
  ASSUME IInv, FinishSweep, UNCHANGED stack
  PROVE  ReachInv'
<1> DEFINE Unswept == UNION (Spans \ SpansOf(0))
<1>1. Reclaim(Unswept) /\ \A s \in Spans : lag'[s] = 0
  BY DEF FinishSweep
<1>2. Unswept \subseteq Objects
  OBVIOUS
<1>3. free' = free \cup (Unswept \ marked)
  BY <1>1, <1>2, ReclaimFacts DEF IInv
<1>4. Condemned' = {}
  BY <1>1 DEF Condemned
<1>5. \A o \in Objects : o \in Unswept <=> \E s \in Spans : o \in s /\ lag[s] # 0
  BY DEF SpansOf
<1>6. Unswept \ marked \subseteq free \cup Condemned
  BY <1>2, <1>5 DEF Condemned
<1>7. Condemned \subseteq Unswept \ marked
  BY <1>5 DEF Condemned
<1>8. free' \cup Condemned' = free \cup Condemned
  BY <1>3, <1>4, <1>6, <1>7
<1>9. QED
  BY <1>1, <1>2, <1>8, ReachReclaim

\* Every step keeps what is reachable off the free lists and the condemned spans.
\* The end of a cycle condemns what is white: by the other conjuncts every root
\* points to black objects and black objects to black ones.
LEMMA ReachInvStep == IInv /\ [Next]_vars => ReachInv'
<1> SUFFICES ASSUME IInv, [Next]_vars PROVE ReachInv'
  OBVIOUS
<1>0. TypeOK
  BY DEF IInv
<1>1. ASSUME NEW p \in Busy, Moves(p) PROVE ReachInv'
  <2>1. /\ UNCHANGED <<ptr, free, marked, lag>>
        /\ \A q \in Busy \ {p} : \A j \in Segments : stack'[q][j] = stack[q][j]
        /\ \A j \in Segments : \A o \in stack'[p][j] :
             o \in Known(p) \/ \E s \in Known(p) \cup {Data} : o = ptr[s]
    BY <1>1, MoveFacts DEF markvars, sweepvars
  <2>2. Condemned' = Condemned
    BY <2>1 DEF Condemned
  <2>3. \A s \in Known(p) \cup {Data} : ptr[s] \notin free \cup Condemned
    <3>1. Known(p) \subseteq Objects \ (free \cup Condemned)
      BY <1>1, NotLost DEF Known
    <3>2. QED
      BY <3>1, NotLost
  <2>4. \A j \in Segments : stack'[p][j] \cap (free \cup Condemned) = {}
    BY <2>1, <2>3, NotLost
  <2>5. QED
    BY <2>1, <2>2, <2>4, NotLost, ReachStacks
<1>2. ASSUME NEW p \in Procs, (p \in Busy /\ StoreUp(p)) \/ Send(p) PROVE ReachInv'
  <2>1. UNCHANGED <<ptr, free, marked, lag>>
    BY <1>2, WriteFacts DEF sweepvars
  <2>2. PICK x \in Objects :
           /\ x \notin free \cup Condemned
           /\ \A q \in Busy, j \in Segments : stack'[q][j] \subseteq stack[q][j] \cup {x}
    BY <1>2, WriteFacts
  <2>3. Condemned' = Condemned
    BY <2>1 DEF Condemned
  <2>4. QED
    BY <2>1, <2>2, <2>3, NotLost, ReachStacks
<1>3. ASSUME NEW p \in Busy, Store(p) PROVE ReachInv'
  <2>1. PICK s \in Known(p) \cup {Data}, x \in Known(p) \cup {Null} :
           ptr' = [ptr EXCEPT ![s] = x]
    BY <1>3 DEF Store
  <2>2. UNCHANGED <<stack, free, marked, lag>>
    BY <1>3 DEF Store, sweepvars
  <2>3. x \notin free \cup Condemned
    BY NotLost
  <2>4. \A t \in Slots : ptr'[t] = ptr[t] \/ ptr'[t] = x
    BY <1>0, <2>1 DEF TypeOK
  <2>5. Condemned' = Condemned
    BY <2>2 DEF Condemned
  <2>6. QED
    BY <2>2, <2>3, <2>4, <2>5, NotLost, ReachFrame
<1>4. ASSUME NEW p \in Busy, Alloc(p) PROVE ReachInv'
  <2>0. /\ UNCHANGED <<gc, lag>>
        /\ free \in SUBSET Objects /\ marked \in SUBSET Objects
        /\ ptr \in [Slots -> Pointer]
    BY <1>0, <1>4, AllocFacts DEF TypeOK, sweepvars
  <2>1. PICK o \in cache[p] \cap free :
           /\ o \in Objects /\ cache[p] \in Spans
           /\ free' = free \ {o} /\ ptr' = [ptr EXCEPT ![o] = Null] /\ marked' = MarkNew(o)
           /\ \A q \in Busy, j \in Segments :
                stack'[q][j] = IF q = p /\ j = top[p] THEN stack[q][j] \cup {o} ELSE stack[q][j]
    BY <1>4, AllocFacts
  <2>2. lag[cache[p]] = 0
    BY <2>1 DEF IInv, NoThrow, InCache
  <2>3. \A s \in Spans : o \in s => lag[s] = 0
    BY <2>1, <2>2
  <2>4. o \notin Condemned /\ o \notin Condemned'
    BY <2>0, <2>3 DEF Condemned
  <2>5. marked \subseteq marked' /\ marked' \subseteq marked \cup {o}
    BY <2>1 DEF MarkNew
  <2>6. Condemned' = Condemned
    <3>1. ASSUME NEW b \in Objects, b # o PROVE b \in Condemned' <=> b \in Condemned
      BY <2>0, <2>1, <2>5, <3>1 DEF Condemned
    <3>2. QED
      BY <2>4, <3>1 DEF Condemned
  <2>7. free' \cup Condemned' = (free \cup Condemned) \ {o}
    BY <2>1, <2>4, <2>6
  <2>8. /\ ptr'[Data] = ptr[Data] /\ ptr'[o] = Null
        /\ \A b \in Objects : b # o => ptr'[b] = ptr[b]
    BY <2>0, <2>1
  <2>9. \A q \in Busy : Known(q)' \cap (free' \cup Condemned') = {}
    <3>1. \A q \in Busy, j \in Segments : stack'[q][j] \subseteq stack[q][j] \cup {o}
      BY <2>1
    <3>2. \A q \in Busy, j \in Segments : stack'[q][j] \cap (free' \cup Condemned') = {}
      BY <2>7, <3>1, NotLost
    <3>3. QED
      BY <3>2 DEF Known
  <2>10. ptr'[Data] \notin free' \cup Condemned'
    BY <2>7, <2>8, NotLost
  <2>11. \A b \in Objects \ (free' \cup Condemned') : ptr'[b] \notin free' \cup Condemned'
    <3>1. ASSUME NEW b \in Objects, b \notin free' \cup Condemned'
          PROVE  ptr'[b] \notin free' \cup Condemned'
      <4>1. CASE b = o
        BY <2>7, <2>8, <4>1, NotLost
      <4>2. CASE b # o
        BY <2>7, <2>8, <3>1, <4>2, NotLost
      <4>3. QED
        BY <4>1, <4>2
    <3>2. QED
      BY <3>1
  <2>12. QED
    BY <2>9, <2>10, <2>11 DEF ReachInv
<1>5. ASSUME NEW p \in Procs, Grey(p) \/ TestMark(p) PROVE ReachInv'
  <2>1. UNCHANGED <<ptr, stack, free, lag>> /\ (Grey(p) \/ UNCHANGED marked)
    BY <1>5 DEF Grey, TestMark, heapvars, sweepvars
  <2>2. Grey(p) => writeBarrierEnabled
    BY DEF Grey, IInv, MarkInv
  <2>3. QED
    BY <2>1, <2>2, ReachSame
<1>6. ASSUME NEW p \in Procs, FinishSweepOne(p) PROVE ReachInv'
  <2>1. span[p] # NoSpan /\ SweepClaimed(p) /\ UNCHANGED stack
    BY <1>6 DEF FinishSweepOne, IInv, SweepInv
  <2>2. QED
    BY <2>1, SweepReach
<1>7. ASSUME NEW p \in Busy, SweepOne(p) \/ RefillClaim(p) PROVE ReachInv'
  <2>1. PICK u \in Spans : Claim(p, u)
    BY <1>7 DEF SweepOne, RefillClaim
  <2>2. pc[p] = "run" /\ UNCHANGED <<ptr, stack, free, marked>>
    BY <1>7 DEF SweepOne, RefillClaim, NeedsSpan, CanRun, heapvars, markvars
  <2>3. span[p] = NoSpan
    BY <2>2 DEF IInv, SweepInv
  <2>4. \A v \in Spans : lag'[v] # 0 <=> lag[v] # 0
    BY <2>1, <2>3, ClaimFacts
  <2>5. QED
    BY <2>2, <2>4, ReachSame
<1>8. ASSUME BgSweepClaim \/ SweepTermClaim PROVE ReachInv'
  <2>1. UNCHANGED <<ptr, stack, free, marked>>
    BY <1>8 DEF BgSweepClaim, SweepTermClaim, heapvars, markvars
  <2>2. CASE UNCHANGED lag
    BY <2>1, <2>2, ReachSame
  <2>3. CASE \E a \in Sweepers, u \in Spans : span[a] = NoSpan /\ Claim(a, u)
    <3>1. PICK a \in Sweepers, u \in Spans : span[a] = NoSpan /\ Claim(a, u)
      BY <2>3
    <3>2. \A v \in Spans : lag'[v] # 0 <=> lag[v] # 0
      BY <3>1, ClaimFacts
    <3>3. QED
      BY <2>1, <3>2, ReachSame
  <2>4. QED
    BY <1>8, <2>2, <2>3 DEF BgSweepClaim, SweepTermClaim
<1>9. ASSUME BgSweep \/ SweepTerm PROVE ReachInv'
  BY <1>9, SweepReach DEF BgSweep, SweepTerm
<1>10. ASSUME NEW p \in Procs, MarkRoot(p) PROVE ReachInv'
  <2>1. UNCHANGED <<ptr, free, lag>> /\ gc = "termination"
    BY <1>10, MarkRootFacts
  <2>2. Condemned = {} /\ Condemned' = {}
    BY <2>1, NotLost DEF writeBarrierEnabled, OffPoints
  <2>3. \A q \in Busy, j \in Segments : stack'[q][j] \cap (free \cup Condemned) = {}
    <3>1. CASE UNCHANGED stack
      BY <3>1, NotLost
    <3>2. CASE \E r \in Busy : \A q \in Busy, j \in Segments :
                 stack'[q][j] = IF q # r THEN stack[q][j] ELSE IF j = 1 THEN Known(r) ELSE {}
      BY <3>2, NotLost
    <3>3. QED
      BY <1>10, <3>1, <3>2, MarkRootFacts
  <2>4. QED
    BY <2>1, <2>2, <2>3, ReachStacks
<1>11. ASSUME NEW r \in Busy, NEW p \in Procs, ScanStack(r, p) PROVE ReachInv'
  <2>1. UNCHANGED <<ptr, free, lag>> /\ gc = "scan"
    BY <1>11 DEF ScanStack, sweepvars
  <2>2. Condemned = {} /\ Condemned' = {}
    BY <2>1, NotLost DEF writeBarrierEnabled, OffPoints
  <2>3. /\ \A q \in Busy \ {r}, j \in Segments : stack'[q][j] = stack[q][j]
        /\ \A j \in Segments : stack'[r][j] \subseteq Known(r)
    BY <1>11, ScanStackFacts
  <2>4. \A q \in Busy, j \in Segments : stack'[q][j] \cap (free \cup Condemned) = {}
    BY <2>3, NotLost
  <2>5. QED
    BY <2>1, <2>2, <2>4, ReachStacks
<1>12. ASSUME ScanData \/ Rescan PROVE ReachInv'
  <2>1. UNCHANGED <<ptr, stack, free, lag>> /\ gc \in {"scan", "mark1"}
    BY <1>12 DEF ScanData, Rescan, heapvars, sweepvars
  <2>2. QED
    BY <2>1, ReachSame DEF writeBarrierEnabled, OffPoints
<1>13. ASSUME StartScan \/ StartForced PROVE ReachInv'
  BY <1>13, FinishReach DEF StartScan, StartForced
<1>14. ASSUME EndCycle PROVE ReachInv'
  <2>1. /\ gc = "termination" /\ todo = {} /\ full = {} /\ UNCHANGED stack
        /\ \A p \in Procs : pc[p] = "mark" /\ gcw[p] = {}
    BY <1>14 DEF EndCycle
  <2>2. /\ \A s \in Spans : lag[s] = 0
        /\ \A p \in Procs : hand[p] = Null
        /\ \A p \in Busy : Known(p) \subseteq marked
        /\ ptr[Data] \in marked \cup {Null}
        /\ marked \subseteq Objects /\ free \subseteq Objects /\ marked \cap free = {}
    <3>1. /\ \A s \in Spans : lag[s] = 0
          /\ \A p \in Procs : hand[p] = Null
          /\ marked \cap free = {}
      BY <2>1 DEF IInv, NoThrow, MarkInv, writeBarrierEnabled, OffPoints
    <3>2. /\ \A p \in Busy : Known(p) \subseteq marked
          /\ ptr[Data] \in marked \cup {Null}
      BY <2>1 DEF IInv, RootInv
    <3>3. QED
      BY <1>0, <3>1, <3>2 DEF TypeOK
  <2>3. \A o \in marked : ptr[o] \in marked \cup {Null}
    <3>1. GreyObjects = {}
      BY <2>1 DEF GreyObjects
    <3>2. ScannedPointsToMarked /\ writeBarrierEnabled
      BY <2>1 DEF IInv, writeBarrierEnabled, OffPoints
    <3>3. QED
      BY <2>2, <3>1, <3>2 DEF ScannedPointsToMarked
  <2>4. /\ free' \cup Condemned' = Objects \ marked /\ ptr'[Data] = ptr[Data]
        /\ \A o \in marked : ptr'[o] = ptr[o]
    <3>1. CASE mode = "forceblock"
      <4>1. Reclaim(Objects) /\ UNCHANGED lag
        BY <1>14, <3>1 DEF EndCycle
      <4>2. /\ free' = free \cup (Objects \ marked) /\ ptr'[Data] = ptr[Data]
            /\ \A o \in marked : ptr'[o] = ptr[o]
        BY <1>0, <2>2, <4>1, ReclaimFacts
      <4>3. Condemned' = {}
        BY <2>2, <4>1 DEF Condemned
      <4>4. QED
        BY <2>2, <4>2, <4>3
    <3>2. CASE mode # "forceblock"
      <4>1. UNCHANGED <<free, ptr, marked>> /\ lag' = [s \in Spans |-> lag[s] + 2]
        BY <1>14, <3>2 DEF EndCycle
      <4>2. \A s \in Spans : lag'[s] # 0
        BY <2>2, <4>1
      <4>3. Condemned' = (Objects \ free) \ marked
        BY <4>1, <4>2 DEF Condemned
      <4>4. QED
        BY <2>2, <4>1, <4>3
    <3>3. QED
      BY <3>1, <3>2
  <2>5. ptr'[Data] \notin free' \cup Condemned'
    BY <2>2, <2>4
  <2>6. \A p \in Busy : Known(p)' \cap (free' \cup Condemned') = {}
    BY <2>1, <2>2, <2>4 DEF Known
  <2>7. \A o \in Objects \ (free' \cup Condemned') : ptr'[o] \notin free' \cup Condemned'
    BY <2>2, <2>3, <2>4
  <2>8. QED
    BY <2>5, <2>6, <2>7 DEF ReachInv
<1>15. ASSUME NEW p \in Procs, Refill(p) \/ StartWorker(p) \/ StopWorker(p) PROVE ReachInv'
  <2>1. UNCHANGED <<ptr, stack, free, lag, marked>>
    BY <1>15 DEF Refill, StartWorker, StopWorker, heapvars, markvars, sweepvars
  <2>2. QED
    BY <2>1, ReachSame
<1>16. ASSUME NEW p \in Procs, Scan(p) \/ GetFull(p) \/ Dispose(p) PROVE ReachInv'
  <2>1. UNCHANGED <<ptr, stack, free, lag, marked>>
    BY <1>16 DEF Scan, GetFull, Dispose, heapvars, sweepvars
  <2>2. QED
    BY <2>1, ReachSame
<1>17. ASSUME StartCycle \/ ResetStacks \/ EndScan \/ EndMark \/ StopForTermination
       PROVE  ReachInv'
  <2>1. UNCHANGED <<ptr, stack, free, lag, marked>>
    BY <1>17 DEF StartCycle, ResetStacks, EndScan, EndMark, StopForTermination, heapvars,
       markvars, sweepvars
  <2>2. QED
    BY <2>1, ReachSame
<1>18. CASE UNCHANGED vars
  <2>1. UNCHANGED <<ptr, stack, free, lag, marked>>
    BY <1>18 DEF vars
  <2>2. QED
    BY <2>1, ReachSame
<1>19. ASSUME NEW p \in Busy, Mutate(p) PROVE ReachInv'
  BY <1>1, <1>2, <1>3, <1>4, <1>7, <1>15, <1>19 DEF Mutate, Moves
<1>20. ASSUME NEW p \in Procs, Continue(p) \/ Mark(p) PROVE ReachInv'
  BY <1>5, <1>6, <1>10, <1>15, <1>16, <1>20 DEF Continue, Mark
<1>21. ASSUME Background \/ Coordinate PROVE ReachInv'
  BY <1>8, <1>9, <1>11, <1>12, <1>13, <1>14, <1>17, <1>21 DEF Background, Coordinate
<1>22. QED
  BY <1>2, <1>18, <1>19, <1>20, <1>21 DEF Next

-----------------------------------------------------------------------------
\* The invariant holds while no collection has run and the heap is empty.
LEMMA InitInv == Init => IInv
<1> SUFFICES ASSUME Init PROVE IInv
  OBVIOUS
<1> USE DEF Init, writeBarrierEnabled, OffPoints
<1>1. TypeOK
  <2>1. stack \in [Busy -> [Segments -> SUBSET Objects]] /\ top \in [Busy -> Segments]
    BY SegmentFacts
  <2>2. gcw \in [Procs -> SUBSET Objects] /\ valid \in [Busy -> BOOLEAN]
    OBVIOUS
  <2>3. QED
    BY <2>1, <2>2 DEF TypeOK, Points, Mutating, Marking, GCPoints
<1>2. NoThrow /\ SweepInv
  BY DEF NoThrow, SweepInv, Marking
<1>3. MarkInv /\ ScannedPointsToMarked /\ RootInv /\ StackInv
  BY DEF MarkInv, ScannedPointsToMarked, RootInv, StackInv, GreyObjects
<1>4. ReachInv
  BY DEF ReachInv, Condemned, Known
<1>5. QED
  BY <1>1, <1>2, <1>3, <1>4 DEF IInv

\* In every run: the types, the runtime's own checks, the promise of the write
\* barrier and the rest of IInv hold whatever the goroutines, the workers, the
\* sweepers and the collector do, in any order.
THEOREM Invariant == Spec => []IInv
<1>1. IInv /\ [Next]_vars => IInv'
  BY TypeOKStep, NoThrowStep, SweepInvStep, MarkInvStep, ScannedPointsToMarkedStep,
     StackInvStep, RootInvStep, ReachInvStep DEF IInv
<1>2. QED
  BY InitInv, <1>1, PTL DEF Spec

\* The collector frees nothing a goroutine can reach: no root, and no object a
\* goroutine holds, points to a free slot.
THEOREM MemorySafety == Spec => []NoDangling
<1>1. IInv => NoDangling
  <2>1. ASSUME IInv, NEW p \in Busy, NEW o \in Known(p)
        PROVE  o \notin free /\ ptr[o] \notin free
    <3>1. o \in Objects /\ o \notin free \cup Condemned
      BY <2>1, NotLost DEF Known
    <3>2. QED
      BY <2>1, <3>1, NotLost
  <2>2. QED
    BY <2>1, NotLost DEF NoDangling
<1>2. QED
  BY Invariant, <1>1, PTL

\* What a scanned object points to is marked or about to be, as long as the write
\* barrier is on: the pause at the end need not scan the heap again.
THEOREM BarrierPromise == Spec => []ScannedPointsToMarked
<1>1. IInv => ScannedPointsToMarked
  BY DEF IInv
<1>2. QED
  BY Invariant, <1>1, PTL

\* None of the throws of the sweeper, the span caches and the collector is reached.
THEOREM ChecksHold == Spec => []NoThrow
<1>1. IInv => NoThrow
  BY DEF IInv
<1>2. QED
  BY Invariant, <1>1, PTL
=============================================================================
