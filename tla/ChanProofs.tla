------------------------------ MODULE ChanProofs ------------------------------
(***************************************************************************)
(* Channels and select for every finite set of goroutines, every set of    *)
(* channels with their capacities, and every set of operations: IInv is    *)
(* inductive, nobody sleeps beside a partner, no wakeup is lost, and the   *)
(* whole implements the abstract channels.                                 *)
(***************************************************************************)
EXTENDS Chan, CommonTheorems, WellFoundedInduction, TLAPS

\* The first waiter that nobody has claimed.
LEMMA FirstLiveIs ==
  ASSUME NEW q \in Seq(Goroutines), NEW i, i = FirstLive(q)
  PROVE  \/ i = 0 /\ \A j \in 1..Len(q) : done[q[j]]
         \/ /\ i \in 1..Len(q) /\ ~done[q[i]]
            /\ \A j \in 1..Len(q) : j < i => done[q[j]]
<1> DEFINE I == {j \in 1..Len(q) : ~done[q[j]]}
<1>1. Len(q) \in Nat
  BY LenProperties
<1>2. i = IF I # {} THEN Min(I) ELSE 0
  BY DEF FirstLive, SelectInSeq
<1>3. ASSUME I # {}
      PROVE  Min(I) \in I /\ \A n \in I : Min(I) <= n
  <2>1. I \in SUBSET Nat
    BY <1>1
  <2>2. PICK m \in I : \A n \in I : ~(<<n, m>> \in OpToRel(<, Nat))
    BY <1>3, <2>1, NatLessThanWellFounded, WFMin, Zenon
  <2>3. ASSUME NEW n \in I
        PROVE  m <= n
    <3>1. m \in Nat /\ n \in Nat
      BY <2>1
    <3>2. <<n, m>> \in Nat \X Nat
      BY <3>1
    <3>3. ~(n < m)
      BY <2>2, <3>2 DEF OpToRel
    <3>4. QED
      BY <3>1, <3>3
  <2> HIDE DEF I
  <2>4. Min(I) = CHOOSE x \in I : \A y \in I : x <= y
    BY DEF Min
  <2>5. QED
    BY <2>3, <2>4
<1>4. CASE I = {}
  BY <1>1, <1>2, <1>4
<1>5. CASE I # {}
  <2>1. i \in I /\ \A n \in I : i <= n
    BY <1>2, <1>3, <1>5
  <2>2. ASSUME NEW j \in 1..Len(q), j < i
        PROVE  done[q[j]]
    <3>1. j \notin I
      BY <1>1, <2>1, <2>2
    <3>2. QED
      BY <3>1
  <2>3. QED
    BY <1>1, <2>1, <2>2
<1>6. QED
  BY <1>4, <1>5

\* The elements of q behind its i-th.
Behind(q, i) == {q[j] : j \in (i + 1)..Len(q)}

\* A queue without repetitions from behind one of its elements on.
LEMMA RestIs ==
  ASSUME NEW S, NEW q \in Seq(S), IsInjective(q), NEW i \in 1..Len(q),
         NEW r, r = SubSeq(q, i + 1, Len(q))
  PROVE  /\ r \in Seq(S) /\ IsInjective(r)
         /\ ToSet(r) = Behind(q, i)
<1>1. /\ Len(q) \in Nat /\ DOMAIN q = 1..Len(q)
      /\ \A j \in 1..Len(q) : q[j] \in S
  BY LenProperties, ElementOfSeq
<1>2. \A j \in (i + 1)..Len(q) : q[j] \in S
  BY <1>1
<1>3. /\ r \in Seq(S)
      /\ Len(r) = IF i + 1 <= Len(q) THEN Len(q) - (i + 1) + 1 ELSE 0
      /\ \A j \in 1..(Len(q) - (i + 1) + 1) : r[j] = q[(i + 1) + j - 1]
  BY <1>1, <1>2, SubSeqProperties, SMT
<1>4. i \in Int /\ 1 <= i /\ i <= Len(q) /\ Len(q) \in Int
  BY <1>1
<1>5. Len(r) = Len(q) - i
  BY <1>3, <1>4
<1>6. ASSUME NEW j \in 1..(Len(q) - i)
      PROVE  r[j] = q[i + j]
  <2>1. j \in 1..(Len(q) - (i + 1) + 1) /\ (i + 1) + j - 1 = i + j
    BY <1>4
  <2>2. QED
    BY <1>3, <2>1
<1>7. DOMAIN r = 1..(Len(q) - i)
  BY <1>3, <1>5, LenProperties
<1>8. ASSUME NEW j \in DOMAIN r, NEW k \in DOMAIN r, r[j] = r[k]
      PROVE  j = k
  <2>1. r[j] = q[i + j] /\ r[k] = q[i + k]
    BY <1>6, <1>7
  <2>2. j \in Int /\ k \in Int /\ i + j \in DOMAIN q /\ i + k \in DOMAIN q
    BY <1>1, <1>4, <1>7
  <2>3. i + j = i + k
    BY <1>8, <2>1, <2>2 DEF IsInjective
  <2>4. QED
    BY <2>2, <2>3, <1>4
<1>9. ASSUME NEW x, x \in ToSet(r)
      PROVE  \E j \in (i + 1)..Len(q) : q[j] = x
  <2>1. PICK k \in DOMAIN r : x = r[k]
    BY <1>9 DEF ToSet
  <2>2. i + k \in (i + 1)..Len(q)
    BY <1>4, <1>7
  <2>3. QED
    BY <1>6, <1>7, <2>1, <2>2
<1>10. ASSUME NEW x, NEW j \in (i + 1)..Len(q), q[j] = x
       PROVE  x \in ToSet(r)
  <2>1. j - i \in DOMAIN r /\ i + (j - i) = j
    BY <1>4, <1>7, <1>10
  <2>2. r[j - i] = x
    BY <1>6, <1>7, <1>10, <2>1
  <2>3. QED
    BY <2>1, <2>2 DEF ToSet
<1>11. ToSet(r) = Behind(q, i)
  BY <1>9, <1>10 DEF Behind
<1>12. QED
  BY <1>3, <1>8, <1>11 DEF IsInjective

\* A queue without repetitions, less the goroutine g.
LEMMA RemovedIs ==
  ASSUME NEW S, NEW q \in Seq(S), IsInjective(q), NEW g
  PROVE  /\ RemoveFirst(q, g) \in Seq(S) /\ IsInjective(RemoveFirst(q, g))
         /\ ToSet(RemoveFirst(q, g)) = ToSet(q) \ {g}
<1>1. Len(q) \in Nat /\ DOMAIN q = 1..Len(q)
  BY LenProperties
<1>2. CASE ~\E i \in 1..Len(q) : q[i] = g
  <2>1. RemoveFirst(q, g) = q
    BY <1>2 DEF RemoveFirst
  <2>2. g \notin ToSet(q)
    BY <1>1, <1>2 DEF ToSet
  <2>3. QED
    BY <2>1, <2>2
<1>3. CASE \E i \in 1..Len(q) : q[i] = g
  <2> DEFINE I == {i \in 1..Len(q) : q[i] = g}
             m == SelectInSeq(q, LAMBDA v : v = g)
  <2>1. PICK i \in 1..Len(q) : q[i] = g
    BY <1>3
  <2>2. I = {i}
    BY <1>1, <2>1 DEF IsInjective
  <2>3. m = IF I # {} THEN Min(I) ELSE 0
    BY DEF SelectInSeq
  <2>4. Min({i}) = i
    <3>1. i \in Int
      BY <1>1
    <3>2. QED
      BY <3>1 DEF Min
  <2>5. RemoveFirst(q, g) = RemoveAt(q, i)
    <3>1. RemoveFirst(q, g) = RemoveAt(q, m)
      BY <1>3 DEF RemoveFirst
    <3>2. m = i
      <4> HIDE DEF I, m
      <4>1. QED
        BY <2>2, <2>3, <2>4
    <3>3. QED
      BY <3>1, <3>2
  <2>6. \A j, k \in DOMAIN q : q[j] = q[k] => j = k
    BY DEF IsInjective
  <2>7. /\ RemoveAt(q, i) \in Seq(S)
        /\ Range(RemoveAt(q, i)) = Range(q) \ {q[i]}
        /\ \A j, k \in DOMAIN RemoveAt(q, i) :
             RemoveAt(q, i)[j] = RemoveAt(q, i)[k] => j = k
    BY <2>6, QueueLess
  <2>8. \A f : ToSet(f) = Range(f)
    BY DEF ToSet, Range
  <2>9. QED
    BY <2>1, <2>5, <2>7, <2>8, Zenon DEF IsInjective
<1>4. QED
  BY <1>2, <1>3

\* A queue without repetitions with one more goroutine at its end.
LEMMA AppendedIs ==
  ASSUME NEW S, NEW q \in Seq(S), IsInjective(q), NEW g \in S, g \notin ToSet(q)
  PROVE  /\ Append(q, g) \in Seq(S) /\ IsInjective(Append(q, g))
         /\ ToSet(Append(q, g)) = ToSet(q) \cup {g}
<1>1. \A f : ToSet(f) = Range(f)
  BY DEF ToSet, Range
<1>2. g \notin Range(q) /\ \A j, k \in DOMAIN q : q[j] = q[k] => j = k
  BY <1>1 DEF IsInjective
<1>3. /\ Append(q, g) \in Seq(S)
      /\ Range(Append(q, g)) = Range(q) \cup {g}
      /\ \A j, k \in DOMAIN Append(q, g) : Append(q, g)[j] = Append(q, g)[k] => j = k
  BY <1>2, QueueMore
<1>4. QED
  BY <1>1, <1>3, Zenon DEF IsInjective
-----------------------------------------------------------------------------
(* The queues during a critical section of g *)

\* q is the queue of c and d: the sleeping goroutines, once, and what is left
\* of claimed selects other than g.
QueueOf(q, c, d, g) ==
  /\ q \in Seq(Goroutines) /\ IsInjective(q)
  /\ \A h \in Goroutines :
       ~done[h] => (h \in ToSet(q) <=> h \in Sleeping(c, d))
  /\ \A h \in ToSet(q) :
       done[h] => h # g /\ op[h].select /\ pc[h] \in {"parked", "woken"}
  /\ closed[c] => q = <<>>

QueuesOf(wq, g) ==
  /\ wq \in [Chans -> [Dirs -> Seq(Goroutines)]]
  /\ \A c \in Chans, d \in Dirs : QueueOf(wq[c][d], c, d, g)

QueueType == waitq \in [Chans -> [Dirs -> Seq(Goroutines)]]

\* An operation that is not a select has one case.
LEMMA OneCase ==
  ASSUME NEW o \in Offers, ~o.select, NEW j \in o.cases, NEW k \in o.cases
  PROVE  j = k
<1>1. IsFiniteSet(o.cases) /\ Cardinality(o.cases) = 1
  BY ChanAssumption
<1>2. PICK x : o.cases = {x}
  BY <1>1, FS_Singleton
<1>3. QED
  BY <1>2

LEMMA CaseIs ==
  ASSUME NEW k \in Case
  PROVE  /\ k.c \in Chans /\ k.dir \in Dirs /\ Other(k.dir) \in Dirs
         /\ k = [c |-> k.c, dir |-> k.dir]
         /\ k.dir = "send" \/ k.dir = "recv"
         /\ Other(k.dir) # k.dir
BY DEF Case, Dirs, Other

LEMMA OffersAre ==
  ASSUME NEW o \in Offers \cup {NoOp}
  PROVE  /\ o.cases \subseteq Case /\ o.block \in BOOLEAN /\ o.select \in BOOLEAN
         /\ o = NoOp => o.cases = {}
         /\ o \in Offers => o.cases # {} /\ o # NoOp
<1>1. NoOp.cases = {} /\ NoOp.block = TRUE /\ NoOp.select = FALSE
  BY DEF NoOp
<1>2. o \in Offers => o \in Operation /\ o.cases # {}
  BY ChanAssumption
<1>3. o \in Operation =>
        /\ o.cases \in SUBSET Case
        /\ o.block \in BOOLEAN /\ o.select \in BOOLEAN
  BY DEF Operation
<1>4. QED
  BY <1>1, <1>2, <1>3

\* A sequence without elements.
LEMMA NoElements == IsInjective(<<>>) /\ ToSet(<<>>) = {}
<1>1. <<>> \in Seq({})
  BY EmptySeq
<1>2. DOMAIN <<>> = 1..Len(<<>>) /\ Len(<<>>) = 0
  BY <1>1, LenProperties, EmptySeq
<1>3. DOMAIN <<>> = {}
  BY <1>2
<1>4. QED
  BY <1>3, Zenon DEF IsInjective, ToSet

\* The queue where nobody sleeps, when it has been looked at.
LEMMA EmptyQueue ==
  ASSUME NEW c, NEW d, NEW g, Sleeping(c, d) = {}
  PROVE  QueueOf(<<>>, c, d, g)
<1>1. <<>> \in Seq(Goroutines)
  BY EmptySeq
<1>2. IsInjective(<<>>) /\ \A h : h \notin ToSet(<<>>)
  BY NoElements
<1>3. QED
  BY <1>1, <1>2 DEF QueueOf

\* A queue without live waiters: nobody sleeps there.
LEMMA NobodyLive ==
  ASSUME NEW q, NEW c, NEW d, NEW g, QueueOf(q, c, d, g), FirstLive(q) = 0
  PROVE  Sleeping(c, d) = {}
<1>1. q \in Seq(Goroutines)
  BY DEF QueueOf
<1>2. DOMAIN q = 1..Len(q)
  BY <1>1, LenProperties
<1>3. \A j \in 1..Len(q) : done[q[j]]
  BY <1>1, FirstLiveIs
<1>4. ASSUME NEW h \in Sleeping(c, d)
      PROVE  FALSE
  <2>1. h \in Goroutines /\ ~done[h]
    BY DEF Sleeping
  <2>2. h \in ToSet(q)
    BY <2>1 DEF QueueOf
  <2>3. QED
    BY <1>2, <1>3, <2>1, <2>2 DEF ToSet
<1>5. QED
  BY <1>4

\* The first live waiter sleeps there.
LEMMA SomebodyLive ==
  ASSUME NEW q, NEW c, NEW d, NEW g, QueueOf(q, c, d, g), FirstLive(q) # 0,
         NEW h, h = q[FirstLive(q)]
  PROVE  h \in Sleeping(c, d) /\ FirstLive(q) \in 1..Len(q)
<1>1. q \in Seq(Goroutines)
  BY DEF QueueOf
<1>2. DOMAIN q = 1..Len(q)
  BY <1>1, LenProperties
<1>3. FirstLive(q) \in 1..Len(q) /\ ~done[h]
  BY <1>1, FirstLiveIs
<1>4. h \in ToSet(q) /\ h \in Goroutines
  BY <1>1, <1>2, <1>3, ElementOfSeq DEF ToSet
<1>5. QED
  BY <1>3, <1>4 DEF QueueOf

\* In the invariant, the queues are as a goroutine that has just been called
\* finds them.
LEMMA QueuesAtTry ==
  ASSUME IInv, NEW g \in Goroutines, pc[g] = "try"
  PROVE  QueuesOf(waitq, g)
<1>1. waitq \in [Chans -> [Dirs -> Seq(Goroutines)]]
  BY DEF IInv, TypeOK
<1>2. ASSUME NEW c \in Chans, NEW d \in Dirs
      PROVE  QueueOf(waitq[c][d], c, d, g)
  <2> DEFINE q == waitq[c][d]
  <2>1. /\ IsInjective(q)
        /\ {h \in ToSet(q) : ~done[h]} = Sleeping(c, d)
        /\ \A h \in ToSet(q) :
            done[h] => op[h].select /\ pc[h] \in {"parked", "woken"}
        /\ closed[c] => q = <<>>
    BY DEF IInv, QueuesAreSleepers
  <2>2. q \in Seq(Goroutines)
    BY <1>1
  <2> HIDE DEF q
  <2>3. QED
    BY <2>1, <2>2 DEF QueueOf, q
<1>3. QED
  BY <1>1, <1>2 DEF QueuesOf

\* The same after pass 3 of a goroutine that has been woken.
LEMMA QueuesAtWoken ==
  ASSUME IInv, NEW g \in Goroutines, pc[g] = "woken"
  PROVE  QueuesOf(Without(waitq, g), g)
<1>1. waitq \in [Chans -> [Dirs -> Seq(Goroutines)]] /\ done[g]
  BY DEF IInv, TypeOK, PointsAgree
<1>2. ASSUME NEW c \in Chans, NEW d \in Dirs
      PROVE  QueueOf(RemoveFirst(waitq[c][d], g), c, d, g)
  <2> DEFINE q == waitq[c][d]
             r == RemoveFirst(q, g)
  <2>1. /\ IsInjective(q)
        /\ {h \in ToSet(q) : ~done[h]} = Sleeping(c, d)
        /\ \A h \in ToSet(q) :
            done[h] => op[h].select /\ pc[h] \in {"parked", "woken"}
        /\ closed[c] => q = <<>>
    BY DEF IInv, QueuesAreSleepers
  <2>2. q \in Seq(Goroutines)
    BY <1>1
  <2>3. r \in Seq(Goroutines) /\ IsInjective(r) /\ ToSet(r) = ToSet(q) \ {g}
    BY <2>1, <2>2, RemovedIs
  <2>4. q = <<>> => r = q
    BY DEF RemoveFirst
  <2> HIDE DEF q, r
  <2>5. QueueOf(r, c, d, g)
    BY <1>1, <2>1, <2>3, <2>4 DEF QueueOf
  <2>6. QED
    BY <2>5 DEF q, r
<1>3. \A c \in Chans, d \in Dirs : Without(waitq, g)[c][d] = RemoveFirst(waitq[c][d], g)
  BY DEF Without
<1>4. \A c \in Chans, d \in Dirs : RemoveFirst(waitq[c][d], g) \in Seq(Goroutines)
  BY <1>2 DEF QueueOf
<1>5. Without(waitq, g) \in [Chans -> [Dirs -> Seq(Goroutines)]]
  BY <1>4 DEF Without
<1>6. QED
  BY <1>2, <1>3, <1>5 DEF QueuesOf

\* Looking at cases in vain leaves the queues as they should be, and those of
\* other cases alone.
LEMMA LookedIs ==
  ASSUME NEW wq, NEW g, QueuesOf(wq, g), NEW ks, ks \subseteq Case,
         \A k \in ks : ~Ready(wq, k)
  PROVE  /\ QueuesOf(Looked(wq, ks), g)
         /\ \A k \in Case \ ks : Partners(Looked(wq, ks), k) = Partners(wq, k)
<1> DEFINE w == Looked(wq, ks)
<1>1. wq \in [Chans -> [Dirs -> Seq(Goroutines)]]
  BY DEF QueuesOf
<1>2. \A c \in Chans, d \in Dirs :
        w[c][d] = IF Cap[c] = 0 /\ [c |-> c, dir |-> Other(d)] \in ks
                  THEN <<>> ELSE wq[c][d]
  BY DEF Looked
<1>3. w \in [Chans -> [Dirs -> Seq(Goroutines)]]
  BY <1>1, EmptySeq DEF Looked
<1>4. ASSUME NEW c \in Chans, NEW d \in Dirs
      PROVE  QueueOf(w[c][d], c, d, g)
  <2>1. QueueOf(wq[c][d], c, d, g)
    BY DEF QueuesOf
  <2>2. CASE Cap[c] = 0 /\ [c |-> c, dir |-> Other(d)] \in ks
    <3> DEFINE k == [c |-> c, dir |-> Other(d)]
    <3>1. ~Ready(wq, k) /\ k.c = c /\ Other(k.dir) = d
      BY <2>2 DEF Other, Dirs
    <3>2. ~HasPartner(wq, k)
      BY <2>2, <3>1 DEF Ready
    <3>3. FirstLive(wq[c][d]) = 0
      BY <3>1, <3>2 DEF HasPartner, Partners
    <3>4. QueueOf(<<>>, c, d, g)
      BY <2>1, <3>3, NobodyLive, EmptyQueue
    <3>5. QED
      BY <1>2, <2>2, <3>4
  <2>3. CASE ~(Cap[c] = 0 /\ [c |-> c, dir |-> Other(d)] \in ks)
    <3>1. w[c][d] = wq[c][d]
      BY <1>2, <2>3
    <3>2. QED
      BY <2>1, <3>1, Zenon
  <2>4. QED
    BY <2>2, <2>3
<1>5. ASSUME NEW k \in Case \ ks
      PROVE  Partners(w, k) = Partners(wq, k)
  <2>1. /\ k.c \in Chans /\ Other(k.dir) \in Dirs
        /\ [c |-> k.c, dir |-> Other(Other(k.dir))] = k
    BY CaseIs DEF Other
  <2>2. w[k.c][Other(k.dir)] = wq[k.c][Other(k.dir)]
    BY <1>2, <2>1
  <2>3. QED
    BY <2>2 DEF Partners
<1>6. QED
  BY <1>3, <1>4, <1>5 DEF QueuesOf

\* A queue that has been searched in vain is empty.
LEMMA DropIs ==
  ASSUME NEW wq, NEW g, QueuesOf(wq, g), NEW k \in Case, ~HasPartner(wq, k)
  PROVE  QueuesOf(Drop(wq, k), g) /\ Sleeping(k.c, Other(k.dir)) = {}
<1> DEFINE w == Drop(wq, k)
<1>1. wq \in [Chans -> [Dirs -> Seq(Goroutines)]]
  BY DEF QueuesOf
<1>2. k.c \in Chans /\ Other(k.dir) \in Dirs
  BY CaseIs
<1>3. /\ w \in [Chans -> [Dirs -> Seq(Goroutines)]]
      /\ \A c \in Chans, d \in Dirs :
           w[c][d] = IF c = k.c /\ d = Other(k.dir) THEN <<>> ELSE wq[c][d]
  BY <1>1, <1>2, EmptySeq DEF Drop
<1>4. Sleeping(k.c, Other(k.dir)) = {}
  <2>1. QueueOf(wq[k.c][Other(k.dir)], k.c, Other(k.dir), g)
    BY <1>2 DEF QueuesOf
  <2>2. FirstLive(wq[k.c][Other(k.dir)]) = 0
    BY DEF HasPartner, Partners
  <2>3. QED
    BY <2>1, <2>2, NobodyLive
<1>5. QueueOf(<<>>, k.c, Other(k.dir), g)
  BY <1>4, EmptyQueue
<1> HIDE DEF w
<1>6. \A c \in Chans, d \in Dirs : QueueOf(wq[c][d], c, d, g)
  BY DEF QueuesOf
<1>7. \A c \in Chans, d \in Dirs : QueueOf(w[c][d], c, d, g)
  BY <1>3, <1>5, <1>6
<1>8. QED
  BY <1>3, <1>4, <1>7 DEF QueuesOf, w

\* The goroutine at g moves on and is not parked afterwards; nobody is claimed.
LEMMA SettledQueues ==
  ASSUME NEW g \in Goroutines, NEW wq, QueuesOf(wq, g), waitq' = wq,
         pc \in [Goroutines -> Points], pc[g] # "parked", NEW p, p # "parked",
         pc' = [pc EXCEPT ![g] = p], UNCHANGED <<done, op, closed>>
  PROVE  QueueType' /\ QueuesAreSleepers'
<1>1. QueueType'
  BY DEF QueueType, QueuesOf
<1>2. ASSUME NEW c \in Chans, NEW d \in Dirs
      PROVE  /\ IsInjective(waitq'[c][d])
             /\ {h \in ToSet(waitq'[c][d]) : ~done'[h]} = Sleeping(c, d)'
             /\ \A h \in ToSet(waitq'[c][d]) :
                  done'[h] => op'[h].select /\ pc'[h] \in {"parked", "woken"}
             /\ closed'[c] => waitq'[c][d] = <<>>
  <2> DEFINE q == wq[c][d]
  <2>1. QueueOf(q, c, d, g) /\ waitq'[c][d] = q
    BY DEF QueuesOf
  <2>2. Sleeping(c, d)' = Sleeping(c, d)
    BY DEF Sleeping
  <2>3. ToSet(q) \subseteq Goroutines
    <3>1. q \in Seq(Goroutines)
      BY <2>1 DEF QueueOf
    <3> HIDE DEF q
    <3>2. QED
      BY <3>1, LenProperties, ElementOfSeq DEF ToSet
  <2> HIDE DEF q
  <2>4. {h \in ToSet(q) : ~done[h]} = Sleeping(c, d)
    <3>1. \A h \in Sleeping(c, d) : h \in Goroutines /\ ~done[h]
      BY DEF Sleeping
    <3>2. QED
      BY <2>1, <2>3, <3>1 DEF QueueOf
  <2>5. \A h \in ToSet(q) :
          done[h] => op[h].select /\ pc'[h] \in {"parked", "woken"}
    BY <2>1, <2>3 DEF QueueOf
  <2>6. IsInjective(q) /\ (closed[c] => q = <<>>)
    BY <2>1 DEF QueueOf
  <2>7. QED
    BY <2>1, <2>2, <2>4, <2>5, <2>6
<1>3. QED
  BY <1>1, <1>2, Zenon DEF QueuesAreSleepers

\* g has h in hand, and will hand the outcome o over to it.
Claims(g, h, o) ==
  /\ done' = [done EXCEPT ![h] = TRUE]
  /\ hand' = [hand EXCEPT ![g] = <<h, o>>]
  /\ pc' = [pc EXCEPT ![g] = "waking"]

\* Whoever sleeps on two cases is in a select.
LEMMA SleepsOnTwo ==
  ASSUME op \in [Goroutines -> Offers \cup {NoOp}], NEW c, NEW d, NEW b, NEW e,
         NEW h \in Sleeping(c, d), h \in Sleeping(b, e), c # b \/ d # e
  PROVE  op[h].select
<1> DEFINE j == [c |-> c, dir |-> d]
           k == [c |-> b, dir |-> e]
<1>1. h \in Goroutines /\ j \in op[h].cases /\ k \in op[h].cases
  BY DEF Sleeping
<1>2. j # k
  <2>1. j.c = c /\ j.dir = d /\ k.c = b /\ k.dir = e
    OBVIOUS
  <2> HIDE DEF j, k
  <2>2. QED
    BY <2>1
<1> HIDE DEF j, k
<1>3. op[h] \in Offers
  BY <1>1, OffersAre
<1>4. QED
  BY <1>1, <1>2, <1>3, OneCase

\* dequeue() for case k: its first live waiter is claimed, and the queues stay
\* as they should be.
LEMMA ClaimedQueues ==
  ASSUME NEW g \in Goroutines, NEW wq, QueuesOf(wq, g), NEW k \in Case,
         HasPartner(wq, k), NEW o, Dequeue(g, wq, k, o),
         op \in [Goroutines -> Offers \cup {NoOp}],
         pc \in [Goroutines -> Points], done \in [Goroutines -> BOOLEAN],
         pc[g] # "parked", UNCHANGED <<op, closed>>,
         NEW h, h = Partners(wq, k)[FirstLive(Partners(wq, k))]
  PROVE  /\ h \in Sleeping(k.c, Other(k.dir)) /\ Claims(g, h, o)
         /\ QueueType' /\ QueuesAreSleepers'
<1> DEFINE b == k.c
           e == Other(k.dir)
           own == wq[b][e]
           i == FirstLive(own)
           rest == SubSeq(own, i + 1, Len(own))
<1>1. b \in Chans /\ e \in Dirs
  BY CaseIs
<1>2. wq \in [Chans -> [Dirs -> Seq(Goroutines)]] /\ QueueOf(own, b, e, g)
  BY <1>1 DEF QueuesOf
<1>3. i # 0 /\ h = own[i]
  BY DEF HasPartner, Partners
<1>4. h \in Sleeping(b, e) /\ i \in 1..Len(own)
  BY <1>2, <1>3, SomebodyLive
<1>5. /\ waitq' = [wq EXCEPT ![b][e] = rest]
      /\ Claims(g, h, o)
  <2>1. waitq' = [wq EXCEPT ![b][e] = rest]
    BY Zenon DEF Dequeue, Partners
  <2>2. done' = [done EXCEPT ![h] = TRUE] /\ hand' = [hand EXCEPT ![g] = <<h, o>>]
    BY Zenon DEF Dequeue
  <2>3. pc' = [pc EXCEPT ![g] = "waking"]
    BY Zenon DEF Dequeue, Goto
  <2>4. QED
    BY <2>1, <2>2, <2>3, Zenon DEF Claims
<1>6. own \in Seq(Goroutines) /\ IsInjective(own)
  BY <1>2 DEF QueueOf
<1>7. /\ rest \in Seq(Goroutines) /\ IsInjective(rest)
      /\ ToSet(rest) = Behind(own, i)
  <2> DEFINE q == own
             m == i
  <2>1. q \in Seq(Goroutines) /\ IsInjective(q) /\ m \in 1..Len(q)
    BY <1>4, <1>6
  <2>2. rest = SubSeq(q, m + 1, Len(q))
    OBVIOUS
  <2> HIDE DEF q, m, rest
  <2>3. rest \in Seq(Goroutines)
    BY <2>1, <2>2, RestIs, Zenon
  <2>4. IsInjective(rest)
    BY <2>1, <2>2, RestIs, Zenon
  <2>5. ToSet(rest) = Behind(q, m)
    BY <2>1, <2>2, RestIs, Zenon
  <2>6. QED
    BY <2>3, <2>4, <2>5, Zenon DEF q, m
<1>8. /\ Len(own) \in Nat /\ DOMAIN own = 1..Len(own)
      /\ \A j \in 1..Len(own) : j < i => done[own[j]]
  <2>1. \A j \in 1..Len(own) : j < i => done[own[j]]
    <3> HIDE DEF own
    <3>1. QED
      BY <1>3, <1>6, FirstLiveIs
  <2>2. QED
    BY <2>1, <1>6, LenProperties
<1>9. h \in Goroutines /\ ~done[h] /\ h # g /\ pc[h] = "parked"
  BY <1>4 DEF Sleeping
<1>10. /\ \A x \in Goroutines : done'[x] = (done[x] \/ x = h)
       /\ \A x \in Goroutines : pc'[x] = IF x = g THEN "waking" ELSE pc[x]
  BY <1>5, <1>9 DEF Claims
<1>11. \A c \in Chans, d \in Dirs : Sleeping(c, d)' = Sleeping(c, d) \ {h}
  <2>1. \A x \in Goroutines :
          pc'[x] = "parked" /\ ~done'[x] <=> pc[x] = "parked" /\ ~done[x] /\ x # h
    BY <1>10
  <2>2. QED
    BY <2>1 DEF Sleeping
<1>12. \A x \in ToSet(rest) : x \in ToSet(own) /\ x # h
  <2>1. ASSUME NEW x \in ToSet(rest)
        PROVE  x \in ToSet(own) /\ x # h
    <3>1. PICK j \in (i + 1)..Len(own) : own[j] = x
      BY <1>7 DEF Behind
    <3> i \in Int /\ j \in 1..Len(own) /\ i < j
      BY <1>4, <1>8
    <3>2. x \in ToSet(own)
      BY <1>8, <3>1 DEF ToSet
    <3>3. x # h
      <4> HIDE DEF own, i
      <4>1. QED
        BY <1>3, <1>4, <1>6, <1>8, <3>1 DEF IsInjective
    <3>4. QED
      BY <3>2, <3>3
  <2>2. QED
    BY <2>1
<1>13. \A x \in ToSet(own) : x # h /\ ~done[x] => x \in ToSet(rest)
  <2>1. ASSUME NEW x \in ToSet(own), x # h, ~done[x]
        PROVE  x \in ToSet(rest)
    <3>1. PICK j \in 1..Len(own) : own[j] = x
      BY <1>8 DEF ToSet
    <3>2. ~(j < i) /\ j # i
      BY <1>3, <1>8, <2>1, <3>1
    <3>3. i < j
      <4> HIDE DEF own, i
      <4>1. QED
        BY <1>4, <1>8, <3>2
    <3>4. j \in (i + 1)..Len(own)
      <4> HIDE DEF own, i
      <4>1. QED
        BY <1>4, <1>8, <3>1, <3>3
    <3>5. QED
      BY <1>7, <3>1, <3>4 DEF Behind
  <2>2. QED
    BY <2>1
<1> HIDE DEF own, i, rest, b, e
<1>14. ToSet(own) \subseteq Goroutines
  BY <1>6, <1>8, ElementOfSeq DEF ToSet
<1>15. /\ QueueType'
       /\ \A c \in Chans, d \in Dirs :
            waitq'[c][d] = IF c = b /\ d = e THEN rest ELSE wq[c][d]
  BY <1>1, <1>2, <1>5, <1>7 DEF QueueType
<1>16. /\ IsInjective(rest)
       /\ {x \in ToSet(rest) : ~done'[x]} = Sleeping(b, e)'
       /\ \A x \in ToSet(rest) :
            done'[x] => op'[x].select /\ pc'[x] \in {"parked", "woken"}
       /\ closed'[b] => rest = <<>>
  <2>1. {x \in ToSet(rest) : ~done'[x]} = Sleeping(b, e)'
    <3>1. \A x \in Sleeping(b, e) : x \in Goroutines /\ ~done[x]
      BY DEF Sleeping
    <3>2. \A x \in Goroutines : ~done[x] => (x \in ToSet(own) <=> x \in Sleeping(b, e))
      BY <1>2 DEF QueueOf
    <3>3. ASSUME NEW x \in Goroutines
          PROVE  x \in ToSet(rest) /\ ~done'[x] <=> x \in Sleeping(b, e) /\ x # h
      BY <1>10, <1>12, <1>13, <3>1, <3>2
    <3>4. QED
      BY <1>1, <1>11, <1>12, <1>14, <3>1, <3>3
  <2>2. \A x \in ToSet(rest) :
            done'[x] => op'[x].select /\ pc'[x] \in {"parked", "woken"}
    <3>1. \A x \in ToSet(own) :
            done[x] => x # g /\ op[x].select /\ pc[x] \in {"parked", "woken"}
      BY <1>2 DEF QueueOf
    <3>2. QED
      BY <1>10, <1>12, <1>14, <3>1
  <2>3. ~closed[b]
    <3>1. Sleeping(b, e) # {}
      BY <1>4 DEF b, e
    <3>2. own # <<>>
      <4>1. Len(<<>>) = 0
        BY EmptySeq
      <4>2. QED
        BY <1>4, <1>8, <4>1
    <3>3. QED
      BY <1>2, <3>2 DEF QueueOf
  <2>4. QED
    BY <1>7, <2>1, <2>2, <2>3
<1>17. ASSUME NEW c \in Chans, NEW d \in Dirs, c # b \/ d # e
       PROVE  /\ IsInjective(wq[c][d])
              /\ {x \in ToSet(wq[c][d]) : ~done'[x]} = Sleeping(c, d)'
              /\ \A x \in ToSet(wq[c][d]) :
                   done'[x] => op'[x].select /\ pc'[x] \in {"parked", "woken"}
              /\ closed'[c] => wq[c][d] = <<>>
  <2> DEFINE q == wq[c][d]
  <2>1. QueueOf(q, c, d, g)
    BY DEF QueuesOf
  <2>2. ToSet(q) \subseteq Goroutines
    <3>1. q \in Seq(Goroutines)
      BY <2>1 DEF QueueOf
    <3> HIDE DEF q
    <3>2. QED
      BY <3>1, LenProperties, ElementOfSeq DEF ToSet
  <2> HIDE DEF q
  <2>3. IsInjective(q) /\ (closed'[c] => q = <<>>)
    BY <2>1 DEF QueueOf
  <2>4. \A x \in Goroutines : ~done[x] => (x \in ToSet(q) <=> x \in Sleeping(c, d))
    BY <2>1 DEF QueueOf
  <2>5. {x \in ToSet(q) : ~done'[x]} = Sleeping(c, d)'
    <3>1. \A x \in Sleeping(c, d) : x \in Goroutines /\ ~done[x]
      BY DEF Sleeping
    <3>2. ASSUME NEW x \in Goroutines
          PROVE  x \in ToSet(q) /\ ~done'[x] <=> x \in Sleeping(c, d) /\ x # h
      BY <1>10, <2>4, <3>1
    <3>3. QED
      BY <1>11, <2>2, <3>1, <3>2
  <2>6. ASSUME NEW x \in ToSet(q), done'[x]
        PROVE  op'[x].select /\ pc'[x] \in {"parked", "woken"}
    <3>1. CASE done[x]
      <4>1. x # g /\ op[x].select /\ pc[x] \in {"parked", "woken"}
        BY <2>1, <3>1 DEF QueueOf
      <4>2. QED
        BY <1>10, <2>2, <4>1
    <3>2. CASE ~done[x]
      <4>1. x = h /\ x \in Sleeping(c, d)
        BY <1>10, <2>2, <2>4, <2>6, <3>2
      <4>2. op[x].select
        BY <1>4, <1>17, <4>1, SleepsOnTwo DEF b, e
      <4>3. QED
        BY <1>9, <1>10, <4>1, <4>2
    <3>3. QED
      BY <3>1, <3>2
  <2>7. QED
    BY <2>3, <2>5, <2>6 DEF q
<1>18. QueuesAreSleepers'
  <2>1. ASSUME NEW c \in Chans, NEW d \in Dirs
        PROVE  /\ IsInjective(waitq'[c][d])
               /\ {x \in ToSet(waitq'[c][d]) : ~done'[x]} = Sleeping(c, d)'
               /\ \A x \in ToSet(waitq'[c][d]) :
                    done'[x] => op'[x].select /\ pc'[x] \in {"parked", "woken"}
               /\ closed'[c] => waitq'[c][d] = <<>>
    <3>1. CASE c = b /\ d = e
      <4>1. waitq'[c][d] = rest
        BY <1>15, <3>1
      <4>2. QED
        BY <1>16, <3>1, <4>1
    <3>2. CASE c # b \/ d # e
      <4>1. waitq'[c][d] = wq[c][d]
        BY <1>15, <3>2
      <4>2. QED
        BY <1>17, <3>2, <4>1
    <3>3. QED
      BY <3>1, <3>2
  <2>2. QED
    BY <2>1, Zenon DEF QueuesAreSleepers
<1>19. QED
  BY <1>4, <1>5, <1>15, <1>18 DEF b, e

\* The goroutine that acts is in none of the queues.
LEMMA NotQueued ==
  ASSUME NEW g \in Goroutines, pc[g] # "parked",
         NEW q, NEW c, NEW d, QueueOf(q, c, d, g)
  PROVE  g \notin ToSet(q)
<1>1. CASE done[g]
  BY <1>1 DEF QueueOf
<1>2. CASE ~done[g]
  <2>1. g \notin Sleeping(c, d)
    BY DEF Sleeping
  <2>2. QED
    BY <1>2, <2>1 DEF QueueOf
<1>3. QED
  BY <1>1, <1>2

\* Pass 2: the goroutine joins the queues of its cases.
LEMMA ParkedQueues ==
  ASSUME NEW g \in Goroutines, NEW wq, QueuesOf(wq, g), Park(g, wq),
         op \in [Goroutines -> Offers \cup {NoOp}],
         pc \in [Goroutines -> Points], done \in [Goroutines -> BOOLEAN],
         pc[g] # "parked", UNCHANGED <<op, closed>>,
         \A k \in op[g].cases : ~closed[k.c]
  PROVE  /\ QueueType' /\ QueuesAreSleepers'
         /\ \A c \in Chans, d \in Dirs :
              Sleeping(c, d)' =
                Sleeping(c, d)
                  \cup (IF [c |-> c, dir |-> d] \in op[g].cases THEN {g} ELSE {})
<1>1. /\ wq \in [Chans -> [Dirs -> Seq(Goroutines)]]
      /\ waitq' = [c \in Chans |-> [d \in Dirs |->
                     IF [c |-> c, dir |-> d] \in op[g].cases
                     THEN Append(wq[c][d], g) ELSE wq[c][d]]]
      /\ done' = [done EXCEPT ![g] = FALSE] /\ pc' = [pc EXCEPT ![g] = "parked"]
  BY DEF QueuesOf, Park, Goto
<1>2. \A c \in Chans, d \in Dirs : Append(wq[c][d], g) \in Seq(Goroutines)
  BY <1>1, AppendProperties
<1>3. /\ QueueType'
      /\ \A c \in Chans, d \in Dirs :
           waitq'[c][d] = IF [c |-> c, dir |-> d] \in op[g].cases
                          THEN Append(wq[c][d], g) ELSE wq[c][d]
  <2>1. QueueType'
    BY <1>1, <1>2 DEF QueueType
  <2>2. QED
    BY <1>1, <2>1
<1>4. \A x \in Goroutines :
        /\ pc'[x] = IF x = g THEN "parked" ELSE pc[x]
        /\ done'[x] = (x # g /\ done[x])
  BY <1>1
<1>5. ASSUME NEW c \in Chans, NEW d \in Dirs
      PROVE  Sleeping(c, d)' =
               Sleeping(c, d)
                 \cup (IF [c |-> c, dir |-> d] \in op[g].cases THEN {g} ELSE {})
  <2>1. \A x \in Goroutines :
          pc'[x] = "parked" /\ ~done'[x] <=> x = g \/ (pc[x] = "parked" /\ ~done[x])
    BY <1>4
  <2>2. CASE [c |-> c, dir |-> d] \in op[g].cases
    BY <2>1, <2>2 DEF Sleeping
  <2>3. CASE [c |-> c, dir |-> d] \notin op[g].cases
    BY <2>1, <2>3 DEF Sleeping
  <2>4. QED
    BY <2>2, <2>3
<1>6. ASSUME NEW c \in Chans, NEW d \in Dirs
      PROVE  /\ IsInjective(waitq'[c][d])
             /\ {x \in ToSet(waitq'[c][d]) : ~done'[x]} = Sleeping(c, d)'
             /\ \A x \in ToSet(waitq'[c][d]) :
                  done'[x] => op'[x].select /\ pc'[x] \in {"parked", "woken"}
             /\ closed'[c] => waitq'[c][d] = <<>>
  <2> DEFINE q == wq[c][d]
             k == [c |-> c, dir |-> d]
  <2>1. QueueOf(q, c, d, g) /\ q \in Seq(Goroutines) /\ IsInjective(q)
    BY DEF QueuesOf, QueueOf
  <2>2. g \notin ToSet(q)
    BY <2>1, NotQueued
  <2>3. /\ waitq'[c][d] = IF k \in op[g].cases THEN Append(q, g) ELSE q
        /\ Sleeping(c, d)' =
             Sleeping(c, d) \cup (IF k \in op[g].cases THEN {g} ELSE {})
    BY <1>3, <1>5
  <2>4. k.c = c
    OBVIOUS
  <2> HIDE DEF q, k
  <2>5. ToSet(q) \subseteq Goroutines
    BY <2>1, LenProperties, ElementOfSeq DEF ToSet
  <2>6. \A x \in Sleeping(c, d) : x \in Goroutines /\ ~done[x] /\ x # g
    BY DEF Sleeping
  <2>7. \A x \in Goroutines : ~done[x] => (x \in ToSet(q) <=> x \in Sleeping(c, d))
    BY <2>1 DEF QueueOf
  <2>8. {x \in ToSet(q) : ~done'[x]} = Sleeping(c, d)
    <3>1. ASSUME NEW x \in Goroutines
          PROVE  x \in ToSet(q) /\ ~done'[x] <=> x \in Sleeping(c, d)
      BY <1>4, <2>2, <2>6, <2>7
    <3>2. QED
      BY <2>5, <2>6, <3>1
  <2>9. \A x \in ToSet(q) :
          done'[x] => op'[x].select /\ pc'[x] \in {"parked", "woken"}
    <3>1. \A x \in ToSet(q) :
            done[x] => x # g /\ op[x].select /\ pc[x] \in {"parked", "woken"}
      BY <2>1 DEF QueueOf
    <3>2. QED
      BY <1>4, <2>5, <3>1
  <2>10. closed'[c] => q = <<>>
    BY <2>1 DEF QueueOf
  <2>11. CASE k \in op[g].cases
    <3>1. ~closed'[c]
      BY <2>4, <2>11
    <3>2. /\ IsInjective(Append(q, g))
          /\ ToSet(Append(q, g)) = ToSet(q) \cup {g}
      BY <2>1, <2>2, AppendedIs
    <3>3. ~done'[g]
      BY <1>4
    <3>4. {x \in ToSet(q) \cup {g} : ~done'[x]} = Sleeping(c, d)'
      BY <2>3, <2>8, <2>11, <3>3
    <3>5. QED
      BY <2>3, <2>9, <2>11, <3>1, <3>2, <3>3, <3>4
  <2>12. CASE k \notin op[g].cases
    <3>1. waitq'[c][d] = q /\ Sleeping(c, d)' = Sleeping(c, d)
      BY <2>3, <2>12
    <3>2. QED
      BY <2>1, <2>8, <2>9, <2>10, <3>1
  <2>13. QED
    BY <2>11, <2>12
<1>7. QueuesAreSleepers'
  BY <1>6, Zenon DEF QueuesAreSleepers
<1>8. QED
  BY <1>3, <1>5, <1>7
-----------------------------------------------------------------------------
(* What a critical section does, in terms of who sleeps *)

Settles(g) ==
  /\ pc' = [pc EXCEPT ![g] = "return"]
  /\ UNCHANGED <<done, hand>>

Outcome(g, o) == out' = [out EXCEPT ![g] = o]

\* After a change of the buffer of c, somebody who sleeps in direction d is
\* claimed if there is one.
Pinged(g, c, d) ==
  \/ \E h \in Sleeping(c, d) : Claims(g, h, <<>>)
  \/ Sleeping(c, d) = {} /\ Settles(g)

PanicsOn(g, c) ==
  /\ closed[c]
  /\ Outcome(g, <<"panic">>) /\ Settles(g) /\ UNCHANGED buf

SendsInto(g, c) ==
  /\ ~closed[c] /\ Cap[c] > 0 /\ Len(buf[c]) < Cap[c]
  /\ buf' = [buf EXCEPT ![c] = Append(@, g)]
  /\ Outcome(g, <<"sent", c>>) /\ Pinged(g, c, "recv")

MeetsReceiver(g, c, h) ==
  /\ ~closed[c] /\ Cap[c] = 0
  /\ Outcome(g, <<"sent", c>>) /\ Claims(g, h, <<"received", c, g>>)
  /\ UNCHANGED buf

ReceivesFrom(g, c) ==
  /\ buf[c] # <<>>
  /\ buf' = [buf EXCEPT ![c] = Tail(@)]
  /\ Outcome(g, <<"received", c, Head(buf[c])>>) /\ Pinged(g, c, "send")

ReceivesNothing(g, c) ==
  /\ buf[c] = <<>> /\ closed[c]
  /\ Outcome(g, <<"closed", c>>) /\ Settles(g) /\ UNCHANGED buf

MeetsSender(g, c, h) ==
  /\ ~closed[c] /\ Cap[c] = 0
  /\ Outcome(g, <<"received", c, h>>) /\ Claims(g, h, <<"sent", c>>)
  /\ UNCHANGED buf

Sends(g, c) ==
  \/ PanicsOn(g, c) \/ SendsInto(g, c)
  \/ \E h \in Sleeping(c, "recv") : MeetsReceiver(g, c, h)

Receives(g, c) ==
  \/ ReceivesFrom(g, c) \/ ReceivesNothing(g, c)
  \/ \E h \in Sleeping(c, "send") : MeetsSender(g, c, h)

\* No case of g can proceed: it parks.
Parks(g) ==
  /\ op[g].block
  /\ \A k \in op[g].cases :
       /\ ~closed[k.c]
       /\ Cap[k.c] = 0 => Sleeping(k.c, Other(k.dir)) = {}
       /\ Cap[k.c] > 0 => IF k.dir = "send" THEN ~(Len(buf[k.c]) < Cap[k.c])
                                            ELSE buf[k.c] = <<>>
  /\ \A c \in Chans, d \in Dirs :
       Sleeping(c, d)' =
         Sleeping(c, d)
           \cup (IF [c |-> c, dir |-> d] \in op[g].cases THEN {g} ELSE {})
  /\ done' = [done EXCEPT ![g] = FALSE]
  /\ pc' = [pc EXCEPT ![g] = "parked"]
  /\ UNCHANGED <<buf, hand, out>>

GivesUp(g) ==
  /\ ~op[g].block
  /\ Outcome(g, <<"default">>) /\ Settles(g) /\ UNCHANGED buf

Attempts(g) ==
  \/ \E c \in Chans : [c |-> c, dir |-> "send"] \in op[g].cases /\ Sends(g, c)
  \/ \E c \in Chans : [c |-> c, dir |-> "recv"] \in op[g].cases /\ Receives(g, c)
  \/ Parks(g) \/ GivesUp(g)

QueuesKept == QueueType' /\ QueuesAreSleepers' /\ UNCHANGED <<closed, op>>

\* What these lemmas need to know about the state and the goroutine that acts.
Acting(g) ==
  /\ op \in [Goroutines -> Offers \cup {NoOp}]
  /\ pc \in [Goroutines -> Points] /\ done \in [Goroutines -> BOOLEAN]
  /\ pc[g] # "parked"

LEMMA DequeueIs ==
  ASSUME NEW g \in Goroutines, Acting(g), NEW wq, QueuesOf(wq, g), NEW k \in Case,
         HasPartner(wq, k), NEW o, Dequeue(g, wq, k, o), UNCHANGED <<op, closed>>,
         NEW h, h = Partners(wq, k)[FirstLive(Partners(wq, k))]
  PROVE  h \in Sleeping(k.c, Other(k.dir)) /\ Claims(g, h, o) /\ QueuesKept
<1>1. /\ op \in [Goroutines -> Offers \cup {NoOp}]
      /\ pc \in [Goroutines -> Points] /\ done \in [Goroutines -> BOOLEAN]
      /\ pc[g] # "parked"
  BY DEF Acting
<1>2. h \in Sleeping(k.c, Other(k.dir)) /\ Claims(g, h, o)
  BY <1>1, ClaimedQueues, Zenon
<1>3. QueueType' /\ QueuesAreSleepers'
  BY <1>1, ClaimedQueues, Zenon
<1>4. QED
  BY <1>2, <1>3, Zenon DEF QueuesKept

LEMMA PingIs ==
  ASSUME NEW g \in Goroutines, Acting(g), NEW wq, QueuesOf(wq, g), NEW k \in Case,
         Ping(g, wq, k), UNCHANGED <<op, closed>>
  PROVE  Pinged(g, k.c, Other(k.dir)) /\ QueuesKept
<1>1. CASE HasPartner(wq, k)
  <2> DEFINE h == Partners(wq, k)[FirstLive(Partners(wq, k))]
  <2>1. Dequeue(g, wq, k, <<>>)
    BY <1>1 DEF Ping
  <2>2. h \in Sleeping(k.c, Other(k.dir)) /\ Claims(g, h, <<>>) /\ QueuesKept
    <3> HIDE DEF h
    <3>1. h = Partners(wq, k)[FirstLive(Partners(wq, k))]
      BY DEF h
    <3>2. QED
      BY <1>1, <2>1, <3>1, DequeueIs, Zenon
  <2> HIDE DEF h
  <2>3. QED
    BY <2>2, Zenon DEF Pinged
<1>2. CASE ~HasPartner(wq, k)
  <2>1. /\ waitq' = Drop(wq, k) /\ pc' = [pc EXCEPT ![g] = "return"]
        /\ UNCHANGED <<done, hand>>
    BY <1>2 DEF Ping, Goto
  <2>2. QueuesOf(Drop(wq, k), g) /\ Sleeping(k.c, Other(k.dir)) = {}
    BY <1>2, DropIs, Zenon
  <2>3. /\ pc \in [Goroutines -> Points] /\ pc[g] # "parked"
        /\ "return" # "parked" /\ UNCHANGED <<done, op, closed>>
    BY <2>1 DEF Acting
  <2>4. QueueType' /\ QueuesAreSleepers'
    BY <2>1, <2>2, <2>3, SettledQueues, Zenon
  <2>5. Settles(g)
    BY <2>1 DEF Settles
  <2>6. QED
    BY <2>2, <2>4, <2>5, Zenon DEF Pinged, QueuesKept
<1>3. QED
  BY <1>1, <1>2

LEMMA FinishIs ==
  ASSUME NEW g \in Goroutines, Acting(g), NEW wq, QueuesOf(wq, g),
         NEW o, Finish(g, o), waitq' = wq, UNCHANGED <<op, closed>>
  PROVE  Outcome(g, o) /\ Settles(g) /\ QueuesKept
<1>1. /\ out' = [out EXCEPT ![g] = o] /\ pc' = [pc EXCEPT ![g] = "return"]
      /\ UNCHANGED <<done, hand>>
  BY DEF Finish, Goto
<1>2. /\ pc \in [Goroutines -> Points] /\ pc[g] # "parked"
      /\ "return" # "parked" /\ UNCHANGED <<done, op, closed>>
  BY <1>1 DEF Acting
<1>3. QueueType' /\ QueuesAreSleepers'
  BY <1>1, <1>2, SettledQueues, Zenon
<1>4. QED
  BY <1>1, <1>3 DEF Outcome, Settles, QueuesKept

LEMMA ProceedSendIs ==
  ASSUME NEW g \in Goroutines, Acting(g), NEW wq, QueuesOf(wq, g), NEW c \in Chans,
         NEW k \in Case, k = [c |-> c, dir |-> "send"], Ready(wq, k),
         ProceedSend(g, wq, c), UNCHANGED <<op, closed>>
  PROVE  Sends(g, c) /\ QueuesKept
<1>1. k.c = c /\ k.dir = "send" /\ Other(k.dir) = "recv" /\ Cap[c] \in Nat
  BY ChanAssumption DEF Other
<1>2. \/ /\ closed[c] /\ Finish(g, <<"panic">>)
         /\ waitq' = wq /\ UNCHANGED buf
      \/ /\ ~closed[c] /\ out' = [out EXCEPT ![g] = <<"sent", c>>]
         /\ IF Cap[c] > 0
            THEN buf' = [buf EXCEPT ![c] = Append(@, g)] /\ Ping(g, wq, k)
            ELSE UNCHANGED buf /\ Dequeue(g, wq, k, <<"received", c, g>>)
  BY Zenon DEF ProceedSend
<1>3. CASE closed[c]
  <2>1. Finish(g, <<"panic">>) /\ waitq' = wq /\ UNCHANGED buf
    BY <1>2, <1>3, Zenon
  <2>2. Outcome(g, <<"panic">>) /\ Settles(g) /\ QueuesKept
    BY <2>1, FinishIs, Zenon
  <2>3. QED
    BY <1>3, <2>1, <2>2, Zenon DEF Sends, PanicsOn
<1>4. CASE ~closed[c] /\ Cap[c] > 0
  <2>1. /\ Outcome(g, <<"sent", c>>)
        /\ buf' = [buf EXCEPT ![c] = Append(@, g)] /\ Ping(g, wq, k)
    BY <1>2, <1>4, Zenon DEF Outcome
  <2>2. Len(buf[c]) < Cap[c]
    BY <1>1, <1>4 DEF Ready
  <2>3. Pinged(g, k.c, Other(k.dir)) /\ QueuesKept
    BY <2>1, PingIs, Zenon
  <2>4. Pinged(g, c, "recv")
    BY <1>1, <2>3, Zenon
  <2>5. QED
    BY <1>4, <2>1, <2>2, <2>3, <2>4, Zenon DEF Sends, SendsInto
<1>5. CASE ~closed[c] /\ ~(Cap[c] > 0)
  <2> DEFINE h == Partners(wq, k)[FirstLive(Partners(wq, k))]
             o == <<"received", c, g>>
  <2>1. Outcome(g, <<"sent", c>>) /\ UNCHANGED buf /\ Dequeue(g, wq, k, o)
    BY <1>2, <1>5, Zenon DEF Outcome
  <2>2. HasPartner(wq, k) /\ Cap[c] = 0
    BY <1>1, <1>5 DEF Ready
  <2>3. h \in Sleeping(k.c, Other(k.dir)) /\ Claims(g, h, o) /\ QueuesKept
    <3>1. h = Partners(wq, k)[FirstLive(Partners(wq, k))]
      OBVIOUS
    <3> HIDE DEF h, o
    <3>2. QED
      BY <2>1, <2>2, <3>1, DequeueIs, Zenon
  <2>4. h \in Sleeping(c, "recv")
    BY <1>1, <2>3, Zenon
  <2> HIDE DEF h
  <2>5. MeetsReceiver(g, c, h)
    BY <1>5, <2>1, <2>2, <2>3, Zenon DEF MeetsReceiver
  <2>6. QED
    BY <2>3, <2>4, <2>5, Zenon DEF Sends
<1>6. QED
  BY <1>3, <1>4, <1>5

LEMMA ProceedRecvIs ==
  ASSUME NEW g \in Goroutines, Acting(g), NEW wq, QueuesOf(wq, g), NEW c \in Chans,
         NEW k \in Case, k = [c |-> c, dir |-> "recv"], Ready(wq, k),
         ProceedRecv(g, wq, c), UNCHANGED <<op, closed>>
  PROVE  Receives(g, c) /\ QueuesKept
<1> DEFINE h == Partners(wq, k)[FirstLive(Partners(wq, k))]
<1>1. k.c = c /\ k.dir = "recv" /\ Other(k.dir) = "send" /\ Cap[c] \in Nat
  BY ChanAssumption DEF Other
<1>2. \/ /\ buf[c] # <<>>
         /\ out' = [out EXCEPT ![g] = <<"received", c, Head(buf[c])>>]
         /\ buf' = [buf EXCEPT ![c] = Tail(@)]
         /\ Ping(g, wq, k)
      \/ /\ buf[c] = <<>> /\ closed[c]
         /\ Finish(g, <<"closed", c>>) /\ waitq' = wq /\ UNCHANGED buf
      \/ /\ Cap[c] = 0 /\ ~closed[c]
         /\ out' = [out EXCEPT ![g] = <<"received", c, h>>]
         /\ Dequeue(g, wq, k, <<"sent", c>>)
         /\ UNCHANGED buf
  BY Zenon DEF ProceedRecv
<1> HIDE DEF h
<1>3. CASE /\ buf[c] # <<>>
           /\ out' = [out EXCEPT ![g] = <<"received", c, Head(buf[c])>>]
           /\ buf' = [buf EXCEPT ![c] = Tail(@)]
           /\ Ping(g, wq, k)
  <2>1. Pinged(g, k.c, Other(k.dir)) /\ QueuesKept
    BY <1>3, PingIs, Zenon
  <2>2. Pinged(g, c, "send")
    BY <1>1, <2>1, Zenon
  <2>3. QED
    BY <1>3, <2>1, <2>2, Zenon DEF Receives, ReceivesFrom, Outcome
<1>4. CASE /\ buf[c] = <<>> /\ closed[c]
           /\ Finish(g, <<"closed", c>>) /\ waitq' = wq /\ UNCHANGED buf
  <2> DEFINE o == <<"closed", c>>
  <2>1. Outcome(g, o) /\ Settles(g) /\ QueuesKept
    <3>1. Finish(g, o)
      BY <1>4
    <3> HIDE DEF o
    <3>2. QED
      BY <1>4, <3>1, FinishIs, Zenon
  <2>2. QED
    BY <1>4, <2>1, Zenon DEF Receives, ReceivesNothing
<1>5. CASE /\ Cap[c] = 0 /\ ~closed[c]
           /\ out' = [out EXCEPT ![g] = <<"received", c, h>>]
           /\ Dequeue(g, wq, k, <<"sent", c>>)
           /\ UNCHANGED buf
  <2> DEFINE o == <<"sent", c>>
  <2>1. HasPartner(wq, k)
    BY <1>1, <1>5 DEF Ready
  <2>2. h \in Sleeping(k.c, Other(k.dir)) /\ Claims(g, h, o) /\ QueuesKept
    <3>1. h = Partners(wq, k)[FirstLive(Partners(wq, k))] /\ Dequeue(g, wq, k, o)
      BY <1>5 DEF h
    <3> HIDE DEF o
    <3>2. QED
      BY <2>1, <3>1, DequeueIs, Zenon
  <2>3. h \in Sleeping(c, "send")
    BY <1>1, <2>2, Zenon
  <2>4. MeetsSender(g, c, h)
    BY <1>5, <2>2, Zenon DEF MeetsSender, Outcome
  <2>5. QED
    BY <2>2, <2>3, <2>4, Zenon DEF Receives
<1>6. QED
  BY <1>2, <1>3, <1>4, <1>5, Zenon

\* One pass over the cases of an operation.
LEMMA AttemptIs ==
  ASSUME NEW g \in Goroutines, Acting(g), op[g] \in Offers,
         NEW wq, QueuesOf(wq, g), Attempt(g, wq)
  PROVE  Attempts(g) /\ QueuesKept
<1> DEFINE cases == op[g].cases
           ready == {k \in cases : Ready(wq, k)}
           none  == Looked(wq, cases)
<1>1. cases \subseteq Case
  BY OffersAre
<1>2. /\ \/ \E k \in ready, ks \in SUBSET (cases \ ready) :
              Proceed(g, Looked(wq, ks), k)
         \/ ready = {} /\ op[g].block /\ Park(g, none)
         \/ /\ ready = {} /\ ~op[g].block
            /\ Finish(g, <<"default">>)
            /\ waitq' = none /\ UNCHANGED buf
      /\ UNCHANGED <<closed, op>>
  BY Zenon DEF Attempt
<1>3. UNCHANGED <<op, closed>>
  BY <1>2
<1>4. CASE \E k \in ready, ks \in SUBSET (cases \ ready) :
              Proceed(g, Looked(wq, ks), k)
  <2>1. PICK k \in ready, ks \in SUBSET (cases \ ready) :
              Proceed(g, Looked(wq, ks), k)
    BY <1>4
  <2> DEFINE w == Looked(wq, ks)
  <2>2. ks \subseteq Case /\ k \in Case \ ks /\ Ready(wq, k) /\ k \in cases
        /\ \A j \in ks : ~Ready(wq, j)
    BY <1>1
  <2>3. QueuesOf(w, g) /\ \A j \in Case \ ks : Partners(w, j) = Partners(wq, j)
    <3>1. ks \subseteq Case /\ \A j \in ks : ~Ready(wq, j)
      BY <2>2
    <3> HIDE DEF ready, cases
    <3>2. QED
      BY <3>1, LookedIs, Zenon
  <2>4. Ready(w, k)
    <3>1. Partners(w, k) = Partners(wq, k)
      BY <2>2, <2>3
    <3>2. QED
      BY <2>2, <3>1, Zenon DEF Ready, HasPartner
  <2>5. /\ k.c \in Chans /\ k = [c |-> k.c, dir |-> k.dir]
        /\ k.dir = "send" \/ k.dir = "recv"
    BY <2>2, CaseIs
  <2>6. /\ k.dir = "send" => ProceedSend(g, w, k.c)
        /\ k.dir # "send" => ProceedRecv(g, w, k.c)
    BY <2>1 DEF Proceed
  <2> DEFINE c == k.c
  <2>7. c \in Chans /\ k \in Case
    BY <2>2, <2>5
  <2> HIDE DEF w, c
  <2>8. CASE k.dir = "send"
    <3>1. k = [c |-> c, dir |-> "send"] /\ ProceedSend(g, w, c)
      BY <2>5, <2>6, <2>8 DEF c
    <3>2. Sends(g, c) /\ QueuesKept
      BY <1>3, <2>3, <2>4, <2>7, <3>1, ProceedSendIs, Zenon
    <3>3. QED
      BY <2>2, <2>7, <3>1, <3>2, Zenon DEF Attempts
  <2>9. CASE k.dir = "recv"
    <3>1. k = [c |-> c, dir |-> "recv"] /\ ProceedRecv(g, w, c)
      BY <2>5, <2>6, <2>9 DEF c
    <3>2. Receives(g, c) /\ QueuesKept
      BY <1>3, <2>3, <2>4, <2>7, <3>1, ProceedRecvIs, Zenon
    <3>3. QED
      BY <2>2, <2>7, <3>1, <3>2, Zenon DEF Attempts
  <2>10. QED
    BY <2>5, <2>8, <2>9
<1>5. ASSUME ready = {}
      PROVE  /\ QueuesOf(none, g)
             /\ \A k \in cases : ~Ready(wq, k)
  <2>1. \A k \in cases : ~Ready(wq, k)
    BY <1>5
  <2> HIDE DEF cases
  <2>2. QED
    BY <1>1, <2>1, LookedIs, Zenon
<1>6. CASE ready = {} /\ op[g].block /\ Park(g, none)
  <2>1. QueuesOf(none, g) /\ \A k \in cases : ~Ready(wq, k)
    BY <1>5, <1>6, Zenon
  <2>2. ASSUME NEW k \in cases
        PROVE  /\ ~closed[k.c]
               /\ Cap[k.c] = 0 => Sleeping(k.c, Other(k.dir)) = {}
               /\ Cap[k.c] > 0 => IF k.dir = "send" THEN ~(Len(buf[k.c]) < Cap[k.c])
                                                    ELSE buf[k.c] = <<>>
    <3>1. /\ ~closed[k.c] /\ (Cap[k.c] = 0 => ~HasPartner(wq, k))
          /\ Cap[k.c] > 0 => IF k.dir = "send" THEN ~(Len(buf[k.c]) < Cap[k.c])
                                               ELSE buf[k.c] = <<>>
      BY <2>1, Zenon DEF Ready
    <3>2. k \in Case
      BY <1>1
    <3>3. ~HasPartner(wq, k) => Sleeping(k.c, Other(k.dir)) = {}
      BY <3>2, DropIs, Zenon
    <3>4. QED
      BY <3>1, <3>3, Zenon
  <2>3. \A k \in op[g].cases : ~closed[k.c]
    BY <2>2
  <2>4. /\ op \in [Goroutines -> Offers \cup {NoOp}]
        /\ pc \in [Goroutines -> Points] /\ done \in [Goroutines -> BOOLEAN]
        /\ pc[g] # "parked"
    BY DEF Acting
  <2> DEFINE joins == \A c \in Chans, d \in Dirs :
               Sleeping(c, d)' =
                 Sleeping(c, d)
                   \cup (IF [c |-> c, dir |-> d] \in op[g].cases THEN {g} ELSE {})
  <2>5. QueueType' /\ QueuesAreSleepers' /\ joins
    <3> DEFINE w == none
    <3>1. QueuesOf(w, g) /\ Park(g, w)
      BY <1>6, <2>1
    <3> HIDE DEF w
    <3>2. QED
      BY <1>3, <2>3, <2>4, <3>1, ParkedQueues, Zenon
  <2>6. /\ done' = [done EXCEPT ![g] = FALSE]
        /\ pc' = [pc EXCEPT ![g] = "parked"]
        /\ UNCHANGED <<buf, hand, out>>
    BY <1>6, Zenon DEF Park, Goto
  <2> HIDE DEF joins
  <2>7. Parks(g)
    BY <1>6, <2>2, <2>5, <2>6, Zenon DEF Parks, joins
  <2>8. QED
    BY <1>3, <2>5, <2>7, Zenon DEF Attempts, QueuesKept
<1>7. CASE /\ ready = {} /\ ~op[g].block
           /\ Finish(g, <<"default">>)
           /\ waitq' = none /\ UNCHANGED buf
  <2> DEFINE w == none
             o == <<"default">>
  <2>1. QueuesOf(w, g) /\ Finish(g, o) /\ waitq' = w
    BY <1>5, <1>7, Zenon
  <2>2. Outcome(g, o) /\ Settles(g) /\ QueuesKept
    <3> HIDE DEF w, o
    <3>1. QED
      BY <1>3, <2>1, FinishIs, Zenon
  <2>3. GivesUp(g)
    BY <1>7, <2>2, Zenon DEF GivesUp
  <2>4. QED
    BY <2>2, <2>3, Zenon DEF Attempts
<1>8. QED
  BY <1>2, <1>4, <1>6, <1>7, Zenon
-----------------------------------------------------------------------------
(* The invariant, kind of step by kind of step *)

\* Outcomes are told apart by their first component.
LEMMA OutcomesAre ==
  /\ <<>> \in Outcomes /\ <<"panic">> \in Outcomes
  /\ <<"default">> \in Outcomes /\ <<"close">> \in Outcomes
  /\ <<"panic">> # <<>> /\ <<"default">> # <<>> /\ <<"close">> # <<>>
  /\ \A c \in Chans : /\ <<"sent", c>> \in Outcomes /\ <<"sent", c>> # <<>>
                      /\ <<"closed", c>> \in Outcomes /\ <<"closed", c>> # <<>>
  /\ \A c \in Chans, g \in Goroutines :
       /\ <<"received", c, g>> \in Outcomes /\ <<"received", c, g>> # <<>>
<1>1. /\ <<"panic">> # <<>> /\ <<"default">> # <<>> /\ <<"close">> # <<>>
      /\ \A c : <<"sent", c>> # <<>> /\ <<"closed", c>> # <<>>
      /\ \A c, g : <<"received", c, g>> # <<>>
  OBVIOUS
<1>2. /\ <<>> \in Outcomes /\ <<"panic">> \in Outcomes
      /\ <<"default">> \in Outcomes /\ <<"close">> \in Outcomes
  BY DEF Outcomes
<1>3. \A c \in Chans : <<"sent", c>> \in Outcomes /\ <<"closed", c>> \in Outcomes
  BY DEF Outcomes
<1>4. \A c \in Chans, g \in Goroutines : <<"received", c, g>> \in Outcomes
  BY DEF Outcomes
<1>5. QED
  BY <1>1, <1>2, <1>3, <1>4, Zenon

\* What an outcome fits does not change while the waiter's operation goes on.
LEMMA FitsKept ==
  ASSUME NEW h \in Goroutines, NEW o, Fits(h, o),
         op \in [Goroutines -> Offers \cup {NoOp}], op'[h] = op[h],
         \A c \in Chans : closed[c] => closed'[c]
  PROVE  Fits(h, o)'
<1>1. op[h].cases \subseteq Case
  BY OffersAre
<1>2. \A k \in op[h].cases : k.c \in Chans
  BY <1>1, CaseIs
<1>3. CASE o = <<>> /\ (op[h].select \/ \A k \in op[h].cases : Cap[k.c] > 0 \/ closed[k.c])
  BY <1>2, <1>3 DEF Fits
<1>4. CASE \E k \in op[h].cases :
             /\ Cap[k.c] = 0
             /\ IF k.dir = "send" THEN o = <<"sent", k.c>>
                ELSE \E g \in Goroutines : o = <<"received", k.c, g>>
  BY <1>4, Zenon DEF Fits
<1>5. QED
  BY <1>3, <1>4 DEF Fits

\* A goroutine that is not in a queue moves on; the queues are left alone.
LEMMA QueuesStay ==
  ASSUME IInv, UNCHANGED <<waitq, closed>>,
         \A x \in Goroutines :
           IF pc[x] \in {"parked", "woken"}
           THEN /\ done'[x] = done[x] /\ op'[x] = op[x]
                /\ pc'[x] \in {"parked", "woken"}
                /\ done[x] \/ pc'[x] = pc[x]
           ELSE pc'[x] # "parked"
  PROVE  QueueType' /\ QueuesAreSleepers'
<1>1. QueueType'
  BY DEF IInv, TypeOK, QueueType
<1>2. ASSUME NEW c \in Chans, NEW d \in Dirs
      PROVE  Sleeping(c, d)' = Sleeping(c, d)
  <2>1. ASSUME NEW x \in Goroutines
        PROVE  /\ pc'[x] = "parked" /\ ~done'[x] <=> pc[x] = "parked" /\ ~done[x]
               /\ pc[x] = "parked" => op'[x] = op[x]
    OBVIOUS
  <2>2. QED
    BY <2>1 DEF Sleeping
<1>3. ASSUME NEW c \in Chans, NEW d \in Dirs
      PROVE  /\ IsInjective(waitq'[c][d])
             /\ {x \in ToSet(waitq'[c][d]) : ~done'[x]} = Sleeping(c, d)'
             /\ \A x \in ToSet(waitq'[c][d]) :
                  done'[x] => op'[x].select /\ pc'[x] \in {"parked", "woken"}
             /\ closed'[c] => waitq'[c][d] = <<>>
  <2> DEFINE q == waitq[c][d]
  <2>1. /\ IsInjective(q)
        /\ {x \in ToSet(q) : ~done[x]} = Sleeping(c, d)
        /\ \A x \in ToSet(q) :
             done[x] => op[x].select /\ pc[x] \in {"parked", "woken"}
        /\ closed[c] => q = <<>>
    BY DEF IInv, QueuesAreSleepers
  <2>2. waitq'[c][d] = q /\ Sleeping(c, d)' = Sleeping(c, d) /\ q \in Seq(Goroutines)
    BY <1>2 DEF IInv, TypeOK
  <2> HIDE DEF q
  <2>3. ToSet(q) \subseteq Goroutines
    BY <2>2, LenProperties, ElementOfSeq DEF ToSet
  <2>4. ASSUME NEW x \in ToSet(q)
        PROVE  pc[x] \in {"parked", "woken"}
    <3>1. ~done[x] => x \in Sleeping(c, d)
      BY <2>1
    <3>2. x \in Sleeping(c, d) => pc[x] = "parked"
      BY DEF Sleeping
    <3>3. QED
      BY <2>1, <3>1, <3>2
  <2>5. \A x \in ToSet(q) : /\ done'[x] = done[x] /\ op'[x] = op[x]
                            /\ pc'[x] \in {"parked", "woken"}
    BY <2>3, <2>4
  <2>6. QED
    BY <2>1, <2>2, <2>5
<1>4. QED
  BY <1>1, <1>3, Zenon DEF QueuesAreSleepers

BuffersAre == buf \in [Chans -> Seq(Goroutines)] /\ BufferBounded

\* The types of all but the buffers and the queues.
RestAre ==
  /\ closed \in [Chans -> BOOLEAN]
  /\ op \in [Goroutines -> Offers \cup {NoOp}]
  /\ pc \in [Goroutines -> Points]
  /\ done \in [Goroutines -> BOOLEAN]
  /\ hand \in [Goroutines -> {<<>>} \cup (Goroutines \X Outcomes)]
  /\ out \in [Goroutines -> Outcomes]

LEMMA InvNext ==
  ASSUME QueueType', QueuesAreSleepers', BuffersAre', RestAre', PointsAgree',
         ClaimedOnce', OutcomesFit', NoThrow'
  PROVE  IInv'
BY DEF IInv, TypeOK, QueueType, BuffersAre, RestAre

LEMMA InvHas ==
  ASSUME IInv
  PROVE  /\ QueueType /\ QueuesAreSleepers /\ BuffersAre /\ RestAre /\ PointsAgree
         /\ ClaimedOnce /\ OutcomesFit /\ NoThrow
BY DEF IInv, TypeOK, QueueType, BuffersAre, RestAre

\* Outcomes still fit when those that are new do.
LEMMA FitsStay ==
  ASSUME RestAre, RestAre', OutcomesFit, \A c \in Chans : closed[c] => closed'[c],
         \A x \in Goroutines, h \in Goroutines, o \in Outcomes :
           hand'[x] = <<h, o>>
             => (hand[x] = <<h, o>> /\ op'[h] = op[h]) \/ Fits(h, o)',
         \A x \in Goroutines, o \in Outcomes :
           pc'[x] = "woken" /\ out'[x] = o
             => (pc[x] = "woken" /\ out[x] = o /\ op'[x] = op[x]) \/ Fits(x, o)'
  PROVE  OutcomesFit'
<1>1. ASSUME NEW h \in Goroutines, NEW o, Fits(h, o), op'[h] = op[h]
      PROVE  Fits(h, o)'
  BY <1>1, FitsKept DEF RestAre
<1>2. ASSUME NEW x \in Goroutines, hand'[x] # <<>>
      PROVE  Fits(hand[x][1], hand[x][2])'
  <2>1. hand'[x] \in Goroutines \X Outcomes
    BY <1>2 DEF RestAre
  <2>2. PICK h \in Goroutines, o \in Outcomes : hand'[x] = <<h, o>>
    BY <2>1
  <2>3. hand'[x][1] = h /\ hand'[x][2] = o
    BY <2>2
  <2>4. Fits(h, o)'
    <3>1. CASE hand[x] = <<h, o>> /\ op'[h] = op[h]
      <4>1. hand[x] # <<>> /\ hand[x][1] = h /\ hand[x][2] = o
        BY <3>1
      <4>2. Fits(h, o)
        BY <4>1, Zenon DEF OutcomesFit
      <4>3. QED
        BY <1>1, <3>1, <4>2
    <3>2. QED
      BY <2>2, <3>1
  <2>5. QED
    BY <2>3, <2>4 DEF Fits
<1>3. ASSUME NEW x \in Goroutines, pc'[x] = "woken"
      PROVE  Fits(x, out[x])'
  <2>1. PICK o \in Outcomes : out'[x] = o
    BY DEF RestAre
  <2>2. Fits(x, o)'
    <3>1. CASE pc[x] = "woken" /\ out[x] = o /\ op'[x] = op[x]
      <4>1. Fits(x, o)
        BY <3>1 DEF OutcomesFit
      <4>2. QED
        BY <1>1, <3>1, <4>1
    <3>2. QED
      BY <1>3, <2>1, <3>1
  <2>3. QED
    BY <2>1, <2>2 DEF Fits
<1>4. QED
  BY <1>2, <1>3, Zenon DEF OutcomesFit

\* An operation gets its outcome, and nobody is claimed.
LEMMA SettledInv ==
  ASSUME IInv, NEW g \in Goroutines, pc[g] \in {"idle", "second", "try", "woken"},
         NEW o \in Outcomes, o # <<>>, Outcome(g, o), Settles(g),
         QueuesKept, BuffersAre'
  PROVE  IInv'
<1>1. /\ out' = [out EXCEPT ![g] = o] /\ pc' = [pc EXCEPT ![g] = "return"]
      /\ UNCHANGED <<done, hand, closed, op>>
  BY DEF Outcome, Settles, QueuesKept
<1>2. /\ RestAre /\ PointsAgree /\ ClaimedOnce /\ OutcomesFit /\ NoThrow
  BY InvHas
<1>3. RestAre'
  BY <1>1, <1>2 DEF RestAre, Points
<1>4. /\ \A x \in Goroutines : pc'[x] = IF x = g THEN "return" ELSE pc[x]
      /\ \A x \in Goroutines : out'[x] = IF x = g THEN o ELSE out[x]
  BY <1>1, <1>2 DEF RestAre
<1>5. PointsAgree'
  BY <1>1, <1>2, <1>4 DEF PointsAgree
<1>6. ClaimedOnce'
  <2>1. \A x \in Goroutines : pc'[x] = "waking" <=> hand'[x] # <<>>
    BY <1>1, <1>2, <1>4 DEF ClaimedOnce
  <2>2. \A x \in Goroutines : pc'[x] = "parked" <=> pc[x] = "parked"
    BY <1>4
  <2>3. QED
    BY <1>1, <1>2, <2>1, <2>2 DEF ClaimedOnce
<1>7. OutcomesFit'
  <2>1. \A x \in Goroutines : pc'[x] = "woken" => pc[x] = "woken" /\ out'[x] = out[x]
    BY <1>4
  <2>2. \A x \in Goroutines, y \in Goroutines, q \in Outcomes :
          hand'[x] = <<y, q>> => (hand[x] = <<y, q>> /\ op'[y] = op[y]) \/ Fits(y, q)'
    BY <1>1
  <2>3. \A x \in Goroutines, q \in Outcomes :
          pc'[x] = "woken" /\ out'[x] = q
            => (pc[x] = "woken" /\ out[x] = q /\ op'[x] = op[x]) \/ Fits(x, q)'
    BY <1>1, <2>1
  <2>4. \A c \in Chans : closed[c] => closed'[c]
    BY <1>1
  <2>5. QED
    BY <1>2, <1>3, <2>2, <2>3, <2>4, FitsStay, Zenon
<1>8. NoThrow'
  BY <1>2, <1>4 DEF NoThrow
<1>9. QED
  BY <1>3, <1>5, <1>6, <1>7, <1>8, InvNext, Zenon
    DEF QueuesKept

\* An operation gets its outcome, and a goroutine that sleeps is claimed.
LEMMA ClaimedInv ==
  ASSUME IInv, NEW g \in Goroutines, pc[g] \in {"try", "woken"},
         NEW c, NEW d, NEW h \in Sleeping(c, d), NEW o \in Outcomes, Fits(h, o),
         NEW r \in Outcomes, r # <<>>, Outcome(g, r), Claims(g, h, o),
         QueuesKept, BuffersAre'
  PROVE  IInv'
<1>1. /\ out' = [out EXCEPT ![g] = r] /\ pc' = [pc EXCEPT ![g] = "waking"]
      /\ done' = [done EXCEPT ![h] = TRUE] /\ hand' = [hand EXCEPT ![g] = <<h, o>>]
      /\ UNCHANGED <<closed, op>>
  BY DEF Outcome, Claims, QueuesKept
<1>2. /\ RestAre /\ PointsAgree /\ ClaimedOnce /\ OutcomesFit /\ NoThrow
  BY InvHas
<1>3. h \in Goroutines /\ pc[h] = "parked" /\ ~done[h] /\ h # g
  BY DEF Sleeping
<1>4. RestAre'
  BY <1>1, <1>2, <1>3 DEF RestAre, Points
<1>5. /\ \A x \in Goroutines : pc'[x] = IF x = g THEN "waking" ELSE pc[x]
      /\ \A x \in Goroutines : out'[x] = IF x = g THEN r ELSE out[x]
      /\ \A x \in Goroutines : done'[x] = (done[x] \/ x = h)
      /\ \A x \in Goroutines : hand'[x] = IF x = g THEN <<h, o>> ELSE hand[x]
  BY <1>1, <1>2, <1>3 DEF RestAre
<1>6. PointsAgree'
  <2>1. op[g] \in Offers
    BY <1>2 DEF PointsAgree
  <2>2. QED
    BY <1>1, <1>2, <1>3, <1>5, <2>1 DEF PointsAgree
<1>7. ClaimedOnce'
  <2>1. <<h, o>> # <<>> /\ <<h, o>>[1] = h
    OBVIOUS
  <2>2. \A x \in Goroutines : pc'[x] = "waking" <=> hand'[x] # <<>>
    BY <1>2, <1>5, <2>1 DEF ClaimedOnce
  <2>3. hand[g] = <<>> /\ \A x \in Goroutines : hand[x] # <<>> => hand[x][1] # h
    BY <1>2, <1>3 DEF ClaimedOnce
  <2>4. \A x \in Goroutines :
          pc'[x] = "parked" /\ done'[x] <=> (pc[x] = "parked" /\ done[x]) \/ x = h
    BY <1>3, <1>5
  <2>5. ASSUME NEW y \in Goroutines
        PROVE  (\E x \in Goroutines : hand'[x] # <<>> /\ hand'[x][1] = y)
                 <=> (\E x \in Goroutines : hand[x] # <<>> /\ hand[x][1] = y) \/ y = h
    BY <1>5, <2>1, <2>3
  <2>6. \A x, y \in Goroutines :
          hand'[x] # <<>> /\ hand'[y] # <<>> /\ hand'[x][1] = hand'[y][1] => x = y
    BY <1>2, <1>5, <2>1, <2>3 DEF ClaimedOnce
  <2>7. \A x \in Goroutines :
          pc'[x] = "parked" /\ done'[x]
            <=> \E y \in Goroutines : hand'[y] # <<>> /\ hand'[y][1] = x
    BY <1>2, <2>4, <2>5 DEF ClaimedOnce
  <2>8. QED
    BY <2>2, <2>6, <2>7 DEF ClaimedOnce
<1>8. OutcomesFit'
  <2>1. \A x \in Goroutines : pc'[x] = "woken" => pc[x] = "woken" /\ out'[x] = out[x]
    BY <1>5
  <2>2. Fits(h, o)'
    BY <1>1, <1>2, <1>3, FitsKept DEF RestAre
  <2>3. \A x \in Goroutines, y \in Goroutines, q \in Outcomes :
          hand'[x] = <<y, q>> => (hand[x] = <<y, q>> /\ op'[y] = op[y]) \/ Fits(y, q)'
    <3>1. ASSUME NEW x \in Goroutines, NEW y \in Goroutines, NEW q \in Outcomes,
                 hand'[x] = <<y, q>>, hand[x] # <<y, q>>
          PROVE  y = h /\ q = o
      BY <1>5, <3>1
    <3>2. QED
      BY <1>1, <2>2, <3>1
  <2>4. \A x \in Goroutines, q \in Outcomes :
          pc'[x] = "woken" /\ out'[x] = q
            => (pc[x] = "woken" /\ out[x] = q /\ op'[x] = op[x]) \/ Fits(x, q)'
    BY <1>1, <2>1
  <2>5. \A b \in Chans : closed[b] => closed'[b]
    BY <1>1
  <2>6. QED
    BY <1>2, <1>4, <2>3, <2>4, <2>5, FitsStay, Zenon
<1>9. NoThrow'
  BY <1>2, <1>5 DEF NoThrow
<1>10. QED
  BY <1>4, <1>6, <1>7, <1>8, <1>9, InvNext, Zenon
    DEF QueuesKept

\* An operation parks.
LEMMA ParkedInv ==
  ASSUME IInv, NEW g \in Goroutines, pc[g] \in {"try", "woken"}, out[g] = <<>>,
         Parks(g), QueuesKept
  PROVE  IInv'
<1>1. /\ pc' = [pc EXCEPT ![g] = "parked"] /\ done' = [done EXCEPT ![g] = FALSE]
      /\ op[g].block /\ UNCHANGED <<buf, hand, out, closed, op>>
  BY DEF Parks, QueuesKept
<1>2. /\ RestAre /\ PointsAgree /\ ClaimedOnce /\ OutcomesFit /\ NoThrow
      /\ BuffersAre
  BY InvHas
<1>3. RestAre'
  BY <1>1, <1>2 DEF RestAre, Points
<1>4. /\ \A x \in Goroutines : pc'[x] = IF x = g THEN "parked" ELSE pc[x]
      /\ \A x \in Goroutines : done'[x] = (x # g /\ done[x])
  BY <1>1, <1>2 DEF RestAre
<1>5. PointsAgree'
  BY <1>1, <1>2, <1>4 DEF PointsAgree
<1>6. ClaimedOnce'
  <2>1. \A x \in Goroutines : pc'[x] = "waking" <=> hand'[x] # <<>>
    BY <1>1, <1>2, <1>4 DEF ClaimedOnce
  <2>2. \A x \in Goroutines :
          pc'[x] = "parked" /\ done'[x] <=> pc[x] = "parked" /\ done[x]
    BY <1>4
  <2>3. QED
    BY <1>1, <1>2, <2>1, <2>2 DEF ClaimedOnce
<1>7. OutcomesFit'
  <2>1. \A x \in Goroutines : pc'[x] = "woken" => pc[x] = "woken" /\ out'[x] = out[x]
    BY <1>1, <1>4
  <2>2. \A x \in Goroutines, y \in Goroutines, q \in Outcomes :
          hand'[x] = <<y, q>> => (hand[x] = <<y, q>> /\ op'[y] = op[y]) \/ Fits(y, q)'
    BY <1>1
  <2>3. \A x \in Goroutines, q \in Outcomes :
          pc'[x] = "woken" /\ out'[x] = q
            => (pc[x] = "woken" /\ out[x] = q /\ op'[x] = op[x]) \/ Fits(x, q)'
    BY <1>1, <2>1
  <2>4. \A c \in Chans : closed[c] => closed'[c]
    BY <1>1
  <2>5. QED
    BY <1>2, <1>3, <2>2, <2>3, <2>4, FitsStay, Zenon
<1>8. NoThrow'
  BY <1>2, <1>4 DEF NoThrow
<1>9. BuffersAre'
  BY <1>1, <1>2 DEF BuffersAre, BufferBounded
<1>10. QED
  BY <1>3, <1>5, <1>6, <1>7, <1>8, <1>9, InvNext, Zenon
    DEF QueuesKept

\* What waiters are handed fits their operations.
LEMMA SleeperFits ==
  ASSUME RestAre, NEW c \in Chans, NEW d \in Dirs, NEW h \in Sleeping(c, d)
  PROVE  /\ Cap[c] > 0 => Fits(h, <<>>)
         /\ Cap[c] = 0 /\ d = "send" => Fits(h, <<"sent", c>>)
         /\ Cap[c] = 0 /\ d = "recv"
              => \A g \in Goroutines : Fits(h, <<"received", c, g>>)
<1> DEFINE k == [c |-> c, dir |-> d]
<1>1. h \in Goroutines /\ k \in op[h].cases /\ k.c = c /\ k.dir = d
  BY DEF Sleeping
<1> HIDE DEF k
<1>2. ASSUME Cap[c] > 0
      PROVE  Fits(h, <<>>)
  <2>1. CASE op[h].select
    BY <2>1 DEF Fits
  <2>2. CASE ~op[h].select
    <3>1. op[h] \in Offers
      BY <1>1, OffersAre DEF RestAre
    <3>2. \A j \in op[h].cases : j = k
      BY <1>1, <2>2, <3>1, OneCase
    <3>3. \A j \in op[h].cases : Cap[j.c] > 0
      BY <1>1, <1>2, <3>2
    <3>4. QED
      BY <3>3 DEF Fits
  <2>3. QED
    BY <2>1, <2>2
<1>3. ASSUME Cap[c] = 0, d = "send"
      PROVE  Fits(h, <<"sent", c>>)
  BY <1>1, <1>3 DEF Fits
<1>4. ASSUME Cap[c] = 0, d = "recv", NEW g \in Goroutines
      PROVE  Fits(h, <<"received", c, g>>)
  BY <1>1, <1>4, Zenon DEF Fits
<1>5. QED
  BY <1>2, <1>3, <1>4

\* A pass over the cases of an operation.
LEMMA AttemptsInv ==
  ASSUME IInv, NEW g \in Goroutines, pc[g] \in {"try", "woken"}, out[g] = <<>>,
         Attempts(g), QueuesKept
  PROVE  IInv'
<1>1. RestAre /\ BuffersAre
  BY InvHas
<1>2. pc[g] \in {"idle", "second", "try", "woken"}
  OBVIOUS
<1>3. Cap \in [Chans -> Nat] /\ Dirs = {"send", "recv"}
  BY ChanAssumption DEF Dirs
<1>4. ASSUME UNCHANGED buf
      PROVE  BuffersAre'
  BY <1>1, <1>4 DEF BuffersAre, BufferBounded
\* The ways in which an operation ends.
<1>5. ASSUME NEW o \in Outcomes, o # <<>>, Outcome(g, o), Settles(g), BuffersAre'
      PROVE  IInv'
  BY <1>2, <1>5, SettledInv, Zenon
<1>6. ASSUME NEW c \in Chans, NEW d \in Dirs, NEW h \in Sleeping(c, d),
             NEW o \in Outcomes, Fits(h, o), NEW r \in Outcomes, r # <<>>,
             Outcome(g, r), Claims(g, h, o), BuffersAre'
      PROVE  IInv'
  BY <1>6, ClaimedInv, Zenon
<1>7. ASSUME NEW c \in Chans, Cap[c] > 0, NEW d \in Dirs, Pinged(g, c, d),
             NEW r \in Outcomes, r # <<>>, Outcome(g, r), BuffersAre'
      PROVE  IInv'
  <2>1. CASE \E h \in Sleeping(c, d) : Claims(g, h, <<>>)
    <3>1. PICK h \in Sleeping(c, d) : Claims(g, h, <<>>)
      BY <2>1
    <3>2. Fits(h, <<>>) /\ <<>> \in Outcomes
      BY <1>1, <1>7, SleeperFits, OutcomesAre
    <3>3. QED
      BY <1>6, <1>7, <3>1, <3>2
  <2>2. QED
    BY <1>5, <1>7, <2>1 DEF Pinged
<1>8. ASSUME NEW c \in Chans, Sends(g, c)
      PROVE  IInv'
  <2>1. <<"sent", c>> \in Outcomes /\ <<"sent", c>> # <<>>
    BY OutcomesAre
  <2>2. CASE PanicsOn(g, c)
    <3>1. Outcome(g, <<"panic">>) /\ Settles(g) /\ BuffersAre'
      BY <1>4, <2>2 DEF PanicsOn
    <3>2. QED
      BY <1>5, <3>1, OutcomesAre
  <2>3. CASE SendsInto(g, c)
    <3>1. /\ Cap[c] > 0 /\ Len(buf[c]) < Cap[c] /\ Outcome(g, <<"sent", c>>)
          /\ buf' = [buf EXCEPT ![c] = Append(@, g)] /\ Pinged(g, c, "recv")
      BY <2>3 DEF SendsInto
    <3>2. BuffersAre'
      <4>1. buf[c] \in Seq(Goroutines) /\ buf \in [Chans -> Seq(Goroutines)]
        BY <1>1 DEF BuffersAre
      <4>2. Append(buf[c], g) \in Seq(Goroutines)
            /\ Len(Append(buf[c], g)) = Len(buf[c]) + 1 /\ Len(buf[c]) \in Nat
        BY <4>1, AppendProperties, LenProperties
      <4>3. buf' \in [Chans -> Seq(Goroutines)]
        BY <3>1, <4>1, <4>2
      <4>4. \A b \in Chans : buf'[b] = IF b = c THEN Append(buf[c], g) ELSE buf[b]
        BY <3>1, <4>1
      <4>5. \A b \in Chans : Len(buf'[b]) <= Cap[b]
        <5>1. Len(buf'[c]) <= Cap[c]
          BY <1>3, <3>1, <4>2, <4>4
        <5>2. QED
          BY <1>1, <4>4, <5>1 DEF BuffersAre, BufferBounded
      <4>6. QED
        BY <4>3, <4>5 DEF BuffersAre, BufferBounded
    <3>3. QED
      BY <1>3, <1>7, <2>1, <3>1, <3>2
  <2>4. CASE \E h \in Sleeping(c, "recv") : MeetsReceiver(g, c, h)
    <3>1. PICK h \in Sleeping(c, "recv") : MeetsReceiver(g, c, h)
      BY <2>4
    <3> DEFINE o == <<"received", c, g>>
    <3>2. /\ Cap[c] = 0 /\ Outcome(g, <<"sent", c>>) /\ Claims(g, h, o)
          /\ UNCHANGED buf
      BY <3>1 DEF MeetsReceiver
    <3>3. Fits(h, o) /\ o \in Outcomes /\ "recv" \in Dirs
      BY <1>1, <1>3, <3>2, SleeperFits, OutcomesAre
    <3> HIDE DEF o
    <3>4. QED
      BY <1>4, <1>6, <2>1, <3>2, <3>3
  <2>5. QED
    BY <1>8, <2>2, <2>3, <2>4 DEF Sends
<1>9. ASSUME NEW c \in Chans, Receives(g, c)
      PROVE  IInv'
  <2>1. CASE ReceivesFrom(g, c)
    <3>1. /\ buf[c] # <<>> /\ Outcome(g, <<"received", c, Head(buf[c])>>)
          /\ buf' = [buf EXCEPT ![c] = Tail(@)] /\ Pinged(g, c, "send")
      BY <2>1 DEF ReceivesFrom
    <3>2. buf[c] \in Seq(Goroutines) /\ buf \in [Chans -> Seq(Goroutines)]
      BY <1>1 DEF BuffersAre
    <3>3. /\ Head(buf[c]) \in Goroutines /\ Tail(buf[c]) \in Seq(Goroutines)
          /\ Len(Tail(buf[c])) = Len(buf[c]) - 1 /\ Len(buf[c]) \in Nat \ {0}
      BY <3>1, <3>2, HeadTailProperties, EmptySeq
    <3>4. Len(buf[c]) <= Cap[c] /\ Cap[c] \in Nat
      BY <1>1, <1>3 DEF BuffersAre, BufferBounded
    <3>5. Cap[c] > 0
      BY <3>3, <3>4
    <3>6. BuffersAre'
      <4>1. buf' \in [Chans -> Seq(Goroutines)]
        BY <3>1, <3>2, <3>3
      <4>2. \A b \in Chans : buf'[b] = IF b = c THEN Tail(buf[c]) ELSE buf[b]
        BY <3>1, <3>2
      <4>3. \A b \in Chans : Len(buf'[b]) <= Cap[b]
        <5>1. buf'[c] = Tail(buf[c])
          BY <4>2
        <5>2. Len(buf[c]) - 1 <= Cap[c]
          BY <3>3, <3>4
        <5>3. Len(buf'[c]) <= Cap[c]
          BY <3>3, <5>1, <5>2, Zenon
        <5>4. QED
          BY <1>1, <4>2, <5>3 DEF BuffersAre, BufferBounded
      <4>4. QED
        BY <4>1, <4>3 DEF BuffersAre, BufferBounded
    <3> DEFINE r == <<"received", c, Head(buf[c])>>
    <3>7. r \in Outcomes /\ r # <<>> /\ Outcome(g, r) /\ "send" \in Dirs
      BY <1>3, <3>1, <3>3, OutcomesAre
    <3> HIDE DEF r
    <3>8. QED
      BY <1>7, <3>1, <3>5, <3>6, <3>7
  <2>2. CASE ReceivesNothing(g, c)
    <3> DEFINE r == <<"closed", c>>
    <3>1. r \in Outcomes /\ r # <<>> /\ Outcome(g, r) /\ Settles(g) /\ BuffersAre'
      BY <1>4, <2>2, OutcomesAre DEF ReceivesNothing
    <3> HIDE DEF r
    <3>2. QED
      BY <1>5, <3>1
  <2>3. CASE \E h \in Sleeping(c, "send") : MeetsSender(g, c, h)
    <3>1. PICK h \in Sleeping(c, "send") : MeetsSender(g, c, h)
      BY <2>3
    <3> DEFINE o == <<"sent", c>>
               r == <<"received", c, h>>
    <3>2. /\ Cap[c] = 0 /\ Outcome(g, r) /\ Claims(g, h, o) /\ UNCHANGED buf
      BY <3>1 DEF MeetsSender
    <3>3. h \in Goroutines
      BY DEF Sleeping
    <3>4. /\ Fits(h, o) /\ o \in Outcomes /\ "send" \in Dirs
          /\ r \in Outcomes /\ r # <<>>
      BY <1>1, <1>3, <3>2, <3>3, SleeperFits, OutcomesAre
    <3> HIDE DEF o, r
    <3>5. QED
      BY <1>4, <1>6, <3>2, <3>4
  <2>4. QED
    BY <1>9, <2>1, <2>2, <2>3 DEF Receives
<1>10. CASE GivesUp(g)
  <2>1. Outcome(g, <<"default">>) /\ Settles(g) /\ BuffersAre'
    BY <1>4, <1>10 DEF GivesUp
  <2>2. QED
    BY <1>5, <2>1, OutcomesAre
<1>11. CASE Parks(g)
  BY <1>11, ParkedInv
<1>12. QED
  BY <1>8, <1>9, <1>10, <1>11 DEF Attempts

LEMMA BuffersStay ==
  ASSUME IInv, UNCHANGED buf
  PROVE  BuffersAre'
BY InvHas DEF BuffersAre, BufferBounded

LEMMA CallInv ==
  ASSUME IInv, NEW g \in Goroutines, NEW o \in Offers, Call(g, o)
  PROVE  IInv'
<1>1. /\ RestAre /\ PointsAgree /\ ClaimedOnce /\ OutcomesFit /\ NoThrow
  BY InvHas
<1>2. /\ pc[g] = "idle" /\ op' = [op EXCEPT ![g] = o]
      /\ UNCHANGED <<buf, closed, waitq, done, hand, out>>
  BY DEF Call
<1>3. PICK p \in {"second", "try"} :
        pc' = [pc EXCEPT ![g] = p] /\ (p = "second" => ~o.block /\ ~o.select)
  BY DEF Call, Goto
<1>4. RestAre'
  BY <1>1, <1>2, <1>3 DEF RestAre, Points
<1>5. /\ \A x \in Goroutines : pc'[x] = IF x = g THEN p ELSE pc[x]
      /\ \A x \in Goroutines : op'[x] = IF x = g THEN o ELSE op[x]
  BY <1>1, <1>2, <1>3 DEF RestAre
<1>6. PointsAgree'
  BY <1>1, <1>2, <1>3, <1>5 DEF PointsAgree
<1>7. ClaimedOnce'
  <2>1. \A x \in Goroutines : pc'[x] = "waking" <=> hand'[x] # <<>>
    BY <1>1, <1>2, <1>3, <1>5 DEF ClaimedOnce
  <2>2. \A x \in Goroutines : pc'[x] = "parked" <=> pc[x] = "parked"
    BY <1>2, <1>3, <1>5
  <2>3. QED
    BY <1>1, <1>2, <2>1, <2>2 DEF ClaimedOnce
<1>8. OutcomesFit'
  <2>1. \A x \in Goroutines, y \in Goroutines, q \in Outcomes :
          hand'[x] = <<y, q>> => (hand[x] = <<y, q>> /\ op'[y] = op[y]) \/ Fits(y, q)'
    <3>1. ASSUME NEW x \in Goroutines, NEW y \in Goroutines, NEW q \in Outcomes,
                 hand[x] = <<y, q>>
          PROVE  y # g
      <4>1. hand[x] # <<>> /\ hand[x][1] = y
        BY <3>1
      <4>2. pc[y] = "parked"
        BY <1>1, <4>1 DEF ClaimedOnce
      <4>3. QED
        BY <1>2, <4>2
    <3>2. QED
      BY <1>2, <1>5, <3>1
  <2>2. \A x \in Goroutines, q \in Outcomes :
          pc'[x] = "woken" /\ out'[x] = q
            => (pc[x] = "woken" /\ out[x] = q /\ op'[x] = op[x]) \/ Fits(x, q)'
    BY <1>2, <1>3, <1>5
  <2>3. \A c \in Chans : closed[c] => closed'[c]
    BY <1>2
  <2>4. QED
    BY <1>1, <1>4, <2>1, <2>2, <2>3, FitsStay, Zenon
<1>9. NoThrow'
  BY <1>1, <1>3, <1>5 DEF NoThrow
<1>10. QueueType' /\ QueuesAreSleepers'
  BY <1>2, <1>3, <1>5, QueuesStay
<1>11. BuffersAre'
  BY <1>2, BuffersStay
<1>12. QED
  BY <1>4, <1>6, <1>7, <1>8, <1>9, <1>10, <1>11, InvNext, Zenon

LEMMA SecondInv ==
  ASSUME IInv, NEW g \in Goroutines, Second(g)
  PROVE  IInv'
<1>1. /\ RestAre /\ PointsAgree /\ ClaimedOnce /\ OutcomesFit /\ NoThrow
  BY InvHas
<1>2. /\ pc[g] = "second" /\ UNCHANGED <<buf, closed, waitq, op>>
      /\ \/ Finish(g, <<"default">>)
         \/ Goto(g, "try") /\ UNCHANGED <<done, hand, out>>
  BY DEF Second
<1>3. BuffersAre'
  BY <1>2, BuffersStay
<1>4. CASE Finish(g, <<"default">>)
  <2>1. Outcome(g, <<"default">>) /\ Settles(g)
    BY <1>4 DEF Finish, Goto, Outcome, Settles
  <2>2. \A x \in Goroutines : pc'[x] = IF x = g THEN "return" ELSE pc[x]
    BY <1>1, <2>1 DEF Settles, RestAre
  <2>3. \A x \in Goroutines : done'[x] = done[x] /\ op'[x] = op[x]
    BY <1>2, <2>1 DEF Settles
  <2>4. QueueType' /\ QueuesAreSleepers'
    BY <1>2, <2>2, <2>3, QueuesStay
  <2>5. QueuesKept
    BY <1>2, <2>4 DEF QueuesKept
  <2>6. QED
    BY <1>2, <1>3, <2>1, <2>5, OutcomesAre, SettledInv
<1>5. CASE Goto(g, "try") /\ UNCHANGED <<done, hand, out>>
  <2>1. pc' = [pc EXCEPT ![g] = "try"]
    BY <1>5 DEF Goto
  <2>2. \A x \in Goroutines : pc'[x] = IF x = g THEN "try" ELSE pc[x]
    BY <1>1, <2>1 DEF RestAre
  <2>3. RestAre'
    BY <1>1, <1>2, <1>5, <2>1 DEF RestAre, Points
  <2>4. PointsAgree'
    BY <1>1, <1>2, <1>5, <2>2 DEF PointsAgree
  <2>5. ClaimedOnce'
    <3>1. \A x \in Goroutines : pc'[x] = "waking" <=> hand'[x] # <<>>
      BY <1>1, <1>2, <1>5, <2>2 DEF ClaimedOnce
    <3>2. \A x \in Goroutines : pc'[x] = "parked" <=> pc[x] = "parked"
      BY <1>2, <2>2
    <3>3. QED
      BY <1>1, <1>5, <3>1, <3>2 DEF ClaimedOnce
  <2>6. OutcomesFit'
    <3>1. \A x \in Goroutines, y \in Goroutines, q \in Outcomes :
            hand'[x] = <<y, q>> => (hand[x] = <<y, q>> /\ op'[y] = op[y]) \/ Fits(y, q)'
      BY <1>2, <1>5
    <3>2. \A x \in Goroutines, q \in Outcomes :
            pc'[x] = "woken" /\ out'[x] = q
              => (pc[x] = "woken" /\ out[x] = q /\ op'[x] = op[x]) \/ Fits(x, q)'
      BY <1>2, <1>5, <2>2
    <3>3. \A c \in Chans : closed[c] => closed'[c]
      BY <1>2
    <3>4. QED
      BY <1>1, <2>3, <3>1, <3>2, <3>3, FitsStay, Zenon
  <2>7. NoThrow'
    BY <1>1, <2>2 DEF NoThrow
  <2>8. QueueType' /\ QueuesAreSleepers'
    BY <1>2, <1>5, <2>2, QueuesStay
  <2>9. QED
    BY <1>3, <2>3, <2>4, <2>5, <2>6, <2>7, <2>8, InvNext, Zenon
<1>6. QED
  BY <1>2, <1>4, <1>5

\* The state in which a goroutine starts a pass over its cases.
LEMMA AttemptStarts ==
  ASSUME IInv, NEW g \in Goroutines, pc[g] \in {"try", "woken"}
  PROVE  Acting(g) /\ op[g] \in Offers
BY InvHas DEF Acting, RestAre, PointsAgree

LEMMA TryIs ==
  ASSUME IInv, NEW g \in Goroutines, Try(g)
  PROVE  pc[g] = "try" /\ out[g] = <<>> /\ Attempts(g) /\ QueuesKept
<1>1. pc[g] = "try" /\ Attempt(g, waitq)
  BY DEF Try
<1>2. out[g] = <<>>
  BY <1>1, InvHas DEF PointsAgree
<1>3. Acting(g) /\ op[g] \in Offers /\ QueuesOf(waitq, g)
  BY <1>1, AttemptStarts, QueuesAtTry
<1>4. QED
  BY <1>1, <1>2, <1>3, AttemptIs, Zenon

\* Nothing throws: what a goroutine has been woken with fits its operation.
LEMMA WokenIs ==
  ASSUME IInv, NEW g \in Goroutines, Woken(g)
  PROVE  /\ pc[g] = "woken"
         /\ \/ /\ out[g] # <<>> /\ QueuesKept
               /\ pc' = [pc EXCEPT ![g] = "return"]
               /\ UNCHANGED <<buf, done, hand, out>>
            \/ out[g] = <<>> /\ Attempts(g) /\ QueuesKept
<1>1. /\ RestAre /\ PointsAgree /\ OutcomesFit /\ pc[g] = "woken"
  BY InvHas DEF Woken
<1>2. ~Spurious(g)
  <2>1. Fits(g, out[g]) /\ op[g] \in Offers /\ Cap \in [Chans -> Nat]
    BY <1>1, ChanAssumption DEF OutcomesFit, PointsAgree
  <2>2. \A k \in op[g].cases : k.c \in Chans
    BY <2>1, OffersAre, CaseIs
  <2>3. CASE out[g] = <<>>
    <3>1. op[g].select \/ \A k \in op[g].cases : Cap[k.c] > 0 \/ closed[k.c]
      BY <2>1, <2>3 DEF Fits
    <3>2. QED
      BY <2>1, <2>2, <2>3, <3>1 DEF Spurious
  <2>4. CASE out[g] # <<>>
    <3>1. PICK k \in op[g].cases :
            /\ Cap[k.c] = 0
            /\ IF k.dir = "send" THEN out[g] = <<"sent", k.c>>
               ELSE \E x \in Goroutines : out[g] = <<"received", k.c, x>>
      BY <2>1, <2>4, Zenon DEF Fits
    <3>2. out[g][2] = k.c
      BY <3>1
    <3>3. QED
      BY <2>4, <3>1, <3>2 DEF Spurious
  <2>5. QED
    BY <2>3, <2>4
<1>3. QueuesOf(Without(waitq, g), g) /\ Acting(g) /\ op[g] \in Offers
  BY <1>1, QueuesAtWoken, AttemptStarts
<1>4. \/ /\ out[g] # <<>>
         /\ waitq' = Without(waitq, g) /\ Goto(g, "return")
         /\ UNCHANGED <<buf, closed, op, done, hand, out>>
      \/ out[g] = <<>> /\ Attempt(g, Without(waitq, g))
  BY <1>2 DEF Woken
<1>5. CASE /\ out[g] # <<>>
           /\ waitq' = Without(waitq, g) /\ Goto(g, "return")
           /\ UNCHANGED <<buf, closed, op, done, hand, out>>
  <2>1. pc' = [pc EXCEPT ![g] = "return"]
    BY <1>5 DEF Goto
  <2>2. /\ pc \in [Goroutines -> Points] /\ pc[g] # "parked"
        /\ "return" # "parked" /\ UNCHANGED <<done, op, closed>>
    BY <1>1, <1>5 DEF RestAre
  <2>3. waitq' = Without(waitq, g)
    BY <1>5
  <2>4. QueueType' /\ QueuesAreSleepers'
    BY <1>3, <2>1, <2>2, <2>3, SettledQueues, Zenon
  <2>5. QED
    BY <1>1, <1>5, <2>1, <2>4 DEF QueuesKept
<1>6. CASE out[g] = <<>> /\ Attempt(g, Without(waitq, g))
  BY <1>1, <1>3, <1>6, AttemptIs, Zenon
<1>7. QED
  BY <1>4, <1>5, <1>6

LEMMA WokenInv ==
  ASSUME IInv, NEW g \in Goroutines, Woken(g)
  PROVE  IInv'
<1>1. /\ RestAre /\ PointsAgree /\ ClaimedOnce /\ OutcomesFit /\ NoThrow
  BY InvHas
<1>2. CASE /\ pc[g] = "woken" /\ out[g] # <<>> /\ QueuesKept
           /\ pc' = [pc EXCEPT ![g] = "return"]
           /\ UNCHANGED <<buf, done, hand, out>>
  <2>1. UNCHANGED <<closed, op>> /\ QueueType' /\ QueuesAreSleepers'
    BY <1>2 DEF QueuesKept
  <2>2. \A x \in Goroutines : pc'[x] = IF x = g THEN "return" ELSE pc[x]
    BY <1>1, <1>2 DEF RestAre
  <2>3. RestAre'
    BY <1>1, <1>2, <2>1 DEF RestAre, Points
  <2>4. PointsAgree'
    BY <1>1, <1>2, <2>1, <2>2 DEF PointsAgree
  <2>5. ClaimedOnce'
    <3>1. \A x \in Goroutines : pc'[x] = "waking" <=> hand'[x] # <<>>
      BY <1>1, <1>2, <2>2 DEF ClaimedOnce
    <3>2. \A x \in Goroutines : pc'[x] = "parked" <=> pc[x] = "parked"
      BY <1>2, <2>2
    <3>3. QED
      BY <1>1, <1>2, <3>1, <3>2 DEF ClaimedOnce
  <2>6. OutcomesFit'
    <3>1. \A x \in Goroutines, y \in Goroutines, q \in Outcomes :
            hand'[x] = <<y, q>> => (hand[x] = <<y, q>> /\ op'[y] = op[y]) \/ Fits(y, q)'
      BY <1>2, <2>1
    <3>2. \A x \in Goroutines, q \in Outcomes :
            pc'[x] = "woken" /\ out'[x] = q
              => (pc[x] = "woken" /\ out[x] = q /\ op'[x] = op[x]) \/ Fits(x, q)'
      BY <1>2, <2>1, <2>2
    <3>3. \A c \in Chans : closed[c] => closed'[c]
      BY <2>1
    <3>4. QED
      BY <1>1, <2>3, <3>1, <3>2, <3>3, FitsStay, Zenon
  <2>7. NoThrow'
    BY <1>1, <2>2 DEF NoThrow
  <2>8. BuffersAre'
    BY <1>2, BuffersStay
  <2>9. QED
    BY <2>1, <2>3, <2>4, <2>5, <2>6, <2>7, <2>8, InvNext, Zenon
<1>3. CASE pc[g] = "woken" /\ out[g] = <<>> /\ Attempts(g) /\ QueuesKept
  BY <1>3, AttemptsInv
<1>4. QED
  BY <1>2, <1>3, WokenIs

\* goready of the goroutine in hand.
LEMMA DeliverIs ==
  ASSUME IInv, NEW g \in Goroutines, Deliver(g)
  PROVE  \E h \in Goroutines, o \in Outcomes :
           /\ hand[g] = <<h, o>> /\ h # g /\ Fits(h, o)
           /\ pc[g] = "waking" /\ pc[h] = "parked" /\ done[h]
           /\ out' = [out EXCEPT ![h] = o]
           /\ pc' = [pc EXCEPT ![g] = "return", ![h] = "woken"]
           /\ hand' = [hand EXCEPT ![g] = <<>>]
           /\ UNCHANGED <<buf, closed, waitq, op, done>>
<1>1. /\ RestAre /\ ClaimedOnce /\ OutcomesFit
  BY InvHas
<1>2. /\ pc[g] = "waking"
      /\ out' = [out EXCEPT ![hand[g][1]] = hand[g][2]]
      /\ pc' = [pc EXCEPT ![g] = "return", ![hand[g][1]] = "woken"]
      /\ hand' = [hand EXCEPT ![g] = <<>>]
      /\ UNCHANGED <<buf, closed, waitq, op, done>>
  BY DEF Deliver
<1>3. hand[g] # <<>>
  BY <1>1, <1>2 DEF ClaimedOnce
<1>4. hand[g] \in Goroutines \X Outcomes
  BY <1>1, <1>3 DEF RestAre
<1>5. PICK h \in Goroutines, o \in Outcomes : hand[g] = <<h, o>>
  BY <1>4
<1>6. hand[g][1] = h /\ hand[g][2] = o
  BY <1>5
<1>7. pc[h] = "parked" /\ done[h] /\ Fits(h, o)
  BY <1>1, <1>3, <1>6 DEF ClaimedOnce, OutcomesFit
<1>8. h # g
  BY <1>2, <1>7
<1>9. QED
  BY <1>2, <1>5, <1>6, <1>7, <1>8

LEMMA DeliverInv ==
  ASSUME IInv, NEW g \in Goroutines, Deliver(g)
  PROVE  IInv'
<1>1. /\ RestAre /\ PointsAgree /\ ClaimedOnce /\ OutcomesFit /\ NoThrow
  BY InvHas
<1>2. PICK h \in Goroutines, o \in Outcomes :
        /\ hand[g] = <<h, o>> /\ h # g /\ Fits(h, o)
        /\ pc[g] = "waking" /\ pc[h] = "parked" /\ done[h]
        /\ out' = [out EXCEPT ![h] = o]
        /\ pc' = [pc EXCEPT ![g] = "return", ![h] = "woken"]
        /\ hand' = [hand EXCEPT ![g] = <<>>]
        /\ UNCHANGED <<buf, closed, waitq, op, done>>
  BY DeliverIs
<1>3. /\ \A x \in Goroutines :
           pc'[x] = IF x = h THEN "woken" ELSE IF x = g THEN "return" ELSE pc[x]
      /\ \A x \in Goroutines : out'[x] = IF x = h THEN o ELSE out[x]
      /\ \A x \in Goroutines : hand'[x] = IF x = g THEN <<>> ELSE hand[x]
      /\ \A x \in Goroutines : op'[x] = op[x] /\ done'[x] = done[x]
  BY <1>1, <1>2 DEF RestAre
<1>3a. h # g /\ pc[g] = "waking" /\ pc[h] = "parked" /\ done[h]
  BY <1>2
<1>4. RestAre'
  BY <1>1, <1>2 DEF RestAre, Points
<1>5. PointsAgree'
  BY <1>1, <1>3, <1>3a DEF PointsAgree
<1>6. ClaimedOnce'
  <2>1. hand[g] # <<>> /\ hand[g][1] = h
    BY <1>2
  <2>2. \A x \in Goroutines : pc'[x] = "waking" <=> hand'[x] # <<>>
    BY <1>1, <1>3, <1>3a DEF ClaimedOnce
  <2>3. \A x, y \in Goroutines :
          hand'[x] # <<>> /\ hand'[y] # <<>> /\ hand'[x][1] = hand'[y][1] => x = y
    BY <1>1, <1>3 DEF ClaimedOnce
  <2>4. ASSUME NEW y \in Goroutines
        PROVE  (\E x \in Goroutines : hand'[x] # <<>> /\ hand'[x][1] = y)
                 <=> (\E x \in Goroutines : hand[x] # <<>> /\ hand[x][1] = y) /\ y # h
    <3>1. \A x \in Goroutines : hand[x] # <<>> /\ hand[x][1] = h => x = g
      BY <1>1, <2>1 DEF ClaimedOnce
    <3>2. \A x \in Goroutines :
            hand'[x] # <<>> /\ hand'[x][1] = y
              <=> hand[x] # <<>> /\ hand[x][1] = y /\ x # g
      BY <1>3
    <3>3. QED
      BY <2>1, <3>1, <3>2
  <2>5. \A y \in Goroutines :
          pc'[y] = "parked" /\ done'[y] <=> pc[y] = "parked" /\ done[y] /\ y # h
    BY <1>3, <1>3a
  <2>6. \A y \in Goroutines :
          pc'[y] = "parked" /\ done'[y]
            <=> \E x \in Goroutines : hand'[x] # <<>> /\ hand'[x][1] = y
    BY <1>1, <2>4, <2>5 DEF ClaimedOnce
  <2>7. QED
    BY <2>2, <2>3, <2>6 DEF ClaimedOnce
<1>7. OutcomesFit'
  <2>1. \A x \in Goroutines, y \in Goroutines, q \in Outcomes :
          hand'[x] = <<y, q>> => (hand[x] = <<y, q>> /\ op'[y] = op[y]) \/ Fits(y, q)'
    BY <1>2, <1>3
  <2>2. Fits(h, o)'
    BY <1>1, <1>2, FitsKept DEF RestAre
  <2>3. \A x \in Goroutines, q \in Outcomes :
          pc'[x] = "woken" /\ out'[x] = q
            => (pc[x] = "woken" /\ out[x] = q /\ op'[x] = op[x]) \/ Fits(x, q)'
    <3>1. ASSUME NEW x \in Goroutines, NEW q \in Outcomes,
                 pc'[x] = "woken", out'[x] = q
          PROVE  (pc[x] = "woken" /\ out[x] = q /\ op'[x] = op[x]) \/ Fits(x, q)'
      <4>1. CASE x = h
        BY <1>3, <2>2, <3>1, <4>1
      <4>2. CASE x # h
        BY <1>2, <1>3, <3>1, <4>2
      <4>3. QED
        BY <4>1, <4>2
    <3>2. QED
      BY <3>1
  <2>4. \A c \in Chans : closed[c] => closed'[c]
    BY <1>2
  <2>5. QED
    BY <1>1, <1>4, <2>1, <2>3, <2>4, FitsStay, Zenon
<1>8. NoThrow'
  BY <1>1, <1>3 DEF NoThrow
<1>9. QueueType' /\ QueuesAreSleepers'
  <2>1. \A x \in Goroutines :
          IF pc[x] \in {"parked", "woken"}
          THEN /\ done'[x] = done[x] /\ op'[x] = op[x]
               /\ pc'[x] \in {"parked", "woken"}
               /\ done[x] \/ pc'[x] = pc[x]
          ELSE pc'[x] # "parked"
    BY <1>3, <1>3a
  <2>2. UNCHANGED <<waitq, closed>>
    BY <1>2
  <2>3. QED
    BY <2>1, <2>2, QueuesStay, Zenon
<1>10. BuffersAre'
  BY <1>2, BuffersStay
<1>11. QED
  BY <1>4, <1>5, <1>6, <1>7, <1>8, <1>9, <1>10, InvNext, Zenon

LEMMA ReturnInv ==
  ASSUME IInv, NEW g \in Goroutines, Return(g)
  PROVE  IInv'
<1>1. /\ RestAre /\ PointsAgree /\ ClaimedOnce /\ OutcomesFit /\ NoThrow
  BY InvHas
<1>2. /\ pc[g] = "return" /\ pc' = [pc EXCEPT ![g] = "idle"]
      /\ op' = [op EXCEPT ![g] = NoOp] /\ out' = [out EXCEPT ![g] = <<>>]
      /\ done' = [done EXCEPT ![g] = FALSE]
      /\ UNCHANGED <<buf, closed, waitq, hand>>
  BY DEF Return, Goto
<1>3. /\ \A x \in Goroutines : pc'[x] = IF x = g THEN "idle" ELSE pc[x]
      /\ \A x \in Goroutines : op'[x] = IF x = g THEN NoOp ELSE op[x]
      /\ \A x \in Goroutines : out'[x] = IF x = g THEN <<>> ELSE out[x]
      /\ \A x \in Goroutines : done'[x] = IF x = g THEN FALSE ELSE done[x]
  BY <1>1, <1>2 DEF RestAre
<1>3a. pc[g] = "return" /\ hand' = hand
  BY <1>2
<1>4. RestAre'
  BY <1>1, <1>2, OutcomesAre DEF RestAre, Points
<1>5. PointsAgree'
  BY <1>1, <1>3, <1>3a, Zenon DEF PointsAgree
<1>6. ClaimedOnce'
  <2>1. \A x \in Goroutines : pc'[x] = "waking" <=> hand'[x] # <<>>
    BY <1>1, <1>2, <1>3 DEF ClaimedOnce
  <2>2. \A x \in Goroutines :
          pc'[x] = "parked" /\ done'[x] <=> pc[x] = "parked" /\ done[x]
    BY <1>2, <1>3
  <2>3. QED
    BY <1>1, <1>2, <2>1, <2>2 DEF ClaimedOnce
<1>7. OutcomesFit'
  <2>1. \A x \in Goroutines, y \in Goroutines, q \in Outcomes :
          hand'[x] = <<y, q>> => (hand[x] = <<y, q>> /\ op'[y] = op[y]) \/ Fits(y, q)'
    <3>1. ASSUME NEW x \in Goroutines, NEW y \in Goroutines, NEW q \in Outcomes,
                 hand[x] = <<y, q>>
          PROVE  y # g
      <4>1. hand[x] # <<>> /\ hand[x][1] = y
        BY <3>1
      <4>2. pc[y] = "parked"
        BY <1>1, <4>1 DEF ClaimedOnce
      <4>3. QED
        BY <1>2, <4>2
    <3>2. QED
      BY <1>2, <1>3, <3>1
  <2>2. \A x \in Goroutines, q \in Outcomes :
          pc'[x] = "woken" /\ out'[x] = q
            => (pc[x] = "woken" /\ out[x] = q /\ op'[x] = op[x]) \/ Fits(x, q)'
    BY <1>3
  <2>3. \A c \in Chans : closed[c] => closed'[c]
    BY <1>2
  <2>4. QED
    BY <1>1, <1>4, <2>1, <2>2, <2>3, FitsStay, Zenon
<1>8. NoThrow'
  BY <1>1, <1>3 DEF NoThrow
<1>9. QueueType' /\ QueuesAreSleepers'
  <2>1. \A x \in Goroutines :
          IF pc[x] \in {"parked", "woken"}
          THEN /\ done'[x] = done[x] /\ op'[x] = op[x]
               /\ pc'[x] \in {"parked", "woken"}
               /\ done[x] \/ pc'[x] = pc[x]
          ELSE pc'[x] # "parked"
    BY <1>3, <1>3a
  <2>2. UNCHANGED <<waitq, closed>>
    BY <1>2
  <2>3. QED
    BY <2>1, <2>2, QueuesStay, Zenon
<1>10. BuffersAre'
  BY <1>2, BuffersStay
<1>11. QED
  BY <1>4, <1>5, <1>6, <1>7, <1>8, <1>9, <1>10, InvNext, Zenon

Waiters(c) == Sleeping(c, "recv") \cup Sleeping(c, "send")

\* The critical section of closechan, with the goroutines that it readies.
LEMMA CloseIs ==
  ASSUME IInv, NEW g \in Goroutines, NEW c \in Chans, Close(g, c)
  PROVE  /\ pc[g] = "idle" /\ UNCHANGED <<buf, op>>
         /\ \/ /\ closed[c] /\ Outcome(g, <<"panic">>) /\ Settles(g)
               /\ UNCHANGED <<closed, waitq>>
            \/ /\ ~closed[c] /\ Outcome(g, <<"close">>)
               /\ pc' = [x \in Goroutines |->
                           IF x = g THEN "return"
                           ELSE IF x \in Waiters(c) THEN "woken" ELSE pc[x]]
               /\ done' = [x \in Goroutines |-> done[x] \/ x \in Waiters(c)]
               /\ closed' = [closed EXCEPT ![c] = TRUE]
               /\ waitq' = [waitq EXCEPT ![c] = [d \in Dirs |-> <<>>]]
               /\ UNCHANGED hand
<1> DEFINE live == {h \in ToSet(waitq[c]["recv"]) \cup ToSet(waitq[c]["send"]) :
                      ~done[h]}
<1>1. live = Waiters(c)
  <2>1. "recv" \in Dirs /\ "send" \in Dirs
    BY DEF Dirs
  <2>2. /\ {h \in ToSet(waitq[c]["recv"]) : ~done[h]} = Sleeping(c, "recv")
        /\ {h \in ToSet(waitq[c]["send"]) : ~done[h]} = Sleeping(c, "send")
    BY <2>1 DEF IInv, QueuesAreSleepers
  <2>3. QED
    BY <2>2 DEF Waiters
<1>2. /\ pc[g] = "idle" /\ UNCHANGED <<buf, op>>
      /\ \/ /\ closed[c] /\ Finish(g, <<"panic">>) /\ UNCHANGED <<closed, waitq>>
         \/ /\ ~closed[c]
            /\ out' = [out EXCEPT ![g] = <<"close">>]
            /\ pc' = [h \in Goroutines |-> IF h = g THEN "return"
                                           ELSE IF h \in live THEN "woken" ELSE pc[h]]
            /\ done' = [h \in Goroutines |-> done[h] \/ h \in live]
            /\ closed' = [closed EXCEPT ![c] = TRUE]
            /\ waitq' = [waitq EXCEPT ![c] = [d \in Dirs |-> <<>>]]
            /\ UNCHANGED hand
  BY Zenon DEF Close
<1>3. Finish(g, <<"panic">>) => Outcome(g, <<"panic">>) /\ Settles(g)
  BY DEF Finish, Goto, Outcome, Settles
<1> HIDE DEF live
<1>4. QED
  BY <1>1, <1>2, <1>3 DEF Outcome

\* The queues of a channel that is being closed, and those of the others.
LEMMA CloseQueues ==
  ASSUME IInv, NEW g \in Goroutines, NEW c \in Chans, pc[g] = "idle",
         \A x \in Goroutines :
           /\ pc'[x] = IF x = g THEN "return"
                       ELSE IF x \in Waiters(c) THEN "woken" ELSE pc[x]
           /\ done'[x] = (done[x] \/ x \in Waiters(c)),
         closed' = [closed EXCEPT ![c] = TRUE],
         waitq' = [waitq EXCEPT ![c] = [d \in Dirs |-> <<>>]], UNCHANGED op
  PROVE  /\ QueueType' /\ QueuesAreSleepers'
         /\ \A b \in Chans, d \in Dirs : Sleeping(b, d)' = Sleeping(b, d) \ Waiters(c)
<1>1. /\ waitq \in [Chans -> [Dirs -> Seq(Goroutines)]]
      /\ closed \in [Chans -> BOOLEAN] /\ op \in [Goroutines -> Offers \cup {NoOp}]
  BY DEF IInv, TypeOK
<1>2. /\ QueueType'
      /\ \A b \in Chans, d \in Dirs :
           waitq'[b][d] = IF b = c THEN <<>> ELSE waitq[b][d]
  <2>1. [d \in Dirs |-> <<>>] \in [Dirs -> Seq(Goroutines)]
    BY EmptySeq
  <2>2. QED
    BY <1>1, <2>1 DEF QueueType
<1>3. ASSUME NEW b \in Chans, NEW d \in Dirs
      PROVE  Sleeping(b, d)' = Sleeping(b, d) \ Waiters(c)
  <2>1. \A x \in Goroutines :
          pc'[x] = "parked" /\ ~done'[x]
            <=> pc[x] = "parked" /\ ~done[x] /\ x \notin Waiters(c)
    OBVIOUS
  <2>2. QED
    BY <2>1 DEF Sleeping
<1>4. ASSUME NEW d \in Dirs
      PROVE  Sleeping(c, d) \subseteq Waiters(c)
  BY DEF Waiters, Dirs
<1>5. ASSUME NEW b \in Chans, NEW d \in Dirs
      PROVE  /\ IsInjective(waitq'[b][d])
             /\ {x \in ToSet(waitq'[b][d]) : ~done'[x]} = Sleeping(b, d)'
             /\ \A x \in ToSet(waitq'[b][d]) :
                  done'[x] => op'[x].select /\ pc'[x] \in {"parked", "woken"}
             /\ closed'[b] => waitq'[b][d] = <<>>
  <2>1. CASE b = c
    <3>1. waitq'[b][d] = <<>> /\ Sleeping(b, d)' = {}
      BY <1>2, <1>3, <1>4, <2>1
    <3>2. IsInjective(<<>>) /\ \A x : x \notin ToSet(<<>>)
      BY NoElements
    <3>3. QED
      BY <3>1, <3>2
  <2>2. CASE b # c
    <3> DEFINE q == waitq[b][d]
    <3>1. waitq'[b][d] = q /\ closed'[b] = closed[b]
      BY <1>1, <1>2, <2>2
    <3>2. /\ IsInjective(q)
          /\ {x \in ToSet(q) : ~done[x]} = Sleeping(b, d)
          /\ \A x \in ToSet(q) :
               done[x] => op[x].select /\ pc[x] \in {"parked", "woken"}
          /\ closed[b] => q = <<>>
      BY DEF IInv, QueuesAreSleepers
    <3>3. q \in Seq(Goroutines)
      BY <1>1
    <3> HIDE DEF q
    <3>4. ToSet(q) \subseteq Goroutines
      BY <3>3, LenProperties, ElementOfSeq DEF ToSet
    <3>5. {x \in ToSet(q) : ~done'[x]} = Sleeping(b, d)'
      <4>1. \A x \in Goroutines : ~done'[x] <=> ~done[x] /\ x \notin Waiters(c)
        OBVIOUS
      <4>2. QED
        BY <1>3, <3>2, <3>4, <4>1
    <3>6. ASSUME NEW x \in ToSet(q), done'[x]
          PROVE  op'[x].select /\ pc'[x] \in {"parked", "woken"}
      <4>1. CASE done[x]
        <5>1. op[x].select /\ pc[x] \in {"parked", "woken"}
          BY <3>2, <4>1
        <5>2. QED
          BY <3>4, <5>1
      <4>2. CASE ~done[x]
        <5>1. x \in Waiters(c) /\ x \in Sleeping(b, d) /\ x \in Goroutines
          BY <3>2, <3>4, <3>6, <4>2
        <5>2. op[x].select
          <6>1. CASE x \in Sleeping(c, "recv")
            BY <1>1, <2>2, <5>1, <6>1, SleepsOnTwo
          <6>2. CASE x \in Sleeping(c, "send")
            BY <1>1, <2>2, <5>1, <6>2, SleepsOnTwo
          <6>3. QED
            BY <5>1, <6>1, <6>2 DEF Waiters
        <5>3. pc'[x] = "woken"
          <6>1. pc[x] = "parked"
            BY <5>1 DEF Sleeping
          <6>2. QED
            BY <5>1, <6>1
        <5>4. QED
          BY <5>2, <5>3
      <4>3. QED
        BY <4>1, <4>2
    <3>7. QED
      BY <3>1, <3>2, <3>5, <3>6
  <2>3. QED
    BY <2>1, <2>2
<1>6. QueuesAreSleepers'
  BY <1>5, Zenon DEF QueuesAreSleepers
<1>7. QED
  BY <1>2, <1>3, <1>6

LEMMA CloseInv ==
  ASSUME IInv, NEW g \in Goroutines, NEW c \in Chans, Close(g, c)
  PROVE  IInv'
<1>1. /\ RestAre /\ PointsAgree /\ ClaimedOnce /\ OutcomesFit /\ NoThrow
  BY InvHas
<1>2. pc[g] = "idle" /\ UNCHANGED <<buf, op>>
  BY CloseIs
<1>3. BuffersAre'
  BY <1>2, BuffersStay
<1>4. CASE /\ closed[c] /\ Outcome(g, <<"panic">>) /\ Settles(g)
           /\ UNCHANGED <<closed, waitq>>
  <2>1. /\ \A x \in Goroutines : pc'[x] = IF x = g THEN "return" ELSE pc[x]
        /\ \A x \in Goroutines : done'[x] = done[x] /\ op'[x] = op[x]
    BY <1>1, <1>2, <1>4 DEF Settles, RestAre
  <2>2. \A x \in Goroutines :
          IF pc[x] \in {"parked", "woken"}
          THEN /\ done'[x] = done[x] /\ op'[x] = op[x]
               /\ pc'[x] \in {"parked", "woken"}
               /\ done[x] \/ pc'[x] = pc[x]
          ELSE pc'[x] # "parked"
    BY <1>2, <2>1
  <2>3. QueueType' /\ QueuesAreSleepers'
    BY <1>4, <2>2, QueuesStay
  <2>4. QueuesKept
    BY <1>2, <1>4, <2>3 DEF QueuesKept
  <2>5. QED
    BY <1>2, <1>3, <1>4, <2>4, OutcomesAre, SettledInv
<1>5. CASE /\ ~closed[c] /\ Outcome(g, <<"close">>)
           /\ pc' = [x \in Goroutines |->
                       IF x = g THEN "return"
                       ELSE IF x \in Waiters(c) THEN "woken" ELSE pc[x]]
           /\ done' = [x \in Goroutines |-> done[x] \/ x \in Waiters(c)]
           /\ closed' = [closed EXCEPT ![c] = TRUE]
           /\ waitq' = [waitq EXCEPT ![c] = [d \in Dirs |-> <<>>]]
           /\ UNCHANGED hand
  <2> DEFINE o == <<"close">>
             W == Waiters(c)
  <2>1. o \in Outcomes /\ o # <<>>
    BY OutcomesAre
  <2>2. /\ \A x \in Goroutines :
             pc'[x] = IF x = g THEN "return" ELSE IF x \in W THEN "woken" ELSE pc[x]
        /\ \A x \in Goroutines : done'[x] = (done[x] \/ x \in W)
        /\ \A x \in Goroutines : out'[x] = IF x = g THEN o ELSE out[x]
        /\ \A x \in Goroutines : op'[x] = op[x]
        /\ hand' = hand
    BY <1>1, <1>2, <1>5 DEF RestAre, Outcome
  <2>3. \A x \in W : x \in Goroutines /\ pc[x] = "parked" /\ ~done[x]
    BY DEF Waiters, Sleeping
  <2>4. out' = [out EXCEPT ![g] = o]
    BY <1>5 DEF Outcome
  <2>5. QueueType' /\ QueuesAreSleepers'
    <3>1. \A x \in Goroutines :
            /\ pc'[x] = IF x = g THEN "return"
                        ELSE IF x \in Waiters(c) THEN "woken" ELSE pc[x]
            /\ done'[x] = (done[x] \/ x \in Waiters(c))
      BY <2>2
    <3>2. /\ pc[g] = "idle" /\ closed' = [closed EXCEPT ![c] = TRUE]
          /\ waitq' = [waitq EXCEPT ![c] = [d \in Dirs |-> <<>>]] /\ UNCHANGED op
      BY <1>2, <1>5
    <3>3. QED
      BY <3>1, <3>2, CloseQueues, Zenon
  <2>6. RestAre'
    <3>1. closed' \in [Chans -> BOOLEAN]
      BY <1>1, <1>5 DEF RestAre
    <3>2. out' \in [Goroutines -> Outcomes]
      BY <1>1, <2>1, <2>4 DEF RestAre
    <3>3. done' \in [Goroutines -> BOOLEAN]
      BY <1>1, <1>5 DEF RestAre
    <3>4. pc' \in [Goroutines -> Points]
      BY <1>1, <1>5 DEF RestAre, Points
    <3>5. QED
      BY <1>1, <1>2, <2>2, <3>1, <3>2, <3>3, <3>4 DEF RestAre
  <2> HIDE DEF o, W
  <2>7. PointsAgree'
    BY <1>1, <1>2, <2>1, <2>2, <2>3, ZenonT(30) DEF PointsAgree
  <2>8. ClaimedOnce'
    <3>1. \A x \in Goroutines : pc'[x] = "waking" <=> hand'[x] # <<>>
      BY <1>1, <1>2, <2>2, <2>3 DEF ClaimedOnce
    <3>2. \A x \in Goroutines :
            pc'[x] = "parked" /\ done'[x] <=> pc[x] = "parked" /\ done[x]
      BY <1>2, <2>2, <2>3
    <3>3. QED
      BY <1>1, <2>2, <3>1, <3>2 DEF ClaimedOnce
  <2>9. ASSUME NEW x \in W
        PROVE  Fits(x, <<>>)'
    <3>1. PICK d \in Dirs : x \in Sleeping(c, d)
      BY DEF W, Waiters, Dirs
    <3> DEFINE k == [c |-> c, dir |-> d]
    <3>2. x \in Goroutines /\ k \in op[x].cases /\ k.c = c
      BY <3>1 DEF Sleeping
    <3> HIDE DEF k
    <3>3. op[x] \in Offers
      BY <1>1, <3>2, OffersAre DEF RestAre
    <3>4. op'[x].select \/ \A j \in op'[x].cases : j = k
      BY <2>2, <3>2, <3>3, OneCase
    <3>5. closed'[c]
      BY <1>1, <1>5 DEF RestAre
    <3>6. op'[x].select \/ \A j \in op'[x].cases : closed'[j.c]
      BY <3>2, <3>4, <3>5
    <3>7. QED
      BY <3>6 DEF Fits
  <2>10. OutcomesFit'
    <3>1. \A x \in Goroutines, y \in Goroutines, q \in Outcomes :
            hand'[x] = <<y, q>> => (hand[x] = <<y, q>> /\ op'[y] = op[y]) \/ Fits(y, q)'
      BY <2>2
    <3>2. ASSUME NEW x \in Goroutines, NEW q \in Outcomes,
                 pc'[x] = "woken", out'[x] = q
          PROVE  (pc[x] = "woken" /\ out[x] = q /\ op'[x] = op[x]) \/ Fits(x, q)'
      <4>1. x # g /\ out'[x] = out[x]
        BY <2>2, <3>2
      <4>2. CASE x \in W
        <5>1. out[x] = <<>>
          BY <1>1, <2>3, <4>2 DEF PointsAgree
        <5>2. q = <<>>
          BY <3>2, <4>1, <5>1
        <5>3. QED
          BY <2>9, <4>2, <5>2
      <4>3. CASE x \notin W
        BY <2>2, <3>2, <4>1, <4>3
      <4>4. QED
        BY <4>2, <4>3
    <3>3. \A b \in Chans : closed[b] => closed'[b]
      BY <1>1, <1>5 DEF RestAre
    <3>4. QED
      BY <1>1, <2>6, <3>1, <3>2, <3>3, FitsStay, Zenon
  <2>11. NoThrow'
    BY <1>1, <2>2 DEF NoThrow
  <2>12. QED
    BY <1>3, <2>5, <2>6, <2>7, <2>8, <2>10, <2>11, InvNext, Zenon
<1>6. QED
  BY <1>4, <1>5, CloseIs

LEMMA InitInv == Init => IInv
<1> SUFFICES ASSUME Init
             PROVE  IInv
  OBVIOUS
<1>1. /\ buf = [c \in Chans |-> <<>>]
      /\ closed = [c \in Chans |-> FALSE]
      /\ waitq = [c \in Chans |-> [d \in Dirs |-> <<>>]]
      /\ op = [g \in Goroutines |-> NoOp]
      /\ pc = [g \in Goroutines |-> "idle"]
      /\ done = [g \in Goroutines |-> FALSE]
      /\ hand = [g \in Goroutines |-> <<>>]
      /\ out = [g \in Goroutines |-> <<>>]
  BY DEF Init
<1>2. <<>> \in Seq(Goroutines) /\ Len(<<>>) = 0
  BY EmptySeq
<1>3. TypeOK
  <2>1. [d \in Dirs |-> <<>>] \in [Dirs -> Seq(Goroutines)]
    BY <1>2
  <2>2. QED
    BY <1>1, <1>2, <2>1, OutcomesAre DEF TypeOK, Points
<1>4. \A g \in Goroutines :
        /\ pc[g] = "idle" /\ op[g] = NoOp /\ ~done[g]
        /\ hand[g] = <<>> /\ out[g] = <<>>
  BY <1>1
<1>5. PointsAgree /\ ClaimedOnce /\ OutcomesFit /\ NoThrow
  BY <1>4 DEF PointsAgree, ClaimedOnce, OutcomesFit, NoThrow
<1>6. BufferBounded
  BY <1>1, <1>2, ChanAssumption DEF BufferBounded
<1>7. QueuesAreSleepers
  <2>1. \A c, d : Sleeping(c, d) = {}
    BY <1>4 DEF Sleeping
  <2>2. \A c \in Chans, d \in Dirs : waitq[c][d] = <<>>
    BY <1>1
  <2>3. QED
    BY <2>1, <2>2, NoElements DEF QueuesAreSleepers
<1>8. QED
  BY <1>3, <1>5, <1>6, <1>7 DEF IInv

LEMMA NextInv ==
  ASSUME IInv, [Next]_vars
  PROVE  IInv'
<1>1. CASE UNCHANGED vars
  BY <1>1 DEF vars, IInv, TypeOK, PointsAgree, QueuesAreSleepers, Sleeping,
    ClaimedOnce, OutcomesFit, Fits, BufferBounded, NoThrow
<1>2. ASSUME NEW g \in Goroutines, NEW o \in Offers, Call(g, o)
      PROVE  IInv'
  BY <1>2, CallInv
<1>3. ASSUME NEW g \in Goroutines, NEW c \in Closable, Close(g, c)
      PROVE  IInv'
  BY <1>3, CloseInv, ChanAssumption
<1>4. ASSUME NEW g \in Goroutines, Second(g)
      PROVE  IInv'
  BY <1>4, SecondInv
<1>5. ASSUME NEW g \in Goroutines, Try(g)
      PROVE  IInv'
  <2>1. pc[g] = "try" /\ out[g] = <<>> /\ Attempts(g) /\ QueuesKept
    BY <1>5, TryIs
  <2>2. QED
    BY <2>1, AttemptsInv
<1>6. ASSUME NEW g \in Goroutines, Woken(g)
      PROVE  IInv'
  BY <1>6, WokenInv
<1>7. ASSUME NEW g \in Goroutines, Deliver(g)
      PROVE  IInv'
  BY <1>7, DeliverInv
<1>8. ASSUME NEW g \in Goroutines, Return(g)
      PROVE  IInv'
  BY <1>8, ReturnInv
<1>9. QED
  BY <1>1, <1>2, <1>3, <1>4, <1>5, <1>6, <1>7, <1>8 DEF Next, Begin, Continue

\* Points, queues, claims, outcomes and buffers agree in every reachable state:
\* the waiters in the queues of sudogs are the goroutines that sleep on a case
\* there, whoever has been claimed is in exactly one hand, what it is handed
\* fits its operation, and the runtime neither overfills a buffer nor throws.
THEOREM Invariant == Spec => []IInv
<1>1. QED
  BY InitInv, NextInv, PTL DEF Spec
-----------------------------------------------------------------------------
(* Nobody sleeps beside a goroutine it could meet *)

\* An operation has its outcome, and may have claimed a waiter, or it parks.
LEMMA AttemptEnds ==
  ASSUME NEW g \in Goroutines, Attempts(g)
  PROVE  \/ Parks(g)
         \/ /\ \E r : Outcome(g, r)
            /\ Settles(g) \/ \E h \in Goroutines : \E o : Claims(g, h, o)
<1>1. \A c, d : Sleeping(c, d) \subseteq Goroutines
  BY DEF Sleeping
<1>2. ASSUME NEW c, NEW d, Pinged(g, c, d)
      PROVE  Settles(g) \/ \E h \in Goroutines : \E o : Claims(g, h, o)
  BY <1>1, <1>2 DEF Pinged
<1>3. ASSUME NEW c, Sends(g, c)
      PROVE  /\ \E r : Outcome(g, r)
             /\ Settles(g) \/ \E h \in Goroutines : \E o : Claims(g, h, o)
  BY <1>1, <1>2, <1>3 DEF Sends, PanicsOn, SendsInto, MeetsReceiver
<1>4. ASSUME NEW c, Receives(g, c)
      PROVE  /\ \E r : Outcome(g, r)
             /\ Settles(g) \/ \E h \in Goroutines : \E o : Claims(g, h, o)
  BY <1>1, <1>2, <1>4 DEF Receives, ReceivesFrom, ReceivesNothing, MeetsSender
<1>5. QED
  BY <1>3, <1>4 DEF Attempts, GivesUp

\* Only one that parks goes to sleep.
LEMMA SleepersAre ==
  ASSUME IInv, [Next]_vars
  PROVE  \/ \E g \in Goroutines : Parks(g)
         \/ \A c \in Chans, d \in Dirs : Sleeping(c, d)' \subseteq Sleeping(c, d)
<1>1. RestAre
  BY InvHas
<1>2. ASSUME \A x \in Goroutines :
               pc'[x] = "parked" /\ ~done'[x]
                 => pc[x] = "parked" /\ ~done[x] /\ op'[x] = op[x]
      PROVE  \A c \in Chans, d \in Dirs : Sleeping(c, d)' \subseteq Sleeping(c, d)
  BY <1>2 DEF Sleeping
<1>3. CASE UNCHANGED vars
  BY <1>2, <1>3 DEF vars
<1>4. ASSUME NEW g \in Goroutines, NEW o \in Offers, Call(g, o)
      PROVE  \A x \in Goroutines :
               pc'[x] = "parked" /\ ~done'[x]
                 => pc[x] = "parked" /\ ~done[x] /\ op'[x] = op[x]
  <2>1. PICK p \in {"second", "try"} : pc' = [pc EXCEPT ![g] = p]
    BY <1>4 DEF Call, Goto
  <2>2. op' = [op EXCEPT ![g] = o] /\ done' = done
    BY <1>4 DEF Call
  <2>3. QED
    BY <1>1, <2>1, <2>2 DEF RestAre
<1>5. ASSUME NEW g \in Goroutines, NEW c \in Chans, Close(g, c)
      PROVE  \A x \in Goroutines :
               pc'[x] = "parked" /\ ~done'[x]
                 => pc[x] = "parked" /\ ~done[x] /\ op'[x] = op[x]
  BY <1>1, <1>5, CloseIs DEF RestAre, Settles
<1>6. ASSUME NEW g \in Goroutines, Second(g)
      PROVE  \A x \in Goroutines :
               pc'[x] = "parked" /\ ~done'[x]
                 => pc[x] = "parked" /\ ~done[x] /\ op'[x] = op[x]
  <2>1. PICK p \in {"return", "try"} : pc' = [pc EXCEPT ![g] = p]
    BY <1>6 DEF Second, Finish, Goto
  <2>2. op' = op /\ done' = done
    BY <1>6 DEF Second, Finish
  <2>3. QED
    BY <1>1, <2>1, <2>2 DEF RestAre
<1>7. ASSUME NEW g \in Goroutines, Attempts(g), QueuesKept, ~Parks(g)
      PROVE  \A x \in Goroutines :
               pc'[x] = "parked" /\ ~done'[x]
                 => pc[x] = "parked" /\ ~done[x] /\ op'[x] = op[x]
  <2>1. op' = op
    BY <1>7 DEF QueuesKept
  <2>2. CASE Settles(g)
    BY <1>1, <2>1, <2>2 DEF RestAre, Settles
  <2>3. CASE \E h \in Goroutines : \E o : Claims(g, h, o)
    BY <1>1, <2>1, <2>3 DEF RestAre, Claims
  <2>4. QED
    BY <1>7, <2>2, <2>3, AttemptEnds
<1>8. ASSUME NEW g \in Goroutines, Try(g), ~Parks(g)
      PROVE  \A x \in Goroutines :
               pc'[x] = "parked" /\ ~done'[x]
                 => pc[x] = "parked" /\ ~done[x] /\ op'[x] = op[x]
  BY <1>7, <1>8, TryIs
<1>9. ASSUME NEW g \in Goroutines, Woken(g), ~Parks(g)
      PROVE  \A x \in Goroutines :
               pc'[x] = "parked" /\ ~done'[x]
                 => pc[x] = "parked" /\ ~done[x] /\ op'[x] = op[x]
  <2>1. CASE QueuesKept /\ pc' = [pc EXCEPT ![g] = "return"] /\ UNCHANGED done
    BY <1>1, <2>1 DEF RestAre, QueuesKept
  <2>2. CASE Attempts(g) /\ QueuesKept
    BY <1>7, <1>9, <2>2
  <2>3. QED
    BY <1>9, <2>1, <2>2, WokenIs
<1>10. ASSUME NEW g \in Goroutines, Deliver(g)
      PROVE  \A x \in Goroutines :
               pc'[x] = "parked" /\ ~done'[x]
                 => pc[x] = "parked" /\ ~done[x] /\ op'[x] = op[x]
  <2>1. PICK h \in Goroutines : /\ pc' = [pc EXCEPT ![g] = "return", ![h] = "woken"]
                                /\ UNCHANGED <<op, done>>
    BY <1>10, DeliverIs
  <2>2. QED
    BY <1>1, <2>1 DEF RestAre
<1>11. ASSUME NEW g \in Goroutines, Return(g)
      PROVE  \A x \in Goroutines :
               pc'[x] = "parked" /\ ~done'[x]
                 => pc[x] = "parked" /\ ~done[x] /\ op'[x] = op[x]
  <2>1. /\ pc' = [pc EXCEPT ![g] = "idle"] /\ op' = [op EXCEPT ![g] = NoOp]
        /\ done' = [done EXCEPT ![g] = FALSE]
    BY <1>11 DEF Return, Goto
  <2>2. QED
    BY <1>1, <2>1 DEF RestAre
<1>12. CASE \E g \in Goroutines : Parks(g)
  BY <1>12
<1>13. CASE Next /\ ~\E g \in Goroutines : Parks(g)
  <2>1. \A x \in Goroutines :
          pc'[x] = "parked" /\ ~done'[x]
            => pc[x] = "parked" /\ ~done[x] /\ op'[x] = op[x]
    BY <1>4, <1>5, <1>6, <1>8, <1>9, <1>10, <1>11, <1>13, ChanAssumption
      DEF Next, Begin, Continue
  <2>2. QED
    BY <1>2, <2>1
<1>14. QED
  BY <1>3, <1>12, <1>13

LEMMA MatchNext ==
  ASSUME IInv, NoMatchAsleep, [Next]_vars
  PROVE  NoMatchAsleep'
<1>1. "send" \in Dirs /\ "recv" \in Dirs
  BY DEF Dirs
<1>2. CASE \A c \in Chans, d \in Dirs : Sleeping(c, d)' \subseteq Sleeping(c, d)
  <2>1. ASSUME NEW c \in Chans, Cap[c] = 0,
               NEW g \in Sleeping(c, "send")', NEW h \in Sleeping(c, "recv")'
        PROVE  g = h
    <3>1. g \in Sleeping(c, "send") /\ h \in Sleeping(c, "recv")
      BY <1>1, <1>2
    <3>2. QED
      BY <2>1, <3>1 DEF NoMatchAsleep
  <2>2. QED
    BY <2>1 DEF NoMatchAsleep
<1>3. CASE \E g \in Goroutines : Parks(g)
  <2>1. PICK p \in Goroutines : Parks(p)
    BY <1>3
  <2>2. \A c \in Chans, d \in Dirs :
          /\ Sleeping(c, d)' =
               Sleeping(c, d)
                 \cup (IF [c |-> c, dir |-> d] \in op[p].cases THEN {p} ELSE {})
          /\ [c |-> c, dir |-> d] \in op[p].cases /\ Cap[c] = 0
               => Sleeping(c, Other(d)) = {}
    <3>1. \A k \in op[p].cases : Cap[k.c] = 0 => Sleeping(k.c, Other(k.dir)) = {}
      BY <2>1 DEF Parks
    <3>2. \A c, d : [c |-> c, dir |-> d].c = c /\ [c |-> c, dir |-> d].dir = d
      OBVIOUS
    <3>3. ASSUME NEW c \in Chans, NEW d \in Dirs
          PROVE  [c |-> c, dir |-> d] \in op[p].cases /\ Cap[c] = 0
                   => Sleeping(c, Other(d)) = {}
      <4> DEFINE k == [c |-> c, dir |-> d]
      <4>1. k.c = c /\ k.dir = d
        OBVIOUS
      <4> HIDE DEF k
      <4>2. k \in op[p].cases /\ Cap[c] = 0 => Sleeping(c, Other(d)) = {}
        BY <3>1, <4>1
      <4>3. QED
        BY <4>2 DEF k
    <3>4. QED
      BY <2>1, <3>3, Zenon DEF Parks
  <2>3. ASSUME NEW c \in Chans, Cap[c] = 0,
               NEW g \in Sleeping(c, "send")', NEW h \in Sleeping(c, "recv")'
        PROVE  g = h
    <3>1. Other("send") = "recv" /\ Other("recv") = "send"
      BY Zenon DEF Other
    <3>2. /\ g \in Sleeping(c, "send") \/ (g = p /\ Sleeping(c, "recv") = {})
          /\ h \in Sleeping(c, "recv") \/ (h = p /\ Sleeping(c, "send") = {})
      <4>1. ASSUME NEW d \in Dirs, NEW x \in Sleeping(c, d)'
            PROVE  x \in Sleeping(c, d) \/ (x = p /\ Sleeping(c, Other(d)) = {})
        <5> DEFINE k == [c |-> c, dir |-> d]
        <5>1. /\ Sleeping(c, d)' =
                   Sleeping(c, d) \cup (IF k \in op[p].cases THEN {p} ELSE {})
              /\ k \in op[p].cases /\ Cap[c] = 0 => Sleeping(c, Other(d)) = {}
          BY <2>2
        <5> HIDE DEF k
        <5>2. CASE k \in op[p].cases
          BY <2>3, <4>1, <5>1, <5>2
        <5>3. CASE k \notin op[p].cases
          BY <4>1, <5>1, <5>3
        <5>4. QED
          BY <5>2, <5>3
      <4>2. g \in Sleeping(c, "send") \/ (g = p /\ Sleeping(c, Other("send")) = {})
        BY <1>1, <2>3, <4>1, Zenon
      <4>3. h \in Sleeping(c, "recv") \/ (h = p /\ Sleeping(c, Other("recv")) = {})
        BY <1>1, <2>3, <4>1, Zenon
      <4>4. QED
        BY <3>1, <4>2, <4>3
    <3>3. QED
      BY <2>3, <3>2 DEF NoMatchAsleep
  <2>4. QED
    BY <2>3 DEF NoMatchAsleep
<1>4. QED
  BY <1>2, <1>3, SleepersAre

\* Nobody sleeps on an unbuffered channel beside a goroutine that it could meet:
\* under the lock of the channel an operation, or a select with all its
\* channels locked, parks only when the other queue has no live waiter.
THEOREM NobodyMissed == Spec => []NoMatchAsleep
<1>1. Init => NoMatchAsleep
  BY DEF Init, NoMatchAsleep, Sleeping
<1>2. IInv /\ NoMatchAsleep /\ [Next]_vars => NoMatchAsleep'
  BY MatchNext
<1>3. QED
  BY <1>1, <1>2, Invariant, PTL DEF Spec
-----------------------------------------------------------------------------
(* No lost wakeup *)

\* What the goroutines that sleep in direction d of c wait for: values or slots.
Need(c, d) == IF d = "recv" THEN Len(buf[c]) ELSE Cap[c] - Len(buf[c])

\* While somebody sleeps, enough others are on their way for what is there.
Enough(c, d) == Sleeping(c, d) # {} => Need(c, d) <= Cardinality(Coming(c, d))

LEMMA LostWakeupIs ==
  NoLostWakeup <=> \A c \in Chans : Unshared(c) => \A d \in Dirs : Enough(c, d)
<1>1. "recv" \in Dirs /\ "send" \in Dirs /\ \A d \in Dirs : d = "recv" \/ d = "send"
  BY DEF Dirs
<1>2. ASSUME NEW c
      PROVE  (\A d \in Dirs : Enough(c, d)) <=>
               /\ Sleeping(c, "recv") # {}
                    => Len(buf[c]) <= Cardinality(Coming(c, "recv"))
               /\ Sleeping(c, "send") # {}
                    => Cap[c] - Len(buf[c]) <= Cardinality(Coming(c, "send"))
  <2>1. /\ Need(c, "recv") = Len(buf[c])
        /\ Need(c, "send") = Cap[c] - Len(buf[c])
    BY DEF Need
  <2>2. (\A d \in Dirs : Enough(c, d)) <=> Enough(c, "recv") /\ Enough(c, "send")
    BY <1>1, Zenon
  <2>3. QED
    BY <2>1, <2>2 DEF Enough
<1>3. QED
  BY <1>2, Zenon DEF NoLostWakeup

LEMMA Covers ==
  ASSUME NEW A, NEW B, IsFiniteSet(B), NEW m \in Int, NEW n \in Int, NEW x,
         m <= Cardinality(A)
  PROVE  /\ A \subseteq B /\ n <= m => n <= Cardinality(B)
         /\ A \ {x} \subseteq B /\ IsFiniteSet(A) /\ n <= m - 1 => n <= Cardinality(B)
         /\ A \cup {x} \subseteq B /\ x \notin A /\ n <= m + 1 => n <= Cardinality(B)
<1>1. \A T \in SUBSET B : IsFiniteSet(T) /\ Cardinality(T) <= Cardinality(B)
  BY FS_Subset
<1>2. Cardinality(B) \in Nat /\ \A T \in SUBSET B : Cardinality(T) \in Nat
  BY <1>1, FS_CardinalityType
<1>3. ASSUME A \subseteq B, n <= m
      PROVE  n <= Cardinality(B)
  BY <1>1, <1>2, <1>3
<1>4. ASSUME A \ {x} \subseteq B, IsFiniteSet(A), n <= m - 1
      PROVE  n <= Cardinality(B)
  <2>1. Cardinality(A \ {x}) >= Cardinality(A) - 1 /\ Cardinality(A) \in Nat
    <3>1. Cardinality(A \ {x}) = IF x \in A THEN Cardinality(A) - 1 ELSE Cardinality(A)
      BY <1>4, FS_RemoveElement, Zenon
    <3>2. Cardinality(A) \in Nat
      BY <1>4, FS_CardinalityType
    <3>3. QED
      BY <3>1, <3>2
  <2>2. Cardinality(A \ {x}) <= Cardinality(B) /\ Cardinality(A \ {x}) \in Nat
    BY <1>1, <1>2, <1>4
  <2>3. QED
    BY <1>2, <1>4, <2>1, <2>2
<1>5. ASSUME A \cup {x} \subseteq B, x \notin A, n <= m + 1
      PROVE  n <= Cardinality(B)
  <2>1. IsFiniteSet(A)
    BY <1>1, <1>5
  <2>2. Cardinality(A \cup {x}) = Cardinality(A) + 1 /\ Cardinality(A) \in Nat
    BY <1>5, <2>1, FS_AddElement, FS_CardinalityType
  <2>3. Cardinality(A \cup {x}) <= Cardinality(B)
    BY <1>1, <1>5
  <2>4. QED
    BY <1>2, <1>5, <2>2, <2>3
<1>6. QED
  BY <1>3, <1>4, <1>5

\* How a step keeps the balance of one direction of a channel.
LEMMA EnoughNext ==
  ASSUME BuffersAre, BuffersAre', NEW c \in Chans, NEW d \in Dirs, Enough(c, d),
         Sleeping(c, d)' \subseteq Sleeping(c, d), NEW x,
         \/ Coming(c, d) \subseteq Coming(c, d)' /\ Need(c, d)' <= Need(c, d)
         \/ Coming(c, d) \ {x} \subseteq Coming(c, d)' /\ Need(c, d)' <= Need(c, d) - 1
         \/ /\ Coming(c, d) \cup {x} \subseteq Coming(c, d)' /\ x \notin Coming(c, d)
            /\ Need(c, d)' <= Need(c, d) + 1
  PROVE  Enough(c, d)'
<1> DEFINE A == Coming(c, d)
           B == Coming(c, d)'
           m == Need(c, d)
           n == Need(c, d)'
<1>1. A \subseteq Goroutines /\ B \subseteq Goroutines
  BY DEF Coming
<1>2. IsFiniteSet(A) /\ IsFiniteSet(B)
  BY <1>1, ChanAssumption, FS_Subset
<1>3. m \in Int /\ n \in Int
  <2>1. Cap[c] \in Nat
    BY ChanAssumption
  <2>2. Len(buf[c]) \in Nat /\ Len(buf'[c]) \in Nat
    BY LenProperties DEF BuffersAre
  <2>3. QED
    BY <2>1, <2>2 DEF Need
<1>4. ASSUME Sleeping(c, d)' # {}
      PROVE  n <= Cardinality(B)
  <2>1. m <= Cardinality(A)
    BY <1>4 DEF Enough
  <2>2. \/ A \subseteq B /\ n <= m
        \/ A \ {x} \subseteq B /\ n <= m - 1
        \/ A \cup {x} \subseteq B /\ x \notin A /\ n <= m + 1
    OBVIOUS
  <2> HIDE DEF A, B, m, n
  <2>3. QED
    BY <1>2, <1>3, <2>1, <2>2, Covers
<1>5. QED
  BY <1>4 DEF Enough

\* Whoever is on its way on a channel of its own has no other case.
LEMMA ComesForOne ==
  ASSUME IInv, NEW c \in Chans, Unshared(c), NEW d \in Dirs,
         NEW g \in Coming(c, d), NEW k \in op[g].cases
  PROVE  k = [c |-> c, dir |-> d]
<1> DEFINE j == [c |-> c, dir |-> d]
<1>1. g \in Goroutines /\ pc[g] \in {"parked", "woken"} /\ j \in op[g].cases /\ j.c = c
  BY DEF Coming
<1> HIDE DEF j
<1>2. op[g] \in Offers /\ op[g].block
  BY <1>1, InvHas DEF PointsAgree
<1>3. Cardinality(op[g].cases) = 1 /\ IsFiniteSet(op[g].cases)
  BY <1>1, <1>2, ChanAssumption DEF Unshared
<1>4. PICK x : op[g].cases = {x}
  BY <1>3, FS_Singleton
<1>5. QED
  BY <1>1, <1>4 DEF j

\* Nobody sleeps on a closed channel.
LEMMA ClosedIsEmpty ==
  ASSUME IInv, NEW c \in Chans, NEW d \in Dirs, closed[c]
  PROVE  Sleeping(c, d) = {}
<1>1. {g \in ToSet(waitq[c][d]) : ~done[g]} = Sleeping(c, d) /\ waitq[c][d] = <<>>
  BY DEF IInv, QueuesAreSleepers
<1>2. QED
  BY <1>1, NoElements

\* Who sleeps and who is on its way after a pass over the cases of g.
LEMMA AttemptMoves ==
  ASSUME IInv, NEW g \in Goroutines, pc[g] \in {"try", "woken"}, Attempts(g),
         QueuesKept, NEW c \in Chans, NEW d \in Dirs
  PROVE  /\ Coming(c, d) \ {g} \subseteq Coming(c, d)'
         /\ ~Parks(g) => Sleeping(c, d)' \subseteq Sleeping(c, d)
         /\ \A h \in Sleeping(c, d) : \A o :
              Claims(g, h, o) /\ ~Parks(g) => h \in Coming(c, d)' \ Coming(c, d)
<1>1. RestAre /\ PointsAgree /\ op' = op
  BY InvHas DEF QueuesKept
<1>2. CASE Parks(g)
  <2>1. /\ pc' = [pc EXCEPT ![g] = "parked"] /\ done' = [done EXCEPT ![g] = FALSE]
        /\ out' = out
    BY <1>2 DEF Parks
  <2>2. \A x \in Goroutines \ {g} :
          pc'[x] = pc[x] /\ done'[x] = done[x] /\ out'[x] = out[x] /\ op'[x] = op[x]
    BY <1>1, <2>1 DEF RestAre
  <2>3. Coming(c, d) \ {g} \subseteq Coming(c, d)'
    BY <2>2 DEF Coming
  <2>4. QED
    BY <1>2, <2>3
<1>3. ASSUME NEW r, Outcome(g, r), Settles(g)
      PROVE  /\ Coming(c, d) \ {g} \subseteq Coming(c, d)'
             /\ Sleeping(c, d)' \subseteq Sleeping(c, d)
  <2>1. /\ pc' = [pc EXCEPT ![g] = "return"] /\ done' = done
        /\ out' = [out EXCEPT ![g] = r]
    BY <1>3 DEF Outcome, Settles
  <2>2. \A x \in Goroutines \ {g} :
          pc'[x] = pc[x] /\ done'[x] = done[x] /\ out'[x] = out[x] /\ op'[x] = op[x]
    BY <1>1, <2>1 DEF RestAre
  <2>3. pc'[g] = "return"
    BY <1>1, <2>1 DEF RestAre
  <2>4. Coming(c, d) \ {g} \subseteq Coming(c, d)'
    BY <2>2 DEF Coming
  <2>5. Sleeping(c, d)' \subseteq Sleeping(c, d)
    BY <2>2, <2>3 DEF Sleeping
  <2>6. QED
    BY <2>4, <2>5
<1>4. ASSUME NEW r, Outcome(g, r), NEW h \in Goroutines, NEW o, Claims(g, h, o)
      PROVE  /\ Coming(c, d) \ {g} \subseteq Coming(c, d)'
             /\ Sleeping(c, d)' \subseteq Sleeping(c, d)
             /\ h \in Sleeping(c, d) => h \in Coming(c, d)' \ Coming(c, d)
  <2>1. /\ pc' = [pc EXCEPT ![g] = "waking"] /\ done' = [done EXCEPT ![h] = TRUE]
        /\ out' = [out EXCEPT ![g] = r]
    BY <1>4 DEF Outcome, Claims
  <2>2. \A x \in Goroutines \ {g} :
          /\ pc'[x] = pc[x] /\ done'[x] = (done[x] \/ x = h)
          /\ out'[x] = out[x] /\ op'[x] = op[x]
    BY <1>1, <2>1 DEF RestAre
  <2>3. pc'[g] = "waking" /\ done'[h]
    BY <1>1, <2>1 DEF RestAre
  <2>4. Coming(c, d) \ {g} \subseteq Coming(c, d)'
    BY <2>2 DEF Coming
  <2>5. Sleeping(c, d)' \subseteq Sleeping(c, d)
    BY <2>2, <2>3 DEF Sleeping
  <2>6. ASSUME h \in Sleeping(c, d)
        PROVE  h \in Coming(c, d)' \ Coming(c, d)
    <3>1. /\ pc[h] = "parked" /\ ~done[h] /\ h # g
          /\ [c |-> c, dir |-> d] \in op[h].cases
      BY <2>6 DEF Sleeping
    <3>2. out[h] = <<>>
      BY <1>1, <3>1 DEF PointsAgree
    <3>3. /\ pc'[h] = "parked" /\ done'[h] /\ out'[h] = <<>>
          /\ [c |-> c, dir |-> d] \in op'[h].cases
      BY <2>2, <2>3, <3>1, <3>2
    <3>4. QED
      BY <3>1, <3>3 DEF Coming
  <2>7. QED
    BY <2>4, <2>5, <2>6
<1>5. CASE ~Parks(g)
  <2>1. PICK r : Outcome(g, r)
    BY <1>5, AttemptEnds
  <2>2. \A h \in Sleeping(c, d) : h \in Goroutines
    BY DEF Sleeping
  <2>3. CASE \E h \in Goroutines : \E o : Claims(g, h, o)
    BY <1>4, <2>1, <2>2, <2>3
  <2>4. CASE Settles(g)
    BY <1>3, <1>4, <2>1, <2>2, <2>4
  <2>5. QED
    BY <1>5, <2>3, <2>4, AttemptEnds
<1>6. QED
  BY <1>2, <1>5

LEMMA AttemptEnough ==
  ASSUME IInv, IInv', NEW g \in Goroutines, pc[g] \in {"try", "woken"}, Attempts(g),
         QueuesKept, NEW c \in Chans, Unshared(c), Cap[c] > 0, NEW d \in Dirs,
         Enough(c, d)
  PROVE  Enough(c, d)'
<1>1. /\ BuffersAre /\ PointsAgree /\ Cap[c] \in Nat
      /\ d = "send" \/ d = "recv"
  BY InvHas, ChanAssumption DEF Dirs
<1>2. BuffersAre'
  BY DEF IInv, TypeOK, BuffersAre
<1>3. buf[c] \in Seq(Goroutines) /\ Len(buf[c]) \in Nat /\ Need(c, d) \in Int
  <2>1. buf[c] \in Seq(Goroutines)
    BY <1>1 DEF BuffersAre
  <2>2. QED
    BY <1>1, <2>1, LenProperties DEF Need
<1>4. Coming(c, d) \ {g} \subseteq Coming(c, d)'
  BY AttemptMoves
\* Another channel, or the same one without a change: nobody comes less.
<1>5. ASSUME ~Parks(g), g \notin Coming(c, d), buf'[c] = buf[c]
      PROVE  Enough(c, d)'
  <2>1. Coming(c, d) \subseteq Coming(c, d)' /\ Need(c, d)' = Need(c, d)
    BY <1>4, <1>5 DEF Need
  <2>2. Sleeping(c, d)' \subseteq Sleeping(c, d)
    BY <1>5, AttemptMoves
  <2>3. Need(c, d)' <= Need(c, d)
    BY <1>3, <2>1
  <2>4. QED
    BY <1>1, <1>2, <2>1, <2>2, <2>3, EnoughNext, Zenon
<1>6. ASSUME ~Parks(g), closed[c]
      PROVE  Enough(c, d)'
  <2>1. Sleeping(c, d)' = {}
    BY <1>6, ClosedIsEmpty, AttemptMoves
  <2>2. QED
    BY <2>1 DEF Enough
\* The buffer has changed: in one direction there is one more to come for, in
\* the other there is one less.
<1>7. ASSUME ~Parks(g), Need(c, d)' <= Need(c, d) - 1
      PROVE  Enough(c, d)'
  <2>1. Sleeping(c, d)' \subseteq Sleeping(c, d)
    BY <1>7, AttemptMoves
  <2>2. QED
    BY <1>1, <1>2, <1>4, <1>7, <2>1, EnoughNext, Zenon
<1>8. ASSUME ~Parks(g), g \notin Coming(c, d), Pinged(g, c, d),
             Need(c, d)' <= Need(c, d) + 1
      PROVE  Enough(c, d)'
  <2>1. Sleeping(c, d)' \subseteq Sleeping(c, d)
    BY <1>8, AttemptMoves
  <2>2. CASE Sleeping(c, d) = {}
    BY <2>1, <2>2 DEF Enough
  <2>3. CASE Sleeping(c, d) # {}
    <3>1. PICK h \in Sleeping(c, d) : Claims(g, h, <<>>)
      BY <1>8, <2>3 DEF Pinged
    <3>2. h \in Coming(c, d)' \ Coming(c, d)
      BY <1>8, <3>1, AttemptMoves
    <3>3. Coming(c, d) \cup {h} \subseteq Coming(c, d)' /\ h \notin Coming(c, d)
      BY <1>4, <1>8, <3>2
    <3>4. QED
      BY <1>1, <1>2, <1>8, <2>1, <3>3, EnoughNext, Zenon
  <2>4. QED
    BY <2>2, <2>3
<1>9. ASSUME NEW k \in op[g].cases, k # [c |-> c, dir |-> d]
      PROVE  g \notin Coming(c, d)
  BY <1>9, ComesForOne
<1>10. ASSUME NEW b \in Chans, [c |-> b, dir |-> "send"] \in op[g].cases, Sends(g, b),
              ~Parks(g)
       PROVE  Enough(c, d)'
  <2>1. b # c \/ d = "recv" => g \notin Coming(c, d)
    BY <1>1, <1>9, <1>10
  <2>2. CASE b # c
    <3>1. buf'[c] = buf[c]
      BY <1>1, <1>10, <2>2
        DEF Sends, PanicsOn, SendsInto, MeetsReceiver, BuffersAre
    <3>2. QED
      BY <1>5, <1>10, <2>1, <2>2, <3>1
  <2>3. CASE b = c /\ PanicsOn(g, b)
    BY <1>6, <1>10, <2>3 DEF PanicsOn
  <2>4. CASE b = c /\ SendsInto(g, b)
    <3>1. buf'[c] = Append(buf[c], g) /\ Pinged(g, c, "recv")
      BY <1>1, <2>4 DEF SendsInto, BuffersAre
    <3>2. Len(buf'[c]) = Len(buf[c]) + 1
      BY <1>3, <3>1, AppendProperties
    <3>3. CASE d = "recv"
      <4>1. Need(c, d)' <= Need(c, d) + 1
        BY <1>3, <3>2, <3>3 DEF Need
      <4>2. QED
        BY <1>8, <1>10, <2>1, <3>1, <3>3, <4>1
    <3>4. CASE d = "send"
      <4>1. Need(c, d)' <= Need(c, d) - 1
        BY <1>1, <1>3, <3>2, <3>4 DEF Need
      <4>2. QED
        BY <1>7, <1>10, <4>1
    <3>5. QED
      BY <1>1, <3>3, <3>4
  <2>5. CASE b = c /\ \E h \in Sleeping(b, "recv") : MeetsReceiver(g, b, h)
    BY <1>1, <2>5 DEF MeetsReceiver
  <2>6. QED
    BY <1>10, <2>2, <2>3, <2>4, <2>5 DEF Sends
<1>11. ASSUME NEW b \in Chans, [c |-> b, dir |-> "recv"] \in op[g].cases,
              Receives(g, b), ~Parks(g)
       PROVE  Enough(c, d)'
  <2>1. b # c \/ d = "send" => g \notin Coming(c, d)
    BY <1>1, <1>9, <1>11
  <2>2. CASE b # c
    <3>1. buf'[c] = buf[c]
      BY <1>1, <1>11, <2>2
        DEF Receives, ReceivesFrom, ReceivesNothing, MeetsSender, BuffersAre
    <3>2. QED
      BY <1>5, <1>11, <2>1, <2>2, <3>1
  <2>3. CASE b = c /\ ReceivesNothing(g, b)
    BY <1>6, <1>11, <2>3 DEF ReceivesNothing
  <2>4. CASE b = c /\ ReceivesFrom(g, b)
    <3>1. buf[c] # <<>> /\ buf'[c] = Tail(buf[c]) /\ Pinged(g, c, "send")
      BY <1>1, <2>4 DEF ReceivesFrom, BuffersAre
    <3>2. Len(buf'[c]) = Len(buf[c]) - 1
      BY <1>3, <3>1, HeadTailProperties
    <3>3. CASE d = "send"
      <4>1. Need(c, d)' <= Need(c, d) + 1
        BY <1>1, <1>3, <3>2, <3>3 DEF Need
      <4>2. QED
        BY <1>8, <1>11, <2>1, <3>1, <3>3, <4>1
    <3>4. CASE d = "recv"
      <4>1. Need(c, d)' <= Need(c, d) - 1
        BY <1>3, <3>2, <3>4 DEF Need
      <4>2. QED
        BY <1>7, <1>11, <4>1
    <3>5. QED
      BY <1>1, <3>3, <3>4
  <2>5. CASE b = c /\ \E h \in Sleeping(b, "send") : MeetsSender(g, b, h)
    BY <1>1, <2>5 DEF MeetsSender
  <2>6. QED
    BY <1>11, <2>2, <2>3, <2>4, <2>5 DEF Receives
<1>12. CASE GivesUp(g) /\ ~Parks(g)
  <2>1. ~op[g].block /\ buf' = buf
    BY <1>12 DEF GivesUp
  <2>2. g \notin Coming(c, d)
    <3>1. g \in Coming(c, d) => pc[g] = "woken"
      BY DEF Coming
    <3>2. QED
      BY <1>1, <2>1, <3>1 DEF PointsAgree
  <2>3. QED
    BY <1>5, <1>12, <2>1, <2>2
<1>13. CASE Parks(g)
  <2> DEFINE k == [c |-> c, dir |-> d]
  <2>1. buf'[c] = buf[c] /\ k.c = c /\ k.dir = d
    BY <1>13 DEF Parks
  <2>2. Sleeping(c, d)' =
          Sleeping(c, d) \cup (IF k \in op[g].cases THEN {g} ELSE {})
    BY <1>13, Zenon DEF Parks
  <2>3. ASSUME k \in op[g].cases
        PROVE  Need(c, d) <= 0
    <3>1. IF k.dir = "send" THEN ~(Len(buf[k.c]) < Cap[k.c]) ELSE buf[k.c] = <<>>
      <4> HIDE DEF k
      <4>1. \A j \in op[g].cases :
              Cap[j.c] > 0 => IF j.dir = "send" THEN ~(Len(buf[j.c]) < Cap[j.c])
                                                ELSE buf[j.c] = <<>>
        BY <1>13 DEF Parks
      <4>2. Cap[k.c] > 0
        BY <2>1
      <4>3. QED
        BY <2>3, <4>1, <4>2, Zenon
    <3>2. IF d = "send" THEN ~(Len(buf[c]) < Cap[c]) ELSE buf[c] = <<>>
      <4> HIDE DEF k
      <4>1. QED
        BY <2>1, <3>1
    <3>3. QED
      BY <1>1, <1>3, <3>2, EmptySeq DEF Need
  <2> HIDE DEF k
  <2>4. CASE k \in op[g].cases
    <3>1. Need(c, d)' = Need(c, d)
      BY <2>1 DEF Need
    <3>2. Need(c, d)' <= 0 /\ Need(c, d)' \in Int
      BY <1>3, <2>3, <2>4, <3>1
    <3>3. IsFiniteSet(Coming(c, d)')
      <4>1. Coming(c, d)' \subseteq Goroutines
        BY DEF Coming
      <4>2. QED
        BY <4>1, ChanAssumption, FS_Subset
    <3>4. Cardinality(Coming(c, d)') \in Nat
      BY <3>3, FS_CardinalityType
    <3>5. Need(c, d)' <= Cardinality(Coming(c, d)')
      BY <3>2, <3>4
    <3>6. QED
      BY <3>5 DEF Enough
  <2>5. CASE k \notin op[g].cases
    <3>1. g \notin Coming(c, d)
      BY <2>5 DEF Coming, k
    <3>2. Coming(c, d) \subseteq Coming(c, d)' /\ Need(c, d)' <= Need(c, d)
      BY <1>3, <1>4, <2>1, <3>1 DEF Need
    <3>3. Sleeping(c, d)' \subseteq Sleeping(c, d)
      BY <2>2, <2>5
    <3>4. QED
      BY <1>1, <1>2, <3>2, <3>3, EnoughNext, Zenon
  <2>6. QED
    BY <2>4, <2>5
<1>14. QED
  BY <1>10, <1>11, <1>12, <1>13 DEF Attempts

\* A step that changes no buffer, lets nobody fall asleep and holds up nobody
\* who is on its way.
LEMMA QuietEnough ==
  ASSUME IInv, IInv', NEW c \in Chans, NEW d \in Dirs, Enough(c, d), UNCHANGED buf,
         \A x \in Goroutines :
           /\ pc'[x] = "parked" /\ ~done'[x]
                => pc[x] = "parked" /\ ~done[x] /\ op'[x] = op[x]
           /\ x \in Coming(c, d)
                => /\ pc'[x] \in {"parked", "woken"} /\ done'[x] /\ out'[x] = <<>>
                   /\ op'[x] = op[x]
  PROVE  Enough(c, d)'
<1>1. BuffersAre /\ BuffersAre' /\ Cap[c] \in Nat
  BY ChanAssumption DEF IInv, TypeOK, BuffersAre
<1>2. Sleeping(c, d)' \subseteq Sleeping(c, d)
  BY DEF Sleeping
<1>3. Coming(c, d) \subseteq Coming(c, d)'
  <2>1. \A x \in Coming(c, d) : x \in Goroutines /\ [c |-> c, dir |-> d] \in op[x].cases
    BY DEF Coming
  <2>2. QED
    BY <2>1 DEF Coming
<1>4. Need(c, d)' <= Need(c, d)
  <2>1. Len(buf[c]) \in Nat
    BY <1>1, LenProperties DEF BuffersAre
  <2>2. QED
    BY <1>1, <2>1 DEF Need
<1>5. QED
  BY <1>1, <1>2, <1>3, <1>4, EnoughNext, Zenon

LEMMA DeliverEnough ==
  ASSUME IInv, IInv', NEW g \in Goroutines, Deliver(g),
         NEW c \in Chans, Unshared(c), Cap[c] > 0, NEW d \in Dirs, Enough(c, d)
  PROVE  Enough(c, d)'
<1>1. RestAre /\ Cap[c] \in Nat
  BY InvHas, ChanAssumption
<1>2. PICK h \in Goroutines, o \in Outcomes :
        /\ hand[g] = <<h, o>> /\ h # g /\ Fits(h, o)
        /\ pc[g] = "waking" /\ pc[h] = "parked" /\ done[h]
        /\ out' = [out EXCEPT ![h] = o]
        /\ pc' = [pc EXCEPT ![g] = "return", ![h] = "woken"]
        /\ hand' = [hand EXCEPT ![g] = <<>>]
        /\ UNCHANGED <<buf, closed, waitq, op, done>>
  BY DeliverIs
<1>3. h # g /\ pc[g] = "waking" /\ pc[h] = "parked" /\ done[h] /\ UNCHANGED buf
  BY <1>2
<1>4. \A x \in Goroutines :
        /\ pc'[x] = IF x = h THEN "woken" ELSE IF x = g THEN "return" ELSE pc[x]
        /\ out'[x] = IF x = h THEN o ELSE out[x]
        /\ done'[x] = done[x] /\ op'[x] = op[x]
  BY <1>1, <1>2 DEF RestAre
\* Who waits for a buffered channel is handed nothing.
<1>5. h \in Coming(c, d) => o = <<>>
  <2>1. ASSUME h \in Coming(c, d), NEW k \in op[h].cases
        PROVE  Cap[k.c] # 0
    <3>1. k = [c |-> c, dir |-> d]
      BY <2>1, ComesForOne
    <3>2. k.c = c
      BY <3>1
    <3>3. QED
      BY <1>1, <3>2
  <2>2. Fits(h, o)
    BY <1>2
  <2>3. QED
    BY <2>1, <2>2 DEF Fits
<1>6. \A x \in Coming(c, d) : /\ x \in Goroutines /\ pc[x] \in {"parked", "woken"}
                              /\ done[x] /\ out[x] = <<>>
  BY DEF Coming
<1>7. \A x \in Goroutines :
        /\ pc'[x] = "parked" /\ ~done'[x]
             => pc[x] = "parked" /\ ~done[x] /\ op'[x] = op[x]
        /\ x \in Coming(c, d)
             => /\ pc'[x] \in {"parked", "woken"} /\ done'[x] /\ out'[x] = <<>>
                /\ op'[x] = op[x]
  BY <1>3, <1>4, <1>5, <1>6
<1>8. QED
  BY <1>3, <1>7, QuietEnough, Zenon

LEMMA NextEnough ==
  ASSUME IInv, IInv', [Next]_vars,
         NEW c \in Chans, Unshared(c), Cap[c] > 0, NEW d \in Dirs, Enough(c, d)
  PROVE  Enough(c, d)'
<1>1. RestAre /\ PointsAgree
  BY InvHas
<1>2. \A x \in Coming(c, d) : /\ x \in Goroutines /\ pc[x] \in {"parked", "woken"}
                              /\ done[x] /\ out[x] = <<>>
  BY DEF Coming
<1>3. ASSUME UNCHANGED buf,
             \A x \in Goroutines :
               /\ pc'[x] = "parked" /\ ~done'[x]
                    => pc[x] = "parked" /\ ~done[x] /\ op'[x] = op[x]
               /\ x \in Coming(c, d)
                    => /\ pc'[x] \in {"parked", "woken"} /\ done'[x] /\ out'[x] = <<>>
                       /\ op'[x] = op[x]
      PROVE  Enough(c, d)'
  BY <1>3, QuietEnough, Zenon
\* A goroutine that is neither asleep nor on its way moves.
<1>4. ASSUME UNCHANGED buf, NEW g \in Goroutines, g \notin Coming(c, d),
             pc'[g] # "parked",
             \A x \in Goroutines \ {g} :
               /\ pc'[x] = pc[x] /\ done'[x] = done[x]
               /\ out'[x] = out[x] /\ op'[x] = op[x]
      PROVE  Enough(c, d)'
  <2>1. \A x \in Goroutines :
          /\ pc'[x] = "parked" /\ ~done'[x]
               => pc[x] = "parked" /\ ~done[x] /\ op'[x] = op[x]
          /\ x \in Coming(c, d)
               => /\ pc'[x] \in {"parked", "woken"} /\ done'[x] /\ out'[x] = <<>>
                  /\ op'[x] = op[x]
    BY <1>2, <1>4
  <2>2. QED
    BY <1>3, <1>4, <2>1
<1>5. CASE UNCHANGED vars
  BY <1>2, <1>3, <1>5 DEF vars
<1>6. ASSUME NEW g \in Goroutines, NEW o \in Offers, Call(g, o)
      PROVE  Enough(c, d)'
  <2>1. PICK p \in {"second", "try"} : pc' = [pc EXCEPT ![g] = p]
    BY <1>6 DEF Call, Goto
  <2>2. /\ pc[g] = "idle" /\ op' = [op EXCEPT ![g] = o]
        /\ UNCHANGED <<buf, done, out>>
    BY <1>6 DEF Call
  <2>3. \A x \in Goroutines \ {g} :
          /\ pc'[x] = pc[x] /\ done'[x] = done[x]
          /\ out'[x] = out[x] /\ op'[x] = op[x]
    BY <1>1, <2>1, <2>2 DEF RestAre
  <2>4. g \notin Coming(c, d) /\ pc'[g] # "parked"
    BY <1>1, <1>2, <2>1, <2>2 DEF RestAre
  <2>5. QED
    BY <1>4, <2>2, <2>3, <2>4
<1>7. ASSUME NEW g \in Goroutines, NEW b \in Chans, Close(g, b)
      PROVE  Enough(c, d)'
  <2>1. pc[g] = "idle" /\ UNCHANGED <<buf, op>> /\ g \notin Coming(c, d)
    BY <1>2, <1>7, CloseIs
  <2>2. CASE Outcome(g, <<"panic">>) /\ Settles(g)
    <3>1. \A x \in Goroutines \ {g} :
            /\ pc'[x] = pc[x] /\ done'[x] = done[x]
            /\ out'[x] = out[x] /\ op'[x] = op[x]
      BY <1>1, <2>1, <2>2 DEF RestAre, Outcome, Settles
    <3>2. pc'[g] # "parked"
      BY <1>1, <2>2 DEF RestAre, Settles
    <3>3. QED
      BY <1>4, <2>1, <3>1, <3>2
  <2>3. CASE /\ Outcome(g, <<"close">>)
             /\ pc' = [x \in Goroutines |->
                         IF x = g THEN "return"
                         ELSE IF x \in Waiters(b) THEN "woken" ELSE pc[x]]
             /\ done' = [x \in Goroutines |-> done[x] \/ x \in Waiters(b)]
    <3>1. \A x \in Goroutines :
            /\ pc'[x] = IF x = g THEN "return"
                        ELSE IF x \in Waiters(b) THEN "woken" ELSE pc[x]
            /\ done'[x] = (done[x] \/ x \in Waiters(b))
            /\ x # g => out'[x] = out[x]
            /\ op'[x] = op[x]
      BY <1>1, <2>1, <2>3 DEF RestAre, Outcome
    <3>2. \A x \in Goroutines :
            /\ pc'[x] = "parked" /\ ~done'[x]
                 => pc[x] = "parked" /\ ~done[x] /\ op'[x] = op[x]
            /\ x \in Coming(c, d)
                 => /\ pc'[x] \in {"parked", "woken"} /\ done'[x] /\ out'[x] = <<>>
                    /\ op'[x] = op[x]
      BY <1>2, <2>1, <3>1
    <3>3. QED
      BY <1>3, <2>1, <3>2
  <2>4. QED
    BY <1>7, <2>2, <2>3, CloseIs
<1>8. ASSUME NEW g \in Goroutines, Second(g)
      PROVE  Enough(c, d)'
  <2>1. PICK p \in {"return", "try"} : pc' = [pc EXCEPT ![g] = p]
    BY <1>8 DEF Second, Finish, Goto
  <2>2. \E o : out' = [out EXCEPT ![g] = o]
    <3>1. out = [out EXCEPT ![g] = out[g]]
      BY <1>1 DEF RestAre
    <3>2. out' = out \/ out' = [out EXCEPT ![g] = <<"default">>]
      BY <1>8 DEF Second, Finish
    <3>3. QED
      BY <3>1, <3>2
  <2>3. pc[g] = "second" /\ UNCHANGED <<buf, done, op>>
    BY <1>8 DEF Second, Finish
  <2>4. \A x \in Goroutines \ {g} :
          /\ pc'[x] = pc[x] /\ done'[x] = done[x]
          /\ out'[x] = out[x] /\ op'[x] = op[x]
    BY <1>1, <2>1, <2>2, <2>3 DEF RestAre
  <2>5. g \notin Coming(c, d) /\ pc'[g] # "parked"
    BY <1>1, <1>2, <2>1, <2>3 DEF RestAre
  <2>6. QED
    BY <1>4, <2>3, <2>4, <2>5
<1>9. ASSUME NEW g \in Goroutines, Try(g)
      PROVE  Enough(c, d)'
  BY <1>9, TryIs, AttemptEnough
<1>10. ASSUME NEW g \in Goroutines, Woken(g)
       PROVE  Enough(c, d)'
  <2>1. CASE /\ out[g] # <<>> /\ QueuesKept
             /\ pc' = [pc EXCEPT ![g] = "return"]
             /\ UNCHANGED <<buf, done, hand, out>>
    <3>1. \A x \in Goroutines \ {g} :
            /\ pc'[x] = pc[x] /\ done'[x] = done[x]
            /\ out'[x] = out[x] /\ op'[x] = op[x]
      BY <1>1, <2>1 DEF RestAre, QueuesKept
    <3>2. g \notin Coming(c, d) /\ pc'[g] # "parked"
      BY <1>1, <1>2, <2>1 DEF RestAre
    <3>3. QED
      BY <1>4, <2>1, <3>1, <3>2
  <2>2. CASE Attempts(g) /\ QueuesKept
    BY <1>10, <2>2, WokenIs, AttemptEnough
  <2>3. QED
    BY <1>10, <2>1, <2>2, WokenIs
<1>11. ASSUME NEW g \in Goroutines, Deliver(g)
       PROVE  Enough(c, d)'
  BY <1>11, DeliverEnough
<1>12. ASSUME NEW g \in Goroutines, Return(g)
       PROVE  Enough(c, d)'
  <2>1. /\ pc[g] = "return" /\ pc' = [pc EXCEPT ![g] = "idle"]
        /\ op' = [op EXCEPT ![g] = NoOp] /\ out' = [out EXCEPT ![g] = <<>>]
        /\ done' = [done EXCEPT ![g] = FALSE] /\ UNCHANGED buf
    BY <1>12 DEF Return, Goto
  <2>2. \A x \in Goroutines \ {g} :
          /\ pc'[x] = pc[x] /\ done'[x] = done[x]
          /\ out'[x] = out[x] /\ op'[x] = op[x]
    BY <1>1, <2>1 DEF RestAre
  <2>3. g \notin Coming(c, d) /\ pc'[g] # "parked"
    BY <1>1, <1>2, <2>1 DEF RestAre
  <2>4. QED
    BY <1>4, <2>1, <2>2, <2>3
<1>13. QED
  BY <1>5, <1>6, <1>7, <1>8, <1>9, <1>10, <1>11, <1>12, ChanAssumption
    DEF Next, Begin, Continue

LEMMA LostWakeupNext ==
  ASSUME IInv, NoLostWakeup, [Next]_vars
  PROVE  NoLostWakeup'
<1>1. IInv'
  BY NextInv
<1>2. \A c \in Chans : Unshared(c) => \A d \in Dirs : Enough(c, d)
  BY LostWakeupIs
<1>3. ASSUME NEW c \in Chans, Unshared(c), NEW d \in Dirs
      PROVE  Enough(c, d)'
  <2>1. CASE Cap[c] > 0
    BY <1>1, <1>2, <1>3, <2>1, NextEnough
  <2>2. CASE Cap[c] = 0
    <3>1. Len(buf'[c]) \in Nat /\ Len(buf'[c]) <= 0
      BY <1>1, <2>2, LenProperties DEF IInv, TypeOK, BufferBounded
    <3>2. Need(c, d)' <= 0 /\ Need(c, d)' \in Int
      BY <2>2, <3>1 DEF Need
    <3>3. Cardinality(Coming(c, d)') \in Nat
      <4>1. Coming(c, d)' \subseteq Goroutines
        BY DEF Coming
      <4>2. QED
        BY <4>1, ChanAssumption, FS_Subset, FS_CardinalityType
    <3>4. QED
      BY <3>2, <3>3 DEF Enough
  <2>3. QED
    BY <2>1, <2>2, ChanAssumption
<1>4. ASSUME NEW c \in Chans, Unshared(c)
      PROVE  /\ Sleeping(c, "recv")' # {}
                  => Len(buf'[c]) <= Cardinality(Coming(c, "recv")')
             /\ Sleeping(c, "send")' # {}
                  => Cap[c] - Len(buf'[c]) <= Cardinality(Coming(c, "send")')
  <2>1. Enough(c, "recv")' /\ Enough(c, "send")'
    BY <1>3, <1>4 DEF Dirs
  <2>2. Need(c, "recv")' = Len(buf'[c]) /\ Need(c, "send")' = Cap[c] - Len(buf'[c])
    BY DEF Need
  <2>3. QED
    BY <2>1, <2>2 DEF Enough
<1>5. QED
  BY <1>4, Zenon DEF NoLostWakeup

\* No lost wakeup on a channel that no blocking select shares with another:
\* while a receiver sleeps, every value in the buffer has a receiver that has
\* been claimed for it and has not looked yet; while a sender sleeps, every free
\* slot has such a sender.
THEOREM NoWakeupLost == Spec => []NoLostWakeup
<1>1. Init => NoLostWakeup
  BY DEF Init, NoLostWakeup, Sleeping
<1>2. IInv /\ NoLostWakeup /\ [Next]_vars => NoLostWakeup'
  BY LostWakeupNext
<1>3. QED
  BY <1>1, <1>2, Invariant, PTL DEF Spec
-----------------------------------------------------------------------------
(* The abstract channels *)

\* The one that has h in hand.
LEMMA Holder ==
  ASSUME NEW f, NEW h, NEW g \in Goroutines, f[g] # <<>>, f[g][1] = h,
         \A x, y \in Goroutines : f[x] # <<>> /\ f[y] # <<>> /\ f[x][1] = f[y][1] => x = y
  PROVE  (CHOOSE x \in Goroutines : f[x] # <<>> /\ f[x][1] = h) = g
<1>1. \A x \in Goroutines : f[x] # <<>> /\ f[x][1] = h => x = g
  OBVIOUS
<1>2. \E x \in Goroutines : f[x] # <<>> /\ f[x][1] = h
  OBVIOUS
<1>3. QED
  BY <1>1, <1>2

\* What callers see is the outcome that is handed over, or the goroutine's own.
LEMMA SeenIs ==
  ASSUME IInv
  PROVE  /\ outcome \in [Goroutines -> Outcomes]
         /\ \A h \in Goroutines :
              ~(pc[h] = "parked" /\ done[h]) => outcome[h] = out[h]
         /\ \A g, h \in Goroutines, o \in Outcomes :
              hand[g] = <<h, o>> => outcome[h] = o
<1>1. RestAre /\ ClaimedOnce
  BY InvHas
<1>2. \A h \in Goroutines : ~(pc[h] = "parked" /\ done[h]) => outcome[h] = out[h]
  BY DEF outcome
<1>3. ASSUME NEW g \in Goroutines, NEW h \in Goroutines, NEW o \in Outcomes,
             hand[g] = <<h, o>>
      PROVE  outcome[h] = o
  <2>1. hand[g] # <<>> /\ hand[g][1] = h /\ hand[g][2] = o
    BY <1>3
  <2>2. \A x, y \in Goroutines :
          hand[x] # <<>> /\ hand[y] # <<>> /\ hand[x][1] = hand[y][1] => x = y
    BY <1>1 DEF ClaimedOnce
  <2>3. (CHOOSE x \in Goroutines : hand[x] # <<>> /\ hand[x][1] = h) = g
    BY <2>1, <2>2, Holder, Zenon
  <2>4. pc[h] = "parked" /\ done[h]
    BY <1>1, <2>1 DEF ClaimedOnce
  <2>5. QED
    BY <2>1, <2>3, <2>4 DEF outcome
<1>4. ASSUME NEW h \in Goroutines
      PROVE  outcome[h] \in Outcomes
  <2>1. CASE pc[h] = "parked" /\ done[h]
    <3>1. PICK g \in Goroutines : hand[g] # <<>> /\ hand[g][1] = h
      BY <1>1, <2>1 DEF ClaimedOnce
    <3>2. hand[g] \in Goroutines \X Outcomes
      BY <1>1, <3>1 DEF RestAre
    <3>3. PICK x \in Goroutines, o \in Outcomes : hand[g] = <<x, o>>
      BY <3>2
    <3>4. x = h
      BY <3>1, <3>3
    <3>5. QED
      BY <1>3, <3>3, <3>4
  <2>2. CASE ~(pc[h] = "parked" /\ done[h])
    BY <1>1, <1>2, <2>2 DEF RestAre
  <2>3. QED
    BY <2>1, <2>2
<1>5. outcome \in [Goroutines -> Outcomes]
  BY <1>4 DEF outcome
<1>6. QED
  BY <1>2, <1>3, <1>5

\* The same of the next state.
LEMMA SeenNext ==
  ASSUME IInv'
  PROVE  /\ \A h \in Goroutines :
              ~(pc'[h] = "parked" /\ done'[h]) => outcome'[h] = out'[h]
         /\ \A g, h \in Goroutines, o \in Outcomes :
              hand'[g] = <<h, o>> => outcome'[h] = o
<1>1. ClaimedOnce'
  BY DEF IInv
<1>2. \A h \in Goroutines : ~(pc'[h] = "parked" /\ done'[h]) => outcome'[h] = out'[h]
  BY DEF outcome
<1>3. ASSUME NEW g \in Goroutines, NEW h \in Goroutines, NEW o \in Outcomes,
             hand'[g] = <<h, o>>
      PROVE  outcome'[h] = o
  <2>1. hand'[g] # <<>> /\ hand'[g][1] = h /\ hand'[g][2] = o
    BY <1>3
  <2>2. \A x, y \in Goroutines :
          hand'[x] # <<>> /\ hand'[y] # <<>> /\ hand'[x][1] = hand'[y][1] => x = y
    BY <1>1 DEF ClaimedOnce
  <2>3. (CHOOSE x \in Goroutines : hand'[x] # <<>> /\ hand'[x][1] = h) = g
    BY <2>1, <2>2, Holder, Zenon
  <2>4. pc'[h] = "parked" /\ done'[h]
    BY <1>1, <2>1 DEF ClaimedOnce
  <2>5. QED
    BY <2>1, <2>3, <2>4 DEF outcome
<1>4. QED
  BY <1>2, <1>3

\* A step that hands nothing over.
LEMMA SeenMoves ==
  ASSUME hand' = hand, NEW f, f = [h \in Goroutines |-> f[h]],
         \A h \in Goroutines :
           /\ pc'[h] = "parked" /\ done'[h] <=> pc[h] = "parked" /\ done[h]
           /\ f[h] = IF pc[h] = "parked" /\ done[h] THEN outcome[h] ELSE out'[h]
  PROVE  outcome' = f
<1>1. \A h \in Goroutines : outcome'[h] = f[h]
  BY DEF outcome
<1>2. outcome' = [h \in Goroutines |-> outcome'[h]]
  BY DEF outcome
<1>3. QED
  BY <1>1, <1>2

\* The goroutine at g gets its outcome r.
LEMMA SeenSettled ==
  ASSUME IInv, NEW g \in Goroutines, pc[g] # "parked", NEW p, p # "parked",
         NEW r, Outcome(g, r), pc' = [pc EXCEPT ![g] = p], hand' = hand,
         \A x \in Goroutines \ {g} : done'[x] = done[x]
  PROVE  outcome' = [outcome EXCEPT ![g] = r]
<1> DEFINE f == [outcome EXCEPT ![g] = r]
<1>1. RestAre /\ outcome \in [Goroutines -> Outcomes]
  BY InvHas, SeenIs
<1>2. out' = [out EXCEPT ![g] = r]
  BY DEF Outcome
<1>3. /\ \A x \in Goroutines : pc'[x] = IF x = g THEN p ELSE pc[x]
      /\ \A x \in Goroutines : out'[x] = IF x = g THEN r ELSE out[x]
      /\ \A x \in Goroutines : f[x] = IF x = g THEN r ELSE outcome[x]
      /\ f = [x \in Goroutines |-> f[x]]
  BY <1>1, <1>2 DEF RestAre
<1>4. \A x \in Goroutines : ~(pc[x] = "parked" /\ done[x]) => outcome[x] = out[x]
  BY SeenIs
<1> HIDE DEF f
<1>5. \A x \in Goroutines :
        /\ pc'[x] = "parked" /\ done'[x] <=> pc[x] = "parked" /\ done[x]
        /\ f[x] = IF pc[x] = "parked" /\ done[x] THEN outcome[x] ELSE out'[x]
  BY <1>3, <1>4
<1>6. outcome' = f
  BY <1>3, <1>5, SeenMoves, Zenon
<1>7. QED
  BY <1>6 DEF f

\* The goroutine at g gets its outcome r, and has the outcome o for h in hand.
LEMMA SeenClaimed ==
  ASSUME IInv, IInv', NEW g \in Goroutines, pc[g] \in {"try", "woken"},
         NEW c, NEW d, NEW h \in Sleeping(c, d), NEW o \in Outcomes,
         NEW r, Outcome(g, r), Claims(g, h, o)
  PROVE  outcome' = [outcome EXCEPT ![g] = r, ![h] = o]
<1> DEFINE f == [outcome EXCEPT ![g] = r, ![h] = o]
<1>1. RestAre /\ ClaimedOnce /\ outcome \in [Goroutines -> Outcomes]
  BY InvHas, SeenIs
<1>2. h \in Goroutines /\ pc[h] = "parked" /\ ~done[h] /\ h # g
  BY DEF Sleeping
<1>3. /\ out' = [out EXCEPT ![g] = r] /\ pc' = [pc EXCEPT ![g] = "waking"]
      /\ done' = [done EXCEPT ![h] = TRUE] /\ hand' = [hand EXCEPT ![g] = <<h, o>>]
  BY DEF Outcome, Claims
<1>4. /\ \A x \in Goroutines : pc'[x] = IF x = g THEN "waking" ELSE pc[x]
      /\ \A x \in Goroutines : out'[x] = IF x = g THEN r ELSE out[x]
      /\ \A x \in Goroutines : done'[x] = (done[x] \/ x = h)
      /\ \A x \in Goroutines : hand'[x] = IF x = g THEN <<h, o>> ELSE hand[x]
      /\ \A x \in Goroutines :
           f[x] = IF x = h THEN o ELSE IF x = g THEN r ELSE outcome[x]
      /\ f = [x \in Goroutines |-> f[x]]
  BY <1>1, <1>2, <1>3 DEF RestAre
<1>5. /\ outcome' = [x \in Goroutines |-> outcome'[x]]
      /\ \A x \in Goroutines :
           ~(pc'[x] = "parked" /\ done'[x]) => outcome'[x] = out'[x]
  BY SeenNext DEF outcome
<1>6. \A y, x \in Goroutines, q \in Outcomes : hand'[y] = <<x, q>> => outcome'[x] = q
  BY SeenNext
<1>7. ASSUME NEW x \in Goroutines
      PROVE  outcome'[x] = f[x]
  <2>1. CASE x = g
    BY <1>2, <1>4, <1>5, <2>1
  <2>2. CASE x = h
    BY <1>4, <1>6, <2>2
  <2>3. CASE x # g /\ x # h /\ pc[x] = "parked" /\ done[x]
    <3>1. PICK y \in Goroutines : hand[y] # <<>> /\ hand[y][1] = x
      BY <1>1, <2>3 DEF ClaimedOnce
    <3>2. hand[y] \in Goroutines \X Outcomes
      BY <1>1, <3>1 DEF RestAre
    <3>3. PICK z \in Goroutines, q \in Outcomes : hand[y] = <<z, q>>
      BY <3>2
    <3>4. hand[y] = <<x, q>>
      BY <3>1, <3>3
    <3>5. y # g
      BY <1>1, <3>1 DEF ClaimedOnce
    <3>6. outcome[x] = q
      BY <3>4, SeenIs
    <3>7. outcome'[x] = q
      BY <1>4, <1>6, <3>4, <3>5
    <3>8. QED
      BY <1>4, <2>3, <3>6, <3>7
  <2>4. CASE x # g /\ x # h /\ ~(pc[x] = "parked" /\ done[x])
    <3>1. outcome'[x] = out[x]
      BY <1>4, <1>5, <2>4
    <3>2. outcome[x] = out[x]
      BY <2>4, SeenIs
    <3>3. QED
      BY <1>4, <2>4, <3>1, <3>2
  <2>5. QED
    BY <2>1, <2>2, <2>3, <2>4
<1> HIDE DEF f
<1>8. outcome' = f
  BY <1>4, <1>5, <1>7
<1>9. QED
  BY <1>8 DEF f

\* A step that gives nobody an outcome.
LEMMA SeenKept ==
  ASSUME IInv, hand' = hand,
         \A h \in Goroutines :
           /\ pc'[h] = "parked" /\ done'[h] <=> pc[h] = "parked" /\ done[h]
           /\ ~(pc[h] = "parked" /\ done[h]) => out'[h] = out[h]
  PROVE  outcome' = outcome
<1>1. outcome = [h \in Goroutines |-> outcome[h]]
  BY DEF outcome
<1>2. \A h \in Goroutines :
        outcome[h] = IF pc[h] = "parked" /\ done[h] THEN outcome[h] ELSE out'[h]
  BY SeenIs
<1>3. QED
  BY <1>1, <1>2, SeenMoves, Zenon

\* Nor do callers see anything of it.
LEMMA SeenStays ==
  ASSUME IInv, hand' = hand, UNCHANGED <<buf, closed, op>>,
         \A h \in Goroutines :
           /\ pc'[h] = "parked" /\ done'[h] <=> pc[h] = "parked" /\ done[h]
           /\ ~(pc[h] = "parked" /\ done[h]) => out'[h] = out[h]
  PROVE  UNCHANGED Abstract!vars
<1>1. outcome' = outcome
  BY SeenKept, Zenon
<1>2. QED
  BY <1>1 DEF Abstract!vars

\* A pass over the cases of g is one step of the abstract channels: whoever
\* is claimed for an unbuffered channel has its outcome at the same moment.
LEMMA AttemptRefines ==
  ASSUME IInv, IInv', NEW g \in Goroutines, pc[g] \in {"try", "woken"}, out[g] = <<>>,
         Attempts(g), QueuesKept
  PROVE  [Abstract!Next]_(Abstract!vars)
<1>1. RestAre /\ PointsAgree /\ UNCHANGED <<closed, op>>
  BY InvHas DEF QueuesKept
<1>2. pc[g] # "parked" /\ outcome[g] = <<>>
  BY SeenIs
\* The goroutine gets its outcome, and so does nobody else.
<1>3. ASSUME NEW r, Outcome(g, r), Settles(g)
      PROVE  outcome' = [outcome EXCEPT ![g] = r]
  <2>1. pc' = [pc EXCEPT ![g] = "return"] /\ hand' = hand /\ "return" # "parked"
        /\ \A x \in Goroutines \ {g} : done'[x] = done[x]
    BY <1>3 DEF Settles
  <2>2. QED
    BY <1>2, <1>3, <2>1, SeenSettled, Zenon
<1>4. ASSUME NEW c, NEW d, Pinged(g, c, d), NEW r, Outcome(g, r)
      PROVE  outcome' = [outcome EXCEPT ![g] = r]
  <2>1. CASE \E h \in Sleeping(c, d) : Claims(g, h, <<>>)
    <3>1. PICK h \in Sleeping(c, d) : Claims(g, h, <<>>)
      BY <2>1
    <3>2. outcome' = [outcome EXCEPT ![g] = r, ![h] = <<>>]
      BY <1>4, <3>1, SeenClaimed, OutcomesAre
    <3>3. h \in Goroutines /\ h # g /\ pc[h] = "parked" /\ ~done[h]
      BY <1>2 DEF Sleeping
    <3>4. outcome[h] = <<>>
      BY <1>1, <3>3, SeenIs DEF PointsAgree
    <3>5. outcome \in [Goroutines -> Outcomes]
      BY SeenIs
    <3>6. [outcome EXCEPT ![g] = r, ![h] = <<>>] = [outcome EXCEPT ![g] = r]
      BY <3>3, <3>4, <3>5
    <3>7. QED
      BY <3>2, <3>6
  <2>2. QED
    BY <1>3, <1>4, <2>1 DEF Pinged
\* It meets a goroutine that sleeps, and both get their outcomes.
<1>4a. ASSUME NEW c, NEW d, NEW h \in Sleeping(c, d), NEW o \in Outcomes, NEW r,
              Outcome(g, r), Claims(g, h, o)
       PROVE  outcome' = [outcome EXCEPT ![g] = r, ![h] = o]
  BY <1>4a, SeenClaimed
<1>5. ASSUME NEW c, NEW d, [c |-> c, dir |-> d] \in op[g].cases
      PROVE  Abstract!Offering(g, c, d)
  BY <1>2, <1>5 DEF Abstract!Offering
<1>6. ASSUME NEW c, NEW d, NEW h \in Sleeping(c, d)
      PROVE  /\ Abstract!Offering(h, c, d) /\ h \in Goroutines /\ h # g
  <2>1. /\ h \in Goroutines /\ pc[h] = "parked" /\ ~done[h]
        /\ [c |-> c, dir |-> d] \in op[h].cases
    BY DEF Sleeping
  <2>2. outcome[h] = <<>>
    BY <1>1, <2>1, SeenIs DEF PointsAgree
  <2>3. QED
    BY <1>2, <2>1, <2>2 DEF Abstract!Offering
<1>7. ASSUME NEW c \in Chans, [c |-> c, dir |-> "send"] \in op[g].cases, Sends(g, c)
      PROVE  Abstract!Next
  <2>1. Abstract!Offering(g, c, "send")
    BY <1>5, <1>7
  <2>2. CASE PanicsOn(g, c)
    <3>1. outcome' = [outcome EXCEPT ![g] = <<"panic">>] /\ closed[c] /\ buf' = buf
      BY <1>3, <2>2 DEF PanicsOn
    <3>2. Abstract!SendPanics(g, c)
      BY <1>1, <2>1, <3>1 DEF Abstract!SendPanics, Abstract!Outcome
    <3>3. QED
      BY <3>2, Zenon DEF Abstract!Next
  <2>3. CASE SendsInto(g, c)
    <3>1. /\ ~closed[c] /\ Len(buf[c]) < Cap[c]
          /\ buf' = [buf EXCEPT ![c] = Append(@, g)]
          /\ outcome' = [outcome EXCEPT ![g] = <<"sent", c>>]
      BY <1>4, <2>3 DEF SendsInto
    <3>2. Abstract!Send(g, c)
      BY <1>1, <2>1, <3>1 DEF Abstract!Send, Abstract!Outcome
    <3>3. QED
      BY <3>2, Zenon DEF Abstract!Next
  <2>4. ASSUME NEW h \in Sleeping(c, "recv"), MeetsReceiver(g, c, h)
        PROVE  Abstract!Next
    <3> DEFINE o == <<"received", c, g>>
               r == <<"sent", c>>
    <3>1. /\ ~closed[c] /\ Cap[c] = 0 /\ buf' = buf
          /\ Outcome(g, r) /\ Claims(g, h, o)
      BY <2>4 DEF MeetsReceiver
    <3>2. o \in Outcomes
      BY OutcomesAre
    <3>3. outcome' = [outcome EXCEPT ![g] = r, ![h] = o]
      <4> HIDE DEF o, r
      <4>1. QED
        BY <1>4a, <3>1, <3>2
    <3>4. Abstract!Offering(h, c, "recv") /\ h \in Goroutines /\ h # g
      BY <1>6
    <3>5. Abstract!Meet(g, h, c)
      BY <1>1, <2>1, <3>1, <3>3, <3>4 DEF Abstract!Meet
    <3>6. QED
      BY <3>4, <3>5, Zenon DEF Abstract!Next
  <2>5. QED
    BY <1>7, <2>2, <2>3, <2>4 DEF Sends
<1>8. ASSUME NEW c \in Chans, [c |-> c, dir |-> "recv"] \in op[g].cases, Receives(g, c)
      PROVE  Abstract!Next
  <2>1. Abstract!Offering(g, c, "recv")
    BY <1>5, <1>8
  <2>2. CASE ReceivesNothing(g, c)
    <3>1. /\ outcome' = [outcome EXCEPT ![g] = <<"closed", c>>]
          /\ closed[c] /\ buf[c] = <<>> /\ buf' = buf
      BY <1>3, <2>2 DEF ReceivesNothing
    <3>2. Abstract!ReceiveClosed(g, c)
      BY <1>1, <2>1, <3>1 DEF Abstract!ReceiveClosed, Abstract!Outcome
    <3>3. QED
      BY <3>2, Zenon DEF Abstract!Next
  <2>3. CASE ReceivesFrom(g, c)
    <3>1. /\ buf[c] # <<>> /\ buf' = [buf EXCEPT ![c] = Tail(@)]
          /\ outcome' = [outcome EXCEPT ![g] = <<"received", c, Head(buf[c])>>]
      BY <1>4, <2>3 DEF ReceivesFrom
    <3>2. Abstract!Receive(g, c)
      BY <1>1, <2>1, <3>1 DEF Abstract!Receive, Abstract!Outcome
    <3>3. QED
      BY <3>2, Zenon DEF Abstract!Next
  <2>4. ASSUME NEW h \in Sleeping(c, "send"), MeetsSender(g, c, h)
        PROVE  Abstract!Next
    <3> DEFINE o == <<"sent", c>>
               r == <<"received", c, h>>
    <3>1. /\ ~closed[c] /\ Cap[c] = 0 /\ buf' = buf
          /\ Outcome(g, r) /\ Claims(g, h, o)
      BY <2>4 DEF MeetsSender
    <3>2. o \in Outcomes
      BY OutcomesAre
    <3>3. outcome' = [outcome EXCEPT ![g] = r, ![h] = o]
      <4> HIDE DEF o, r
      <4>1. QED
        BY <1>4a, <3>1, <3>2
    <3>4. Abstract!Offering(h, c, "send") /\ h \in Goroutines /\ h # g
      BY <1>6
    <3>5. outcome' = [outcome EXCEPT ![h] = o, ![g] = r]
      BY <3>3, <3>4, SeenIs
    <3>6. Abstract!Meet(h, g, c)
      BY <1>1, <2>1, <3>1, <3>4, <3>5 DEF Abstract!Meet
    <3>7. QED
      BY <3>4, <3>6, Zenon DEF Abstract!Next
  <2>5. QED
    BY <1>8, <2>2, <2>3, <2>4 DEF Receives
<1>9. CASE GivesUp(g)
  <2>1. ~op[g].block /\ buf' = buf /\ outcome' = [outcome EXCEPT ![g] = <<"default">>]
    BY <1>3, <1>9 DEF GivesUp
  <2>2. Abstract!Default(g)
    BY <1>1, <1>2, <2>1 DEF Abstract!Default, Abstract!Outcome
  <2>3. QED
    BY <2>2, Zenon DEF Abstract!Next
<1>10. CASE Parks(g)
  <2>1. /\ pc' = [pc EXCEPT ![g] = "parked"] /\ done' = [done EXCEPT ![g] = FALSE]
        /\ UNCHANGED <<buf, hand, out>>
    BY <1>10 DEF Parks
  <2>2. \A x \in Goroutines :
          /\ pc'[x] = "parked" /\ done'[x] <=> pc[x] = "parked" /\ done[x]
          /\ ~(pc[x] = "parked" /\ done[x]) => out'[x] = out[x]
    BY <1>1, <1>2, <2>1 DEF RestAre
  <2>3. QED
    BY <1>1, <2>1, <2>2, SeenStays
<1>11. QED
  BY <1>7, <1>8, <1>9, <1>10 DEF Attempts

\* The delivery hands over what callers have seen since the claim.
LEMMA DeliverRefines ==
  ASSUME IInv, IInv', NEW g \in Goroutines, Deliver(g)
  PROVE  UNCHANGED Abstract!vars
<1>1. RestAre /\ ClaimedOnce
  BY InvHas
<1>2. PICK h \in Goroutines, o \in Outcomes :
        /\ hand[g] = <<h, o>> /\ h # g
        /\ pc[g] = "waking" /\ pc[h] = "parked" /\ done[h]
        /\ out' = [out EXCEPT ![h] = o]
        /\ pc' = [pc EXCEPT ![g] = "return", ![h] = "woken"]
        /\ hand' = [hand EXCEPT ![g] = <<>>]
        /\ UNCHANGED <<buf, closed, op, done>>
  BY DeliverIs
<1>3. /\ \A x \in Goroutines :
           pc'[x] = IF x = h THEN "woken" ELSE IF x = g THEN "return" ELSE pc[x]
      /\ \A x \in Goroutines : out'[x] = IF x = h THEN o ELSE out[x]
      /\ \A x \in Goroutines : hand'[x] = IF x = g THEN <<>> ELSE hand[x]
      /\ \A x \in Goroutines : done'[x] = done[x]
  BY <1>1, <1>2 DEF RestAre
<1>4. h # g /\ pc[g] = "waking" /\ outcome[h] = o
  BY <1>2, SeenIs
<1>5. ASSUME NEW x \in Goroutines
      PROVE  outcome'[x] = outcome[x]
  <2>1. CASE x # h /\ pc[x] = "parked" /\ done[x]
    <3>1. PICK y \in Goroutines : hand[y] # <<>> /\ hand[y][1] = x
      BY <1>1, <2>1 DEF ClaimedOnce
    <3>2. hand[y] \in Goroutines \X Outcomes
      BY <1>1, <3>1 DEF RestAre
    <3>3. PICK z \in Goroutines, q \in Outcomes : hand[y] = <<z, q>>
      BY <3>2
    <3>4. hand[y] = <<x, q>>
      BY <3>1, <3>3
    <3>5. y # g
      BY <1>2, <2>1, <3>4
    <3>6. outcome[x] = q
      BY <3>4, SeenIs
    <3>7. outcome'[x] = q
      BY <1>3, <3>4, <3>5, SeenNext
    <3>8. QED
      BY <3>6, <3>7
  <2>2. CASE x = h
    BY <1>3, <1>4, <2>2, SeenNext
  <2>3. CASE x # h /\ ~(pc[x] = "parked" /\ done[x])
    <3>1. outcome[x] = out[x]
      BY <2>3, SeenIs
    <3>2. ~(pc'[x] = "parked" /\ done'[x])
      BY <1>3, <2>3
    <3>3. outcome'[x] = out'[x]
      BY <3>2, SeenNext
    <3>4. QED
      BY <1>3, <2>3, <3>1, <3>3
  <2>4. QED
    BY <2>1, <2>2, <2>3
<1>6. outcome' = outcome
  <2>1. /\ outcome' = [x \in Goroutines |-> outcome'[x]]
        /\ outcome = [x \in Goroutines |-> outcome[x]]
    BY DEF outcome
  <2>2. QED
    BY <1>5, <2>1
<1>7. QED
  BY <1>2, <1>6 DEF Abstract!vars

\* A close is one step: those it readies have no outcome and look again.
LEMMA CloseRefines ==
  ASSUME IInv, NEW g \in Goroutines, NEW c \in Chans, Close(g, c)
  PROVE  Abstract!Close(g, c)
<1>1. RestAre /\ PointsAgree
  BY InvHas
<1>2. pc[g] = "idle" /\ UNCHANGED <<buf, op>>
  BY CloseIs
<1>3. op[g] = NoOp /\ outcome[g] = <<>>
  BY <1>1, <1>2, SeenIs DEF PointsAgree
<1>4. CASE closed[c] /\ Outcome(g, <<"panic">>) /\ Settles(g) /\ UNCHANGED closed
  <2>1. pc' = [pc EXCEPT ![g] = "return"] /\ hand' = hand /\ "return" # "parked"
        /\ \A x \in Goroutines \ {g} : done'[x] = done[x]
    BY <1>4 DEF Settles
  <2>2. pc[g] # "parked"
    BY <1>2
  <2>3. outcome' = [outcome EXCEPT ![g] = <<"panic">>]
    BY <1>4, <2>1, <2>2, SeenSettled, Zenon
  <2>4. closed' = [closed EXCEPT ![c] = TRUE]
    BY <1>1, <1>4 DEF RestAre
  <2>5. QED
    BY <1>2, <1>3, <1>4, <2>3, <2>4 DEF Abstract!Close, Abstract!Outcome
<1>5. CASE /\ ~closed[c] /\ Outcome(g, <<"close">>)
           /\ pc' = [x \in Goroutines |->
                       IF x = g THEN "return"
                       ELSE IF x \in Waiters(c) THEN "woken" ELSE pc[x]]
           /\ done' = [x \in Goroutines |-> done[x] \/ x \in Waiters(c)]
           /\ closed' = [closed EXCEPT ![c] = TRUE]
           /\ UNCHANGED hand
  <2> DEFINE f == [outcome EXCEPT ![g] = <<"close">>]
  <2>1. outcome \in [Goroutines -> Outcomes]
    BY SeenIs
  <2>2. /\ \A x \in Goroutines : f[x] = IF x = g THEN <<"close">> ELSE outcome[x]
        /\ f = [x \in Goroutines |-> f[x]]
    BY <2>1
  <2>3. \A x \in Goroutines : out'[x] = IF x = g THEN <<"close">> ELSE out[x]
    BY <1>1, <1>5 DEF RestAre, Outcome
  <2>4. \A x \in Waiters(c) : pc[x] = "parked" /\ ~done[x]
    BY DEF Waiters, Sleeping
  <2>5. /\ \A x \in Goroutines :
             pc'[x] = IF x = g THEN "return"
                      ELSE IF x \in Waiters(c) THEN "woken" ELSE pc[x]
        /\ \A x \in Goroutines : done'[x] = (done[x] \/ x \in Waiters(c))
    BY <1>5
  <2>6. \A x \in Goroutines :
          pc'[x] = "parked" /\ done'[x] <=> pc[x] = "parked" /\ done[x]
    BY <1>2, <2>4, <2>5
  <2>7. \A x \in Goroutines : ~(pc[x] = "parked" /\ done[x]) => outcome[x] = out[x]
    BY SeenIs
  <2>8. outcome' = f
    <3> HIDE DEF f
    <3>1. \A x \in Goroutines :
            /\ pc'[x] = "parked" /\ done'[x] <=> pc[x] = "parked" /\ done[x]
            /\ f[x] = IF pc[x] = "parked" /\ done[x] THEN outcome[x] ELSE out'[x]
      BY <1>2, <2>2, <2>3, <2>6, <2>7
    <3>2. hand' = hand
      BY <1>5
    <3>3. QED
      BY <2>2, <3>1, <3>2, SeenMoves, Zenon
  <2>9. QED
    BY <1>2, <1>3, <1>5, <2>8 DEF Abstract!Close, Abstract!Outcome
<1>6. QED
  BY <1>4, <1>5, CloseIs

\* Each step of the channels is a step of the abstract channels, or none.
LEMMA NextRefines ==
  ASSUME IInv, IInv', [Next]_vars
  PROVE  [Abstract!Next]_(Abstract!vars)
<1>1. RestAre /\ PointsAgree
  BY InvHas
<1>2. CASE UNCHANGED vars
  BY <1>2 DEF vars, outcome, Abstract!vars
<1>3. ASSUME NEW g \in Goroutines, NEW o \in Offers, Call(g, o)
      PROVE  Abstract!Next
  <2>1. /\ pc[g] = "idle" /\ op' = [op EXCEPT ![g] = o]
        /\ UNCHANGED <<buf, closed, done, hand, out>>
        /\ \E p \in {"second", "try"} : pc' = [pc EXCEPT ![g] = p]
    BY <1>3 DEF Call, Goto
  <2>2. \A x \in Goroutines : pc'[x] = "parked" <=> pc[x] = "parked"
    BY <1>1, <2>1 DEF RestAre
  <2>3. outcome' = outcome
    BY <2>1, <2>2, SeenKept
  <2>4. op[g] = NoOp /\ outcome[g] = <<>>
    BY <1>1, <2>1, SeenIs DEF PointsAgree
  <2>5. Abstract!Call(g)
    BY <2>1, <2>3, <2>4 DEF Abstract!Call
  <2>6. QED
    BY <2>5, Zenon DEF Abstract!Next
<1>4. ASSUME NEW g \in Goroutines, NEW c \in Closable, Close(g, c)
      PROVE  Abstract!Next
  <2>1. c \in Chans /\ Abstract!Close(g, c)
    BY <1>4, CloseRefines, ChanAssumption
  <2>2. QED
    BY <2>1, Zenon DEF Abstract!Next
<1>5. ASSUME NEW g \in Goroutines, Second(g)
      PROVE  [Abstract!Next]_(Abstract!vars)
  <2>1. pc[g] = "second" /\ UNCHANGED <<buf, closed, op>>
    BY <1>5 DEF Second
  <2>2. CASE Finish(g, <<"default">>)
    <3>1. /\ Outcome(g, <<"default">>) /\ pc' = [pc EXCEPT ![g] = "return"]
          /\ hand' = hand /\ "return" # "parked" /\ pc[g] # "parked"
          /\ \A x \in Goroutines \ {g} : done'[x] = done[x]
      BY <2>1, <2>2 DEF Finish, Goto, Outcome
    <3>2. outcome' = [outcome EXCEPT ![g] = <<"default">>]
      BY <3>1, SeenSettled, Zenon
    <3>3. ~op[g].block /\ outcome[g] = <<>>
      BY <1>1, <2>1, SeenIs DEF PointsAgree
    <3>4. Abstract!Default(g)
      BY <2>1, <3>2, <3>3 DEF Abstract!Default, Abstract!Outcome
    <3>5. QED
      BY <3>4, Zenon DEF Abstract!Next
  <2>3. CASE Goto(g, "try") /\ UNCHANGED <<done, hand, out>>
    <3>1. \A x \in Goroutines : pc'[x] = "parked" <=> pc[x] = "parked"
      BY <1>1, <2>1, <2>3 DEF RestAre, Goto
    <3>2. QED
      BY <2>1, <2>3, <3>1, SeenStays
  <2>4. QED
    BY <1>5, <2>2, <2>3 DEF Second
<1>6. ASSUME NEW g \in Goroutines, Try(g)
      PROVE  [Abstract!Next]_(Abstract!vars)
  <2>1. pc[g] \in {"try", "woken"} /\ out[g] = <<>> /\ Attempts(g) /\ QueuesKept
    BY <1>6, TryIs
  <2>2. QED
    BY <2>1, AttemptRefines, Zenon
<1>7. ASSUME NEW g \in Goroutines, Woken(g)
      PROVE  [Abstract!Next]_(Abstract!vars)
  <2>1. CASE out[g] = <<>> /\ Attempts(g) /\ QueuesKept
    <3>1. pc[g] \in {"try", "woken"}
      BY <1>7 DEF Woken
    <3>2. QED
      BY <2>1, <3>1, AttemptRefines, Zenon
  <2>2. CASE /\ QueuesKept /\ pc' = [pc EXCEPT ![g] = "return"]
             /\ UNCHANGED <<buf, done, hand, out>>
    <3>1. pc[g] # "parked" /\ UNCHANGED <<closed, op>>
      BY <1>7, <2>2 DEF Woken, QueuesKept
    <3>2. \A x \in Goroutines : pc'[x] = "parked" <=> pc[x] = "parked"
      BY <1>1, <2>2, <3>1 DEF RestAre
    <3>3. QED
      BY <2>2, <3>1, <3>2, SeenStays
  <2>3. QED
    BY <1>7, <2>1, <2>2, WokenIs
<1>8. ASSUME NEW g \in Goroutines, Return(g)
      PROVE  Abstract!Next
  <2>1. /\ pc[g] = "return" /\ op' = [op EXCEPT ![g] = NoOp]
        /\ UNCHANGED <<buf, closed>>
    BY <1>8 DEF Return
  <2>2. /\ Outcome(g, <<>>) /\ pc' = [pc EXCEPT ![g] = "idle"]
        /\ hand' = hand /\ "idle" # "parked" /\ pc[g] # "parked"
        /\ \A x \in Goroutines \ {g} : done'[x] = done[x]
    <3>1. done' = [done EXCEPT ![g] = FALSE]
      BY <1>8 DEF Return
    <3>2. QED
      BY <1>1, <1>8, <3>1 DEF Return, Goto, Outcome, RestAre
  <2>3. outcome' = [outcome EXCEPT ![g] = <<>>]
    BY <2>2, SeenSettled, Zenon
  <2>4. outcome[g] # <<>>
    BY <1>1, <2>1, SeenIs DEF PointsAgree
  <2>5. Abstract!Return(g)
    BY <2>1, <2>3, <2>4 DEF Abstract!Return, Abstract!Outcome
  <2>6. QED
    BY <2>5, Zenon DEF Abstract!Next
<1>9. ASSUME NEW g \in Goroutines, Deliver(g)
      PROVE  [Abstract!Next]_(Abstract!vars)
  BY <1>9, DeliverRefines
<1>10. QED
  BY <1>2, <1>3, <1>4, <1>5, <1>6, <1>7, <1>8, <1>9 DEF Next, Begin, Continue

\* Channels are what they promise: every execution is one of bounded queues
\* and of meetings, in which an operation takes effect in one step.  Between
\* the claim of a waiter and the delivery its outcome is in the hand of another.
THEOREM Refinement == Spec => ImplementsChannels
<1>1. Init => Abstract!Init
  <2> SUFFICES ASSUME Init
               PROVE  Abstract!Init
    OBVIOUS
  <2>1. \A g \in Goroutines : outcome[g] = <<>>
    BY DEF Init, outcome
  <2>2. outcome = [g \in Goroutines |-> <<>>]
    BY <2>1 DEF outcome
  <2>3. QED
    BY <2>2 DEF Init, Abstract!Init
<1>2. IInv /\ [Next]_vars => IInv'
  BY NextInv
<1>3. IInv /\ IInv' /\ [Next]_vars => [Abstract!Next]_(Abstract!vars)
  BY NextRefines
<1>4. QED
  BY <1>1, <1>2, <1>3, Invariant, PTL DEF Spec, ImplementsChannels, Abstract!Spec
=============================================================================
