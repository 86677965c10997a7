---------------------------- MODULE RunQueueProofs ----------------------------
(***************************************************************************)
(* Theorems about the run queues of the scheduler (RunQueue.tla), for every *)
(* finite set of Ps, every even size of the rings, every modulus that is a *)
(* multiple of it and twice as large, and any number of goroutines.        *)
(***************************************************************************)
EXTENDS RunQueue, FiniteSetTheorems, SequenceTheorems, TLAPS

(* Numbers modulo n *)

LEMMA Times == \A n \in Nat \ {0}, q \in Int : q >= 1 => n * q >= n
<1>1. SUFFICES ASSUME NEW n \in Nat \ {0}, NEW q \in Int, q >= 1
               PROVE  n * q >= n
  OBVIOUS
<1>2. PICK d \in Nat : q = d + 1
  BY <1>1, q - 1 \in Nat
<1>3. n * q = n * d + n
  BY <1>2
<1>4. n * d >= 0
  OBVIOUS
<1>5. QED
  BY <1>3, <1>4

\* Division with remainder.
LEMMA Divided ==
  ASSUME NEW n \in Nat \ {0}, NEW x \in Int
  PROVE  /\ x % n \in 0..(n - 1)
         /\ \E q \in Int : x = n * q + (x % n)
<1>1. x = n * (x \div n) + (x % n) /\ x \div n \in Int /\ x % n \in 0..(n - 1)
  OBVIOUS
<1>2. QED
  BY <1>1

\* The remainder is unique.
LEMMA ModIs ==
  ASSUME NEW n \in Nat \ {0}, NEW q \in Int, NEW r \in 0..(n - 1)
  PROVE  (n * q + r) % n = r
<1> DEFINE x == n * q + r
           s == x % n
<1>1. x \in Int
  OBVIOUS
<1>2. s \in 0..(n - 1) /\ \E e \in Int : x = n * e + s
  <2> HIDE DEF x
  <2>1. QED
    BY <1>1, Divided
<1>3. PICK e \in Int : n * q + r = n * e + s
  BY <1>2
<1>4. n * (q - e) = s - r /\ n * (e - q) = r - s
  <2> HIDE DEF s
  <2>1. QED
    BY <1>2, <1>3
<1>5. q - e < 1 /\ e - q < 1
  <2> HIDE DEF s
  <2>1. n \in Nat \ {0} /\ q - e \in Int /\ e - q \in Int
    OBVIOUS
  <2>2. s - r < n /\ r - s < n
    BY <1>2
  <2>3. QED
    BY <1>4, <2>1, <2>2, Times
<1>6. e = q
  BY <1>5
<1>7. QED
  <2> HIDE DEF s
  <2>1. s = r
    BY <1>2, <1>3, <1>6
  <2>2. QED
    BY <2>1 DEF s

\* Of numbers close to the range of remainders.
LEMMA ModNear ==
  ASSUME NEW n \in Nat \ {0}, NEW x \in Int
  PROVE  /\ x % n \in 0..(n - 1)
         /\ x \in 0..(n - 1) => x % n = x
         /\ x \in n..(2 * n - 1) => x % n = x - n
         /\ x \in (-n)..(-1) => x % n = x + n
<1>1. x % n \in 0..(n - 1)
  BY Divided
<1>2. ASSUME x \in 0..(n - 1)
      PROVE  x % n = x
  <2>1. (n * 0 + x) % n = x
    BY <1>2, ModIs, 0 \in Int
  <2>2. QED
    BY <2>1
<1>3. ASSUME x \in n..(2 * n - 1)
      PROVE  x % n = x - n
  <2>1. (n * 1 + (x - n)) % n = x - n
    BY <1>3, ModIs, 1 \in Int, x - n \in 0..(n - 1)
  <2>2. QED
    BY <2>1
<1>4. ASSUME x \in (-n)..(-1)
      PROVE  x % n = x + n
  <2>1. (n * (-1) + (x + n)) % n = x + n
    BY <1>4, ModIs, -1 \in Int, x + n \in 0..(n - 1)
  <2>2. QED
    BY <2>1
<1>5. QED
  BY <1>1, <1>2, <1>3, <1>4

\* A multiple of n more does not count.
LEMMA ModShift ==
  ASSUME NEW n \in Nat \ {0}, NEW w \in Int, w % n = 0, NEW x \in Int
  PROVE  (x + w) % n = x % n
<1>1. PICK d \in Int : w = n * d
  <2>1. PICK d \in Int : w = n * d + (w % n)
    BY Divided
  <2>2. w = n * d
    BY <2>1
  <2>3. QED
    BY <2>2
<1> DEFINE r == x % n
<1>2. r \in 0..(n - 1) /\ \E q \in Int : x = n * q + r
  BY Divided
<1> HIDE DEF r
<1>3. PICK q \in Int : x = n * q + r
  BY <1>2
<1>4. x + w = n * (q + d) + r
  BY <1>1, <1>2, <1>3
<1>5. (n * (q + d) + r) % n = r
  BY <1>2, ModIs, q + d \in Int
<1>6. QED
  BY <1>4, <1>5 DEF r

\* Numbers that differ by less than n have different remainders.
LEMMA ModOne ==
  ASSUME NEW n \in Nat \ {0}, NEW x \in Int, NEW j \in 0..(n - 1), NEW k \in 0..(n - 1),
         (x + j) % n = (x + k) % n
  PROVE  j = k
<1> DEFINE y == x + j
           z == x + k
           r == y % n
<1>1. y \in Int /\ z \in Int /\ r = z % n
  OBVIOUS
<1>2. r \in 0..(n - 1) /\ \E a \in Int : y = n * a + r
  <2> HIDE DEF y
  <2>1. QED
    BY <1>1, Divided
<1>3. \E b \in Int : z = n * b + r
  <2> HIDE DEF y, z, r
  <2>1. QED
    BY <1>1, Divided
<1> HIDE DEF r
<1>4. PICK a \in Int, b \in Int : x + j = n * a + r /\ x + k = n * b + r
  BY <1>2, <1>3
<1>5. n * (a - b) = j - k /\ n * (b - a) = k - j
  BY <1>2, <1>4
<1>6. a - b < 1 /\ b - a < 1
  <2>1. n \in Nat \ {0} /\ a - b \in Int /\ b - a \in Int
    OBVIOUS
  <2>2. j - k < n /\ k - j < n
    OBVIOUS
  <2>3. QED
    BY <1>5, <2>1, <2>2, Times
<1>7. a = b
  BY <1>6
<1>8. QED
  BY <1>2, <1>4, <1>7
-----------------------------------------------------------------------------
(* Positions in a ring *)

Counter == 0..(W - 1)

LEMMA Params ==
  /\ Size \in Nat \ {0} /\ W \in Nat \ {0} /\ W % Size = 0 /\ W >= 2 * Size
  /\ Size \div 2 \in Nat \ {0} /\ Size = 2 * (Size \div 2)
<1>1. Size \in Nat \ {0} /\ Size % 2 = 0
  BY RunQueueAssumption
<1>2. Size \div 2 \in Nat \ {0} /\ Size = 2 * (Size \div 2)
  BY <1>1
<1>3. QED
  BY <1>1, <1>2, RunQueueAssumption

LEMMA DistIs ==
  ASSUME NEW a \in Counter, NEW b \in Counter
  PROVE  /\ Dist(a, b) = IF b <= a THEN a - b ELSE a - b + W
         /\ Dist(a, b) \in Counter
         /\ Dist(a, b) = 0 <=> a = b
<1>1. W \in Nat \ {0}
  BY Params
<1>2. CASE b <= a
  <2> DEFINE x == a - b
  <2>1. x \in 0..(W - 1) /\ x \in Int
    BY <1>1, <1>2 DEF Counter
  <2>2. x % W = x
    <3> HIDE DEF x
    <3>1. QED
      BY <1>1, <2>1, ModNear
  <2>3. QED
    BY <1>1, <1>2, <2>1, <2>2 DEF Counter, Dist
<1>3. CASE ~(b <= a)
  <2> DEFINE x == a - b
  <2>1. x \in (-W)..(-1) /\ x \in Int
    BY <1>1, <1>3 DEF Counter
  <2>2. x % W = x + W
    <3> HIDE DEF x
    <3>1. QED
      BY <1>1, <2>1, ModNear
  <2>3. QED
    BY <1>1, <1>3, <2>1, <2>2 DEF Counter, Dist
<1>4. QED
  BY <1>2, <1>3

LEMMA PlusIs ==
  ASSUME NEW a \in Counter, NEW k \in 0..W
  PROVE  /\ (a + k) % W = IF a + k < W THEN a + k ELSE a + k - W
         /\ (a + k) % W \in Counter
<1>1. W \in Nat \ {0}
  BY Params
<1>2. CASE a + k < W
  <2> DEFINE x == a + k
  <2>1. x \in 0..(W - 1) /\ x \in Int
    BY <1>1, <1>2 DEF Counter
  <2>2. x % W = x
    <3> HIDE DEF x
    <3>1. QED
      BY <1>1, <2>1, ModNear
  <2>3. QED
    BY <1>2, <2>1, <2>2 DEF Counter
<1>3. CASE ~(a + k < W)
  <2> DEFINE x == a + k
  <2>1. x \in W..(2 * W - 1) /\ x \in Int
    BY <1>1, <1>3 DEF Counter
  <2>2. x % W = x - W
    <3> HIDE DEF x
    <3>1. QED
      BY <1>1, <2>1, ModNear
  <2>3. QED
    BY <1>1, <1>3, <2>1, <2>2 DEF Counter
<1>4. QED
  BY <1>2, <1>3

LEMMA SlotIs ==
  /\ \A x \in Int : Slot(x) \in Slots
  /\ \A x \in Int, j, k \in Slots : Slot(x + j) = Slot(x + k) => j = k
  /\ \A a \in Counter, k \in 0..W, j \in Int : Slot(((a + k) % W) + j) = Slot(a + k + j)
<1>1. Size \in Nat \ {0} /\ W \in Nat /\ W % Size = 0
  BY Params
<1>2. \A x \in Int : Slot(x) \in Slots
  BY <1>1, Divided DEF Slot, Slots
<1>3. \A x \in Int, j, k \in Slots : Slot(x + j) = Slot(x + k) => j = k
  BY <1>1, ModOne DEF Slot, Slots
<1>4. ASSUME NEW a \in Counter, NEW k \in 0..W, NEW j \in Int
      PROVE  Slot(((a + k) % W) + j) = Slot(a + k + j)
  <2>1. a \in Int /\ k \in Int
    BY <1>1 DEF Counter
  <2>2. CASE (a + k) % W = a + k
    BY <2>2
  <2>3. CASE (a + k) % W = (a + k) - W
    <3> DEFINE y == ((a + k) - W) + j
    <3>1. y \in Int /\ W \in Int /\ y + W = a + k + j
      BY <1>1, <2>1
    <3>2. (y + W) % Size = y % Size
      <4> HIDE DEF y
      <4>1. QED
        BY <1>1, <3>1, ModShift
    <3>3. QED
      BY <2>3, <3>1, <3>2 DEF Slot
  <2>4. (a + k) % W = a + k \/ (a + k) % W = (a + k) - W
    <3>1. a + k - W = (a + k) - W
      BY <1>1, <2>1
    <3>2. QED
      BY <3>1, PlusIs
  <2>5. QED
    BY <2>2, <2>3, <2>4
<1>5. QED
  BY <1>2, <1>3, <1>4

\* A head that moves towards the tail, and what is behind it.
LEMMA HeadSteps ==
  ASSUME NEW hd \in Counter, NEW tl \in Counter, NEW m \in 0..Dist(tl, hd)
  PROVE  /\ (hd + m) % W \in Counter
         /\ Dist(tl, (hd + m) % W) = Dist(tl, hd) - m
         /\ \A x \in Counter :
              Dist(hd, x) <= Dist(tl, x)
                => /\ Dist((hd + m) % W, x) = Dist(hd, x) + m
                   /\ Dist((hd + m) % W, x) <= Dist(tl, x)
<1>1. W \in Nat \ {0} /\ Dist(tl, hd) \in Counter
  BY Params, DistIs
<1>2. m \in 0..W /\ m \in Nat
  BY <1>1 DEF Counter
<1> DEFINE e == (hd + m) % W
<1>3. e = (IF hd + m < W THEN hd + m ELSE hd + m - W) /\ e \in Counter
  BY <1>2, PlusIs
<1> HIDE DEF e
<1>4. Dist(tl, hd) = IF hd <= tl THEN tl - hd ELSE tl - hd + W
  BY DistIs
<1>5. Dist(tl, e) = IF e <= tl THEN tl - e ELSE tl - e + W
  BY <1>3, DistIs
<1>6. Dist(tl, e) = Dist(tl, hd) - m
  BY <1>1, <1>2, <1>3, <1>4, <1>5 DEF Counter
<1>7. ASSUME NEW x \in Counter, Dist(hd, x) <= Dist(tl, x)
      PROVE  Dist(e, x) = Dist(hd, x) + m /\ Dist(e, x) <= Dist(tl, x)
  <2>1. /\ Dist(hd, x) = IF x <= hd THEN hd - x ELSE hd - x + W
        /\ Dist(tl, x) = IF x <= tl THEN tl - x ELSE tl - x + W
    BY DistIs
  <2>2. Dist(e, x) = IF x <= e THEN e - x ELSE e - x + W
    BY <1>3, DistIs
  <2>3. QED
    BY <1>1, <1>2, <1>3, <1>4, <1>7, <2>1, <2>2 DEF Counter
<1>8. QED
  BY <1>3, <1>6, <1>7 DEF e

\* A tail that moves on, but not over x.
LEMMA TailSteps ==
  ASSUME NEW tl \in Counter, NEW m \in 0..(W - 1), NEW x \in Counter,
         Dist(tl, x) + m < W \/ \A k \in 1..m : Dist(tl + k, x) # 0
  PROVE  /\ (tl + m) % W \in Counter
         /\ Dist((tl + m) % W, x) = Dist(tl, x) + m
         /\ Dist((tl + m) % W, tl) = m
<1>1. W \in Nat \ {0} /\ Dist(tl, x) \in Counter
  BY Params, DistIs
<1>2. m \in 0..W /\ m \in Nat
  BY <1>1
<1> DEFINE e == (tl + m) % W
<1>3. e = (IF tl + m < W THEN tl + m ELSE tl + m - W) /\ e \in Counter
  BY <1>2, PlusIs
<1>4. Dist(tl, x) + m < W
  <2>1. SUFFICES ASSUME Dist(tl, x) + m >= W, \A k \in 1..m : Dist(tl + k, x) # 0
                 PROVE  FALSE
    BY <1>1, <1>2 DEF Counter
  <2> DEFINE k == W - Dist(tl, x)
  <2>2. Dist(tl, x) = IF x <= tl THEN tl - x ELSE tl - x + W
    BY DistIs
  <2>3. k \in 1..m /\ (tl + k) - x \in {0, W}
    BY <1>1, <1>2, <2>1, <2>2 DEF Counter
  <2>4. ((tl + k) - x) % W = 0
    <3>1. 0 % W = 0 /\ W % W = 0
      BY <1>1, ModNear
    <3>2. QED
      BY <2>3, <3>1
  <2> HIDE DEF k
  <2>5. Dist(tl + k, x) = 0
    BY <2>4 DEF Dist
  <2>6. QED
    BY <2>1, <2>3, <2>5
<1>5. /\ Dist(tl, x) = IF x <= tl THEN tl - x ELSE tl - x + W
      /\ Dist(e, x) = IF x <= e THEN e - x ELSE e - x + W
      /\ Dist(e, tl) = IF tl <= e THEN e - tl ELSE e - tl + W
  BY <1>3, DistIs
<1> HIDE DEF e
<1>6. Dist(e, x) = Dist(tl, x) + m /\ Dist(e, tl) = m
  BY <1>1, <1>2, <1>3, <1>4, <1>5 DEF Counter
<1>7. QED
  BY <1>3, <1>6 DEF e
-----------------------------------------------------------------------------
(* The invariant, one P at a time *)

PointOf(p) ==
  /\ curg[p] # None
       <=> pc[p] \in {"run", "next", "put", "write", "publish", "slow", "spill"}
  /\ gp[p] # None <=> pc[p] \in {"next", "put", "write", "publish", "slow"}
  /\ pc[p] = "spill" => batch[p] # <<>>
  /\ pc[p] \in Seeking => head[p] = tail[p]
  /\ pc[p] \in Seeking \ {"find"} => grab[p].victim \in Procs \ {p}
  /\ pc[p] = "cas" => grab[p].next # None

LockOf(p) ==
  /\ lock = p => /\ pc[p] \in {"put", "write", "publish"}
                 /\ InRing(p) + Len(batch[p]) + 1 <= Size \div 2
  /\ batch[p] # <<>> => pc[p] = "spill" \/ lock = p

OldOf(p) ==
  /\ pc[p] \in {"take", "slow"} => Behind(h[p], p) /\ h[p] # tail[p]
  /\ pc[p] \in {"tail", "copy", "claim"} => Behind(h[p], grab[p].victim)
  /\ pc[p] \in {"copy", "claim", "commit"} => grab[p].n \in 1..(Size \div 2)
  /\ pc[p] \in {"copy", "claim"} => grab[p].n <= Dist(tail[grab[p].victim], h[p])
  /\ pc[p] = "copy" => grab[p].i < grab[p].n
  /\ pc[p] = "claim" => grab[p].i = grab[p].n

RingFull(p) == \A k \in 0..(InRing(p) - 1) : runq[p][Slot(head[p] + k)] # None

FilledOf(p) ==
  /\ RingFull(p)
  /\ pc[p] = "publish" => runq[p][Slot(tail[p])] = gp[p]
  /\ pc[p] = "commit" =>
       \A k \in 0..(grab[p].n - 1) : runq[p][Slot(tail[p] + k)] # None
  /\ pc[p] \in {"copy", "claim"} /\ head[grab[p].victim] = h[p] =>
       \A k \in 0..(grab[p].i - 1) :
         runq[p][Slot(tail[p] + k)] = runq[grab[p].victim][Slot(h[p] + k)]

ChecksOf(p) ==
  /\ InRing(p) <= Size
  /\ pc[p] \in {"write", "publish"} => InRing(p) < Size
  /\ pc[p] = "commit" => InRing(p) + grab[p].n - 1 < Size
  /\ pc[p] = "slow" => Dist(tail[p], h[p]) = Size
  /\ pc[p] \in {"slow", "spill"} => lock # p
  /\ pc[p] = "find" => head[p] = tail[p]

Good(p) == PointOf(p) /\ LockOf(p) /\ OldOf(p) /\ FilledOf(p) /\ ChecksOf(p)

LEMMA InvHas == RingInv => TypeOK /\ \A p \in Procs : Good(p)
BY DEF RingInv, PointsAgree, LockKept, HeadsAreOld, SlotsFilled, NoThrow, Good, PointOf,
  LockOf, OldOf, RingFull, FilledOf, ChecksOf

LEMMA InvNext ==
  ASSUME TypeOK', \A p \in Procs : Good(p)'
  PROVE  RingInv'
BY DEF RingInv, PointsAgree, LockKept, HeadsAreOld, SlotsFilled, NoThrow, Good, PointOf,
  LockOf, OldOf, RingFull, FilledOf, ChecksOf

\* The types that the arithmetic needs.
LEMMA Types ==
  ASSUME TypeOK
  PROVE  /\ \A p \in Procs :
              /\ head[p] \in Counter /\ tail[p] \in Counter /\ h[p] \in Counter
              /\ InRing(p) \in Nat /\ InRing(p) < W
              /\ grab[p].n \in Nat /\ grab[p].n <= Size /\ grab[p].i \in Nat
              /\ Len(batch[p]) \in Nat
         /\ \A a, b \in Counter : Dist(a, b) \in Nat /\ Dist(a, b) < W
         /\ \A x \in Counter : x \in Nat /\ x < W
<1>1. W \in Nat \ {0} /\ Size \in Nat
  BY Params
<1>2. \A a \in Counter : a \in Nat /\ a < W
  BY <1>1 DEF Counter
<1>3. \A a, b \in Counter : Dist(a, b) \in Nat /\ Dist(a, b) < W
  BY <1>2, DistIs
<1>4. ASSUME NEW p \in Procs
      PROVE  /\ head[p] \in Counter /\ tail[p] \in Counter /\ h[p] \in Counter
             /\ grab[p].n \in Nat /\ grab[p].n <= Size /\ grab[p].i \in Nat
             /\ Len(batch[p]) \in Nat
  <2>1. head[p] \in Counter /\ tail[p] \in Counter /\ h[p] \in Counter
    BY DEF TypeOK, Counter
  <2>2. grab[p].n \in 0..Size /\ grab[p].i \in 0..Size
    BY DEF TypeOK
  <2>3. batch[p] \in Seq(Goroutines)
    BY DEF TypeOK
  <2>4. QED
    BY <1>1, <2>1, <2>2, <2>3
<1>5. QED
  BY <1>2, <1>3, <1>4 DEF InRing

\* The tail is as many slots from the head as there are goroutines.
LEMMA TailSlot ==
  ASSUME TypeOK, NEW p \in Procs
  PROVE  Slot(tail[p]) = Slot(head[p] + InRing(p))
<1>1. /\ head[p] \in Counter /\ tail[p] \in Counter /\ W \in Nat \ {0}
      /\ \A x \in Counter : x \in Nat /\ x < W
  BY Types, Params
<1>2. InRing(p) = IF head[p] <= tail[p] THEN tail[p] - head[p] ELSE tail[p] - head[p] + W
  BY <1>1, DistIs DEF InRing
<1>3. CASE head[p] + InRing(p) = tail[p]
  BY <1>3
<1>4. CASE head[p] + InRing(p) = tail[p] + W
  <2> DEFINE x == tail[p]
  <2>1. x \in Int /\ W \in Int /\ Size \in Nat \ {0} /\ W % Size = 0
    BY <1>1, Params
  <2>2. (x + W) % Size = x % Size
    <3> HIDE DEF x
    <3>1. QED
      BY <2>1, ModShift
  <2>3. QED
    BY <1>4, <2>2 DEF Slot
<1>5. head[p] \in Int /\ tail[p] \in Int
  BY <1>1
<1>6. QED
  BY <1>1, <1>2, <1>3, <1>4, <1>5

\* The P at q does nothing.
Rests(q) ==
  /\ pc'[q] = pc[q] /\ curg'[q] = curg[q] /\ gp'[q] = gp[q] /\ batch'[q] = batch[q]
  /\ h'[q] = h[q] /\ grab'[q] = grab[q]
  /\ lock' = q <=> lock = q

\* A P that changes its own ring only where it has no goroutine, and moves its own
\* tail only forward, does not disturb another.
LEMMA OthersStay ==
  ASSUME RingInv, NEW p \in Procs, NEW q \in Procs \ {p}, Rests(q), head' = head,
         \A x \in Procs \ {p} : tail'[x] = tail[x] /\ runq'[x] = runq[x],
         \A k \in 0..(InRing(p) - 1) :
           runq'[p][Slot(head[p] + k)] = runq[p][Slot(head[p] + k)],
         tail'[p] \in Counter,
         Reading(q, p) => Dist(tail'[p], h[q]) >= Dist(tail[p], h[q])
  PROVE  Good(q)'
<1>1. TypeOK /\ Good(q) /\ Good(p)
  BY InvHas
<1>2. /\ pc'[q] = pc[q] /\ curg'[q] = curg[q] /\ gp'[q] = gp[q] /\ batch'[q] = batch[q]
      /\ h'[q] = h[q] /\ grab'[q] = grab[q]
      /\ lock' = q <=> lock = q
      /\ head' = head /\ tail'[q] = tail[q] /\ runq'[q] = runq[q]
  BY DEF Rests
<1>3. InRing(q)' = InRing(q)
  BY <1>2 DEF InRing
<1>4. PointOf(q)'
  BY <1>1, <1>2 DEF Good, PointOf
<1>5. LockOf(q)'
  BY <1>1, <1>2, <1>3 DEF Good, LockOf
<1>6. ChecksOf(q)'
  BY <1>1, <1>2, <1>3 DEF Good, ChecksOf
<1>7. CASE pc[q] \in {"tail", "copy", "claim"}
  <2> DEFINE v == grab[q].victim
  <2>1. v \in Procs \ {q}
    BY <1>1, <1>7 DEF Good, PointOf, Seeking
  <2>2. /\ Behind(h[q], v)
        /\ pc[q] # "tail" => grab[q].n <= Dist(tail[v], h[q]) /\ grab[q].i <= grab[q].n
    BY <1>1, <1>7 DEF Good, OldOf, TypeOK
  <2>3. /\ head[v] \in Counter /\ tail[v] \in Counter /\ h[q] \in Counter
        /\ tail'[v] \in Counter /\ grab[q].n \in Nat /\ grab[q].i \in Nat
    BY <1>1, <2>1, Types
  <2>4. /\ Dist(head[v], h[q]) \in Nat /\ Dist(tail[v], h[q]) \in Nat
        /\ Dist(tail'[v], h[q]) \in Nat
    BY <1>1, <2>3, Types
  <2>5. Dist(tail'[v], h[q]) >= Dist(tail[v], h[q])
    <3>1. CASE v = p
      BY <1>7, <3>1 DEF Reading
    <3>2. CASE v # p
      <4>1. tail'[v] = tail[v]
        BY <2>1, <3>2
      <4>2. QED
        BY <2>4, <4>1
    <3>3. QED
      BY <3>1, <3>2
  <2>6. /\ Dist(head'[v], h[q]) <= Dist(tail'[v], h[q])
        /\ pc[q] # "tail" => grab[q].n <= Dist(tail'[v], h[q])
    BY <1>2, <2>2, <2>3, <2>4, <2>5 DEF Behind
  <2>7. OldOf(q)'
    BY <1>1, <1>2, <1>7, <2>6 DEF Good, OldOf, Behind
  <2>8. ASSUME pc[q] \in {"copy", "claim"}, head[v] = h[q], NEW k \in 0..(grab[q].i - 1)
        PROVE  runq'[v][Slot(h[q] + k)] = runq[v][Slot(h[q] + k)]
    <3>1. k < Dist(tail[v], h[q]) /\ k \in Nat
      BY <2>2, <2>3, <2>4, <2>8
    <3>2. CASE v = p
      <4>1. k \in 0..(InRing(p) - 1)
        BY <2>4, <2>8, <3>1, <3>2 DEF InRing
      <4>2. QED
        BY <2>8, <3>2, <4>1
    <3>3. CASE v # p
      BY <2>1, <3>3
    <3>4. QED
      BY <3>2, <3>3
  <2>9. FilledOf(q)'
    <3>1. RingFull(q)'
      BY <1>1, <1>2, <1>3 DEF Good, FilledOf, RingFull
    <3>2. ASSUME pc[q] \in {"copy", "claim"}, head[v] = h[q], NEW k \in 0..(grab[q].i - 1)
          PROVE  runq'[q][Slot(tail[q] + k)] = runq'[v][Slot(h[q] + k)]
      BY <1>1, <1>2, <2>8, <3>2 DEF Good, FilledOf
    <3>3. pc[q] \notin {"publish", "commit"}
      BY <1>7
    <3>4. QED
      BY <1>2, <3>1, <3>2, <3>3 DEF FilledOf
  <2>10. QED
    BY <1>4, <1>5, <1>6, <2>7, <2>9 DEF Good
<1>8. CASE pc[q] \notin {"tail", "copy", "claim"}
  <2>1. OldOf(q)'
    BY <1>1, <1>2, <1>8 DEF Good, OldOf, Behind
  <2>2. FilledOf(q)'
    BY <1>1, <1>2, <1>3, <1>8 DEF Good, FilledOf, RingFull
  <2>3. QED
    BY <1>4, <1>5, <1>6, <2>1, <2>2 DEF Good
<1>9. QED
  BY <1>7, <1>8

\* A head that moves over m goroutines whose slots are cleared, in the ring of v.
LEMMA HeadMoves ==
  ASSUME RingInv, NEW v \in Procs, NEW m \in 1..InRing(v), tail' = tail,
         head' = [head EXCEPT ![v] = (head[v] + m) % W],
         runq' = [runq EXCEPT ![v] = Without(v, head[v], m)]
  PROVE  /\ head'[v] \in Counter
         /\ InRing(v)' = InRing(v) - m
         /\ \A k \in m..(Size - 1) :
              runq'[v][Slot(head[v] + k)] = runq[v][Slot(head[v] + k)]
         /\ RingFull(v)'
         /\ \A x \in Counter : Behind(x, v) => Behind(x, v)' /\ head'[v] # x
         /\ \A q \in Procs \ {v} : head'[q] = head[q] /\ runq'[q] = runq[q]
<1>1. TypeOK /\ Good(v)
  BY InvHas
<1>2. /\ Size \in Nat /\ InRing(v) \in Nat /\ InRing(v) <= Size /\ m \in Nat
      /\ W \in Nat /\ Size < W
  BY <1>1, Types, Params DEF Good, ChecksOf
<1>3. /\ head'[v] = (head[v] + m) % W /\ runq'[v] = Without(v, head[v], m)
      /\ \A q \in Procs \ {v} : head'[q] = head[q] /\ runq'[q] = runq[q]
  BY <1>1 DEF TypeOK
<1>4. head[v] \in Counter /\ tail[v] \in Counter /\ m \in 0..Dist(tail[v], head[v])
  BY <1>1, <1>2, Types DEF InRing
<1>5. /\ head'[v] \in Counter /\ InRing(v)' = InRing(v) - m
      /\ \A x \in Counter :
           Behind(x, v) => Dist(head'[v], x) = Dist(head[v], x) + m /\ Behind(x, v)'
  BY <1>3, <1>4, HeadSteps DEF InRing, Behind
<1>6. ASSUME NEW x \in Counter, Behind(x, v)
      PROVE  Behind(x, v)' /\ head'[v] # x
  <2>1. Dist(head'[v], x) = Dist(head[v], x) + m /\ Behind(x, v)'
    BY <1>5, <1>6
  <2>2. Dist(head[v], x) \in Nat
    BY <1>1, <1>4, Types
  <2>3. Dist(head'[v], x) # 0
    BY <1>2, <2>1, <2>2
  <2>4. QED
    BY <1>5, <2>1, <2>3, DistIs
<1>7. ASSUME NEW k \in m..(Size - 1)
      PROVE  runq'[v][Slot(head[v] + k)] = runq[v][Slot(head[v] + k)]
  <2>1. head[v] \in Int /\ k \in Slots
    BY <1>1, <1>2, <1>4, Types DEF Slots
  <2>2. ASSUME NEW j \in 0..(m - 1)
        PROVE  Slot(head[v] + k) # Slot(head[v] + j)
    <3>1. j \in Slots /\ j # k
      BY <1>2 DEF Slots
    <3>2. QED
      BY <2>1, <3>1, SlotIs
  <2>3. Slot(head[v] + k) \in Slots
    BY <2>1, SlotIs DEF Slots
  <2>4. QED
    BY <1>3, <2>2, <2>3 DEF Without
<1>8. ASSUME NEW k \in 0..(InRing(v)' - 1)
      PROVE  runq'[v][Slot(head'[v] + k)] # None
  <2>1. k \in Int /\ m + k \in m..(Size - 1) /\ m + k \in 0..(InRing(v) - 1)
    BY <1>2, <1>5
  <2>2. Slot(head'[v] + k) = Slot(head[v] + (m + k))
    <3>1. m \in 0..W /\ k \in Int
      BY <1>2, <2>1
    <3>2. Slot(((head[v] + m) % W) + k) = Slot(head[v] + m + k)
      BY <1>4, <3>1, SlotIs
    <3>3. head[v] + m + k = head[v] + (m + k)
      BY <1>1, <1>4, <3>1, Types
    <3>4. QED
      BY <1>3, <3>2, <3>3
  <2>3. runq[v][Slot(head[v] + (m + k))] # None
    BY <1>1, <2>1 DEF Good, FilledOf, RingFull
  <2>4. QED
    BY <1>7, <2>1, <2>2, <2>3
<1>9. QED
  BY <1>3, <1>5, <1>6, <1>7, <1>8 DEF RingFull

\* Then the others find what they found before, or that they came too late.
LEMMA OthersFollow ==
  ASSUME RingInv, NEW v \in Procs, NEW m \in 1..InRing(v), tail' = tail,
         head' = [head EXCEPT ![v] = (head[v] + m) % W],
         runq' = [runq EXCEPT ![v] = Without(v, head[v], m)],
         NEW q \in Procs, Rests(q)
  PROVE  Good(q)'
<1>1. TypeOK /\ Good(q) /\ Good(v)
  BY InvHas
<1>2. /\ pc'[q] = pc[q] /\ curg'[q] = curg[q] /\ gp'[q] = gp[q] /\ batch'[q] = batch[q]
      /\ h'[q] = h[q] /\ grab'[q] = grab[q] /\ tail' = tail
      /\ lock' = q <=> lock = q
  BY DEF Rests
<1>3. /\ head'[v] \in Counter
      /\ InRing(v)' = InRing(v) - m
      /\ \A k \in m..(Size - 1) : runq'[v][Slot(head[v] + k)] = runq[v][Slot(head[v] + k)]
      /\ RingFull(v)'
      /\ \A x \in Counter : Behind(x, v) => Behind(x, v)' /\ head'[v] # x
      /\ \A x \in Procs \ {v} : head'[x] = head[x] /\ runq'[x] = runq[x]
  BY HeadMoves
<1>4. /\ Size \in Nat /\ InRing(q) \in Nat /\ InRing(q) <= Size /\ m \in Nat \ {0}
      /\ InRing(v) \in Nat /\ m <= InRing(v)
      /\ head[q] \in Counter /\ tail[q] \in Counter /\ h[q] \in Counter
      /\ head[v] \in Counter /\ tail[v] \in Counter
  <2>1. /\ head[q] \in Counter /\ tail[q] \in Counter /\ h[q] \in Counter
        /\ head[v] \in Counter /\ tail[v] \in Counter
        /\ InRing(q) \in Nat /\ InRing(v) \in Nat
    BY <1>1, Types
  <2>2. InRing(q) <= Size
    BY <1>1 DEF Good, ChecksOf
  <2>3. m \in Nat \ {0} /\ m <= InRing(v)
    BY <2>1
  <2>4. QED
    BY <2>1, <2>2, <2>3, Params
<1>5. InRing(q)' = (IF q = v THEN InRing(q) - m ELSE InRing(q)) /\ InRing(q)' \in Nat
  BY <1>2, <1>3, <1>4 DEF InRing
<1>6. RingFull(q)'
  <2>1. CASE q = v
    BY <1>3, <2>1
  <2>2. CASE q # v
    BY <1>1, <1>2, <1>3, <1>5, <2>2 DEF Good, FilledOf, RingFull
  <2>3. QED
    BY <2>1, <2>2
<1>7. q = v => pc[q] \notin Seeking
  <2>1. q = v => Dist(tail[q], head[q]) # 0
    BY <1>4 DEF InRing
  <2>2. QED
    BY <1>1, <1>4, <2>1, DistIs DEF Good, PointOf
<1>8. PointOf(q)'
  BY <1>1, <1>2, <1>3, <1>7 DEF Good, PointOf
<1>9. LockOf(q)'
  <2>1. Len(batch[q]) \in Nat /\ Size \div 2 \in Nat
    BY <1>1, Types, Params
  <2>2. QED
    BY <1>1, <1>2, <1>4, <1>5, <2>1 DEF Good, LockOf
<1>10. ChecksOf(q)'
  <2>1. grab[q].n \in Nat
    BY <1>1, Types
  <2>2. pc[q] = "find" => head'[q] = tail'[q]
    BY <1>1, <1>2, <1>3, <1>7 DEF Good, ChecksOf, Seeking
  <2>3. QED
    BY <1>1, <1>2, <1>4, <1>5, <2>1, <2>2 DEF Good, ChecksOf
<1>11. OldOf(q)'
  <2>1. pc[q] \in {"take", "slow"} => Behind(h[q], q)'
    <3>1. CASE q = v
      BY <1>1, <1>2, <1>3, <1>4, <3>1 DEF Good, OldOf, Behind
    <3>2. CASE q # v
      BY <1>1, <1>2, <1>3, <3>2 DEF Good, OldOf, Behind
    <3>3. QED
      BY <3>1, <3>2
  <2>2. pc[q] \in {"tail", "copy", "claim"} => Behind(h[q], grab[q].victim)'
    <3> DEFINE w == grab[q].victim
    <3>1. SUFFICES ASSUME pc[q] \in {"tail", "copy", "claim"}
                   PROVE  Behind(h[q], w)'
      BY <1>2 DEF Behind
    <3>2. w \in Procs /\ Behind(h[q], w)
      BY <1>1, <3>1 DEF Good, PointOf, Seeking, OldOf
    <3>3. CASE w = v
      BY <1>2, <1>3, <1>4, <3>2, <3>3 DEF Behind
    <3>4. CASE w # v
      BY <1>2, <1>3, <3>2, <3>4 DEF Behind
    <3>5. QED
      BY <3>3, <3>4
  <2>3. QED
    BY <1>1, <1>2, <2>1, <2>2 DEF Good, OldOf, Behind
<1>12. FilledOf(q)'
  <2>1. pc[q] = "publish" => runq'[q][Slot(tail[q])] = gp[q]
    <3>1. SUFFICES ASSUME pc[q] = "publish"
                   PROVE  runq'[q][Slot(tail[q])] = gp[q]
      OBVIOUS
    <3>2. runq[q][Slot(tail[q])] = gp[q]
      BY <1>1, <3>1 DEF Good, FilledOf
    <3>3. CASE q = v
      <4>1. InRing(q) \in m..(Size - 1)
        BY <1>1, <1>4, <3>1, <3>3 DEF Good, ChecksOf
      <4>2. Slot(tail[q]) = Slot(head[q] + InRing(q))
        BY TailSlot, <1>1
      <4>3. QED
        BY <1>3, <3>2, <3>3, <4>1, <4>2
    <3>4. CASE q # v
      BY <1>3, <3>2, <3>4
    <3>5. QED
      BY <3>3, <3>4
  <2>2. pc[q] = "commit" =>
          \A k \in 0..(grab[q].n - 1) : runq'[q][Slot(tail[q] + k)] # None
    BY <1>1, <1>3, <1>7 DEF Good, FilledOf, Seeking
  <2>3. ASSUME pc[q] \in {"copy", "claim"}, head'[grab[q].victim] = h[q],
               NEW k \in 0..(grab[q].i - 1)
        PROVE  runq'[q][Slot(tail[q] + k)] = runq'[grab[q].victim][Slot(h[q] + k)]
    <3> DEFINE w == grab[q].victim
    <3>1. w \in Procs /\ Behind(h[q], w) /\ q # v
      BY <1>1, <1>7, <2>3 DEF Good, PointOf, Seeking, OldOf
    <3>2. w # v
      BY <1>3, <1>4, <2>3, <3>1
    <3>3. QED
      BY <1>1, <1>3, <2>3, <3>1, <3>2 DEF Good, FilledOf
  <2>4. QED
    BY <1>2, <1>6, <2>1, <2>2, <2>3 DEF FilledOf
<1>13. QED
  BY <1>8, <1>9, <1>10, <1>11, <1>12 DEF Good
-----------------------------------------------------------------------------
(* The steps that change no ring *)

LEMMA Quiet ==
  ASSUME RingInv, TypeOK', NEW p \in Procs, head' = head, tail' = tail, runq' = runq,
         \A q \in Procs \ {p} : Rests(q),
         PointOf(p)', LockOf(p)', OldOf(p)', ChecksOf(p)',
         pc'[p] \notin {"publish", "commit", "claim"}, pc'[p] = "copy" => grab'[p].i = 0
  PROVE  RingInv'
<1>1. TypeOK /\ Good(p)
  BY InvHas
<1>2. FilledOf(p)'
  <2>1. RingFull(p)'
    BY <1>1 DEF Good, FilledOf, RingFull, InRing
  <2>2. QED
    BY <2>1 DEF FilledOf
<1>3. ASSUME NEW q \in Procs \ {p}
      PROVE  Good(q)'
  <2>1. tail'[p] \in Counter /\ Dist(tail'[p], h[q]) >= Dist(tail[p], h[q])
    BY <1>1, Types
  <2>2. QED
    BY <2>1, OthersStay
<1>4. Good(p)'
  BY <1>2 DEF Good
<1>5. QED
  BY <1>3, <1>4, InvNext

Grabs == [victim : Procs \cup {None}, nextG : BOOLEAN, n : 0..Size, i : 0..Size,
          next : Goroutines \cup {None}]

\* What holds of the P that takes a step.
LEMMA Here ==
  ASSUME RingInv, NEW p \in Procs
  PROVE  /\ TypeOK /\ Good(p) /\ InRing(p) \in Nat /\ InRing(p) <= Size
         /\ head[p] \in Counter /\ tail[p] \in Counter /\ h[p] \in Counter
         /\ pc[p] \notin {"put", "write", "publish"} => lock # p
         /\ pc[p] \notin {"put", "write", "publish", "spill"} => batch[p] = <<>>
<1>1. TypeOK /\ Good(p)
  BY InvHas
<1>2. QED
  BY <1>1, Types DEF Good, LockOf, ChecksOf

LEMMA ReadyInv ==
  ASSUME RingInv, NEW p \in Procs, Ready(p)
  PROVE  RingInv'
<1>1. /\ TypeOK /\ Good(p) /\ InRing(p) <= Size /\ lock # p /\ batch[p] = <<>>
      /\ pc[p] = "run"
  BY Here DEF Ready
<1>2. /\ pc'[p] = "next" /\ gp'[p] = made + 1 /\ curg' = curg /\ grab' = grab
      /\ batch' = batch /\ lock' = lock /\ h' = h /\ made + 1 \in Goroutines
      /\ head' = head /\ tail' = tail /\ runq' = runq /\ made + 1 # None
  BY <1>1, RunQueueAssumption DEF Ready, Goto, TypeOK, Goroutines
<1>3. TypeOK'
  BY <1>1, <1>2 DEF Ready, Goto, TypeOK, Points
<1>4. \A q \in Procs \ {p} : Rests(q)
  BY <1>1 DEF Ready, Goto, TypeOK, Rests
<1>5. PointOf(p)' /\ LockOf(p)' /\ OldOf(p)' /\ ChecksOf(p)'
  BY <1>1, <1>2 DEF Good, PointOf, LockOf, OldOf, ChecksOf, InRing, Seeking
<1>6. QED
  BY <1>2, <1>3, <1>4, <1>5, Quiet

LEMMA PutNextInv ==
  ASSUME RingInv, NEW p \in Procs, PutNext(p)
  PROVE  RingInv'
<1>1. /\ TypeOK /\ Good(p) /\ InRing(p) <= Size /\ lock # p /\ batch[p] = <<>>
      /\ pc[p] = "next"
  BY Here DEF PutNext
<1>2. /\ pc'[p] = (IF runnext[p] = None THEN "run" ELSE "put") /\ gp'[p] = runnext[p]
      /\ curg' = curg /\ grab' = grab /\ batch' = batch /\ lock' = lock /\ h' = h
      /\ head' = head /\ tail' = tail /\ runq' = runq
  BY <1>1 DEF PutNext, Goto, TypeOK
<1>3. TypeOK'
  BY <1>1, <1>2 DEF PutNext, Goto, TypeOK, Points
<1>4. \A q \in Procs \ {p} : Rests(q)
  BY <1>1 DEF PutNext, Goto, TypeOK, Rests
<1>5. PointOf(p)' /\ LockOf(p)' /\ OldOf(p)' /\ ChecksOf(p)'
  BY <1>1, <1>2 DEF Good, PointOf, LockOf, OldOf, ChecksOf, InRing, Seeking
<1>6. QED
  BY <1>2, <1>3, <1>4, <1>5, Quiet

LEMMA PutLookInv ==
  ASSUME RingInv, NEW p \in Procs, PutLook(p)
  PROVE  RingInv'
<1>1. /\ TypeOK /\ Good(p) /\ InRing(p) \in Nat /\ InRing(p) <= Size /\ pc[p] = "put"
      /\ head[p] \in Counter /\ tail[p] \in Counter
  BY Here DEF PutLook
<1>2. /\ pc'[p] = (IF InRing(p) < Size THEN "write" ELSE "slow") /\ h'[p] = head[p]
      /\ curg' = curg /\ grab' = grab /\ batch' = batch /\ lock' = lock /\ gp' = gp
      /\ head' = head /\ tail' = tail /\ runq' = runq
  BY <1>1 DEF PutLook, Goto, TypeOK, InRing
<1>3. TypeOK'
  BY <1>1, <1>2 DEF PutLook, Goto, TypeOK, Points
<1>4. \A q \in Procs \ {p} : Rests(q)
  BY <1>1 DEF PutLook, Goto, TypeOK, Rests
<1>5. /\ Dist(head[p], head[p]) = 0 /\ (InRing(p) = 0 <=> head[p] = tail[p])
      /\ Size \in Nat \ {0} /\ Size \div 2 < Size /\ Size \div 2 \in Nat
      /\ Len(batch[p]) \in Nat
  <2>1. Dist(head[p], head[p]) = 0 /\ (InRing(p) = 0 <=> head[p] = tail[p])
    BY <1>1, DistIs DEF InRing
  <2>2. Size \in Nat \ {0} /\ Size \div 2 \in Nat \ {0} /\ Size = 2 * (Size \div 2)
    BY Params
  <2>3. Len(batch[p]) \in Nat
    BY <1>1, Types
  <2>4. QED
    BY <2>1, <2>2, <2>3
<1>6. /\ lock = p => InRing(p) < Size
      /\ InRing(p)' = InRing(p)
  BY <1>1, <1>2, <1>5 DEF Good, LockOf, InRing
<1>7. PointOf(p)' /\ LockOf(p)'
  BY <1>1, <1>2, <1>6 DEF Good, PointOf, LockOf, Seeking
<1>8. OldOf(p)'
  BY <1>1, <1>2, <1>5 DEF OldOf, Behind, InRing
<1>9. ChecksOf(p)'
  <2>1. Dist(tail'[p], h'[p]) = InRing(p)
    BY <1>2 DEF InRing
  <2>2. QED
    BY <1>1, <1>2, <1>5, <1>6, <2>1 DEF ChecksOf
<1>10. QED
  BY <1>2, <1>3, <1>4, <1>7, <1>8, <1>9, Quiet

LEMMA SpillInv ==
  ASSUME RingInv, NEW p \in Procs, Spill(p)
  PROVE  RingInv'
<1>1. /\ TypeOK /\ Good(p) /\ InRing(p) <= Size /\ lock # p /\ pc[p] = "spill"
  BY Here DEF Spill
<1>2. /\ pc'[p] = "run" /\ batch'[p] = <<>> /\ gp' = gp
      /\ curg' = curg /\ grab' = grab /\ lock' = lock /\ h' = h
      /\ head' = head /\ tail' = tail /\ runq' = runq
  BY <1>1 DEF Spill, Goto, TypeOK
<1>3. TypeOK'
  <2>1. global' \in Seq(Goroutines)
    BY <1>1 DEF Spill, TypeOK
  <2>2. batch' \in [Procs -> Seq(Goroutines)]
    BY <1>1 DEF Spill, TypeOK
  <2>3. QED
    BY <1>1, <1>2, <2>1, <2>2 DEF Spill, Goto, TypeOK, Points
<1>4. \A q \in Procs \ {p} : Rests(q)
  BY <1>1 DEF Spill, Goto, TypeOK, Rests
<1>5. PointOf(p)' /\ LockOf(p)' /\ OldOf(p)' /\ ChecksOf(p)'
  BY <1>1, <1>2 DEF Good, PointOf, LockOf, OldOf, ChecksOf, InRing, Seeking
<1>6. QED
  BY <1>2, <1>3, <1>4, <1>5, Quiet

LEMMA BlockInv ==
  ASSUME RingInv, NEW p \in Procs, Block(p) \/ Yield(p)
  PROVE  RingInv'
<1>1. /\ TypeOK /\ Good(p) /\ InRing(p) <= Size /\ lock # p /\ batch[p] = <<>>
      /\ pc[p] = "run"
  BY Here DEF Block, Yield
<1>2. /\ pc'[p] = "get" /\ curg'[p] = None /\ gp' = gp
      /\ batch' = batch /\ grab' = grab /\ lock' = lock /\ h' = h
      /\ head' = head /\ tail' = tail /\ runq' = runq
  BY <1>1 DEF Block, Yield, Goto, TypeOK
<1>3. TypeOK'
  <2>1. curg' \in [Procs -> Goroutines \cup {None}] /\ pc' \in [Procs -> Points]
    BY <1>1 DEF Block, Yield, Goto, TypeOK, Points
  <2>2. global' \in Seq(Goroutines)
    <3>1. CASE Yield(p)
      BY <1>1, <3>1, RunQueueAssumption DEF Yield, TypeOK
    <3>2. CASE Block(p)
      BY <1>1, <3>2 DEF Block, TypeOK
    <3>3. QED
      BY <3>1, <3>2
  <2>3. made' = made /\ runnext' = runnext
    BY DEF Block, Yield
  <2>4. QED
    BY <1>1, <1>2, <2>1, <2>2, <2>3 DEF TypeOK
<1>4. \A q \in Procs \ {p} : Rests(q)
  BY <1>1 DEF Block, Yield, Goto, TypeOK, Rests
<1>5. PointOf(p)' /\ LockOf(p)' /\ OldOf(p)' /\ ChecksOf(p)'
  BY <1>1, <1>2 DEF Good, PointOf, LockOf, OldOf, ChecksOf, InRing, Seeking
<1>6. QED
  BY <1>2, <1>3, <1>4, <1>5, Quiet

LEMMA GetGlobalInv ==
  ASSUME RingInv, NEW p \in Procs, GetGlobal(p)
  PROVE  RingInv'
<1>1. /\ TypeOK /\ Good(p) /\ InRing(p) <= Size /\ lock # p /\ batch[p] = <<>>
      /\ pc[p] = "get"
  BY Here DEF GetGlobal
<1>2. Head(global) \in Goroutines /\ Tail(global) \in Seq(Goroutines)
  BY <1>1 DEF GetGlobal, TypeOK
<1>3. /\ pc'[p] = "run" /\ curg'[p] = Head(global) /\ gp' = gp
      /\ batch' = batch /\ grab' = grab /\ lock' = lock /\ h' = h
      /\ head' = head /\ tail' = tail /\ runq' = runq /\ curg'[p] # None
  BY <1>1, <1>2, RunQueueAssumption DEF GetGlobal, Run, Goto, TypeOK
<1>4. TypeOK'
  BY <1>1, <1>2 DEF GetGlobal, Run, Goto, TypeOK, Points
<1>5. \A q \in Procs \ {p} : Rests(q)
  BY <1>1 DEF GetGlobal, Run, Goto, TypeOK, Rests
<1>6. PointOf(p)' /\ LockOf(p)' /\ OldOf(p)' /\ ChecksOf(p)'
  BY <1>1, <1>3 DEF Good, PointOf, LockOf, OldOf, ChecksOf, InRing, Seeking
<1>7. QED
  BY <1>3, <1>4, <1>5, <1>6, Quiet

LEMMA GetNextInv ==
  ASSUME RingInv, NEW p \in Procs, GetNext(p)
  PROVE  RingInv'
<1>1. /\ TypeOK /\ Good(p) /\ InRing(p) <= Size /\ lock # p /\ batch[p] = <<>>
      /\ pc[p] = "get"
  BY Here DEF GetNext
<1>2. /\ pc'[p] = (IF runnext[p] # None THEN "run" ELSE "look") /\ gp' = gp
      /\ curg'[p] = (IF runnext[p] # None THEN runnext[p] ELSE curg[p])
      /\ batch' = batch /\ grab' = grab /\ lock' = lock /\ h' = h
      /\ head' = head /\ tail' = tail /\ runq' = runq
  BY <1>1 DEF GetNext, Run, Goto, TypeOK
<1>3. TypeOK'
  <2>1. pc' \in [Procs -> Points]
    <3>1. Goto(p, "look") \/ Goto(p, "run")
      BY DEF GetNext, Run
    <3>2. "look" \in Points /\ "run" \in Points
      BY DEF Points
    <3>3. pc \in [Procs -> Points]
      BY <1>1 DEF TypeOK
    <3>4. QED
      BY <3>1, <3>2, <3>3 DEF Goto
  <2>2. /\ curg' \in [Procs -> Goroutines \cup {None}]
        /\ runnext' \in [Procs -> Goroutines \cup {None}]
    BY <1>1 DEF GetNext, Run, TypeOK
  <2>3. global' = global /\ made' = made
    BY DEF GetNext
  <2>4. QED
    BY <1>1, <1>2, <2>1, <2>2, <2>3 DEF TypeOK
<1>4. \A q \in Procs \ {p} : Rests(q)
  BY <1>1 DEF GetNext, Run, Goto, TypeOK, Rests
<1>5. PointOf(p)' /\ LockOf(p)' /\ OldOf(p)' /\ ChecksOf(p)'
  BY <1>1, <1>2 DEF Good, PointOf, LockOf, OldOf, ChecksOf, InRing, Seeking
<1>6. QED
  BY <1>2, <1>3, <1>4, <1>5, Quiet

LEMMA GetLookInv ==
  ASSUME RingInv, NEW p \in Procs, GetLook(p)
  PROVE  RingInv'
<1>1. /\ TypeOK /\ Good(p) /\ InRing(p) <= Size /\ lock # p /\ batch[p] = <<>>
      /\ pc[p] = "look" /\ head[p] \in Counter /\ tail[p] \in Counter
      /\ InRing(p) \in Nat
  BY Here DEF GetLook
<1>2. /\ pc'[p] = (IF head[p] = tail[p] THEN "find" ELSE "take") /\ gp' = gp
      /\ h'[p] = (IF head[p] = tail[p] THEN h[p] ELSE head[p])
      /\ batch' = batch /\ grab' = grab /\ lock' = lock /\ curg' = curg
      /\ head' = head /\ tail' = tail /\ runq' = runq
  BY <1>1 DEF GetLook, Goto, TypeOK
<1>3. TypeOK'
  <2>1. pc' \in [Procs -> Points]
    <3>1. Goto(p, "find") \/ Goto(p, "take")
      BY DEF GetLook
    <3>2. "find" \in Points /\ "take" \in Points
      BY DEF Points
    <3>3. pc \in [Procs -> Points]
      BY <1>1 DEF TypeOK
    <3>4. QED
      BY <3>1, <3>2, <3>3 DEF Goto
  <2>2. h' \in [Procs -> 0..(W - 1)]
    <3>1. h' = h \/ h' = [h EXCEPT ![p] = head[p]]
      BY DEF GetLook
    <3>2. h \in [Procs -> 0..(W - 1)] /\ head[p] \in 0..(W - 1)
      BY <1>1 DEF TypeOK
    <3>3. QED
      BY <3>1, <3>2
  <2>3. runnext' = runnext /\ global' = global /\ made' = made
    BY DEF GetLook
  <2>4. QED
    BY <1>1, <1>2, <2>1, <2>2, <2>3 DEF TypeOK
<1>4. \A q \in Procs \ {p} : Rests(q)
  BY <1>1 DEF GetLook, Goto, TypeOK, Rests
<1>5. Dist(head[p], head[p]) = 0
  BY <1>1, DistIs
<1>6. PointOf(p)' /\ LockOf(p)' /\ ChecksOf(p)'
  BY <1>1, <1>2 DEF Good, PointOf, LockOf, ChecksOf, InRing, Seeking
<1>7. OldOf(p)'
  BY <1>1, <1>2, <1>5 DEF OldOf, Behind, InRing
<1>8. QED
  BY <1>2, <1>3, <1>4, <1>6, <1>7, Quiet

\* The share of the global queue that a P takes: something, and not more than there
\* is or half a ring holds.
LEMMA ShareIs ==
  ASSUME NEW n \in Nat \ {0}
  PROVE  GlobalShare(n) \in 1..n /\ GlobalShare(n) <= Size \div 2
<1>1. Cardinality(Procs) \in Nat \ {0}
  <2>1. IsFiniteSet(Procs) /\ Procs # {}
    BY RunQueueAssumption
  <2>2. QED
    BY <2>1, FS_CardinalityType, FS_EmptySet
<1>2. Size \div 2 \in Nat \ {0}
  BY Params
<1> DEFINE c == Cardinality(Procs)
           share == n \div c + 1
<1>3. n \div c \in Nat
  <2> HIDE DEF c
  <2>1. c \in Nat \ {0} => n \div c \in Nat
    OBVIOUS
  <2>2. QED
    BY <1>1, <2>1 DEF c
<1>4. share \in Nat \ {0} /\ GlobalShare(n) =
        IF share > Size \div 2 THEN Size \div 2 ELSE IF share > n THEN n ELSE share
  BY <1>3 DEF GlobalShare
<1>5. n \div c <= n
  <2> HIDE DEF c
  <2>1. c \in Nat \ {0} => n \div c <= n
    OBVIOUS
  <2>2. QED
    BY <1>1, <2>1 DEF c
<1>6. share <= n + 1 /\ (share > Size \div 2 => Size \div 2 <= n)
  <2> DEFINE d == n \div c
  <2>1. d \in Nat /\ d <= n /\ share = d + 1
    BY <1>3, <1>5
  <2> HIDE DEF d, share
  <2>2. QED
    BY <1>2, <2>1
<1> HIDE DEF share
<1>7. QED
  BY <1>2, <1>4, <1>6

LEMMA TakeGlobalInv ==
  ASSUME RingInv, NEW p \in Procs, TakeGlobal(p)
  PROVE  RingInv'
<1> DEFINE n == GlobalShare(Len(global))
           rest == SubSeq(global, 2, n)
<1>1. /\ TypeOK /\ Good(p) /\ InRing(p) <= Size /\ lock # p /\ batch[p] = <<>>
      /\ pc[p] = "find" /\ head[p] \in Counter /\ tail[p] \in Counter
      /\ head[p] = tail[p] /\ lock = None /\ global # <<>> /\ global \in Seq(Goroutines)
  BY Here DEF TakeGlobal, Good, ChecksOf, TypeOK
<1>2. InRing(p) = 0 /\ Size \div 2 \in Nat /\ Size \in Nat \ {0}
  BY <1>1, DistIs, Params DEF InRing
<1>3. n \in 1..Len(global) /\ n <= Size \div 2 /\ Len(global) \in Nat \ {0} /\ n \in Nat
  <2>1. Len(global) \in Nat \ {0}
    BY <1>1
  <2>2. QED
    BY <2>1, ShareIs
<1>4. /\ curg' = [curg EXCEPT ![p] = Head(global)]
      /\ global' = SubSeq(global, n + 1, Len(global))
      /\ \/ Goto(p, "run") /\ UNCHANGED <<gp, batch, lock>>
         \/ /\ rest # <<>>
            /\ gp' = [gp EXCEPT ![p] = Head(rest)]
            /\ batch' = [batch EXCEPT ![p] = Tail(rest)]
            /\ lock' = p
            /\ Goto(p, "put")
      /\ UNCHANGED <<head, tail, runq, runnext, made, h, grab>>
  BY DEF TakeGlobal
<1>5. /\ Head(global) \in Goroutines /\ rest \in Seq(Goroutines) /\ Len(rest) = n - 1
      /\ SubSeq(global, n + 1, Len(global)) \in Seq(Goroutines)
  <2> HIDE DEF n
  <2>1. Head(global) \in Goroutines
    BY <1>1
  <2>2. \A i \in 2..n : i \in 1..Len(global)
    BY <1>3
  <2>3. rest \in Seq(Goroutines) /\ Len(rest) = n - 1
    BY <1>1, <1>3, <2>2
  <2>4. SubSeq(global, n + 1, Len(global)) \in Seq(Goroutines)
    BY <1>1, <1>3
  <2>5. QED
    BY <2>1, <2>3, <2>4
<1> HIDE DEF n, rest
<1>6. rest # <<>> => /\ Head(rest) \in Goroutines /\ Tail(rest) \in Seq(Goroutines)
                     /\ Len(Tail(rest)) + 1 <= Size \div 2
  BY <1>2, <1>3, <1>5
<1>7. TypeOK'
  <2>1. pc' \in [Procs -> Points]
    BY <1>1, <1>4 DEF Goto, TypeOK, Points
  <2>2. curg' \in [Procs -> Goroutines \cup {None}] /\ lock' \in Procs \cup {None}
    BY <1>1, <1>4, <1>5 DEF TypeOK
  <2>3. gp' \in [Procs -> Goroutines \cup {None}] /\ batch' \in [Procs -> Seq(Goroutines)]
    <3>1. CASE UNCHANGED <<gp, batch>>
      BY <1>1, <3>1 DEF TypeOK
    <3>2. CASE rest # <<>> /\ gp' = [gp EXCEPT ![p] = Head(rest)]
                 /\ batch' = [batch EXCEPT ![p] = Tail(rest)]
      BY <1>1, <1>6, <3>2 DEF TypeOK
    <3>3. QED
      BY <1>4, <3>1, <3>2
  <2>4. QED
    BY <1>1, <1>4, <1>5, <2>1, <2>2, <2>3 DEF TypeOK
<1>8. None \notin Procs /\ None \notin Goroutines
  BY RunQueueAssumption
<1>9. \A q \in Procs \ {p} : Rests(q)
  BY <1>1, <1>4, <1>8 DEF Goto, TypeOK, Rests
<1>10. /\ curg'[p] = Head(global) /\ curg'[p] # None
       /\ h' = h /\ grab' = grab /\ head' = head /\ tail' = tail /\ runq' = runq
       /\ \/ pc'[p] = "run" /\ gp' = gp /\ batch' = batch /\ lock' = lock
          \/ /\ pc'[p] = "put" /\ gp'[p] # None /\ lock' = p
             /\ Len(batch'[p]) + 1 <= Size \div 2
  <2>1. curg'[p] = Head(global) /\ curg'[p] # None
    BY <1>1, <1>4, <1>5, <1>8 DEF TypeOK
  <2>2. CASE Goto(p, "run") /\ UNCHANGED <<gp, batch, lock>>
    <3>1. pc'[p] = "run"
      BY <1>1, <2>2 DEF Goto, TypeOK
    <3>2. QED
      BY <1>4, <2>1, <2>2, <3>1
  <2>3. CASE /\ rest # <<>> /\ gp' = [gp EXCEPT ![p] = Head(rest)] /\ lock' = p
             /\ batch' = [batch EXCEPT ![p] = Tail(rest)] /\ Goto(p, "put")
    <3>1. pc'[p] = "put" /\ gp'[p] = Head(rest) /\ batch'[p] = Tail(rest)
      BY <1>1, <2>3 DEF Goto, TypeOK
    <3>2. Head(rest) # None /\ Len(Tail(rest)) + 1 <= Size \div 2
      BY <1>6, <1>8, <2>3
    <3>3. QED
      BY <1>4, <2>1, <2>3, <3>1, <3>2
  <2>4. QED
    BY <1>4, <2>2, <2>3
<1>11. InRing(p)' = 0
  BY <1>2, <1>10 DEF InRing
<1>12. Len(batch'[p]) \in Nat
  BY <1>7, Types DEF TypeOK
<1>13. PointOf(p)' /\ LockOf(p)'
  BY <1>1, <1>2, <1>10, <1>11, <1>12 DEF Good, PointOf, LockOf, Seeking
<1>14. OldOf(p)' /\ ChecksOf(p)'
  BY <1>1, <1>2, <1>10, <1>11 DEF OldOf, ChecksOf
<1>15. QED
  BY <1>7, <1>9, <1>10, <1>13, <1>14, Quiet

LEMMA StealInv ==
  ASSUME RingInv, NEW p \in Procs, Steal(p)
  PROVE  RingInv'
<1>1. /\ TypeOK /\ Good(p) /\ InRing(p) <= Size /\ lock # p /\ batch[p] = <<>>
      /\ pc[p] = "find" /\ head[p] = tail[p]
  BY Here DEF Steal, Good, ChecksOf
<1>2. PICK v \in Procs \ {p}, nextG \in BOOLEAN :
        grab' = [grab EXCEPT ![p].victim = v, ![p].nextG = nextG]
  BY DEF Steal
<1>3. /\ pc'[p] = "grab" /\ grab'[p].victim = v /\ gp' = gp
      /\ batch' = batch /\ lock' = lock /\ curg' = curg /\ h' = h
      /\ head' = head /\ tail' = tail /\ runq' = runq
  <2>1. /\ pc' = [pc EXCEPT ![p] = "grab"] /\ gp' = gp
        /\ batch' = batch /\ lock' = lock /\ curg' = curg /\ h' = h
        /\ head' = head /\ tail' = tail /\ runq' = runq
    BY DEF Steal, Goto
  <2>2. pc'[p] = "grab"
    BY <1>1, <2>1 DEF TypeOK
  <2>3. grab'[p].victim = v
    BY <1>1, <1>2 DEF TypeOK
  <2>4. QED
    BY <2>1, <2>2, <2>3
<1>4. TypeOK'
  <2> DEFINE r == [grab[p] EXCEPT !.victim = v, !.nextG = nextG]
  <2>1. grab \in [Procs -> Grabs]
    BY <1>1 DEF TypeOK, Grabs
  <2>2. r \in Grabs
    BY <2>1 DEF Grabs
  <2>3. grab' = [grab EXCEPT ![p] = r]
    BY <1>2, <2>1
  <2> HIDE DEF r
  <2>4. grab' \in [Procs -> Grabs]
    BY <2>1, <2>2, <2>3
  <2>5. QED
    BY <1>1, <2>4 DEF Steal, Goto, TypeOK, Points, Grabs
<1>5. \A q \in Procs \ {p} : Rests(q)
  BY <1>1, <1>2 DEF Steal, Goto, TypeOK, Rests
<1>6. PointOf(p)' /\ LockOf(p)' /\ OldOf(p)' /\ ChecksOf(p)'
  BY <1>1, <1>3 DEF Good, PointOf, LockOf, OldOf, ChecksOf, InRing, Seeking
<1>7. QED
  BY <1>3, <1>4, <1>5, <1>6, Quiet

LEMMA GrabHeadInv ==
  ASSUME RingInv, NEW p \in Procs, GrabHead(p)
  PROVE  RingInv'
<1> DEFINE v == grab[p].victim
<1>1. /\ TypeOK /\ Good(p) /\ InRing(p) <= Size /\ lock # p /\ batch[p] = <<>>
      /\ pc[p] = "grab" /\ head[p] = tail[p] /\ v \in Procs \ {p}
  BY Here DEF GrabHead, Good, PointOf, Seeking
<1>2. head[v] \in Counter /\ tail[v] \in Counter
  BY <1>1, Types
<1>3. /\ pc'[p] = "tail" /\ h'[p] = head[v] /\ gp' = gp
      /\ batch' = batch /\ lock' = lock /\ curg' = curg /\ grab' = grab
      /\ head' = head /\ tail' = tail /\ runq' = runq
  BY <1>1 DEF GrabHead, Goto, TypeOK
<1>4. TypeOK'
  BY <1>1, <1>2 DEF GrabHead, Goto, TypeOK, Points, Counter
<1>5. \A q \in Procs \ {p} : Rests(q)
  BY <1>1 DEF GrabHead, Goto, TypeOK, Rests
<1>6. Dist(head[v], head[v]) = 0 /\ Dist(tail[v], head[v]) \in Nat
  <2> HIDE DEF v
  <2>1. QED
    BY <1>1, <1>2, DistIs, Types
<1>7. PointOf(p)' /\ LockOf(p)' /\ ChecksOf(p)'
  BY <1>1, <1>3 DEF Good, PointOf, LockOf, ChecksOf, InRing, Seeking
<1>8. OldOf(p)'
  BY <1>3, <1>6 DEF OldOf, Behind
<1>9. QED
  BY <1>3, <1>4, <1>5, <1>7, <1>8, Quiet

LEMMA GrabTailInv ==
  ASSUME RingInv, NEW p \in Procs, GrabTail(p)
  PROVE  RingInv'
<1> DEFINE v == grab[p].victim
           there == Dist(tail[v], h[p])
           n == there - there \div 2
<1>1. /\ TypeOK /\ Good(p) /\ InRing(p) <= Size /\ lock # p /\ batch[p] = <<>>
      /\ pc[p] = "tail" /\ head[p] = tail[p] /\ v \in Procs \ {p}
      /\ Behind(h[p], v) /\ curg[p] = None /\ gp[p] = None
  BY Here DEF GrabTail, Good, PointOf, Seeking, OldOf
<1>2. there \in Nat /\ Size \div 2 \in Nat /\ Size = 2 * (Size \div 2) /\ 0 \in 0..(W - 1)
  <2>1. h[p] \in Counter /\ tail[v] \in Counter /\ TypeOK
    BY <1>1, Types
  <2>2. there \in Nat
    <3> HIDE DEF v
    <3>1. QED
      BY <2>1, Types
  <2>3. QED
    BY <2>2, Params
<1>3. n \in Nat /\ n <= there
  <2> HIDE DEF there
  <2>1. QED
    BY <1>2
<1>4. /\ \/ pc'[p] \in {"runnext", "grab"} /\ grab' = grab
         \/ pc'[p] = "find" /\ grab' = [grab EXCEPT ![p] = NoGrab]
         \/ /\ n # 0 /\ n <= Size \div 2
            /\ pc'[p] = "copy" /\ h' = h
            /\ grab' = [grab EXCEPT ![p].n = n, ![p].i = 0]
      /\ h' = h \/ h' = [h EXCEPT ![p] = 0]
      /\ pc' = [pc EXCEPT ![p] = pc'[p]] /\ pc'[p] \in Points
  <2> HIDE DEF n, v
  <2>1. (n > Size \div 2) \/ n <= Size \div 2
    BY <1>2, <1>3
  <2>2. QED
    BY <1>1, <2>1 DEF GrabTail, Goto, EndGrab, TypeOK, Points, n, v
<1>5. /\ gp' = gp /\ batch' = batch /\ lock' = lock /\ curg' = curg
      /\ head' = head /\ tail' = tail /\ runq' = runq /\ runnext' = runnext
      /\ global' = global /\ made' = made
  BY DEF GrabTail
<1> HIDE DEF n, there
<1>6. NoGrab \in Grabs
  BY <1>2 DEF NoGrab, Grabs
<1>7. TypeOK'
  <2>1. grab' \in [Procs -> Grabs]
    <3> DEFINE r == [grab[p] EXCEPT !.n = n, !.i = 0]
    <3>0. grab \in [Procs -> Grabs]
      BY <1>1 DEF TypeOK, Grabs
    <3>1. CASE grab' = grab
      BY <3>0, <3>1
    <3>2. CASE grab' = [grab EXCEPT ![p] = NoGrab]
      BY <1>6, <3>0, <3>2
    <3>3. CASE n <= Size \div 2 /\ grab' = [grab EXCEPT ![p].n = n, ![p].i = 0]
      <4>1. n \in 0..Size /\ 0 \in 0..Size
        BY <1>2, <1>3, <3>3
      <4>2. r \in Grabs
        BY <3>0, <4>1 DEF Grabs
      <4>3. grab' = [grab EXCEPT ![p] = r]
        BY <3>0, <3>3
      <4> HIDE DEF r
      <4>4. QED
        BY <3>0, <4>2, <4>3
    <3>4. QED
      BY <1>4, <3>1, <3>2, <3>3
  <2>2. pc' \in [Procs -> Points]
    BY <1>1, <1>4 DEF TypeOK
  <2>3. h' \in [Procs -> 0..(W - 1)]
    BY <1>1, <1>2, <1>4 DEF TypeOK
  <2>4. QED
    BY <1>1, <1>5, <2>1, <2>2, <2>3 DEF TypeOK, Grabs
<1>8. \A q \in Procs \ {p} : Rests(q)
  <2>1. \A q \in Procs \ {p} : pc'[q] = pc[q] /\ h'[q] = h[q] /\ grab'[q] = grab[q]
    BY <1>1, <1>4 DEF TypeOK
  <2>2. QED
    BY <1>5, <2>1 DEF Rests
<1>9. pc'[p] \in {"runnext", "grab", "copy"} => grab'[p].victim = v
  BY <1>1, <1>4 DEF TypeOK
<1>10. PointOf(p)' /\ LockOf(p)' /\ ChecksOf(p)'
  BY <1>1, <1>4, <1>5, <1>9 DEF Good, PointOf, LockOf, ChecksOf, InRing, Seeking
<1>11. pc'[p] = "copy" => grab'[p].n = n /\ grab'[p].i = 0 /\ h' = h /\ n \in 1..(Size \div 2)
  BY <1>1, <1>2, <1>3, <1>4 DEF TypeOK
<1>12. OldOf(p)'
  <2>1. CASE pc'[p] = "copy"
    <3>1. grab'[p].victim = v /\ grab'[p].n = n /\ grab'[p].i = 0 /\ h'[p] = h[p]
      BY <1>9, <1>11, <2>1
    <3>2. Dist(head'[grab'[p].victim], h'[p]) <= Dist(tail'[grab'[p].victim], h'[p])
      BY <1>1, <1>5, <3>1 DEF Behind
    <3>3. grab'[p].n <= Dist(tail'[grab'[p].victim], h'[p])
      BY <1>3, <1>5, <3>1 DEF there
    <3>4. grab'[p].n \in 1..(Size \div 2) /\ grab'[p].i < grab'[p].n
      BY <1>2, <1>11, <2>1, <3>1
    <3>5. QED
      BY <2>1, <3>2, <3>3, <3>4 DEF OldOf, Behind
  <2>2. CASE pc'[p] \in {"find", "runnext", "grab"}
    BY <2>2 DEF OldOf
  <2>3. QED
    BY <1>4, <2>1, <2>2
<1>13. QED
  BY <1>4, <1>5, <1>7, <1>8, <1>10, <1>11, <1>12, Quiet

LEMMA EndGrabIs ==
  ASSUME TypeOK, NEW p \in Procs, EndGrab(p)
  PROVE  /\ grab' \in [Procs -> Grabs] /\ h' \in [Procs -> 0..(W - 1)]
         /\ \A q \in Procs \ {p} : h'[q] = h[q] /\ grab'[q] = grab[q]
<1>1. grab \in [Procs -> Grabs] /\ h \in [Procs -> 0..(W - 1)] /\ Size \in Nat /\ W \in Nat \ {0}
  BY Params DEF TypeOK, Grabs
<1>2. NoGrab \in Grabs
  BY <1>1 DEF NoGrab, Grabs
<1>3. 0 \in 0..(W - 1)
  BY <1>1
<1>4. QED
  BY <1>1, <1>2, <1>3 DEF EndGrab

LEMMA StealNextLookInv ==
  ASSUME RingInv, NEW p \in Procs, StealNextLook(p)
  PROVE  RingInv'
<1> DEFINE v == grab[p].victim
           r == [grab[p] EXCEPT !.next = runnext[v]]
<1>1. /\ TypeOK /\ Good(p) /\ InRing(p) <= Size /\ lock # p /\ batch[p] = <<>>
      /\ pc[p] = "runnext" /\ head[p] = tail[p] /\ v \in Procs \ {p}
      /\ curg[p] = None /\ gp[p] = None /\ grab \in [Procs -> Grabs]
  BY Here DEF StealNextLook, Good, PointOf, Seeking, TypeOK, Grabs
<1>2. /\ gp' = gp /\ batch' = batch /\ lock' = lock /\ curg' = curg
      /\ head' = head /\ tail' = tail /\ runq' = runq /\ runnext' = runnext
      /\ global' = global /\ made' = made
  BY DEF StealNextLook
<1>3. runnext[v] \in Goroutines \cup {None} /\ r \in Grabs
      /\ r.victim = v /\ r.next = runnext[v]
  BY <1>1 DEF TypeOK, Grabs
<1>4. \/ Goto(p, "find") /\ EndGrab(p)
      \/ runnext[v] # None /\ Goto(p, "cas") /\ grab' = [grab EXCEPT ![p] = r] /\ h' = h
  <2>1. CASE runnext[v] = None
    BY <2>1 DEF StealNextLook
  <2>2. CASE runnext[v] # None
    BY <1>1, <2>2 DEF StealNextLook
  <2>3. QED
    BY <2>1, <2>2
<1> HIDE DEF r
<1>5. /\ grab' \in [Procs -> Grabs] /\ h' \in [Procs -> 0..(W - 1)]
      /\ \A q \in Procs \ {p} : h'[q] = h[q] /\ grab'[q] = grab[q]
  <2>1. h \in [Procs -> 0..(W - 1)]
    BY <1>1 DEF TypeOK
  <2>2. QED
    BY <1>1, <1>3, <1>4, <2>1, EndGrabIs
<1>6. /\ pc' \in [Procs -> Points] /\ \A q \in Procs \ {p} : pc'[q] = pc[q]
      /\ \/ pc'[p] = "find"
         \/ pc'[p] = "cas" /\ grab'[p].victim = v /\ grab'[p].next # None
  BY <1>1, <1>3, <1>4 DEF Goto, TypeOK, Points
<1>7. TypeOK'
  BY <1>1, <1>2, <1>5, <1>6 DEF TypeOK, Grabs
<1>8. \A q \in Procs \ {p} : Rests(q)
  BY <1>2, <1>5, <1>6 DEF Rests
<1>9. PointOf(p)' /\ LockOf(p)' /\ OldOf(p)' /\ ChecksOf(p)'
  BY <1>1, <1>2, <1>6 DEF Good, PointOf, LockOf, OldOf, ChecksOf, InRing, Seeking
<1>10. QED
  BY <1>2, <1>6, <1>7, <1>8, <1>9, Quiet

LEMMA StealNextInv ==
  ASSUME RingInv, NEW p \in Procs, StealNext(p)
  PROVE  RingInv'
<1> DEFINE v == grab[p].victim
           r == [grab[p] EXCEPT !.next = None]
<1>1. /\ TypeOK /\ Good(p) /\ InRing(p) <= Size /\ lock # p /\ batch[p] = <<>>
      /\ pc[p] = "cas" /\ head[p] = tail[p] /\ v \in Procs \ {p}
      /\ curg[p] = None /\ gp[p] = None /\ grab \in [Procs -> Grabs]
      /\ grab[p].next # None
  BY Here DEF StealNext, Good, PointOf, Seeking, TypeOK, Grabs
<1>2. /\ gp' = gp /\ batch' = batch /\ lock' = lock
      /\ head' = head /\ tail' = tail /\ runq' = runq
      /\ global' = global /\ made' = made
  BY DEF StealNext
<1>3. r \in Grabs /\ r.victim = v /\ grab[p].next \in Goroutines
  BY <1>1 DEF Grabs
<1>4. \/ /\ runnext' = [runnext EXCEPT ![v] = None]
         /\ Run(p, grab[p].next) /\ EndGrab(p)
      \/ /\ Goto(p, "grab") /\ grab' = [grab EXCEPT ![p] = r]
         /\ UNCHANGED <<runnext, curg, h>>
  <2>1. CASE runnext[v] = grab[p].next
    BY <2>1 DEF StealNext
  <2>2. CASE runnext[v] # grab[p].next
    BY <1>1, <2>2 DEF StealNext
  <2>3. QED
    BY <2>1, <2>2
<1> HIDE DEF r
<1>5. /\ grab' \in [Procs -> Grabs] /\ h' \in [Procs -> 0..(W - 1)]
      /\ \A q \in Procs \ {p} : h'[q] = h[q] /\ grab'[q] = grab[q]
  <2>1. h \in [Procs -> 0..(W - 1)]
    BY <1>1 DEF TypeOK
  <2>2. QED
    BY <1>1, <1>3, <1>4, <2>1, EndGrabIs
<1>6. /\ pc' \in [Procs -> Points] /\ curg' \in [Procs -> Goroutines \cup {None}]
      /\ \A q \in Procs \ {p} : pc'[q] = pc[q] /\ curg'[q] = curg[q]
      /\ \/ pc'[p] = "run" /\ curg'[p] # None
         \/ pc'[p] = "grab" /\ grab'[p].victim = v /\ curg'[p] = None
  BY <1>1, <1>3, <1>4 DEF Run, Goto, TypeOK, Points
<1>7. runnext' \in [Procs -> Goroutines \cup {None}]
  BY <1>1, <1>4 DEF TypeOK
<1>8. TypeOK'
  BY <1>1, <1>2, <1>5, <1>6, <1>7 DEF TypeOK, Grabs
<1>9. \A q \in Procs \ {p} : Rests(q)
  BY <1>2, <1>5, <1>6 DEF Rests
<1>10. PointOf(p)' /\ LockOf(p)' /\ OldOf(p)' /\ ChecksOf(p)'
  BY <1>1, <1>2, <1>6 DEF Good, PointOf, LockOf, OldOf, ChecksOf, InRing, Seeking
<1>11. QED
  BY <1>2, <1>6, <1>8, <1>9, <1>10, Quiet
-----------------------------------------------------------------------------
(* The steps that change the P's own ring or move its tail *)

LEMMA OwnRing ==
  ASSUME RingInv, TypeOK', NEW p \in Procs, head' = head,
         \A q \in Procs \ {p} : Rests(q) /\ tail'[q] = tail[q] /\ runq'[q] = runq[q],
         \A k \in 0..(InRing(p) - 1) :
           runq'[p][Slot(head[p] + k)] = runq[p][Slot(head[p] + k)],
         \A q \in Procs : Reading(q, p) => Dist(tail'[p], h[q]) >= Dist(tail[p], h[q]),
         Good(p)'
  PROVE  RingInv'
<1>1. tail'[p] \in Counter
  BY DEF TypeOK, Counter
<1>2. ASSUME NEW q \in Procs \ {p}
      PROVE  Good(q)'
  BY <1>1, OthersStay
<1>3. QED
  BY <1>2, InvNext

LEMMA PutWriteInv ==
  ASSUME RingInv, NEW p \in Procs, PutWrite(p)
  PROVE  RingInv'
<1>1. /\ TypeOK /\ Good(p) /\ InRing(p) \in Nat /\ InRing(p) < Size /\ pc[p] = "write"
      /\ head[p] \in Counter /\ tail[p] \in Counter
      /\ gp[p] \in Goroutines /\ curg[p] # None
  <2>1. /\ TypeOK /\ Good(p) /\ InRing(p) \in Nat /\ pc[p] = "write"
        /\ head[p] \in Counter /\ tail[p] \in Counter
    BY Here DEF PutWrite
  <2>2. InRing(p) < Size
    BY <2>1 DEF Good, ChecksOf
  <2>3. gp[p] # None /\ curg[p] # None
    BY <2>1 DEF Good, PointOf
  <2>4. QED
    BY <2>1, <2>2, <2>3 DEF TypeOK
<1> DEFINE s == Slot(tail[p])
<1>2. s \in Slots /\ s = Slot(head[p] + InRing(p))
  <2>1. tail[p] \in Int
    BY <1>1, Types
  <2>2. QED
    BY <1>1, <2>1, SlotIs, TailSlot
<1>3. ASSUME NEW k \in 0..(InRing(p) - 1)
      PROVE  Slot(head[p] + k) # s
  <2>1. k \in Slots /\ InRing(p) \in Slots /\ k # InRing(p) /\ head[p] \in Int
    BY <1>1, Types, Params DEF Slots
  <2>2. Slot(head[p] + k) = Slot(head[p] + InRing(p)) => k = InRing(p)
    <3> HIDE DEF s
    <3>1. QED
      BY <2>1, SlotIs
  <2>3. QED
    BY <1>2, <2>1, <2>2
<1>4. /\ pc'[p] = "publish" /\ runq'[p] = [runq[p] EXCEPT ![s] = gp[p]]
      /\ gp' = gp /\ batch' = batch /\ lock' = lock /\ curg' = curg /\ grab' = grab
      /\ head' = head /\ tail' = tail /\ h' = h
      /\ \A q \in Procs \ {p} : pc'[q] = pc[q] /\ runq'[q] = runq[q]
  BY <1>1 DEF PutWrite, Goto, TypeOK
<1>5. runq[p] \in [Slots -> Goroutines \cup {None}]
  BY <1>1 DEF TypeOK
<1>6. TypeOK'
  <2>1. pc' \in [Procs -> Points]
    BY <1>1 DEF PutWrite, Goto, TypeOK, Points
  <2>2. runq' \in [Procs -> [Slots -> Goroutines \cup {None}]]
    BY <1>1, <1>2 DEF PutWrite, TypeOK
  <2>3. QED
    BY <1>1, <1>4, <2>1, <2>2 DEF PutWrite, TypeOK
<1> HIDE DEF s
<1>7. ASSUME NEW k \in 0..(InRing(p) - 1)
      PROVE  runq'[p][Slot(head[p] + k)] = runq[p][Slot(head[p] + k)]
  BY <1>3, <1>4, <1>5
<1>8. runq'[p][s] = gp[p]
  BY <1>2, <1>4, <1>5
<1>9. InRing(p)' = InRing(p)
  BY <1>4 DEF InRing
<1>10. FilledOf(p)'
  BY <1>1, <1>4, <1>7, <1>8, <1>9 DEF Good, FilledOf, RingFull, s
<1>11. PointOf(p)' /\ LockOf(p)' /\ OldOf(p)' /\ ChecksOf(p)'
  BY <1>1, <1>4, <1>9 DEF Good, PointOf, LockOf, OldOf, ChecksOf, Seeking
<1>12. ASSUME NEW q \in Procs
       PROVE  Dist(tail'[p], h[q]) >= Dist(tail[p], h[q])
  BY <1>1, <1>4, Types
<1>13. QED
  BY <1>4, <1>6, <1>7, <1>10, <1>11, <1>12, OwnRing DEF Good, Rests

\* A tail that moves m on, while nobody holds a head that it would come round to.
LEMMA TailMoves ==
  ASSUME TypeOK, NEW p \in Procs, NEW m \in 0..(W - 1), NotLapped(p, (tail[p] + m) % W)
  PROVE  \A q \in Procs :
           Reading(q, p) => Dist((tail[p] + m) % W, h[q]) >= Dist(tail[p], h[q])
<1> DEFINE e == (tail[p] + m) % W
<1>1. tail[p] \in Counter /\ W \in Nat \ {0} /\ \A q \in Procs : h[q] \in Counter
  BY Types, Params
<1>2. Dist(tail[p], tail[p]) = 0
  BY <1>1, DistIs
<1>3. Dist(e, tail[p]) = m
  <2>1. Dist(tail[p], tail[p]) + m < W
    BY <1>1, <1>2
  <2>2. Dist(e, tail[p]) = Dist(tail[p], tail[p]) + m
    BY <1>1, <2>1, TailSteps
  <2>3. QED
    BY <1>1, <1>2, <2>2
<1>4. ASSUME NEW q \in Procs, Reading(q, p)
      PROVE  Dist(e, h[q]) >= Dist(tail[p], h[q])
  <2>1. \A k \in 1..m : Dist(tail[p] + k, h[q]) # 0
    BY <1>3, <1>4 DEF NotLapped
  <2>2. Dist(e, h[q]) = Dist(tail[p], h[q]) + m
    BY <1>1, <2>1, TailSteps
  <2>3. Dist(tail[p], h[q]) \in Nat
    BY <1>1, Types
  <2>4. QED
    BY <1>1, <2>2, <2>3
<1>5. QED
  BY <1>4

LEMMA PutPublishInv ==
  ASSUME RingInv, NEW p \in Procs, PutPublish(p)
  PROVE  RingInv'
<1>1. /\ TypeOK /\ Good(p) /\ InRing(p) \in Nat /\ InRing(p) < Size /\ pc[p] = "publish"
      /\ head[p] \in Counter /\ tail[p] \in Counter
      /\ gp[p] \in Goroutines /\ curg[p] # None
  <2>1. /\ TypeOK /\ Good(p) /\ InRing(p) \in Nat /\ pc[p] = "publish"
        /\ head[p] \in Counter /\ tail[p] \in Counter
    BY Here DEF PutPublish
  <2>2. InRing(p) < Size
    BY <2>1 DEF Good, ChecksOf
  <2>3. gp[p] # None /\ curg[p] # None
    BY <2>1 DEF Good, PointOf
  <2>4. QED
    BY <2>1, <2>2, <2>3 DEF TypeOK
<1> DEFINE e == (tail[p] + 1) % W
<1>2. Size \in Nat \ {0} /\ W \in Nat \ {0} /\ Size < W /\ 1 \in 0..(W - 1)
      /\ Size \div 2 \in Nat
  BY Params
<1>3. e \in Counter /\ Dist(e, head[p]) = InRing(p) + 1
  <2>1. Dist(tail[p], head[p]) + 1 < W
    BY <1>1, <1>2 DEF InRing
  <2>2. QED
    BY <1>1, <1>2, <2>1, TailSteps DEF InRing
<1>4. /\ tail' = [tail EXCEPT ![p] = e]
      /\ h' = [h EXCEPT ![p] = 0]
      /\ \/ /\ batch[p] = <<>> /\ gp' = [gp EXCEPT ![p] = None] /\ batch' = batch
            /\ Goto(p, "run") /\ lock' = IF lock = p THEN None ELSE lock
         \/ /\ batch[p] # <<>> /\ gp' = [gp EXCEPT ![p] = Head(batch[p])]
            /\ batch' = [batch EXCEPT ![p] = Tail(batch[p])]
            /\ Goto(p, "put") /\ lock' = lock
      /\ UNCHANGED <<head, runq, runnext, global, made, curg, grab>>
  BY <1>1 DEF PutPublish, TypeOK
<1>5. \A q \in Procs : Reading(q, p) => Dist(e, h[q]) >= Dist(tail[p], h[q])
  BY <1>1, <1>2, TailMoves DEF PutPublish
<1> HIDE DEF e
<1>6. batch[p] \in Seq(Goroutines) /\ None \notin Procs \cup Goroutines
      /\ (batch[p] # <<>> => /\ Head(batch[p]) \in Goroutines
                             /\ Tail(batch[p]) \in Seq(Goroutines)
                             /\ Len(Tail(batch[p])) = Len(batch[p]) - 1
                             /\ Len(batch[p]) \in Nat)
  BY <1>1, RunQueueAssumption DEF TypeOK
<1>7. TypeOK'
  <2>1. pc' \in [Procs -> Points] /\ lock' \in Procs \cup {None}
    BY <1>1, <1>4 DEF Goto, TypeOK, Points
  <2>2. batch' \in [Procs -> Seq(Goroutines)] /\ gp' \in [Procs -> Goroutines \cup {None}]
    <3>1. CASE gp' = [gp EXCEPT ![p] = None] /\ batch' = batch
      BY <1>1, <3>1 DEF TypeOK
    <3>2. CASE /\ batch[p] # <<>> /\ gp' = [gp EXCEPT ![p] = Head(batch[p])]
               /\ batch' = [batch EXCEPT ![p] = Tail(batch[p])]
      BY <1>1, <1>6, <3>2 DEF TypeOK
    <3>3. QED
      BY <1>4, <3>1, <3>2
  <2>3. tail' \in [Procs -> 0..(W - 1)] /\ h' \in [Procs -> 0..(W - 1)]
    BY <1>1, <1>2, <1>3, <1>4 DEF TypeOK, Counter
  <2>4. QED
    BY <1>1, <1>4, <2>1, <2>2, <2>3 DEF TypeOK
<1>8. /\ tail'[p] = e /\ runq' = runq /\ head' = head /\ curg' = curg /\ grab' = grab
      /\ \/ pc'[p] = "run" /\ batch[p] = <<>> /\ batch'[p] = <<>> /\ gp'[p] = None /\ lock' # p
         \/ /\ pc'[p] = "put" /\ batch[p] # <<>> /\ gp'[p] \in Goroutines
            /\ Len(batch'[p]) = Len(batch[p]) - 1 /\ lock' = lock
      /\ \A q \in Procs \ {p} : pc'[q] = pc[q] /\ tail'[q] = tail[q] /\ gp'[q] = gp[q]
                                 /\ batch'[q] = batch[q] /\ h'[q] = h[q]
                                 /\ (lock' = q <=> lock = q)
  BY <1>1, <1>4, <1>6 DEF Goto, TypeOK
<1>9. InRing(p)' = InRing(p) + 1
  BY <1>3, <1>8 DEF InRing
<1>10. PointOf(p)' /\ ChecksOf(p)' /\ OldOf(p)'
  BY <1>1, <1>2, <1>6, <1>8, <1>9 DEF PointOf, ChecksOf, OldOf, Seeking
<1>11. LockOf(p)'
  BY <1>1, <1>2, <1>6, <1>8, <1>9 DEF Good, LockOf
<1>12. FilledOf(p)'
  <2>1. \A k \in 0..(InRing(p) - 1) : runq[p][Slot(head[p] + k)] # None
    BY <1>1 DEF Good, FilledOf, RingFull
  <2>2. runq[p][Slot(head[p] + InRing(p))] # None
    BY <1>1, <1>6, TailSlot DEF Good, FilledOf
  <2>3. \A k \in 0..InRing(p) : runq[p][Slot(head[p] + k)] # None
    BY <1>1, <2>1, <2>2
  <2>4. RingFull(p)'
    BY <1>1, <1>8, <1>9, <2>3 DEF RingFull
  <2>5. QED
    BY <1>8, <2>4 DEF FilledOf
<1>13. QED
  BY <1>5, <1>7, <1>8, <1>10, <1>11, <1>12, OwnRing DEF Good, Rests

LEMMA GrabCopyInv ==
  ASSUME RingInv, NEW p \in Procs, GrabCopy(p)
  PROVE  RingInv'
<1> DEFINE v == grab[p].victim
           i == grab[p].i
           n == grab[p].n
           s == Slot(tail[p] + i)
           g == runq[v][Slot(h[p] + i)]
           r == [grab[p] EXCEPT !.i = i + 1]
<1>1. /\ TypeOK /\ Good(p) /\ InRing(p) <= Size /\ lock # p /\ batch[p] = <<>>
      /\ pc[p] = "copy" /\ head[p] = tail[p] /\ v \in Procs \ {p}
      /\ curg[p] = None /\ gp[p] = None /\ grab \in [Procs -> Grabs]
      /\ n \in 1..(Size \div 2) /\ i < n /\ i \in 0..Size
      /\ runq \in [Procs -> [Slots -> Goroutines \cup {None}]]
  BY Here DEF GrabCopy, Good, PointOf, OldOf, Seeking, TypeOK, Grabs
<1>2. /\ head[p] \in Counter /\ tail[p] \in Counter /\ h[p] \in Counter
      /\ Size \in Nat \ {0} /\ Size = 2 * (Size \div 2) /\ Size \div 2 \in Nat
      /\ tail[p] \in Int /\ h[p] \in Int /\ W \in Nat
  BY <1>1, Types, Params
<1>3. InRing(p) = 0 /\ i \in Slots /\ i \in Nat /\ i + 1 <= n /\ i + 1 \in 0..Size
  <2>1. InRing(p) = 0
    BY <1>1, <1>2, DistIs DEF InRing
  <2> HIDE DEF i, n
  <2>2. QED
    BY <1>1, <1>2, <2>1 DEF Slots
<1>4. s \in Slots /\ g \in Goroutines \cup {None} /\ r \in Grabs
      /\ r.victim = v /\ r.n = n /\ r.i = i + 1
  <2>1. tail[p] + i \in Int /\ h[p] + i \in Int
    BY <1>2, <1>3
  <2>2. s \in Slots /\ Slot(h[p] + i) \in Slots
    BY <2>1, SlotIs
  <2>3. r \in Grabs /\ r.victim = v /\ r.n = n /\ r.i = i + 1
    BY <1>1, <1>3 DEF Grabs
  <2>4. QED
    BY <1>1, <2>2, <2>3
<1>5. /\ runq' = [runq EXCEPT ![p][s] = g] /\ grab' = [grab EXCEPT ![p] = r]
      /\ pc' = [pc EXCEPT ![p] = IF i + 1 = n THEN "claim" ELSE "copy"]
      /\ UNCHANGED <<head, tail, runnext, global, lock, made, curg, gp, batch, h>>
  BY <1>1 DEF GrabCopy, Goto
<1>6. ASSUME NEW k \in 0..(i - 1)
      PROVE  Slot(tail[p] + k) # s
  <2> HIDE DEF i
  <2>1. k \in Slots /\ k # i
    BY <1>2, <1>3 DEF Slots
  <2>2. QED
    BY <1>2, <1>3, <2>1, SlotIs
<1>7. ASSUME head[v] = h[p], NEW k \in 0..(i - 1)
      PROVE  runq[p][Slot(tail[p] + k)] = runq[v][Slot(h[p] + k)]
  BY <1>1, <1>7 DEF Good, FilledOf
<1> HIDE DEF i, n, s, g, r
<1>8. /\ runq'[p] = [runq[p] EXCEPT ![s] = g] /\ grab'[p] = r
      /\ pc'[p] = (IF i + 1 = n THEN "claim" ELSE "copy")
      /\ \A q \in Procs \ {p} : pc'[q] = pc[q] /\ grab'[q] = grab[q] /\ runq'[q] = runq[q]
  BY <1>1, <1>5 DEF TypeOK
<1>9. TypeOK'
  <2>1. pc' \in [Procs -> Points]
    BY <1>1, <1>5 DEF TypeOK, Points
  <2>2. runq' \in [Procs -> [Slots -> Goroutines \cup {None}]]
    BY <1>1, <1>4, <1>5
  <2>3. grab' \in [Procs -> Grabs]
    BY <1>1, <1>4, <1>5
  <2>4. QED
    BY <1>1, <1>5, <2>1, <2>2, <2>3 DEF TypeOK, Grabs
<1>10. InRing(p)' = 0 /\ InRing(p)' \in Nat
  BY <1>3, <1>5 DEF InRing
<1>11. PointOf(p)' /\ LockOf(p)' /\ ChecksOf(p)'
  BY <1>1, <1>2, <1>4, <1>5, <1>8, <1>10 DEF Good, PointOf, LockOf, ChecksOf, Seeking
<1>12. OldOf(p)'
  <2>1. Behind(h[p], v) /\ n <= Dist(tail[v], h[p])
    BY <1>1 DEF Good, OldOf, n
  <2>2. Dist(head'[v], h'[p]) <= Dist(tail'[v], h'[p]) /\ n <= Dist(tail'[v], h'[p])
    BY <1>5, <2>1 DEF Behind
  <2>3. i + 1 # n => i + 1 < n
    BY <1>1, <1>2, <1>3
  <2>4. QED
    BY <1>1, <1>4, <1>8, <2>2, <2>3 DEF OldOf, Behind
<1>13. FilledOf(p)'
  <2>1. RingFull(p)'
    BY <1>10 DEF RingFull
  <2>2. ASSUME head[v] = h[p], NEW k \in 0..i
        PROVE  runq'[p][Slot(tail[p] + k)] = runq[v][Slot(h[p] + k)]
    <3>1. CASE k = i
      BY <1>1, <1>4, <1>8, <3>1 DEF s, g
    <3>2. CASE k # i
      <4>1. k \in 0..(i - 1)
        BY <1>1, <3>2
      <4>2. QED
        BY <1>1, <1>6, <1>7, <1>8, <2>2, <4>1
    <3>3. QED
      BY <3>1, <3>2
  <2>3. ASSUME head'[v] = h'[p], NEW k \in 0..(r.i - 1)
        PROVE  runq'[p][Slot(tail'[p] + k)] = runq'[v][Slot(h'[p] + k)]
    <3>1. k \in 0..i /\ head[v] = h[p]
      BY <1>1, <1>2, <1>4, <1>5, <2>3
    <3>2. QED
      BY <1>1, <1>5, <1>8, <2>2, <3>1
  <2>4. QED
    BY <1>4, <1>8, <2>1, <2>3 DEF FilledOf
<1>14. ASSUME NEW q \in Procs
       PROVE  Dist(tail'[p], h[q]) >= Dist(tail[p], h[q])
  BY <1>1, <1>5, Types
<1>15. \A k \in 0..(InRing(p) - 1) :
         runq'[p][Slot(head[p] + k)] = runq[p][Slot(head[p] + k)]
  BY <1>3
<1>16. QED
  BY <1>5, <1>8, <1>9, <1>11, <1>12, <1>13, <1>14, <1>15, OwnRing DEF Good, Rests

LEMMA CommitInv ==
  ASSUME RingInv, NEW p \in Procs, Commit(p)
  PROVE  RingInv'
<1> DEFINE n == grab[p].n
           m == n - 1
           t == (tail[p] + m) % W
           g == runq[p][Slot(t)]
<1>1. /\ TypeOK /\ Good(p) /\ InRing(p) <= Size /\ lock # p /\ batch[p] = <<>>
      /\ pc[p] = "commit" /\ head[p] = tail[p] /\ n \in 1..(Size \div 2)
      /\ curg[p] = None /\ gp[p] = None
      /\ runq \in [Procs -> [Slots -> Goroutines \cup {None}]]
  BY Here DEF Commit, Good, PointOf, OldOf, Seeking, TypeOK
<1>2. /\ head[p] \in Counter /\ tail[p] \in Counter /\ tail[p] \in Int
      /\ Size \in Nat \ {0} /\ Size = 2 * (Size \div 2) /\ Size \div 2 \in Nat
      /\ W \in Nat \ {0} /\ W >= 2 * Size
  BY <1>1, Types, Params
<1>3. m \in Nat /\ m \in 0..(W - 1) /\ m \in 0..W /\ m < Size /\ m \in 0..(n - 1) /\ m \in Int
  <2> HIDE DEF n
  <2>1. QED
    BY <1>1, <1>2
<1>4. tail[p] + n - 1 = tail[p] + m
  <2> HIDE DEF n
  <2>1. QED
    BY <1>1, <1>2
<1>5. /\ NotLapped(p, t) /\ Run(p, g) /\ EndGrab(p)
      /\ runq' = [runq EXCEPT ![p] = Without(p, t, 1)] /\ tail' = [tail EXCEPT ![p] = t]
      /\ UNCHANGED <<head, runnext, global, lock, made, gp, batch>>
  BY <1>4 DEF Commit
<1> HIDE DEF n, m
<1>6. InRing(p) = 0 /\ Dist(tail[p], tail[p]) = 0
  BY <1>1, <1>2, DistIs DEF InRing
<1>7. t \in Counter /\ Dist(t, head[p]) = m
  <2>1. Dist(tail[p], tail[p]) + m < W
    BY <1>2, <1>3, <1>6
  <2>2. t \in Counter /\ Dist(t, tail[p]) = Dist(tail[p], tail[p]) + m
    BY <1>2, <1>3, <2>1, TailSteps
  <2>3. QED
    BY <1>1, <1>3, <1>6, <2>2
<1>8. \A q \in Procs : Reading(q, p) => Dist(t, h[q]) >= Dist(tail[p], h[q])
  BY <1>1, <1>3, <1>5, TailMoves
<1>9. Slot(t) = Slot(tail[p] + m) /\ Slot(t) \in Slots
  <2>1. Slot(((tail[p] + m) % W) + 0) = Slot(tail[p] + m + 0)
    BY <1>2, <1>3, SlotIs
  <2>2. t \in Int
    <3> HIDE DEF t
    <3>1. QED
      BY <1>1, <1>7, Types
  <2>3. t + 0 = t /\ tail[p] + m + 0 = tail[p] + m
    <3> HIDE DEF t
    <3>1. QED
      BY <1>2, <1>3, <2>2
  <2>4. QED
    BY <2>1, <2>2, <2>3, SlotIs
<1> HIDE DEF t
<1>10. \A k \in 0..(n - 1) : runq[p][Slot(tail[p] + k)] # None
  BY <1>1 DEF Good, FilledOf, n
<1>11. g \in Goroutines
  <2>1. g # None
    BY <1>3, <1>9, <1>10
  <2>2. QED
    BY <1>1, <1>9, <2>1
<1> HIDE DEF g
<1>12. Without(p, t, 1) \in [Slots -> Goroutines \cup {None}]
  BY <1>1 DEF Without
<1>13. ASSUME NEW k \in 0..(m - 1)
       PROVE  Without(p, t, 1)[Slot(tail[p] + k)] # None
  <2>1. k \in Slots /\ m \in Slots /\ k # m /\ k \in 0..(n - 1)
    BY <1>1, <1>2, <1>3 DEF Slots, m
  <2>2. Slot(tail[p] + k) # Slot(t) /\ Slot(tail[p] + k) \in Slots
    <3>1. tail[p] + k \in Int
      BY <1>2
    <3>2. QED
      BY <1>2, <1>9, <2>1, <3>1, SlotIs
  <2>3. \A j \in 0..(1 - 1) : t + j = t
    BY <1>1, <1>7, Types
  <2>4. QED
    BY <1>10, <2>1, <2>2, <2>3 DEF Without
<1>14. /\ tail'[p] = t /\ runq'[p] = Without(p, t, 1) /\ pc'[p] = "run" /\ curg'[p] = g
       /\ \A q \in Procs \ {p} : pc'[q] = pc[q] /\ tail'[q] = tail[q] /\ curg'[q] = curg[q]
                                  /\ runq'[q] = runq[q]
       /\ pc' \in [Procs -> Points] /\ curg' \in [Procs -> Goroutines \cup {None}]
       /\ tail' \in [Procs -> 0..(W - 1)]
       /\ runq' \in [Procs -> [Slots -> Goroutines \cup {None}]]
  <2>1. pc' = [pc EXCEPT ![p] = "run"] /\ curg' = [curg EXCEPT ![p] = g]
    BY <1>5 DEF Run, Goto
  <2>2. pc \in [Procs -> Points] /\ tail \in [Procs -> 0..(W - 1)] /\ "run" \in Points
        /\ curg \in [Procs -> Goroutines \cup {None}] /\ t \in 0..(W - 1)
    BY <1>1, <1>7 DEF TypeOK, Points, Counter
  <2>3. QED
    BY <1>1, <1>5, <1>11, <1>12, <2>1, <2>2
<1>15. /\ grab' \in [Procs -> Grabs] /\ h' \in [Procs -> 0..(W - 1)]
       /\ \A q \in Procs \ {p} : h'[q] = h[q] /\ grab'[q] = grab[q]
  BY <1>1, <1>5, EndGrabIs
<1>16. TypeOK'
  BY <1>1, <1>5, <1>14, <1>15 DEF TypeOK, Grabs
<1>17. InRing(p)' = m
  BY <1>5, <1>7, <1>14 DEF InRing
<1>18. FilledOf(p)'
  <2>1. RingFull(p)'
    BY <1>1, <1>5, <1>13, <1>14, <1>17 DEF RingFull
  <2>2. QED
    BY <1>14, <2>1 DEF FilledOf
<1>19. None \notin Goroutines
  BY RunQueueAssumption
<1>20. PointOf(p)' /\ LockOf(p)' /\ ChecksOf(p)' /\ OldOf(p)'
  <2>1. /\ gp'[p] = None /\ batch'[p] = <<>> /\ lock' # p /\ InRing(p)' <= Size
        /\ pc'[p] = "run" /\ curg'[p] # None
    BY <1>1, <1>2, <1>3, <1>5, <1>11, <1>14, <1>17, <1>19
  <2>2. QED
    BY <2>1 DEF PointOf, LockOf, ChecksOf, OldOf, Seeking
<1>21. \A k \in 0..(InRing(p) - 1) :
         runq'[p][Slot(head[p] + k)] = runq[p][Slot(head[p] + k)]
  BY <1>6
<1>22. QED
  BY <1>5, <1>8, <1>14, <1>15, <1>16, <1>18, <1>20, <1>21, OwnRing DEF Good, Rests

\* A thief that came too late forgets its copies.
LEMMA GrabLateInv ==
  ASSUME RingInv, NEW p \in Procs, GrabClaim(p), head[grab[p].victim] # h[p]
  PROVE  RingInv'
<1>1. /\ TypeOK /\ Good(p) /\ InRing(p) <= Size /\ lock # p /\ batch[p] = <<>>
      /\ pc[p] = "claim" /\ head[p] = tail[p] /\ grab[p].victim \in Procs \ {p}
      /\ curg[p] = None /\ gp[p] = None
      /\ runq \in [Procs -> [Slots -> Goroutines \cup {None}]]
      /\ head[p] \in Counter /\ tail[p] \in Counter
  BY Here DEF GrabClaim, Good, PointOf, Seeking, TypeOK
<1>2. InRing(p) = 0 /\ 0 \in 0..(W - 1)
  BY <1>1, DistIs, Params DEF InRing
<1> DEFINE ring == Without(p, tail[p], grab[p].n)
<1>3. /\ runq' = [runq EXCEPT ![p] = ring]
      /\ pc' = [pc EXCEPT ![p] = "grab"] /\ h' = [h EXCEPT ![p] = 0] /\ head' = head
      /\ UNCHANGED <<tail, runnext, global, lock, made, curg, gp, batch, grab>>
  BY DEF GrabClaim, Goto
<1>4. ring \in [Slots -> Goroutines \cup {None}]
  BY <1>1 DEF Without
<1> HIDE DEF ring
<1>5. TypeOK'
  <2>1. pc' \in [Procs -> Points] /\ h' \in [Procs -> 0..(W - 1)]
    BY <1>1, <1>2, <1>3 DEF TypeOK, Points
  <2>2. runq' \in [Procs -> [Slots -> Goroutines \cup {None}]]
    BY <1>1, <1>3, <1>4
  <2>3. QED
    BY <1>1, <1>3, <2>1, <2>2 DEF TypeOK
<1>6. /\ pc'[p] = "grab"
      /\ \A q \in Procs \ {p} : pc'[q] = pc[q] /\ h'[q] = h[q] /\ runq'[q] = runq[q]
  BY <1>1, <1>3 DEF TypeOK
<1>7. InRing(p)' = 0
  BY <1>2, <1>3 DEF InRing
<1>8. PointOf(p)' /\ LockOf(p)' /\ ChecksOf(p)' /\ OldOf(p)' /\ FilledOf(p)'
  BY <1>1, <1>2, <1>3, <1>6, <1>7
     DEF Good, PointOf, LockOf, ChecksOf, OldOf, FilledOf, RingFull, Seeking
<1>9. ASSUME NEW q \in Procs
      PROVE  Dist(tail'[p], h[q]) >= Dist(tail[p], h[q])
  BY <1>1, <1>3, Types
<1>10. \A k \in 0..(InRing(p) - 1) :
         runq'[p][Slot(head[p] + k)] = runq[p][Slot(head[p] + k)]
  BY <1>2
<1>11. QED
  BY <1>3, <1>5, <1>6, <1>8, <1>9, <1>10, OwnRing DEF Good, Rests
-----------------------------------------------------------------------------
(* The steps that move a head *)

LEMMA HeadStep ==
  ASSUME RingInv, TypeOK', NEW p \in Procs, NEW v \in Procs, NEW m \in 1..InRing(v),
         tail' = tail, head' = [head EXCEPT ![v] = (head[v] + m) % W],
         runq' = [runq EXCEPT ![v] = Without(v, head[v], m)],
         \A q \in Procs \ {p} : Rests(q), Good(p)'
  PROVE  RingInv'
<1>1. ASSUME NEW q \in Procs \ {p}
      PROVE  Good(q)'
  BY OthersFollow
<1>2. QED
  BY <1>1, InvNext

\* A position of the ring that the tail is n behind: the goroutines from there on.
LEMMA BatchIs ==
  ASSUME RingInv, NEW p \in Procs, NEW n \in 0..InRing(p)
  PROVE  Batch(p, head[p], n) \in Seq(Goroutines) /\ Len(Batch(p, head[p], n)) = n
<1>1. TypeOK /\ InRing(p) \in Nat /\ head[p] \in Int /\ Good(p)
  BY Here, Types
<1>2. ASSUME NEW k \in 1..n
      PROVE  runq[p][Slot(head[p] + k - 1)] \in Goroutines
  <2>1. k - 1 \in 0..(InRing(p) - 1) /\ head[p] + k - 1 = head[p] + (k - 1)
        /\ head[p] + (k - 1) \in Int
    BY <1>1
  <2>2. Slot(head[p] + (k - 1)) \in Slots
    BY <2>1, SlotIs
  <2>3. runq[p][Slot(head[p] + (k - 1))] # None
    BY <1>1, <2>1 DEF Good, FilledOf, RingFull
  <2>4. QED
    BY <1>1, <2>1, <2>2, <2>3 DEF TypeOK
<1>3. n \in Nat
  BY <1>1
<1>4. Batch(p, head[p], n) \in [1..n -> Goroutines]
  BY <1>2 DEF Batch
<1>5. QED
  BY <1>3, <1>4

LEMMA WithoutIs ==
  ASSUME TypeOK
  PROVE  \A p \in Procs : \A from, n : Without(p, from, n) \in [Slots -> Goroutines \cup {None}]
BY DEF TypeOK, Without

LEMMA PutSlowInv ==
  ASSUME RingInv, NEW p \in Procs, PutSlow(p)
  PROVE  RingInv'
<1> DEFINE half == Size \div 2
           b == Batch(p, head[p], half)
<1>1. /\ TypeOK /\ Good(p) /\ InRing(p) \in Nat /\ InRing(p) <= Size /\ lock # p
      /\ pc[p] = "slow" /\ batch[p] = <<>> /\ head[p] \in Counter /\ tail[p] \in Counter
      /\ Behind(h[p], p) /\ h[p] # tail[p] /\ Dist(tail[p], h[p]) = Size
      /\ curg[p] # None /\ gp[p] # None
  BY Here DEF PutSlow, Good, PointOf, OldOf, ChecksOf
<1>2. Size \in Nat \ {0} /\ half \in Nat \ {0} /\ Size = 2 * half /\ W \in Nat \ {0}
      /\ half <= Size
  BY Params
<1>3. CASE head[p] # h[p]
  <2>1. /\ pc' = [pc EXCEPT ![p] = "put"]
        /\ UNCHANGED <<head, tail, runq, runnext, global, lock, made, curg, gp, batch, h, grab>>
    BY <1>3 DEF PutSlow, Goto
  <2>2. TypeOK'
    BY <1>1, <2>1 DEF TypeOK, Points
  <2>3. pc'[p] = "put" /\ \A q \in Procs \ {p} : Rests(q)
    BY <1>1, <2>1 DEF TypeOK, Rests
  <2>4. InRing(p)' = InRing(p)
    BY <2>1 DEF InRing
  <2>5. PointOf(p)' /\ LockOf(p)' /\ OldOf(p)' /\ ChecksOf(p)'
    BY <1>1, <2>1, <2>3, <2>4 DEF PointOf, LockOf, OldOf, ChecksOf, Seeking
  <2>6. QED
    BY <2>1, <2>2, <2>3, <2>5, Quiet
<1>4. CASE head[p] = h[p]
  <2>1. InRing(p) = Size /\ half \in 1..InRing(p) /\ half \in 0..InRing(p) /\ half \in 0..W
    BY <1>1, <1>2, <1>4, Params DEF InRing
  <2>2. b \in Seq(Goroutines) /\ gp[p] \in Goroutines
    BY <1>1, <2>1, BatchIs DEF TypeOK
  <2>3. /\ head' = [head EXCEPT ![p] = (head[p] + half) % W]
        /\ runq' = [runq EXCEPT ![p] = Without(p, head[p], half)]
        /\ batch' = [batch EXCEPT ![p] = Append(b, gp[p])]
        /\ gp' = [gp EXCEPT ![p] = None] /\ h' = [h EXCEPT ![p] = 0]
        /\ pc' = [pc EXCEPT ![p] = "spill"]
        /\ UNCHANGED <<tail, runnext, global, lock, made, curg, grab>>
    BY <1>1, <1>4 DEF PutSlow, Goto, TypeOK
  <2> HIDE DEF half, b
  <2>4. Append(b, gp[p]) \in Seq(Goroutines) /\ Append(b, gp[p]) # <<>>
    BY <2>2
  <2>5. (head[p] + half) % W \in Counter /\ InRing(p)' = InRing(p) - half /\ RingFull(p)'
    <3>1. (head[p] + half) % W \in Counter
      BY <1>1, <2>1, PlusIs
    <3>2. InRing(p)' = InRing(p) - half /\ RingFull(p)'
      BY <2>1, <2>3, HeadMoves
    <3>3. QED
      BY <3>1, <3>2
  <2>6. TypeOK'
    <3>1. head' \in [Procs -> 0..(W - 1)] /\ h' \in [Procs -> 0..(W - 1)]
      <4>1. head \in [Procs -> Counter] /\ h \in [Procs -> Counter] /\ 0 \in Counter
        BY <1>1, <1>2 DEF TypeOK, Counter
      <4>2. head' \in [Procs -> Counter] /\ h' \in [Procs -> Counter]
        BY <2>3, <2>5, <4>1
      <4>3. QED
        BY <4>2 DEF Counter
    <3>2. runq' \in [Procs -> [Slots -> Goroutines \cup {None}]]
      BY <1>1, <2>3, WithoutIs DEF TypeOK
    <3>3. batch' \in [Procs -> Seq(Goroutines)] /\ gp' \in [Procs -> Goroutines \cup {None}]
      BY <1>1, <2>3, <2>4 DEF TypeOK
    <3>4. pc' \in [Procs -> Points]
      BY <1>1, <2>3 DEF TypeOK, Points
    <3>5. QED
      BY <1>1, <2>3, <3>1, <3>2, <3>3, <3>4 DEF TypeOK
  <2>7. /\ pc'[p] = "spill" /\ batch'[p] # <<>> /\ gp'[p] = None
        /\ \A q \in Procs \ {p} : Rests(q)
    BY <1>1, <2>3, <2>4 DEF TypeOK, Rests
  <2>8. InRing(p)' <= Size
    BY <1>1, <1>2, <2>1, <2>5
  <2>9. Good(p)'
    BY <1>1, <2>3, <2>5, <2>7, <2>8
       DEF Good, PointOf, LockOf, OldOf, FilledOf, ChecksOf, Seeking
  <2>10. QED
    BY <2>1, <2>3, <2>6, <2>7, <2>9, HeadStep
<1>5. QED
  BY <1>3, <1>4

LEMMA GetTakeInv ==
  ASSUME RingInv, NEW p \in Procs, GetTake(p)
  PROVE  RingInv'
<1> DEFINE g == runq[p][Slot(head[p])]
<1>1. /\ TypeOK /\ Good(p) /\ InRing(p) \in Nat /\ InRing(p) <= Size /\ lock # p
      /\ pc[p] = "take" /\ batch[p] = <<>> /\ head[p] \in Counter /\ tail[p] \in Counter
      /\ h[p] # tail[p] /\ curg[p] = None /\ gp[p] = None
  BY Here DEF GetTake, Good, PointOf, OldOf
<1>2. Size \in Nat \ {0} /\ W \in Nat \ {0} /\ 0 \in 0..(W - 1) /\ 1 \in 0..W
  BY Params
<1>3. CASE head[p] # h[p]
  <2>1. /\ pc' = [pc EXCEPT ![p] = "look"] /\ h' = [h EXCEPT ![p] = 0]
        /\ UNCHANGED <<head, tail, runq, runnext, global, lock, made, curg, gp, batch, grab>>
    BY <1>3 DEF GetTake, Goto
  <2>2. TypeOK'
    BY <1>1, <1>2, <2>1 DEF TypeOK, Points
  <2>3. pc'[p] = "look" /\ \A q \in Procs \ {p} : Rests(q)
    BY <1>1, <2>1 DEF TypeOK, Rests
  <2>4. InRing(p)' = InRing(p)
    BY <2>1 DEF InRing
  <2>5. PointOf(p)' /\ LockOf(p)' /\ OldOf(p)' /\ ChecksOf(p)'
    BY <1>1, <2>1, <2>3, <2>4 DEF PointOf, LockOf, OldOf, ChecksOf, Seeking
  <2>6. QED
    BY <2>1, <2>2, <2>3, <2>5, Quiet
<1>4. CASE head[p] = h[p]
  <2>1. 1 \in 1..InRing(p)
    BY <1>1, <1>4, DistIs DEF InRing
  <2>2. g \in Goroutines
    <3>1. 0 \in 0..(InRing(p) - 1) /\ head[p] \in Int /\ head[p] + 0 = head[p]
      BY <1>1, <2>1, Types
    <3>2. g # None
      BY <1>1, <3>1 DEF Good, FilledOf, RingFull
    <3>3. Slot(head[p]) \in Slots
      BY <3>1, SlotIs
    <3>4. QED
      BY <1>1, <3>2, <3>3 DEF TypeOK
  <2>3. /\ head' = [head EXCEPT ![p] = (head[p] + 1) % W]
        /\ runq' = [runq EXCEPT ![p] = Without(p, head[p], 1)]
        /\ curg' = [curg EXCEPT ![p] = g] /\ h' = [h EXCEPT ![p] = 0]
        /\ pc' = [pc EXCEPT ![p] = "run"]
        /\ UNCHANGED <<tail, runnext, global, lock, made, gp, batch, grab>>
    BY <1>1, <1>4 DEF GetTake, Run, Goto, TypeOK
  <2> HIDE DEF g
  <2>4. (head[p] + 1) % W \in Counter /\ InRing(p)' = InRing(p) - 1 /\ RingFull(p)'
    <3>1. (head[p] + 1) % W \in Counter
      BY <1>1, <1>2, PlusIs
    <3>2. InRing(p)' = InRing(p) - 1 /\ RingFull(p)'
      BY <2>1, <2>3, HeadMoves
    <3>3. QED
      BY <3>1, <3>2
  <2>5. TypeOK'
    <3>1. head' \in [Procs -> 0..(W - 1)] /\ h' \in [Procs -> 0..(W - 1)]
      BY <1>1, <1>2, <2>3, <2>4 DEF TypeOK, Counter
    <3>2. runq' \in [Procs -> [Slots -> Goroutines \cup {None}]]
      BY <1>1, <2>3, WithoutIs DEF TypeOK
    <3>3. pc' \in [Procs -> Points] /\ curg' \in [Procs -> Goroutines \cup {None}]
      BY <1>1, <2>2, <2>3 DEF TypeOK, Points
    <3>4. QED
      BY <1>1, <2>3, <3>1, <3>2, <3>3 DEF TypeOK
  <2>6. /\ pc'[p] = "run" /\ curg'[p] # None
        /\ \A q \in Procs \ {p} : Rests(q)
    <3>1. None \notin Goroutines
      BY RunQueueAssumption
    <3>2. QED
      BY <1>1, <2>2, <2>3, <3>1 DEF TypeOK, Rests
  <2>7. InRing(p)' <= Size
    BY <1>1, <1>2, <2>4
  <2>8. Good(p)'
    BY <1>1, <2>3, <2>4, <2>6, <2>7
       DEF Good, PointOf, LockOf, OldOf, FilledOf, ChecksOf, Seeking
  <2>9. QED
    BY <2>1, <2>3, <2>5, <2>6, <2>8, HeadStep
<1>5. QED
  BY <1>3, <1>4

LEMMA GrabClaimInv ==
  ASSUME RingInv, NEW p \in Procs, GrabClaim(p)
  PROVE  RingInv'
<1> DEFINE v == grab[p].victim
           n == grab[p].n
<1>1. CASE head[v] # h[p]
  BY <1>1, GrabLateInv
<1>2. CASE head[v] = h[p]
  <2>1. /\ TypeOK /\ Good(p) /\ InRing(p) <= Size /\ lock # p /\ batch[p] = <<>>
        /\ pc[p] = "claim" /\ head[p] = tail[p] /\ v \in Procs \ {p}
        /\ curg[p] = None /\ gp[p] = None /\ head[p] \in Counter /\ tail[p] \in Counter
        /\ n \in 1..(Size \div 2) /\ grab[p].i = n /\ n <= Dist(tail[v], h[p])
    BY Here DEF GrabClaim, Good, PointOf, OldOf, Seeking
  <2>2. /\ Size \in Nat \ {0} /\ Size = 2 * (Size \div 2) /\ Size \div 2 \in Nat
        /\ W \in Nat \ {0} /\ Size < W /\ n \in Nat /\ head[v] \in Counter
        /\ InRing(v) \in Nat /\ Good(v)
    <3>1. head[v] \in Counter /\ InRing(v) \in Nat /\ Good(v)
      BY <2>1, Types, InvHas
    <3>2. /\ Size \in Nat \ {0} /\ Size = 2 * (Size \div 2) /\ Size \div 2 \in Nat
          /\ W \in Nat \ {0} /\ Size < W
      BY Params
    <3>3. n \in Nat
      BY <2>1, <3>2
    <3>4. QED
      BY <3>1, <3>2, <3>3
  <2> HIDE DEF n
  <2>3. InRing(p) = 0 /\ n \in 1..InRing(v) /\ n \in 0..W /\ n - 1 < Size
    BY <1>2, <2>1, <2>2, DistIs DEF InRing
  <2>4. /\ head' = [head EXCEPT ![v] = (head[v] + n) % W]
        /\ runq' = [runq EXCEPT ![v] = Without(v, head[v], n)]
        /\ pc' = [pc EXCEPT ![p] = "commit"]
        /\ UNCHANGED <<tail, runnext, global, lock, made, curg, gp, batch, h, grab>>
    BY <1>2, <2>1 DEF GrabClaim, Goto, TypeOK, n
  <2>5. (head[v] + n) % W \in Counter
    BY <2>2, <2>3, PlusIs
  <2>6. TypeOK'
    <3>1. head' \in [Procs -> 0..(W - 1)]
      BY <2>1, <2>4, <2>5 DEF TypeOK, Counter
    <3>2. runq' \in [Procs -> [Slots -> Goroutines \cup {None}]]
      BY <2>1, <2>4, WithoutIs DEF TypeOK
    <3>3. pc' \in [Procs -> Points]
      BY <2>1, <2>4 DEF TypeOK, Points
    <3>4. QED
      BY <2>1, <2>4, <3>1, <3>2, <3>3 DEF TypeOK
  <2>7. /\ pc'[p] = "commit" /\ head'[p] = head[p] /\ runq'[p] = runq[p]
        /\ \A q \in Procs \ {p} : Rests(q)
    BY <2>1, <2>4 DEF TypeOK, Rests
  <2>8. ASSUME NEW k \in 0..(n - 1)
        PROVE  runq[p][Slot(tail[p] + k)] # None
    <3>1. runq[p][Slot(tail[p] + k)] = runq[v][Slot(head[v] + k)]
      BY <1>2, <2>1, <2>8 DEF Good, FilledOf
    <3>2. k \in 0..(InRing(v) - 1)
      BY <2>2, <2>3
    <3>3. QED
      BY <2>2, <3>1, <3>2 DEF Good, FilledOf, RingFull
  <2>9. InRing(p)' = 0
    BY <2>3, <2>4, <2>7 DEF InRing
  <2>10. FilledOf(p)'
    <3>1. RingFull(p)'
      BY <2>9 DEF RingFull
    <3>2. QED
      BY <2>4, <2>7, <2>8, <3>1 DEF FilledOf, n
  <2>11. PointOf(p)' /\ LockOf(p)' /\ OldOf(p)'
    BY <2>1, <2>4, <2>7 DEF PointOf, LockOf, OldOf, Seeking, n
  <2>12. ChecksOf(p)'
    BY <2>1, <2>2, <2>3, <2>4, <2>7, <2>9 DEF ChecksOf, n
  <2>13. QED
    BY <2>1, <2>3, <2>4, <2>6, <2>7, <2>10, <2>11, <2>12, HeadStep DEF Good
<1>3. QED
  BY <1>1, <1>2
-----------------------------------------------------------------------------
LEMMA InitRing == Init => RingInv
<1>1. SUFFICES ASSUME Init
               PROVE  RingInv
  OBVIOUS
<1>2. /\ Size \in Nat \ {0} /\ W \in Nat \ {0} /\ Start \in 0..(W - 1) /\ 1 \in Goroutines
      /\ None \notin Goroutines \cup Procs /\ Busy \in Procs
  BY Params, RunQueueAssumption DEF Goroutines
<1>3. Dist(Start, Start) = 0
  BY <1>2, DistIs DEF Counter
<1>4. TypeOK
  <2>1. NoGrab \in Grabs
    BY <1>2 DEF NoGrab, Grabs
  <2>2. 0 \in 0..(W - 1)
    BY <1>2
  <2>3. <<>> \in Seq(Goroutines)
    OBVIOUS
  <2>4. QED
    BY <1>1, <1>2, <2>1, <2>2, <2>3 DEF Init, TypeOK, Points, Grabs
<1>5. ASSUME NEW p \in Procs
      PROVE  /\ head[p] = Start /\ tail[p] = Start /\ batch[p] = <<>> /\ gp[p] = None
             /\ pc[p] = (IF p = Busy THEN "run" ELSE "find")
             /\ curg[p] = (IF p = Busy THEN 1 ELSE None)
             /\ lock # p /\ InRing(p) = 0
  BY <1>1, <1>2, <1>3 DEF Init, InRing
<1>6. PointsAgree
  BY <1>2, <1>5 DEF PointsAgree, Seeking
<1>7. LockKept
  BY <1>5 DEF LockKept
<1>8. HeadsAreOld
  BY <1>5 DEF HeadsAreOld
<1>9. SlotsFilled
  BY <1>5 DEF SlotsFilled
<1>10. NoThrow
  BY <1>2, <1>5 DEF NoThrow
<1>11. QED
  BY <1>4, <1>6, <1>7, <1>8, <1>9, <1>10 DEF RingInv

LEMMA NextRing == RingInv /\ [Next]_vars => RingInv'
<1>1. ASSUME RingInv, NEW p \in Procs, Put(p)
      PROVE  RingInv'
  BY <1>1, PutNextInv, PutLookInv, PutWriteInv, PutPublishInv, PutSlowInv, SpillInv DEF Put
<1>2. ASSUME RingInv, NEW p \in Procs, Get(p)
      PROVE  RingInv'
  BY <1>2, GetGlobalInv, GetNextInv, GetLookInv, GetTakeInv, TakeGlobalInv DEF Get
<1>3. ASSUME RingInv, NEW p \in Procs, Grab(p)
      PROVE  RingInv'
  BY <1>3, StealInv, GrabHeadInv, GrabTailInv, GrabCopyInv, GrabClaimInv, CommitInv,
     StealNextLookInv, StealNextInv DEF Grab
<1>4. ASSUME RingInv, UNCHANGED vars
      PROVE  RingInv'
  BY <1>4 DEF vars, RingInv, TypeOK, PointsAgree, LockKept, HeadsAreOld, SlotsFilled, NoThrow,
     InRing, Behind
<1>5. QED
  BY <1>1, <1>2, <1>3, <1>4, ReadyInv, BlockInv DEF Next
-----------------------------------------------------------------------------
(* Sequences without repetitions *)

LEMMA ElementsAre ==
  ASSUME NEW S, NEW s \in Seq(S)
  PROVE  /\ DOMAIN s = 1..Len(s) /\ Len(s) \in Nat
         /\ \A x : x \in ToSet(s) <=> \E i \in 1..Len(s) : x = s[i]
         /\ ToSet(s) \subseteq S
         /\ IsInjective(s) <=> \A i, j \in 1..Len(s) : s[i] = s[j] => i = j
<1>1. DOMAIN s = 1..Len(s) /\ Len(s) \in Nat /\ \A i \in 1..Len(s) : s[i] \in S
  BY LenProperties, ElementOfSeq
<1>2. QED
  BY <1>1 DEF ToSet, IsInjective

\* A queue is cut in two,
LEMMA Cut ==
  ASSUME NEW S, NEW s \in Seq(S), NEW k \in 0..Len(s), IsInjective(s)
  PROVE  /\ SubSeq(s, 1, k) \in Seq(S) /\ Len(SubSeq(s, 1, k)) = k
         /\ \A i \in 1..k : SubSeq(s, 1, k)[i] = s[i]
         /\ SubSeq(s, k + 1, Len(s)) \in Seq(S) /\ Len(SubSeq(s, k + 1, Len(s))) = Len(s) - k
         /\ \A i \in 1..(Len(s) - k) : SubSeq(s, k + 1, Len(s))[i] = s[k + i]
         /\ IsInjective(SubSeq(s, 1, k)) /\ IsInjective(SubSeq(s, k + 1, Len(s)))
         /\ ToSet(SubSeq(s, 1, k)) \subseteq ToSet(s)
         /\ ToSet(SubSeq(s, k + 1, Len(s))) = ToSet(s) \ ToSet(SubSeq(s, 1, k))
<1> DEFINE n == Len(s)
           a == SubSeq(s, 1, k)
           b == SubSeq(s, k + 1, n)
<1>1. /\ n \in Nat /\ k \in Nat /\ k <= n /\ \A i \in 1..n : s[i] \in S
      /\ \A i, j \in 1..n : s[i] = s[j] => i = j
  BY LenProperties, ElementOfSeq, ElementsAre
<1>2. a \in Seq(S) /\ Len(a) = k /\ \A i \in 1..k : a[i] = s[i]
  <2>1. \A i \in 1..k : s[i] \in S
    BY <1>1
  <2>2. /\ SubSeq(s, 1, k) \in Seq(S)
        /\ Len(SubSeq(s, 1, k)) = IF 1 <= k THEN k - 1 + 1 ELSE 0
        /\ \A i \in 1..(k - 1 + 1) : SubSeq(s, 1, k)[i] = s[1 + i - 1]
    BY <1>1, <2>1, SubSeqProperties
  <2> HIDE DEF a
  <2>3. Len(a) = k /\ a \in Seq(S)
    BY <1>1, <2>2 DEF a
  <2>4. ASSUME NEW i \in 1..k
        PROVE  a[i] = s[i]
    <3>1. i \in 1..(k - 1 + 1) /\ 1 + i - 1 = i
      BY <1>1
    <3>2. QED
      BY <2>2, <3>1 DEF a
  <2>5. QED
    BY <2>3, <2>4
<1>3. b \in Seq(S) /\ Len(b) = n - k /\ \A i \in 1..(n - k) : b[i] = s[k + i]
  <2> HIDE DEF n
  <2>1. \A i \in (k + 1)..n : s[i] \in S
    BY <1>1
  <2>2. k + 1 \in Int /\ n \in Int
    BY <1>1
  <2>3. /\ SubSeq(s, k + 1, n) \in Seq(S)
        /\ Len(SubSeq(s, k + 1, n)) = IF k + 1 <= n THEN n - (k + 1) + 1 ELSE 0
        /\ \A i \in 1..(n - (k + 1) + 1) : SubSeq(s, k + 1, n)[i] = s[(k + 1) + i - 1]
    <3>1. \A i \in (k + 1)..n : s[i] \in S
      BY <2>1
    <3> DEFINE m == k + 1
    <3>2. m \in Int /\ \A i \in m..n : s[i] \in S
      BY <2>2, <3>1
    <3> HIDE DEF m
    <3>3. /\ SubSeq(s, m, n) \in Seq(S)
          /\ Len(SubSeq(s, m, n)) = IF m <= n THEN n - m + 1 ELSE 0
          /\ \A i \in 1..(n - m + 1) : SubSeq(s, m, n)[i] = s[m + i - 1]
      BY <2>2, <3>2, SubSeqProperties
    <3>4. QED
      BY <3>3 DEF m
  <2> HIDE DEF b
  <2>4. Len(b) = n - k /\ b \in Seq(S)
    BY <1>1, <2>3 DEF b
  <2>5. ASSUME NEW i \in 1..(n - k)
        PROVE  b[i] = s[k + i]
    <3>1. i \in 1..(n - (k + 1) + 1) /\ (k + 1) + i - 1 = k + i
      BY <1>1
    <3>2. QED
      BY <2>3, <3>1 DEF b
  <2>6. QED
    BY <2>4, <2>5
<1> HIDE DEF n, a, b
<1>4. IsInjective(a) /\ IsInjective(b)
  <2>1. \A i, j \in 1..k : a[i] = a[j] => i = j
    BY <1>1, <1>2
  <2>2. ASSUME NEW i \in 1..(n - k), NEW j \in 1..(n - k), b[i] = b[j]
        PROVE  i = j
    <3>1. k + i \in 1..n /\ k + j \in 1..n
      BY <1>1
    <3>2. b[i] = s[k + i] /\ b[j] = s[k + j]
      BY <1>3
    <3>3. k + i = k + j
      BY <1>1, <2>2, <3>1, <3>2
    <3>4. QED
      BY <1>1, <3>3
  <2>3. IsInjective(a)
    BY <1>2, <2>1, ElementsAre
  <2>4. IsInjective(b)
    BY <1>3, <2>2, ElementsAre
  <2>5. QED
    BY <2>3, <2>4
<1>5. ASSUME NEW x \in ToSet(a)
      PROVE  x \in ToSet(s) /\ x \notin ToSet(b)
  <2>1. PICK i \in 1..k : x = a[i]
    BY <1>2, <1>5, ElementsAre
  <2>2. i \in 1..n /\ x = s[i]
    BY <1>1, <1>2, <2>1
  <2>3. x \in ToSet(s)
    BY <2>2, ElementsAre DEF n
  <2>4. ASSUME NEW j \in 1..(n - k)
        PROVE  x # b[j]
    <3>1. k + j \in 1..n /\ k + j # i /\ b[j] = s[k + j]
      BY <1>1, <1>3, <2>1
    <3>2. QED
      BY <1>1, <2>2, <3>1
  <2>5. x \notin ToSet(b)
    BY <1>3, <2>4, ElementsAre
  <2>6. QED
    BY <2>3, <2>5
<1>6. ASSUME NEW x \in ToSet(b)
      PROVE  x \in ToSet(s)
  <2>1. PICK i \in 1..(n - k) : x = b[i]
    BY <1>3, <1>6, ElementsAre
  <2>2. k + i \in 1..n /\ x = s[k + i]
    BY <1>1, <1>3, <2>1
  <2>3. QED
    BY <2>2, ElementsAre DEF n
<1>7. ASSUME NEW x \in ToSet(s)
      PROVE  x \in ToSet(a) \/ x \in ToSet(b)
  <2>1. PICK i \in 1..n : x = s[i]
    BY <1>7, ElementsAre DEF n
  <2>2. CASE i <= k
    <3>1. i \in 1..k /\ x = a[i]
      BY <1>1, <1>2, <2>1, <2>2
    <3>2. QED
      BY <1>2, <3>1, ElementsAre
  <2>3. CASE ~(i <= k)
    <3>1. i - k \in 1..(n - k) /\ k + (i - k) = i
      BY <1>1, <2>3
    <3>2. x = b[i - k]
      BY <1>3, <2>1, <3>1
    <3>3. QED
      BY <1>3, <3>1, <3>2, ElementsAre
  <2>4. QED
    BY <2>2, <2>3
<1>8. ToSet(a) \subseteq ToSet(s) /\ ToSet(b) = ToSet(s) \ ToSet(a)
  BY <1>5, <1>6, <1>7
<1>9. QED
  BY <1>2, <1>3, <1>4, <1>8 DEF n, a, b

\* and two without a common element are joined.
LEMMA Joined ==
  ASSUME NEW S, NEW s \in Seq(S), NEW t \in Seq(S), IsInjective(s), IsInjective(t),
         ToSet(s) \cap ToSet(t) = {}
  PROVE  /\ s \o t \in Seq(S) /\ IsInjective(s \o t)
         /\ ToSet(s \o t) = ToSet(s) \cup ToSet(t)
<1> DEFINE m == Len(s)
           n == Len(t)
           u == s \o t
<1>1. /\ m \in Nat /\ n \in Nat
      /\ \A i, j \in 1..m : s[i] = s[j] => i = j
      /\ \A i, j \in 1..n : t[i] = t[j] => i = j
      /\ \A x : x \in ToSet(s) <=> \E i \in 1..m : x = s[i]
      /\ \A x : x \in ToSet(t) <=> \E i \in 1..n : x = t[i]
  BY ElementsAre
<1>2. /\ u \in Seq(S) /\ Len(u) = m + n
      /\ \A i \in 1..(m + n) : u[i] = IF i <= m THEN s[i] ELSE t[i - m]
  BY ConcatProperties
<1> HIDE DEF m, n, u
<1>3. \A x : x \in ToSet(u) <=> \E i \in 1..(m + n) : x = u[i]
  BY <1>2, ElementsAre
<1>4. ASSUME NEW i \in 1..(m + n)
      PROVE  \/ i \in 1..m /\ u[i] = s[i] /\ u[i] \in ToSet(s)
             \/ i - m \in 1..n /\ u[i] = t[i - m] /\ u[i] \in ToSet(t) /\ ~(i <= m)
  BY <1>1, <1>2
<1>5. ASSUME NEW i \in 1..(m + n), NEW j \in 1..(m + n), u[i] = u[j]
      PROVE  i = j
  <2>1. CASE i <= m /\ j <= m
    BY <1>1, <1>4, <1>5, <2>1
  <2>2. CASE ~(i <= m) /\ ~(j <= m)
    <3>1. i - m = j - m
      BY <1>1, <1>4, <1>5, <2>2
    <3>2. QED
      BY <1>1, <3>1
  <2>3. CASE i <= m <=> ~(j <= m)
    BY <1>1, <1>4, <1>5, <2>3
  <2>4. QED
    BY <2>1, <2>2, <2>3
<1>6. IsInjective(u)
  BY <1>2, <1>5, ElementsAre
<1>7. ASSUME NEW x \in ToSet(s)
      PROVE  x \in ToSet(u)
  <2>1. PICK i \in 1..m : x = s[i]
    BY <1>1, <1>7
  <2>2. i \in 1..(m + n) /\ u[i] = x
    BY <1>1, <1>2, <2>1
  <2>3. QED
    BY <1>3, <2>2
<1>8. ASSUME NEW x \in ToSet(t)
      PROVE  x \in ToSet(u)
  <2>1. PICK i \in 1..n : x = t[i]
    BY <1>1, <1>8
  <2>2. i + m \in 1..(m + n) /\ ~(i + m <= m) /\ (i + m) - m = i
    BY <1>1, <2>1
  <2>3. u[i + m] = x
    BY <1>2, <2>1, <2>2
  <2>4. QED
    BY <1>3, <2>2, <2>3
<1>9. ASSUME NEW x \in ToSet(u)
      PROVE  x \in ToSet(s) \/ x \in ToSet(t)
  BY <1>3, <1>4, <1>9
<1>10. QED
  BY <1>2, <1>6, <1>7, <1>8, <1>9 DEF u
-----------------------------------------------------------------------------
(* Places *)

QueueOf(p) == <<"queue", p>>
NextOf(p) == <<"next", p>>
HandOf(p) == <<"hand", p>>
Globally == <<"global", None>>

LEMMA PlaceIs ==
  /\ \A p \in Procs : QueueOf(p) \in Places /\ NextOf(p) \in Places /\ HandOf(p) \in Places
  /\ Globally \in Places
  /\ \A x \in Places :
       \/ \E p \in Procs : x = QueueOf(p) \/ x = NextOf(p) \/ x = HandOf(p)
       \/ x = Globally
  /\ \A p, q \in Procs :
       /\ QueueOf(p) # NextOf(q) /\ QueueOf(p) # HandOf(q) /\ NextOf(p) # HandOf(q)
       /\ QueueOf(p) # Globally /\ NextOf(p) # Globally /\ HandOf(p) # Globally
       /\ QueueOf(p) = QueueOf(q) => p = q
       /\ NextOf(p) = NextOf(q) => p = q
       /\ HandOf(p) = HandOf(q) => p = q
BY DEF Places, QueueOf, NextOf, HandOf, Globally

LEMMA AtIs ==
  /\ \A p \in Procs :
       /\ At(QueueOf(p)) = ToSet(Queue(p)) /\ At(QueueOf(p))' = ToSet(Queue(p)')
       /\ At(NextOf(p)) = {runnext[p]} \ {None} /\ At(NextOf(p))' = {runnext'[p]} \ {None}
       /\ At(HandOf(p)) = Hand(p) /\ At(HandOf(p))' = Hand(p)'
  /\ At(Globally) = ToSet(global) /\ At(Globally)' = ToSet(global')
BY DEF At, QueueOf, NextOf, HandOf, Globally

LEMMA PlacedAre ==
  /\ \A g : g \in Placed <=> \E x \in Places : g \in At(x)
  /\ \A g : g \in Placed' <=> \E x \in Places : g \in At(x)'
<1>1. ASSUME NEW g
      PROVE  g \in Placed <=> \E x \in Places : g \in At(x)
  <2>1. g \in Placed <=>
          \/ g \in ToSet(global)
          \/ \E p \in Procs :
               g \in ToSet(Queue(p)) \/ g \in Hand(p) \/ g \in {runnext[p]} \ {None}
    BY DEF Placed
  <2>2. QED
    BY <2>1, PlaceIs, AtIs
<1>2. ASSUME NEW g
      PROVE  g \in Placed' <=> \E x \in Places : g \in At(x)'
  <2>1. g \in Placed' <=>
          \/ g \in ToSet(global')
          \/ \E p \in Procs :
               g \in ToSet(Queue(p)') \/ g \in Hand(p)' \/ g \in {runnext'[p]} \ {None}
    BY DEF Placed
  <2>2. QED
    BY <2>1, PlaceIs, AtIs
<1>3. QED
  BY <1>1, <1>2

\* A step that leaves each place as it is, except that x gives M to y for N.
LEMMA Exchange ==
  ASSUME Alone, NEW x \in Places, NEW y \in Places, x # y,
         NEW M \in SUBSET At(x), NEW N \in SUBSET At(y),
         \A z \in Places \ {x, y} : At(z)' = At(z),
         At(x)' = (At(x) \ M) \cup N, At(y)' = (At(y) \ N) \cup M
  PROVE  Alone' /\ Placed' = Placed
<1>1. \A z \in Places : \A g : g \in At(z)' =>
        IF g \in M THEN z = y /\ g \in At(x)
        ELSE IF g \in N THEN z = x /\ g \in At(y) ELSE g \in At(z)
  <2>1. \A g : g \in M /\ g \in N => x = y
    BY DEF Alone
  <2>2. SUFFICES ASSUME NEW z \in Places, NEW g, g \in At(z)'
                 PROVE  IF g \in M THEN z = y /\ g \in At(x)
                        ELSE IF g \in N THEN z = x /\ g \in At(y) ELSE g \in At(z)
    OBVIOUS
  <2>3. CASE z = x
    BY <2>1, <2>2, <2>3
  <2>4. CASE z = y
    BY <2>1, <2>2, <2>4
  <2>5. CASE z # x /\ z # y
    <3>1. g \in At(z)
      BY <2>2, <2>5
    <3>2. g \notin At(x) /\ g \notin At(y)
      BY <2>5, <3>1 DEF Alone
    <3>3. QED
      BY <3>1, <3>2
  <2>6. QED
    BY <2>3, <2>4, <2>5
<1>2. \A z \in Places : \A g : g \in At(z) => \E w \in Places : g \in At(w)'
  <2>1. SUFFICES ASSUME NEW z \in Places, NEW g, g \in At(z)
                 PROVE  \E w \in Places : g \in At(w)'
    OBVIOUS
  <2>2. CASE g \in M \/ g \in N
    BY <2>2
  <2>3. CASE g \notin M /\ g \notin N
    BY <2>1, <2>3
  <2>4. QED
    BY <2>2, <2>3
<1>3. Alone'
  <2>1. \A z \in Places : \A g \in At(z)' : \A w \in Places : g \in At(w)' => z = w
    BY <1>1 DEF Alone
  <2>2. Places' = Places
    BY DEF Places
  <2>3. QED
    BY <2>1, <2>2 DEF Alone
<1>4. Placed' = Placed
  <2>1. Places' = Places
    BY DEF Places
  <2>2. \A g : g \in Placed' <=> g \in Placed
    BY <1>1, <1>2, <2>1, PlacedAre
  <2>3. QED
    BY <2>2
<1>5. QED
  BY <1>3, <1>4
-----------------------------------------------------------------------------
(* The steps of the queues *)

Settled == Alone /\ Lined /\ Numbered
Mapped == [Queues!Next]_(Queues!vars)

LEMMA QueueIs ==
  ASSUME RingInv, NEW p \in Procs
  PROVE  /\ Queue(p) \in Seq(Goroutines) /\ Len(Queue(p)) = InRing(p)
         /\ InRing(p) \in Nat /\ InRing(p) <= Size
         /\ \A k \in 1..InRing(p) : Queue(p)[k] = runq[p][Slot(head[p] + k - 1)]
<1>1. TypeOK /\ Good(p) /\ InRing(p) \in Nat
  BY InvHas, Types
<1>2. InRing(p) \in 0..InRing(p)
  BY <1>1
<1>3. Queue(p) = Batch(p, head[p], InRing(p))
  BY DEF Queue, InRing
<1>4. QED
  BY <1>1, <1>2, <1>3, BatchIs DEF Good, ChecksOf, Batch

\* Those that are in some place are goroutines.
LEMMA PlacedIs ==
  ASSUME RingInv
  PROVE  Placed \subseteq Goroutines /\ \A p \in Procs : Hand(p) \subseteq Goroutines
<1>1. TypeOK /\ \A p \in Procs : Good(p)
  BY InvHas
<1>2. ASSUME NEW p \in Procs
      PROVE  Hand(p) \subseteq Goroutines
  <2>1. Claimed(p) \subseteq Goroutines
    <3>1. CASE pc[p] # "commit"
      BY <3>1 DEF Claimed
    <3>2. CASE pc[p] = "commit"
      <4>1. /\ tail[p] \in Counter /\ grab[p].n \in Nat /\ tail[p] \in Nat
            /\ \A k \in 0..(grab[p].n - 1) : runq[p][Slot(tail[p] + k)] # None
        BY <1>1, <3>2, Types DEF Good, FilledOf
      <4>2. ASSUME NEW k \in 1..grab[p].n
            PROVE  Batch(p, tail[p], grab[p].n)[k] \in Goroutines
        <5>1. k - 1 \in 0..(grab[p].n - 1) /\ tail[p] + (k - 1) = tail[p] + k - 1
              /\ tail[p] + (k - 1) \in Int
          BY <4>1
        <5>2. runq[p][Slot(tail[p] + k - 1)] # None /\ Slot(tail[p] + k - 1) \in Slots
          BY <4>1, <5>1, SlotIs
        <5>3. QED
          BY <1>1, <5>2 DEF TypeOK, Batch
      <4>3. DOMAIN Batch(p, tail[p], grab[p].n) = 1..grab[p].n
        BY DEF Batch
      <4>4. QED
        BY <3>2, <4>2, <4>3 DEF Claimed, ToSet
    <3>3. QED
      BY <3>1, <3>2
  <2>2. ToSet(batch[p]) \subseteq Goroutines
    BY <1>1, ElementsAre DEF TypeOK
  <2>3. {curg[p], gp[p]} \ {None} \subseteq Goroutines
    BY <1>1 DEF TypeOK
  <2>4. QED
    BY <2>1, <2>2, <2>3 DEF Hand
<1>3. ASSUME NEW p \in Procs
      PROVE  At(QueueOf(p)) \subseteq Goroutines /\ At(NextOf(p)) \subseteq Goroutines
  <2>1. ToSet(Queue(p)) \subseteq Goroutines
    BY QueueIs, ElementsAre
  <2>2. {runnext[p]} \ {None} \subseteq Goroutines
    BY <1>1 DEF TypeOK
  <2>3. QED
    BY <2>1, <2>2, AtIs
<1>4. At(Globally) \subseteq Goroutines
  BY <1>1, ElementsAre, AtIs DEF TypeOK
<1>5. ASSUME NEW z \in Places
      PROVE  At(z) \subseteq Goroutines
  BY <1>2, <1>3, <1>4, PlaceIs, AtIs
<1>6. QED
  BY <1>2, <1>5, PlacedAre

\* Nothing that the queues have moves.
LEMMA StaysMaps ==
  ASSUME Settled, \A p \in Procs : Queue(p)' = Queue(p) /\ Hand(p)' = Hand(p),
         runnext' = runnext, global' = global, made' = made
  PROVE  Mapped /\ Settled'
<1>1. \A x \in Places : At(x)' = At(x)
  BY PlaceIs, AtIs
<1>2. Places' = Places
  BY DEF Places
<1>3. Placed' = Placed /\ Alone'
  BY <1>1, <1>2, PlacedAre DEF Settled, Alone
<1>4. queues' = queues /\ hands' = hands /\ idle' = idle
  BY <1>3 DEF queues, hands, idle
<1>5. Queues!vars' = Queues!vars
  BY <1>4 DEF Queues!vars
<1>6. Lined' /\ Numbered'
  BY <1>3 DEF Settled, Lined, Numbered
<1>7. QED
  BY <1>3, <1>5, <1>6 DEF Mapped, Settled

LEMMA TakeMaps ==
  ASSUME RingInv, Settled, NEW p \in Procs, NEW q \in Procs, NEW k \in 1..InRing(p),
         Queue(p)' = SubSeq(Queue(p), k + 1, Len(Queue(p))),
         \A r \in Procs \ {p} : Queue(r)' = Queue(r),
         Hand(q)' = Hand(q) \cup ToSet(SubSeq(Queue(p), 1, k)),
         \A r \in Procs \ {q} : Hand(r)' = Hand(r),
         runnext' = runnext, global' = global, made' = made
  PROVE  Mapped /\ Settled'
<1> DEFINE M == ToSet(SubSeq(Queue(p), 1, k))
           N == {}
           x == QueueOf(p)
           y == HandOf(q)
<1>1. /\ Queue(p) \in Seq(Goroutines) /\ Len(Queue(p)) = InRing(p) /\ InRing(p) \in Nat
      /\ IsInjective(Queue(p))
  BY QueueIs DEF Settled, Lined
<1>2. k \in 0..Len(Queue(p))
  BY <1>1
<1>3. /\ M \subseteq ToSet(Queue(p)) /\ IsInjective(Queue(p)')
      /\ ToSet(Queue(p)') = ToSet(Queue(p)) \ M
  BY <1>1, <1>2, Cut
<1> HIDE DEF M
<1>4. x \in Places /\ y \in Places /\ x # y /\ M \in SUBSET At(x) /\ N \in SUBSET At(y)
  BY <1>3, PlaceIs, AtIs
<1>5. ASSUME NEW z \in Places \ {x, y}
      PROVE  At(z)' = At(z)
  <2>1. CASE z = Globally
    BY <2>1, AtIs
  <2>2. ASSUME NEW r \in Procs, z = QueueOf(r)
        PROVE  At(z)' = At(z)
    BY <2>2, AtIs
  <2>3. ASSUME NEW r \in Procs, z = NextOf(r)
        PROVE  At(z)' = At(z)
    BY <2>3, AtIs
  <2>4. ASSUME NEW r \in Procs, z = HandOf(r)
        PROVE  At(z)' = At(z)
    BY <2>4, AtIs
  <2>5. QED
    BY <2>1, <2>2, <2>3, <2>4, PlaceIs
<1>6. At(x)' = (At(x) \ M) \cup N /\ At(y)' = (At(y) \ N) \cup M
  BY <1>3, AtIs DEF M
<1> HIDE DEF N, x, y
<1>7. Alone' /\ Placed' = Placed
  BY <1>4, <1>5, <1>6, Exchange DEF Settled
<1>8. Settled'
  BY <1>3, <1>7 DEF Settled, Lined, Numbered
<1>9. idle' = idle
  BY <1>7 DEF idle
<1>10. queues' = [queues EXCEPT ![p] = SubSeq(@, k + 1, Len(@))]
  BY DEF queues
<1>11. hands' = [hands EXCEPT ![q] = @ \cup ToSet(SubSeq(queues[p], 1, k))]
  BY DEF hands, queues
<1>12. k \in 1..Len(queues[p])
  BY <1>1 DEF queues
<1>13. Queues!Take(p, q, k)
  BY <1>9, <1>10, <1>11 DEF Queues!Take, Queues!ToSet, ToSet
<1>14. Queues!Next
  BY <1>12, <1>13 DEF Queues!Next
<1>15. QED
  BY <1>8, <1>14 DEF Mapped

LEMMA TakeNextMaps ==
  ASSUME RingInv, Settled, NEW p \in Procs, NEW q \in Procs, runnext[p] # None,
         \A r \in Procs : Queue(r)' = Queue(r),
         Hand(q)' = Hand(q) \cup {runnext[p]},
         \A r \in Procs \ {q} : Hand(r)' = Hand(r),
         runnext' = [runnext EXCEPT ![p] = None], global' = global, made' = made
  PROVE  Mapped /\ Settled'
<1> DEFINE M == {runnext[p]}
           N == {}
           x == NextOf(p)
           y == HandOf(q)
<1>1. runnext'[p] = None /\ \A r \in Procs \ {p} : runnext'[r] = runnext[r]
  BY DEF RingInv, TypeOK
<1>2. x \in Places /\ y \in Places /\ x # y /\ M \in SUBSET At(x) /\ N \in SUBSET At(y)
  BY PlaceIs, AtIs
<1>3. ASSUME NEW z \in Places \ {x, y}
      PROVE  At(z)' = At(z)
  <2>1. CASE z = Globally
    BY <1>1, <2>1, AtIs
  <2>2. ASSUME NEW r \in Procs, z = QueueOf(r)
        PROVE  At(z)' = At(z)
    BY <2>2, AtIs
  <2>3. ASSUME NEW r \in Procs, z = NextOf(r)
        PROVE  At(z)' = At(z)
    BY <1>1, <2>3, AtIs
  <2>4. ASSUME NEW r \in Procs, z = HandOf(r)
        PROVE  At(z)' = At(z)
    BY <2>4, AtIs
  <2>5. QED
    BY <2>1, <2>2, <2>3, <2>4, PlaceIs
<1>4. At(x)' = (At(x) \ M) \cup N /\ At(y)' = (At(y) \ N) \cup M
  BY <1>1, PlaceIs, AtIs
<1> HIDE DEF M, N, x, y
<1>5. Alone' /\ Placed' = Placed
  BY <1>2, <1>3, <1>4, Exchange DEF Settled
<1>6. Settled'
  BY <1>5 DEF Settled, Lined, Numbered
<1>7. idle' = idle /\ queues' = queues
  BY <1>5 DEF idle, queues
<1>8. hands' = [hands EXCEPT ![q] = @ \cup {runnext[p]}]
  BY DEF hands
<1>9. Queues!TakeNext(p, q)
  BY <1>7, <1>8 DEF Queues!TakeNext
<1>10. Queues!Next
  BY <1>9 DEF Queues!Next
<1>11. QED
  BY <1>6, <1>10 DEF Mapped

LEMMA SetNextMaps ==
  ASSUME RingInv, Settled, NEW p \in Procs, NEW g \in Hand(p), g \in Goroutines,
         \A r \in Procs : Queue(r)' = Queue(r),
         Hand(p)' = (Hand(p) \ {g}) \cup ({runnext[p]} \ {None}),
         \A r \in Procs \ {p} : Hand(r)' = Hand(r),
         runnext' = [runnext EXCEPT ![p] = g], global' = global, made' = made
  PROVE  Mapped /\ Settled'
<1> DEFINE M == {runnext[p]} \ {None}
           N == {g}
           x == NextOf(p)
           y == HandOf(p)
<1>1. runnext'[p] = g /\ \A r \in Procs \ {p} : runnext'[r] = runnext[r]
  BY DEF RingInv, TypeOK
<1>2. g # None
  BY RunQueueAssumption
<1>3. x \in Places /\ y \in Places /\ x # y /\ M \in SUBSET At(x) /\ N \in SUBSET At(y)
  BY PlaceIs, AtIs
<1>4. ASSUME NEW z \in Places \ {x, y}
      PROVE  At(z)' = At(z)
  <2>1. CASE z = Globally
    BY <1>1, <2>1, AtIs
  <2>2. ASSUME NEW r \in Procs, z = QueueOf(r)
        PROVE  At(z)' = At(z)
    BY <2>2, AtIs
  <2>3. ASSUME NEW r \in Procs, z = NextOf(r)
        PROVE  At(z)' = At(z)
    BY <1>1, <2>3, AtIs
  <2>4. ASSUME NEW r \in Procs, z = HandOf(r)
        PROVE  At(z)' = At(z)
    BY <2>4, AtIs
  <2>5. QED
    BY <2>1, <2>2, <2>3, <2>4, PlaceIs
<1>5. At(x)' = (At(x) \ M) \cup N /\ At(y)' = (At(y) \ N) \cup M
  BY <1>1, <1>2, AtIs
<1> HIDE DEF M, N, x, y
<1>6. Alone' /\ Placed' = Placed
  BY <1>3, <1>4, <1>5, Exchange DEF Settled
<1>7. Settled'
  BY <1>6 DEF Settled, Lined, Numbered
<1>8. idle' = idle /\ queues' = queues
  BY <1>6 DEF idle, queues
<1>9. hands' = [hands EXCEPT ![p] = (@ \ {g}) \cup ({runnext[p]} \ {None})] /\ g \in hands[p]
  BY DEF hands
<1>10. Queues!SetNext(p, g)
  BY <1>8, <1>9 DEF Queues!SetNext
<1>11. Queues!Next
  BY <1>10 DEF Queues!Next
<1>12. QED
  BY <1>7, <1>11 DEF Mapped

\* A batch in hand is one that can be put.
LEMMA BatchFits ==
  ASSUME NEW p \in Procs, NEW s \in Seq(Goroutines), s # <<>>, IsInjective(s),
         Len(s) <= Size, ToSet(s) \subseteq Hand(p)
  PROVE  s \in Queues!Batches(p)
<1>1. /\ DOMAIN s = 1..Len(s) /\ Len(s) \in Nat /\ Size \in Nat
      /\ \A i \in 1..Len(s) : s[i] \in Hand(p)
  BY ElementsAre, Params
<1>2. s \in [1..Len(s) -> Hand(p)]
  BY <1>1
<1>3. Len(s) \in 0..Size
  BY <1>1
<1>4. hands[p] = Hand(p)
  BY DEF hands
<1>5. s \in Queues!SeqOf(hands[p], Size)
  BY <1>2, <1>3, <1>4 DEF Queues!SeqOf
<1>6. Queues!IsInjective(s)
  BY DEF Queues!IsInjective, IsInjective
<1>7. QED
  BY <1>5, <1>6 DEF Queues!Batches

LEMMA PutMaps ==
  ASSUME RingInv, Settled, NEW p \in Procs, NEW s \in Seq(Goroutines), s # <<>>,
         IsInjective(s), InRing(p) + Len(s) <= Size, ToSet(s) \subseteq Hand(p),
         Queue(p)' = Queue(p) \o s, \A r \in Procs \ {p} : Queue(r)' = Queue(r),
         Hand(p)' = Hand(p) \ ToSet(s), \A r \in Procs \ {p} : Hand(r)' = Hand(r),
         runnext' = runnext, global' = global, made' = made
  PROVE  Mapped /\ Settled'
<1> DEFINE M == ToSet(s)
           N == {}
           x == HandOf(p)
           y == QueueOf(p)
<1>1. /\ Queue(p) \in Seq(Goroutines) /\ Len(Queue(p)) = InRing(p) /\ InRing(p) \in Nat
      /\ IsInjective(Queue(p)) /\ Len(s) \in Nat /\ Size \in Nat
  BY QueueIs, ElementsAre, Params DEF Settled, Lined
<1>2. x \in Places /\ y \in Places /\ x # y
  BY PlaceIs
<1>3. At(x) = Hand(p) /\ At(y) = ToSet(Queue(p)) /\ At(x)' = Hand(p)' /\ At(y)' = ToSet(Queue(p)')
  BY AtIs
<1>4. ToSet(Queue(p)) \cap ToSet(s) = {}
  <2>1. \A g \in At(x) : g \notin At(y)
    BY <1>2 DEF Settled, Alone
  <2>2. QED
    BY <1>3, <2>1
<1>5. IsInjective(Queue(p)') /\ ToSet(Queue(p)') = ToSet(Queue(p)) \cup ToSet(s)
  BY <1>1, <1>4, Joined
<1>6. M \in SUBSET At(x) /\ N \in SUBSET At(y)
  BY <1>3
<1>7. ASSUME NEW z \in Places \ {x, y}
      PROVE  At(z)' = At(z)
  <2>1. CASE z = Globally
    BY <2>1, AtIs
  <2>2. ASSUME NEW r \in Procs, z = QueueOf(r)
        PROVE  At(z)' = At(z)
    BY <2>2, AtIs
  <2>3. ASSUME NEW r \in Procs, z = NextOf(r)
        PROVE  At(z)' = At(z)
    BY <2>3, AtIs
  <2>4. ASSUME NEW r \in Procs, z = HandOf(r)
        PROVE  At(z)' = At(z)
    BY <2>4, AtIs
  <2>5. QED
    BY <2>1, <2>2, <2>3, <2>4, PlaceIs
<1>8. At(x)' = (At(x) \ M) \cup N /\ At(y)' = (At(y) \ N) \cup M
  BY <1>3, <1>5
<1> HIDE DEF M, N, x, y
<1>9. Alone' /\ Placed' = Placed
  BY <1>2, <1>6, <1>7, <1>8, Exchange DEF Settled
<1>10. Settled'
  BY <1>5, <1>9 DEF Settled, Lined, Numbered
<1>11. idle' = idle
  BY <1>9 DEF idle
<1>12. queues' = [queues EXCEPT ![p] = @ \o s] /\ Len(queues[p]) + Len(s) <= Size
  BY <1>1 DEF queues
<1>13. hands' = [hands EXCEPT ![p] = @ \ ToSet(s)]
  BY DEF hands
<1>14. Queues!Put(p, s)
  BY <1>11, <1>12, <1>13 DEF Queues!Put, Queues!ToSet, ToSet
<1>15. s \in Queues!Batches(p)
  <2>1. Len(s) <= Size
    BY <1>1
  <2>2. QED
    BY <2>1, BatchFits
<1>16. Queues!Next
  BY <1>14, <1>15 DEF Queues!Next
<1>17. QED
  BY <1>10, <1>16 DEF Mapped

LEMMA PutGlobalMaps ==
  ASSUME RingInv, Settled, NEW p \in Procs, NEW s \in Seq(Goroutines), s # <<>>,
         IsInjective(s), Len(s) <= Size, ToSet(s) \subseteq Hand(p),
         \A r \in Procs : Queue(r)' = Queue(r),
         Hand(p)' = Hand(p) \ ToSet(s), \A r \in Procs \ {p} : Hand(r)' = Hand(r),
         runnext' = runnext, global' = global \o s, made' = made
  PROVE  Mapped /\ Settled'
<1> DEFINE M == ToSet(s)
           N == {}
           x == HandOf(p)
           y == Globally
<1>1. global \in Seq(Goroutines) /\ IsInjective(global)
  BY DEF RingInv, TypeOK, Settled, Lined
<1>2. x \in Places /\ y \in Places /\ x # y
  BY PlaceIs
<1>3. At(x) = Hand(p) /\ At(y) = ToSet(global) /\ At(x)' = Hand(p)' /\ At(y)' = ToSet(global')
  BY AtIs
<1>4. ToSet(global) \cap ToSet(s) = {}
  <2>1. \A g \in At(x) : g \notin At(y)
    BY <1>2 DEF Settled, Alone
  <2>2. QED
    BY <1>3, <2>1
<1>5. IsInjective(global') /\ ToSet(global') = ToSet(global) \cup ToSet(s)
  BY <1>1, <1>4, Joined
<1>6. M \in SUBSET At(x) /\ N \in SUBSET At(y)
  BY <1>3
<1>7. ASSUME NEW z \in Places \ {x, y}
      PROVE  At(z)' = At(z)
  <2>1. CASE z = Globally
    BY <2>1, AtIs
  <2>2. ASSUME NEW r \in Procs, z = QueueOf(r)
        PROVE  At(z)' = At(z)
    BY <2>2, AtIs
  <2>3. ASSUME NEW r \in Procs, z = NextOf(r)
        PROVE  At(z)' = At(z)
    BY <2>3, AtIs
  <2>4. ASSUME NEW r \in Procs, z = HandOf(r)
        PROVE  At(z)' = At(z)
    BY <2>4, AtIs
  <2>5. QED
    BY <2>1, <2>2, <2>3, <2>4, PlaceIs
<1>8. At(x)' = (At(x) \ M) \cup N /\ At(y)' = (At(y) \ N) \cup M
  BY <1>3, <1>5
<1> HIDE DEF M, N, x, y
<1>9. Alone' /\ Placed' = Placed
  BY <1>2, <1>6, <1>7, <1>8, Exchange DEF Settled
<1>10. Settled'
  BY <1>5, <1>9 DEF Settled, Lined, Numbered
<1>11. idle' = idle /\ queues' = queues
  BY <1>9 DEF idle, queues
<1>12. hands' = [hands EXCEPT ![p] = @ \ ToSet(s)]
  BY DEF hands
<1>13. Queues!PutGlobal(p, s)
  BY <1>11, <1>12 DEF Queues!PutGlobal, Queues!ToSet, ToSet
<1>14. s \in Queues!Batches(p)
  BY BatchFits
<1>15. Queues!Next
  BY <1>13, <1>14 DEF Queues!Next
<1>16. QED
  BY <1>10, <1>15 DEF Mapped

LEMMA TakeGlobalMaps ==
  ASSUME RingInv, Settled, NEW p \in Procs, NEW k \in 1..Len(global),
         \A r \in Procs : Queue(r)' = Queue(r),
         Hand(p)' = Hand(p) \cup ToSet(SubSeq(global, 1, k)),
         \A r \in Procs \ {p} : Hand(r)' = Hand(r),
         runnext' = runnext, global' = SubSeq(global, k + 1, Len(global)), made' = made
  PROVE  Mapped /\ Settled'
<1> DEFINE M == ToSet(SubSeq(global, 1, k))
           N == {}
           x == Globally
           y == HandOf(p)
<1>1. global \in Seq(Goroutines) /\ IsInjective(global) /\ k \in 0..Len(global)
  BY DEF RingInv, TypeOK, Settled, Lined
<1>2. /\ M \subseteq ToSet(global) /\ IsInjective(global')
      /\ ToSet(global') = ToSet(global) \ M
  <2> DEFINE s == global
  <2>1. s \in Seq(Goroutines) /\ IsInjective(s) /\ k \in 0..Len(s)
    BY <1>1
  <2> HIDE DEF s
  <2>2. /\ ToSet(SubSeq(s, 1, k)) \subseteq ToSet(s) /\ IsInjective(SubSeq(s, k + 1, Len(s)))
        /\ ToSet(SubSeq(s, k + 1, Len(s))) = ToSet(s) \ ToSet(SubSeq(s, 1, k))
    BY <2>1, Cut
  <2>3. QED
    BY <2>2 DEF s
<1>3. Hand(p)' = Hand(p) \cup M
  OBVIOUS
<1> HIDE DEF M
<1>4. x \in Places /\ y \in Places /\ x # y /\ M \in SUBSET At(x) /\ N \in SUBSET At(y)
  BY <1>2, PlaceIs, AtIs
<1>5. ASSUME NEW z \in Places \ {x, y}
      PROVE  At(z)' = At(z)
  <2>1. CASE z = Globally
    BY <2>1, AtIs
  <2>2. ASSUME NEW r \in Procs, z = QueueOf(r)
        PROVE  At(z)' = At(z)
    BY <2>2, AtIs
  <2>3. ASSUME NEW r \in Procs, z = NextOf(r)
        PROVE  At(z)' = At(z)
    BY <2>3, AtIs
  <2>4. ASSUME NEW r \in Procs, z = HandOf(r)
        PROVE  At(z)' = At(z)
    BY <2>4, AtIs
  <2>5. QED
    BY <2>1, <2>2, <2>3, <2>4, PlaceIs
<1>6. At(x)' = (At(x) \ M) \cup N /\ At(y)' = (At(y) \ N) \cup M
  BY <1>2, <1>3, AtIs
<1> HIDE DEF N, x, y
<1>7. Alone' /\ Placed' = Placed
  BY <1>4, <1>5, <1>6, Exchange DEF Settled
<1>8. Settled'
  BY <1>2, <1>7 DEF Settled, Lined, Numbered
<1>9. idle' = idle /\ queues' = queues
  BY <1>7 DEF idle, queues
<1>10. hands' = [hands EXCEPT ![p] = @ \cup ToSet(SubSeq(global, 1, k))]
  BY DEF hands
<1>11. Queues!TakeGlobal(p, k)
  BY <1>9, <1>10 DEF Queues!TakeGlobal, Queues!ToSet, ToSet
<1>12. Queues!Next
  BY <1>11 DEF Queues!Next
<1>13. QED
  BY <1>8, <1>12 DEF Mapped

\* The next goroutine, which was nowhere, is in the hands of p.
LEMMA ReadyMaps ==
  ASSUME RingInv, Settled, NEW p \in Procs, made + 1 \in Goroutines,
         \A r \in Procs : Queue(r)' = Queue(r),
         Hand(p)' = Hand(p) \cup {made + 1}, \A r \in Procs \ {p} : Hand(r)' = Hand(r),
         runnext' = runnext, global' = global, made' = made + 1
  PROVE  Mapped /\ Settled'
<1> DEFINE g == made + 1
           y == HandOf(p)
<1>1. y \in Places /\ Places' = Places
  BY PlaceIs DEF Places
<1>2. At(y)' = At(y) \cup {g}
  BY AtIs
<1>3. ASSUME NEW z \in Places \ {y}
      PROVE  At(z)' = At(z)
  <2>1. CASE z = Globally
    BY <2>1, AtIs
  <2>2. ASSUME NEW r \in Procs, z = QueueOf(r)
        PROVE  At(z)' = At(z)
    BY <2>2, AtIs
  <2>3. ASSUME NEW r \in Procs, z = NextOf(r)
        PROVE  At(z)' = At(z)
    BY <2>3, AtIs
  <2>4. ASSUME NEW r \in Procs, z = HandOf(r)
        PROVE  At(z)' = At(z)
    BY <2>4, AtIs
  <2>5. QED
    BY <2>1, <2>2, <2>3, <2>4, PlaceIs
<1>4. made \in Nat /\ g \notin Placed /\ \A i \in Placed : i <= made
  <2>1. made \in Nat
    BY DEF RingInv, TypeOK, Goroutines
  <2>2. \A i \in Placed : i <= made
    BY DEF Settled, Numbered
  <2>3. ~(made + 1 <= made)
    BY <2>1
  <2>4. QED
    BY <2>1, <2>2, <2>3
<1> HIDE DEF y
<1>5. \A z \in Places : g \notin At(z)
  BY <1>4, PlacedAre
<1>6. g # made /\ made' = g
  BY <1>4
<1>7. Alone'
  <2>1. \A z \in Places : \A i : i \in At(z)' => (i = g /\ z = y) \/ (i # g /\ i \in At(z))
    BY <1>2, <1>3, <1>5
  <2>2. \A z \in Places : \A i \in At(z)' : \A w \in Places : i \in At(w)' => z = w
    BY <2>1 DEF Settled, Alone
  <2>3. QED
    BY <1>1, <2>2 DEF Alone
<1>8. Placed' = Placed \cup {g}
  BY <1>1, <1>2, <1>3, PlacedAre
<1>9. Numbered'
  <2>1. ASSUME NEW i \in Placed'
        PROVE  i <= made'
    <3>1. CASE i = g
      BY <1>4, <3>1
    <3>2. CASE i \in Placed
      <4>1. i \in Goroutines
        BY <3>2, PlacedIs
      <4>2. QED
        BY <1>4, <3>2, <4>1 DEF Goroutines
    <3>3. QED
      BY <1>8, <3>1, <3>2
  <2>2. QED
    BY <2>1 DEF Numbered
<1>10. Settled'
  BY <1>7, <1>9 DEF Settled, Lined
<1>11. idle' = idle \ {g} /\ g \in idle /\ queues' = queues
  BY <1>4, <1>8 DEF idle, queues
<1>12. hands' = [hands EXCEPT ![p] = @ \cup {g}]
  BY DEF hands
<1> HIDE DEF g
<1>13. Queues!Ready(p, g)
  BY <1>11, <1>12 DEF Queues!Ready
<1>14. g \in Goroutines
  BY DEF g
<1>15. Queues!Next
  BY <1>13, <1>14 DEF Queues!Next
<1>16. QED
  BY <1>10, <1>15 DEF Mapped

\* One that blocks is nowhere.
LEMMA BlockMaps ==
  ASSUME RingInv, Settled, NEW p \in Procs, NEW g \in Hand(p), g \in Goroutines,
         \A r \in Procs : Queue(r)' = Queue(r),
         Hand(p)' = Hand(p) \ {g}, \A r \in Procs \ {p} : Hand(r)' = Hand(r),
         runnext' = runnext, global' = global, made' = made
  PROVE  Mapped /\ Settled'
<1> DEFINE x == HandOf(p)
<1>1. x \in Places /\ Places' = Places /\ g \in At(x)
  BY PlaceIs, AtIs DEF Places
<1>2. At(x)' = At(x) \ {g}
  BY AtIs
<1>3. ASSUME NEW z \in Places \ {x}
      PROVE  At(z)' = At(z)
  <2>1. CASE z = Globally
    BY <2>1, AtIs
  <2>2. ASSUME NEW r \in Procs, z = QueueOf(r)
        PROVE  At(z)' = At(z)
    BY <2>2, AtIs
  <2>3. ASSUME NEW r \in Procs, z = NextOf(r)
        PROVE  At(z)' = At(z)
    BY <2>3, AtIs
  <2>4. ASSUME NEW r \in Procs, z = HandOf(r)
        PROVE  At(z)' = At(z)
    BY <2>4, AtIs
  <2>5. QED
    BY <2>1, <2>2, <2>3, <2>4, PlaceIs
<1> HIDE DEF x
<1>4. \A z \in Places : \A i : i \in At(z)' <=> i # g /\ i \in At(z)
  BY <1>1, <1>2, <1>3 DEF Settled, Alone
<1>5. Alone'
  <2>1. \A z \in Places : \A i \in At(z)' : \A w \in Places : i \in At(w)' => z = w
    BY <1>4 DEF Settled, Alone
  <2>2. QED
    BY <1>1, <2>1 DEF Alone
<1>6. Placed' = Placed \ {g} /\ g \in Placed
  BY <1>1, <1>4, PlacedAre
<1>7. Settled'
  BY <1>5, <1>6 DEF Settled, Lined, Numbered
<1>8. idle' = idle \cup {g} /\ queues' = queues
  BY <1>6 DEF idle, queues
<1>9. hands' = [hands EXCEPT ![p] = @ \ {g}] /\ g \in hands[p]
  BY DEF hands
<1>10. Queues!Block(p, g)
  BY <1>8, <1>9 DEF Queues!Block
<1>11. Queues!Next
  BY <1>10 DEF Queues!Next
<1>12. QED
  BY <1>7, <1>11 DEF Mapped
-----------------------------------------------------------------------------
(* Queues and hands *)

LEMMA QueueGrows ==
  ASSUME RingInv, NEW p \in Procs, NEW s \in Seq(Goroutines), head'[p] = head[p],
         InRing(p)' = InRing(p) + Len(s),
         \A k \in 0..(InRing(p) - 1) :
           runq'[p][Slot(head[p] + k)] = runq[p][Slot(head[p] + k)],
         \A k \in 1..Len(s) : runq'[p][Slot(head[p] + InRing(p) + k - 1)] = s[k]
  PROVE  Queue(p)' = Queue(p) \o s
<1> DEFINE n == InRing(p)
           m == Len(s)
           u == Queue(p) \o s
<1>1. /\ Queue(p) \in Seq(Goroutines) /\ Len(Queue(p)) = n /\ n \in Nat /\ m \in Nat
      /\ \A k \in 1..n : Queue(p)[k] = runq[p][Slot(head[p] + k - 1)]
      /\ head[p] \in Counter /\ head[p] \in Int
  BY QueueIs, Types, LenProperties DEF RingInv
<1>2. /\ u \in Seq(Goroutines) /\ Len(u) = n + m
      /\ \A k \in 1..(n + m) : u[k] = IF k <= n THEN Queue(p)[k] ELSE s[k - n]
  BY <1>1, ConcatProperties
<1>3. Queue(p)' = [k \in 1..(n + m) |-> runq'[p][Slot(head[p] + k - 1)]]
  <2>1. Queue(p)' = [k \in 1..InRing(p)' |-> runq'[p][Slot(head'[p] + k - 1)]]
    BY DEF Queue, Batch, InRing
  <2>2. QED
    BY <2>1
<1>4. ASSUME NEW k \in 1..(n + m)
      PROVE  runq'[p][Slot(head[p] + k - 1)] = u[k]
  <2> HIDE DEF n, m, u
  <2>1. CASE k <= n
    <3>1. k - 1 \in 0..(n - 1) /\ head[p] + k - 1 = head[p] + (k - 1) /\ k \in 1..n
      BY <1>1, <2>1
    <3>2. runq'[p][Slot(head[p] + (k - 1))] = runq[p][Slot(head[p] + (k - 1))]
      BY <3>1 DEF n
    <3>3. QED
      BY <1>1, <1>2, <2>1, <3>1, <3>2
  <2>2. CASE ~(k <= n)
    <3>1. k - n \in 1..m /\ head[p] + n + (k - n) - 1 = head[p] + k - 1
      BY <1>1, <2>2
    <3>2. runq'[p][Slot(head[p] + n + (k - n) - 1)] = s[k - n]
      BY <3>1 DEF n, m
    <3>3. QED
      BY <1>2, <2>2, <3>1, <3>2
  <2>3. QED
    BY <2>1, <2>2
<1> HIDE DEF n, m, u
<1>5. DOMAIN u = 1..(n + m) /\ u = [k \in DOMAIN u |-> u[k]]
  BY <1>2, LenProperties
<1>6. QED
  BY <1>3, <1>4, <1>5 DEF u

LEMMA QueueStays ==
  ASSUME RingInv, NEW p \in Procs, head'[p] = head[p], tail'[p] = tail[p],
         \A k \in 0..(InRing(p) - 1) :
           runq'[p][Slot(head[p] + k)] = runq[p][Slot(head[p] + k)]
  PROVE  Queue(p)' = Queue(p)
<1>1. <<>> \in Seq(Goroutines) /\ Len(<<>>) = 0 /\ InRing(p) \in Nat /\ InRing(p)' = InRing(p)
      /\ Queue(p) \in Seq(Goroutines)
  BY QueueIs, EmptySeq DEF InRing
<1>2. InRing(p)' = InRing(p) + Len(<<>>)
  BY <1>1
<1>3. \A k \in 1..Len(<<>>) : runq'[p][Slot(head[p] + InRing(p) + k - 1)] = <<>>[k]
  BY <1>1
<1>4. Queue(p)' = Queue(p) \o <<>>
  <2> DEFINE s == <<>>
  <2>1. /\ s \in Seq(Goroutines) /\ InRing(p)' = InRing(p) + Len(s)
        /\ \A k \in 1..Len(s) : runq'[p][Slot(head[p] + InRing(p) + k - 1)] = s[k]
    BY <1>1, <1>2, <1>3
  <2> HIDE DEF s
  <2>2. Queue(p)' = Queue(p) \o s
    BY <2>1, QueueGrows
  <2>3. QED
    BY <2>2 DEF s
<1>5. QED
  BY <1>1, <1>4, ConcatEmptySeq

LEMMA QueuesStay ==
  ASSUME head' = head, tail' = tail, runq' = runq
  PROVE  \A p \in Procs : Queue(p)' = Queue(p)
BY DEF Queue, Batch

LEMMA QueueShrinks ==
  ASSUME RingInv, NEW v \in Procs, NEW m \in 1..InRing(v), tail' = tail,
         head' = [head EXCEPT ![v] = (head[v] + m) % W],
         runq' = [runq EXCEPT ![v] = Without(v, head[v], m)]
  PROVE  /\ Queue(v)' = SubSeq(Queue(v), m + 1, Len(Queue(v)))
         /\ \A q \in Procs \ {v} : Queue(q)' = Queue(q)
<1> DEFINE n == InRing(v)
           u == SubSeq(Queue(v), m + 1, Len(Queue(v)))
<1>1. /\ Queue(v) \in Seq(Goroutines) /\ Len(Queue(v)) = n /\ n \in Nat /\ n <= Size
      /\ \A k \in 1..n : Queue(v)[k] = runq[v][Slot(head[v] + k - 1)]
      /\ head[v] \in Counter /\ head[v] \in Int
  BY QueueIs, Types DEF RingInv
<1>2. Size \in Nat /\ m \in 0..W /\ m \in 0..Len(Queue(v)) /\ m \in Nat /\ m >= 1
  BY <1>1, Params
<1>3. /\ InRing(v)' = n - m /\ head'[v] = (head[v] + m) % W
      /\ \A k \in m..(Size - 1) : runq'[v][Slot(head[v] + k)] = runq[v][Slot(head[v] + k)]
      /\ \A q \in Procs \ {v} : head'[q] = head[q] /\ runq'[q] = runq[q]
  BY HeadMoves DEF RingInv, TypeOK
<1> DEFINE l == n - m
<1>4. u \in Seq(Goroutines) /\ Len(u) = l /\ \A k \in 1..l : u[k] = Queue(v)[m + k]
  <2>1. \A k \in (m + 1)..Len(Queue(v)) : Queue(v)[k] \in Goroutines
    BY <1>1, <1>2, ElementOfSeq
  <2> DEFINE s == Queue(v)
             a == m + 1
  <2>2. a \in Int /\ n \in Int /\ \A k \in a..n : s[k] \in Goroutines
    BY <1>1, <1>2, <2>1
  <2> HIDE DEF s, a, n
  <2>3. /\ SubSeq(s, a, n) \in Seq(Goroutines)
        /\ Len(SubSeq(s, a, n)) = IF a <= n THEN n - a + 1 ELSE 0
        /\ \A k \in 1..(n - a + 1) : SubSeq(s, a, n)[k] = s[a + k - 1]
    BY <2>2, SubSeqProperties
  <2>4. u = SubSeq(s, a, n)
    BY <1>1 DEF s, a
  <2> HIDE DEF u
  <2>5. a = m + 1 /\ m <= n
    BY <1>1, <1>2 DEF a
  <2>6. n - a + 1 = l /\ (IF a <= n THEN n - a + 1 ELSE 0) = l
    BY <1>1, <1>2, <2>5
  <2>7. \A k \in 1..l : a + k - 1 = m + k
    BY <1>1, <1>2, <2>5
  <2>8. QED
    BY <2>3, <2>4, <2>6, <2>7 DEF s
<1>5. Queue(v)' = [k \in 1..l |-> runq'[v][Slot(head'[v] + k - 1)]]
  <2>1. Queue(v)' = [k \in 1..InRing(v)' |-> runq'[v][Slot(head'[v] + k - 1)]]
    BY DEF Queue, Batch, InRing
  <2>2. QED
    BY <1>3, <2>1
<1>6. l \in Nat /\ l <= n /\ m + l = n
  BY <1>1, <1>2
<1> HIDE DEF l, u, n
<1>7. ASSUME NEW k \in 1..l
      PROVE  runq'[v][Slot(head'[v] + k - 1)] = u[k]
  <2>1. /\ m + k - 1 \in m..(Size - 1) /\ m + k \in 1..n /\ k - 1 \in Int
        /\ head[v] + m + (k - 1) = head[v] + (m + k - 1)
        /\ head[v] + (m + k) - 1 = head[v] + (m + k - 1)
    <3>1. k \in Nat /\ k >= 1 /\ k <= l /\ m + k <= Size /\ m + k <= n
      BY <1>1, <1>2, <1>6
    <3>2. m + k - 1 \in m..(Size - 1) /\ m + k \in 1..n /\ k - 1 \in Int
      BY <1>2, <3>1
    <3>3. /\ head[v] + m + (k - 1) = head[v] + (m + k - 1)
          /\ head[v] + (m + k) - 1 = head[v] + (m + k - 1)
      BY <1>1, <1>2, <3>1
    <3>4. QED
      BY <3>2, <3>3
  <2>2. Slot(((head[v] + m) % W) + (k - 1)) = Slot(head[v] + m + (k - 1))
    BY <1>1, <1>2, <2>1, SlotIs
  <2>3. head'[v] + k - 1 = head'[v] + (k - 1)
    <3>1. (head[v] + m) % W \in Counter
      BY <1>1, <1>2, PlusIs
    <3>2. \A x \in Counter : x \in Nat
      BY Types DEF RingInv
    <3>3. head'[v] \in Nat
      BY <1>3, <3>1, <3>2
    <3>4. QED
      BY <1>2, <3>3
  <2>4. Slot(head'[v] + k - 1) = Slot(head[v] + (m + k - 1))
    BY <1>3, <2>1, <2>2, <2>3
  <2>5. Queue(v)[m + k] = runq[v][Slot(head[v] + (m + k - 1))]
    BY <1>1, <2>1
  <2>6. QED
    BY <1>3, <1>4, <2>1, <2>4, <2>5
<1>8. DOMAIN u = 1..l /\ u = [k \in DOMAIN u |-> u[k]]
  BY <1>4, LenProperties
<1>9. Queue(v)' = u
  BY <1>5, <1>7, <1>8
<1>10. ASSUME NEW q \in Procs \ {v}
       PROVE  Queue(q)' = Queue(q)
  BY <1>3 DEF Queue, Batch
<1>11. QED
  BY <1>9, <1>10 DEF u

LEMMA HandIs ==
  ASSUME NEW p \in Procs
  PROVE  /\ Hand(p) = ({curg[p], gp[p]} \ {None}) \cup ToSet(batch[p]) \cup Claimed(p)
         /\ pc[p] # "commit" => Claimed(p) = {}
         /\ Hand(p)' = ({curg'[p], gp'[p]} \ {None}) \cup ToSet(batch'[p]) \cup Claimed(p)'
         /\ pc'[p] # "commit" => Claimed(p)' = {}
BY DEF Hand, Claimed

\* Sequences of no and of one element.
LEMMA Short ==
  /\ ToSet(<<>>) = {} /\ IsInjective(<<>>)
  /\ \A g \in Goroutines : ToSet(<<g>>) = {g} /\ IsInjective(<<g>>) /\ Len(<<g>>) = 1
                           /\ <<g>> \in Seq(Goroutines) /\ <<g>>[1] = g /\ <<g>> # <<>>
BY DEF ToSet, IsInjective

\* A batch and its first, and one with another at its end.
LEMMA HeadApart ==
  ASSUME NEW S, NEW s \in Seq(S), s # <<>>, IsInjective(s)
  PROVE  /\ Head(s) \in ToSet(s) /\ Head(s) \in S /\ IsInjective(Tail(s))
         /\ ToSet(Tail(s)) = ToSet(s) \ {Head(s)}
<1>1. Len(s) \in Nat \ {0} /\ DOMAIN s = 1..Len(s) /\ Head(s) = s[1] /\ s[1] \in S
  BY EmptySeq, LenProperties, ElementOfSeq
<1>2. 1 \in 0..Len(s) /\ 1 \in 1..Len(s)
  BY <1>1
<1>3. Tail(s) = SubSeq(s, 1 + 1, Len(s))
  BY TailIsSubSeq
<1>4. /\ SubSeq(s, 1, 1) \in Seq(S) /\ Len(SubSeq(s, 1, 1)) = 1
      /\ \A i \in 1..1 : SubSeq(s, 1, 1)[i] = s[i]
      /\ IsInjective(SubSeq(s, 1 + 1, Len(s)))
      /\ ToSet(SubSeq(s, 1 + 1, Len(s))) = ToSet(s) \ ToSet(SubSeq(s, 1, 1))
  BY <1>2, Cut
<1>5. ToSet(SubSeq(s, 1, 1)) = {s[1]}
  <2> DEFINE a == SubSeq(s, 1, 1)
  <2>1. a \in Seq(S) /\ Len(a) = 1 /\ a[1] = s[1]
    BY <1>4
  <2> HIDE DEF a
  <2>2. \A x : x \in ToSet(a) <=> \E i \in 1..1 : x = a[i]
    BY <2>1, ElementsAre
  <2>3. QED
    BY <2>1, <2>2 DEF a
<1>6. s[1] \in ToSet(s)
  BY <1>2, ElementsAre
<1>7. QED
  BY <1>1, <1>3, <1>4, <1>5, <1>6

LEMMA FirstOf ==
  ASSUME NEW S, NEW s \in Seq(S), s # <<>>, IsInjective(s)
  PROVE  /\ Head(s) \in S /\ Len(s) \in Nat \ {0} /\ Tail(s) = SubSeq(s, 2, Len(s))
         /\ ToSet(SubSeq(s, 1, 1)) = {Head(s)}
<1>1. Len(s) \in Nat \ {0} /\ Head(s) = s[1] /\ s[1] \in S
  BY EmptySeq, LenProperties, ElementOfSeq
<1>2. 1 \in 0..Len(s)
  BY <1>1
<1> DEFINE a == SubSeq(s, 1, 1)
<1>3. a \in Seq(S) /\ Len(a) = 1 /\ a[1] = s[1]
  BY <1>2, Cut
<1> HIDE DEF a
<1>4. \A x : x \in ToSet(a) <=> \E i \in 1..1 : x = a[i]
  BY <1>3, ElementsAre
<1>5. ToSet(a) = {s[1]}
  BY <1>3, <1>4
<1>6. QED
  BY <1>1, <1>5, TailIsSubSeq DEF a

LEMMA Appended ==
  ASSUME NEW s \in Seq(Goroutines), NEW g \in Goroutines, IsInjective(s), g \notin ToSet(s)
  PROVE  /\ ToSet(Append(s, g)) = ToSet(s) \cup {g} /\ IsInjective(Append(s, g))
         /\ Len(Append(s, g)) = Len(s) + 1
<1>1. <<g>> \in Seq(Goroutines) /\ ToSet(<<g>>) = {g} /\ IsInjective(<<g>>)
  BY Short
<1>2. Append(s, g) = s \o <<g>> /\ Len(Append(s, g)) = Len(s) + 1
  BY AppendIsConcat, AppendProperties
<1> DEFINE t == <<g>>
<1>3. t \in Seq(Goroutines) /\ IsInjective(t) /\ ToSet(s) \cap ToSet(t) = {} /\ ToSet(t) = {g}
  BY <1>1
<1> HIDE DEF t
<1>4. IsInjective(s \o t) /\ ToSet(s \o t) = ToSet(s) \cup ToSet(t)
  BY <1>3, Joined
<1>5. QED
  BY <1>2, <1>3, <1>4 DEF t

\* The hands of one P.
ApartOf(p) ==
  /\ curg[p] # None => curg[p] # gp[p]
  /\ {curg[p], gp[p]} \cap ToSet(batch[p]) = {} /\ IsInjective(batch[p])
  /\ pc[p] = "spill" => Len(batch[p]) <= Size
  /\ pc[p] = "commit" => IsInjective(Batch(p, tail[p], grab[p].n))

LEMMA InvParts ==
  ASSUME IInv
  PROVE  RingInv /\ Settled /\ \A p \in Procs : ApartOf(p) /\ Good(p)
BY InvHas DEF IInv, Settled, HandsApart, ApartOf

\* The others, if they do nothing, have in hand what they had.
LEMMA OthersKeep ==
  ASSUME IInv, NEW p \in Procs,
         \A q \in Procs \ {p} : /\ Rests(q) /\ tail'[q] = tail[q]
                                /\ pc[q] = "commit" => runq'[q] = runq[q],
         ApartOf(p)'
  PROVE  HandsApart' /\ \A q \in Procs \ {p} : Hand(q)' = Hand(q)
<1>1. ASSUME NEW q \in Procs \ {p}
      PROVE  Hand(q)' = Hand(q) /\ ApartOf(q)'
  <2>1. /\ pc'[q] = pc[q] /\ curg'[q] = curg[q] /\ gp'[q] = gp[q] /\ batch'[q] = batch[q]
        /\ grab'[q] = grab[q] /\ tail'[q] = tail[q]
    BY DEF Rests
  <2>2. pc[q] = "commit" =>
          Batch(q, tail[q], grab[q].n)' = Batch(q, tail[q], grab[q].n)
    BY <2>1 DEF Batch
  <2>3. Claimed(q)' = Claimed(q)
    BY <2>1, <2>2 DEF Claimed
  <2>4. Hand(q)' = Hand(q)
    BY <2>1, <2>3, HandIs
  <2>5. ApartOf(q)'
    BY <2>1, <2>2, InvParts DEF ApartOf
  <2>6. QED
    BY <2>4, <2>5
<1>2. HandsApart'
  BY <1>1 DEF HandsApart, ApartOf
<1>3. QED
  BY <1>1, <1>2
-----------------------------------------------------------------------------
(* Each step is a step of the queues *)

\* What holds of the P that takes a step.
LEMMA HereApart ==
  ASSUME IInv, NEW p \in Procs
  PROVE  /\ RingInv /\ Settled /\ TypeOK /\ PointOf(p) /\ ApartOf(p)
         /\ pc[p] \notin {"put", "write", "publish", "spill"} => batch[p] = <<>>
         /\ None \notin Goroutines /\ ToSet(<<>>) = {} /\ IsInjective(<<>>)
BY InvParts, Here, Short, RunQueueAssumption DEF Good

\* A step that moves no goroutine.
LEMMA QuietMaps ==
  ASSUME IInv, NEW p \in Procs, head' = head, tail' = tail, runnext' = runnext,
         global' = global, made' = made, curg' = curg, gp' = gp, batch' = batch,
         \A q \in Procs \ {p} : Rests(q) /\ runq'[q] = runq[q],
         \A k \in 0..(InRing(p) - 1) :
           runq'[p][Slot(head[p] + k)] = runq[p][Slot(head[p] + k)],
         pc[p] # "commit", pc'[p] \notin {"commit", "spill"}
  PROVE  Mapped /\ Settled' /\ HandsApart'
<1>1. RingInv /\ Settled /\ ApartOf(p)
  BY InvParts
<1>2. ASSUME NEW q \in Procs
      PROVE  Queue(q)' = Queue(q)
  <2>1. CASE q = p
    BY <1>1, <2>1, QueueStays
  <2>2. CASE q # p
    BY <2>2 DEF Queue, Batch
  <2>3. QED
    BY <2>1, <2>2
<1>3. ApartOf(p)'
  BY <1>1 DEF ApartOf
<1>4. HandsApart' /\ \A q \in Procs \ {p} : Hand(q)' = Hand(q)
  BY <1>3, OthersKeep
<1>5. Hand(p)' = Hand(p)
  BY HandIs
<1>6. QED
  BY <1>1, <1>2, <1>4, <1>5, StaysMaps

LEMMA ReadyRefines ==
  ASSUME IInv, NEW p \in Procs, Ready(p)
  PROVE  Mapped /\ Settled' /\ HandsApart'
<1>1. /\ RingInv /\ Settled /\ TypeOK /\ ApartOf(p) /\ batch[p] = <<>> /\ pc[p] = "run"
      /\ curg[p] # None /\ gp[p] = None /\ None \notin Goroutines /\ ToSet(<<>>) = {}
  BY HereApart DEF Ready, PointOf
<1>2. /\ pc'[p] = "next" /\ gp'[p] = made + 1 /\ curg' = curg /\ batch' = batch
      /\ made + 1 \in Goroutines /\ runnext' = runnext /\ global' = global
      /\ head' = head /\ tail' = tail /\ runq' = runq /\ made' = made + 1
      /\ \A q \in Procs \ {p} : Rests(q)
  <2>1. made + 1 \in Goroutines /\ made' = made + 1
    <3>1. made \in 1..MaxG /\ MaxG \in Nat
      BY <1>1, RunQueueAssumption DEF TypeOK, Goroutines
    <3>2. made < MaxG /\ made' = made + 1
      BY DEF Ready
    <3>3. QED
      BY <3>1, <3>2 DEF Goroutines
  <2>2. /\ pc'[p] = "next" /\ gp'[p] = made + 1 /\ curg' = curg /\ batch' = batch
        /\ runnext' = runnext /\ global' = global
        /\ head' = head /\ tail' = tail /\ runq' = runq
        /\ \A q \in Procs \ {p} : Rests(q)
    BY <1>1 DEF Ready, Goto, TypeOK, Rests
  <2>3. QED
    BY <2>1, <2>2
<1>3. Hand(p) = {curg[p]}
  BY <1>1, HandIs
<1>4. Hand(p)' = Hand(p) \cup {made + 1}
  BY <1>1, <1>2, <1>3, HandIs
<1>5. curg[p] # made + 1
  <2>1. curg[p] \in Placed
    BY <1>3 DEF Placed
  <2>2. curg[p] <= made /\ made \in Nat
    BY <1>1, <2>1 DEF Settled, Numbered, TypeOK, Goroutines
  <2>3. QED
    BY <2>2
<1>6. ApartOf(p)'
  BY <1>1, <1>2, <1>5 DEF ApartOf
<1>7. HandsApart' /\ \A q \in Procs \ {p} : Hand(q)' = Hand(q)
  BY <1>2, <1>6, OthersKeep
<1>8. Mapped /\ Settled'
  BY <1>1, <1>2, <1>4, <1>7, QueuesStay, ReadyMaps
<1>9. QED
  BY <1>7, <1>8

LEMMA PutNextRefines ==
  ASSUME IInv, NEW p \in Procs, PutNext(p)
  PROVE  Mapped /\ Settled' /\ HandsApart'
<1>1. /\ RingInv /\ Settled /\ TypeOK /\ ApartOf(p) /\ batch[p] = <<>> /\ pc[p] = "next"
      /\ curg[p] # None /\ gp[p] # None /\ None \notin Goroutines /\ ToSet(<<>>) = {}
  BY HereApart DEF PutNext, PointOf
<1>2. /\ pc'[p] \in {"run", "put"} /\ gp'[p] = runnext[p] /\ curg' = curg /\ batch' = batch
      /\ runnext' = [runnext EXCEPT ![p] = gp[p]] /\ global' = global
      /\ head' = head /\ tail' = tail /\ runq' = runq /\ made' = made
      /\ \A q \in Procs \ {p} : Rests(q)
  BY <1>1 DEF PutNext, Goto, TypeOK, Rests
<1>3. Hand(p) = {curg[p], gp[p]} /\ curg[p] # gp[p] /\ gp[p] \in Goroutines
  BY <1>1, HandIs DEF ApartOf, TypeOK
<1>4. Hand(p)' = (Hand(p) \ {gp[p]}) \cup ({runnext[p]} \ {None})
  BY <1>1, <1>2, <1>3, HandIs
<1>5. curg[p] # runnext[p]
  <2>1. curg[p] \in At(HandOf(p)) /\ HandOf(p) \in Places /\ NextOf(p) \in Places
        /\ HandOf(p) # NextOf(p)
    BY <1>3, PlaceIs, AtIs
  <2>2. curg[p] \notin At(NextOf(p))
    BY <1>1, <2>1 DEF Settled, Alone
  <2>3. QED
    BY <1>1, <2>2, AtIs
<1>6. ApartOf(p)'
  BY <1>1, <1>2, <1>5 DEF ApartOf
<1>7. HandsApart' /\ \A q \in Procs \ {p} : Hand(q)' = Hand(q)
  BY <1>2, <1>6, OthersKeep
<1>8. gp[p] \in Hand(p)
  BY <1>3
<1>9. Mapped /\ Settled'
  <2> DEFINE g == gp[p]
  <2>1. g \in Hand(p) /\ g \in Goroutines /\ runnext' = [runnext EXCEPT ![p] = g]
        /\ Hand(p)' = (Hand(p) \ {g}) \cup ({runnext[p]} \ {None})
    BY <1>2, <1>3, <1>4, <1>8
  <2> HIDE DEF g
  <2>2. QED
    BY <1>1, <1>2, <1>7, <2>1, QueuesStay, SetNextMaps
<1>10. QED
  BY <1>7, <1>9

LEMMA PutLookRefines ==
  ASSUME IInv, NEW p \in Procs, PutLook(p)
  PROVE  Mapped /\ Settled' /\ HandsApart'
<1>1. TypeOK /\ pc[p] = "put"
  BY HereApart DEF PutLook
<1>2. /\ pc'[p] \in {"write", "slow"} /\ gp' = gp /\ curg' = curg /\ batch' = batch
      /\ runnext' = runnext /\ global' = global
      /\ head' = head /\ tail' = tail /\ runq' = runq /\ made' = made
      /\ \A q \in Procs \ {p} : Rests(q)
  BY <1>1 DEF PutLook, Goto, TypeOK, Rests
<1>3. QED
  BY <1>1, <1>2, QuietMaps

LEMMA PutWriteRefines ==
  ASSUME IInv, NEW p \in Procs, PutWrite(p)
  PROVE  Mapped /\ Settled' /\ HandsApart'
<1>1. TypeOK /\ pc[p] = "write" /\ RingInv /\ Good(p)
  BY HereApart, InvParts DEF PutWrite
<1>2. /\ pc'[p] = "publish" /\ gp' = gp /\ curg' = curg /\ batch' = batch
      /\ runnext' = runnext /\ global' = global
      /\ head' = head /\ tail' = tail /\ made' = made
      /\ runq' = [runq EXCEPT ![p][Slot(tail[p])] = gp[p]]
      /\ \A q \in Procs \ {p} : Rests(q) /\ runq'[q] = runq[q]
  BY <1>1 DEF PutWrite, Goto, TypeOK, Rests
<1>3. /\ InRing(p) \in Nat /\ InRing(p) < Size /\ head[p] \in Int /\ Size \in Nat
      /\ Slot(tail[p]) = Slot(head[p] + InRing(p))
  BY <1>1, Types, TailSlot, Params DEF Good, ChecksOf
<1>4. ASSUME NEW k \in 0..(InRing(p) - 1)
      PROVE  runq'[p][Slot(head[p] + k)] = runq[p][Slot(head[p] + k)]
  <2>1. k \in Slots /\ InRing(p) \in Slots /\ k # InRing(p) /\ head[p] + k \in Int
    BY <1>3 DEF Slots
  <2>2. Slot(head[p] + k) # Slot(tail[p]) /\ Slot(head[p] + k) \in Slots
    BY <1>3, <2>1, SlotIs
  <2>3. QED
    BY <1>1, <1>2, <2>2 DEF TypeOK
<1>5. QED
  BY <1>1, <1>2, <1>4, QuietMaps

LEMMA PutPublishRefines ==
  ASSUME IInv, NEW p \in Procs, PutPublish(p)
  PROVE  Mapped /\ Settled' /\ HandsApart'
<1> DEFINE g == gp[p]
           s == <<g>>
<1>1. /\ TypeOK /\ pc[p] = "publish" /\ RingInv /\ Settled /\ Good(p) /\ ApartOf(p)
      /\ curg[p] # None /\ g \in Goroutines /\ None \notin Goroutines
      /\ ToSet(<<>>) = {} /\ IsInjective(<<>>) /\ batch[p] \in Seq(Goroutines)
  <2>1. /\ TypeOK /\ PointOf(p) /\ RingInv /\ Settled /\ ApartOf(p) /\ Good(p)
        /\ None \notin Goroutines /\ ToSet(<<>>) = {} /\ IsInjective(<<>>)
    BY HereApart, InvParts
  <2>2. pc[p] = "publish"
    BY DEF PutPublish
  <2>3. curg[p] # None /\ g # None
    BY <2>1, <2>2 DEF PointOf
  <2>4. g \in Goroutines /\ batch[p] \in Seq(Goroutines)
    BY <2>1, <2>3 DEF TypeOK
  <2>5. QED
    BY <2>1, <2>2, <2>3, <2>4
<1>2. /\ tail' = [tail EXCEPT ![p] = (tail[p] + 1) % W]
      /\ \/ /\ batch[p] = <<>> /\ gp' = [gp EXCEPT ![p] = None] /\ batch' = batch
            /\ Goto(p, "run") /\ lock' = IF lock = p THEN None ELSE lock
         \/ /\ batch[p] # <<>> /\ gp' = [gp EXCEPT ![p] = Head(batch[p])]
            /\ batch' = [batch EXCEPT ![p] = Tail(batch[p])]
            /\ Goto(p, "put") /\ lock' = lock
      /\ h' = [h EXCEPT ![p] = 0]
      /\ UNCHANGED <<head, runq, runnext, global, made, curg, grab>>
  BY <1>1 DEF PutPublish, TypeOK
<1>3. /\ InRing(p) \in Nat /\ InRing(p) < Size /\ Size \in Nat /\ W \in Nat \ {0}
      /\ head[p] \in Counter /\ tail[p] \in Counter /\ Size < W
      /\ Slot(tail[p]) = Slot(head[p] + InRing(p))
      /\ runq[p][Slot(tail[p])] = g /\ head[p] \in Int
  BY <1>1, Types, TailSlot, Params DEF Good, ChecksOf, FilledOf
<1>4. InRing(p)' = InRing(p) + 1
  <2>1. 1 \in 0..(W - 1) /\ Dist(tail[p], head[p]) + 1 < W
    BY <1>3 DEF InRing
  <2>2. Dist((tail[p] + 1) % W, head[p]) = Dist(tail[p], head[p]) + 1
    BY <1>3, <2>1, TailSteps
  <2>3. tail'[p] = (tail[p] + 1) % W /\ head' = head
    BY <1>1, <1>2 DEF TypeOK
  <2>4. QED
    BY <2>2, <2>3 DEF InRing
<1>5. /\ \/ pc'[p] = "run" /\ batch[p] = <<>> /\ batch'[p] = <<>> /\ gp'[p] = None
         \/ /\ pc'[p] = "put" /\ batch[p] # <<>> /\ gp'[p] = Head(batch[p])
            /\ batch'[p] = Tail(batch[p])
      /\ \A q \in Procs \ {p} : Rests(q) /\ tail'[q] = tail[q]
      /\ head' = head /\ runq' = runq /\ runnext' = runnext /\ global' = global
      /\ made' = made /\ curg' = curg
  <2>1. None \notin Procs
    BY RunQueueAssumption
  <2>2. QED
    BY <1>1, <1>2, <2>1 DEF Goto, TypeOK, Rests
<1>6. s \in Seq(Goroutines) /\ Len(s) = 1 /\ s # <<>> /\ ToSet(s) = {g} /\ IsInjective(s)
      /\ s[1] = g
  BY <1>1, Short
<1> HIDE DEF s
<1>7. Queue(p)' = Queue(p) \o s
  <2>1. \A k \in 1..Len(s) : runq'[p][Slot(head[p] + InRing(p) + k - 1)] = s[k]
    <3>1. head[p] + InRing(p) + 1 - 1 = head[p] + InRing(p)
      BY <1>3
    <3>2. QED
      BY <1>3, <1>5, <1>6, <3>1
  <2>2. InRing(p)' = InRing(p) + Len(s) /\ head'[p] = head[p]
    BY <1>4, <1>5, <1>6
  <2>3. QED
    BY <1>1, <1>5, <1>6, <2>1, <2>2, QueueGrows
<1>8. ASSUME NEW q \in Procs \ {p}
      PROVE  Queue(q)' = Queue(q)
  BY <1>5 DEF Queue, Batch
<1>9. /\ curg[p] # g /\ g \notin ToSet(batch[p]) /\ curg[p] \notin ToSet(batch[p])
      /\ IsInjective(batch[p])
  BY <1>1 DEF ApartOf
<1>10. batch[p] # <<>> =>
         /\ Head(batch[p]) \in ToSet(batch[p]) /\ Head(batch[p]) \in Goroutines
         /\ IsInjective(Tail(batch[p]))
         /\ ToSet(Tail(batch[p])) = ToSet(batch[p]) \ {Head(batch[p])}
  BY <1>1, <1>9, HeadApart
<1>11. Hand(p) = {curg[p], g} \cup ToSet(batch[p])
  BY <1>1, HandIs
<1>12. Hand(p)' = Hand(p) \ {g}
  BY <1>1, <1>5, <1>9, <1>10, <1>11, HandIs
<1>13. ApartOf(p)'
  BY <1>1, <1>5, <1>9, <1>10 DEF ApartOf
<1>14. HandsApart' /\ \A q \in Procs \ {p} : Hand(q)' = Hand(q)
  BY <1>5, <1>13, OthersKeep
<1>15. InRing(p) + Len(s) <= Size /\ ToSet(s) \subseteq Hand(p) /\ Hand(p)' = Hand(p) \ ToSet(s)
  BY <1>3, <1>6, <1>11, <1>12
<1>16. Mapped /\ Settled'
  BY <1>1, <1>5, <1>6, <1>7, <1>8, <1>14, <1>15, PutMaps
<1>17. QED
  BY <1>14, <1>16

LEMMA PutSlowRefines ==
  ASSUME IInv, NEW p \in Procs, PutSlow(p)
  PROVE  Mapped /\ Settled' /\ HandsApart'
<1> DEFINE half == Size \div 2
           b == SubSeq(Queue(p), 1, half)
<1>1. /\ RingInv /\ Settled /\ TypeOK /\ Good(p) /\ ApartOf(p) /\ pc[p] = "slow"
      /\ batch[p] = <<>> /\ curg[p] # None /\ gp[p] \in Goroutines /\ None \notin Goroutines
      /\ ToSet(<<>>) = {} /\ IsInjective(<<>>)
      /\ Dist(tail[p], h[p]) = Size
  <2>1. /\ TypeOK /\ PointOf(p) /\ RingInv /\ Settled /\ ApartOf(p) /\ Good(p)
        /\ pc[p] \notin {"put", "write", "publish", "spill"} => batch[p] = <<>>
        /\ None \notin Goroutines /\ ToSet(<<>>) = {} /\ IsInjective(<<>>)
    BY HereApart, InvParts
  <2>2. pc[p] = "slow"
    BY DEF PutSlow
  <2>3. curg[p] # None /\ gp[p] # None /\ Dist(tail[p], h[p]) = Size
    BY <2>1, <2>2 DEF PointOf, Good, ChecksOf
  <2>4. gp[p] \in Goroutines
    BY <2>1, <2>3 DEF TypeOK
  <2>5. QED
    BY <2>1, <2>2, <2>3, <2>4
<1>2. CASE head[p] # h[p]
  <2>1. /\ pc' = [pc EXCEPT ![p] = "put"]
        /\ UNCHANGED <<head, tail, runq, runnext, global, lock, made, curg, gp, batch, h, grab>>
    BY <1>2 DEF PutSlow, Goto
  <2>2. pc'[p] = "put" /\ \A q \in Procs \ {p} : Rests(q)
    BY <1>1, <2>1 DEF TypeOK, Rests
  <2>3. QED
    BY <1>1, <2>1, <2>2, QuietMaps
<1>3. CASE head[p] = h[p]
  <2>1. /\ Size \in Nat \ {0} /\ half \in Nat \ {0} /\ Size = 2 * half /\ W \in Nat \ {0}
        /\ InRing(p) = Size
    BY <1>1, <1>3, Params DEF InRing
  <2>2. half \in 1..InRing(p) /\ half \in 0..Size /\ half + 1 <= Size
    BY <2>1
  <2>3. /\ Queue(p) \in Seq(Goroutines) /\ Len(Queue(p)) = Size /\ IsInjective(Queue(p))
        /\ \A k \in 1..Size : Queue(p)[k] = runq[p][Slot(head[p] + k - 1)]
    BY <1>1, <2>1, QueueIs DEF Settled, Lined
  <2>4. /\ head' = [head EXCEPT ![p] = (head[p] + half) % W]
        /\ runq' = [runq EXCEPT ![p] = Without(p, head[p], half)]
        /\ batch' = [batch EXCEPT ![p] = Append(Batch(p, head[p], half), gp[p])]
        /\ gp' = [gp EXCEPT ![p] = None] /\ h' = [h EXCEPT ![p] = 0]
        /\ pc' = [pc EXCEPT ![p] = "spill"]
        /\ UNCHANGED <<tail, runnext, global, lock, made, curg, grab>>
    BY <1>1, <1>3 DEF PutSlow, Goto, TypeOK
  <2> HIDE DEF half, b
  <2>5. /\ b \in Seq(Goroutines) /\ Len(b) = half /\ \A i \in 1..half : b[i] = Queue(p)[i]
        /\ IsInjective(b) /\ ToSet(b) \subseteq ToSet(Queue(p))
    <3> DEFINE s == Queue(p)
    <3>1. s \in Seq(Goroutines) /\ IsInjective(s) /\ half \in 0..Len(s)
      BY <2>2, <2>3
    <3> HIDE DEF s
    <3>2. /\ SubSeq(s, 1, half) \in Seq(Goroutines) /\ Len(SubSeq(s, 1, half)) = half
          /\ \A i \in 1..half : SubSeq(s, 1, half)[i] = s[i]
          /\ IsInjective(SubSeq(s, 1, half)) /\ ToSet(SubSeq(s, 1, half)) \subseteq ToSet(s)
      BY <3>1, Cut
    <3>3. QED
      BY <3>2 DEF b, s
  <2>6. Batch(p, head[p], half) = b
    <3>1. Batch(p, head[p], half) = [k \in 1..half |-> runq[p][Slot(head[p] + k - 1)]]
      BY DEF Batch
    <3>2. DOMAIN b = 1..half /\ b = [k \in DOMAIN b |-> b[k]]
      BY <2>5, LenProperties
    <3>3. \A k \in 1..half : k \in 1..Size
      BY <2>1, <2>2
    <3>4. QED
      BY <2>3, <2>5, <3>1, <3>2, <3>3
  <2>7. /\ Queue(p)' = SubSeq(Queue(p), half + 1, Len(Queue(p)))
        /\ \A q \in Procs \ {p} : Queue(q)' = Queue(q)
    BY <1>1, <2>2, <2>4, QueueShrinks
  <2>8. Hand(p) = {curg[p], gp[p]} /\ curg[p] # gp[p]
    BY <1>1, HandIs DEF ApartOf
  <2>9. curg[p] \notin ToSet(Queue(p)) /\ gp[p] \notin ToSet(Queue(p))
    <3>1. \A i \in At(HandOf(p)) : i \notin At(QueueOf(p))
      BY <1>1, PlaceIs DEF Settled, Alone
    <3>2. QED
      BY <2>8, <3>1, AtIs
  <2> DEFINE a == Append(b, gp[p])
  <2>10. ToSet(a) = ToSet(b) \cup {gp[p]} /\ IsInjective(a) /\ Len(a) = half + 1
    BY <1>1, <2>5, <2>9, Appended
  <2>11. /\ pc'[p] = "spill" /\ gp'[p] = None /\ curg' = curg /\ batch'[p] = a
         /\ \A q \in Procs \ {p} : Rests(q) /\ tail'[q] = tail[q] /\ runq'[q] = runq[q]
    BY <1>1, <2>4, <2>6 DEF TypeOK, Rests
  <2> HIDE DEF a
  <2>12. Hand(p)' = Hand(p) \cup ToSet(b)
    BY <1>1, <2>8, <2>10, <2>11, HandIs
  <2>13. ApartOf(p)'
    <3>1. Len(a) <= Size
      BY <2>2, <2>10
    <3>2. curg[p] \notin ToSet(a)
      BY <2>5, <2>8, <2>9, <2>10
    <3>3. None \notin ToSet(a)
      BY <1>1, <2>5, <2>10, ElementsAre
    <3>4. QED
      BY <2>10, <2>11, <3>1, <3>2, <3>3 DEF ApartOf
  <2>14. HandsApart' /\ \A q \in Procs \ {p} : Hand(q)' = Hand(q)
    BY <2>11, <2>13, OthersKeep
  <2>15. Mapped /\ Settled'
    BY <1>1, <2>2, <2>4, <2>7, <2>12, <2>14, TakeMaps DEF b
  <2>16. QED
    BY <2>14, <2>15
<1>4. QED
  BY <1>2, <1>3

LEMMA SpillRefines ==
  ASSUME IInv, NEW p \in Procs, Spill(p)
  PROVE  Mapped /\ Settled' /\ HandsApart'
<1> DEFINE s == batch[p]
<1>1. /\ RingInv /\ Settled /\ TypeOK /\ ApartOf(p) /\ pc[p] = "spill" /\ s # <<>>
      /\ s \in Seq(Goroutines) /\ Len(s) <= Size /\ IsInjective(s) /\ curg[p] \notin ToSet(s)
      /\ curg[p] # None /\ gp[p] = None /\ None \notin Goroutines
      /\ ToSet(<<>>) = {} /\ IsInjective(<<>>)
  BY HereApart DEF Spill, PointOf, ApartOf, TypeOK
<1>2. /\ pc'[p] = "run" /\ gp' = gp /\ curg' = curg /\ batch'[p] = <<>>
      /\ runnext' = runnext /\ global' = global \o s
      /\ head' = head /\ tail' = tail /\ runq' = runq /\ made' = made
      /\ \A q \in Procs \ {p} : Rests(q)
  BY <1>1 DEF Spill, Goto, TypeOK, Rests
<1>3. Hand(p) = {curg[p]} \cup ToSet(s) /\ Hand(p)' = {curg[p]}
  BY <1>1, <1>2, HandIs
<1>4. ApartOf(p)'
  BY <1>1, <1>2 DEF ApartOf
<1>5. HandsApart' /\ \A q \in Procs \ {p} : Hand(q)' = Hand(q)
  BY <1>2, <1>4, OthersKeep
<1>6. ToSet(s) \subseteq Hand(p) /\ Hand(p)' = Hand(p) \ ToSet(s)
  BY <1>1, <1>3
<1> HIDE DEF s
<1>7. Mapped /\ Settled'
  BY <1>1, <1>2, <1>5, <1>6, QueuesStay, PutGlobalMaps
<1>8. QED
  BY <1>5, <1>7

LEMMA BlockRefines ==
  ASSUME IInv, NEW p \in Procs, Block(p)
  PROVE  Mapped /\ Settled' /\ HandsApart'
<1> DEFINE g == curg[p]
<1>1. /\ RingInv /\ Settled /\ TypeOK /\ ApartOf(p) /\ batch[p] = <<>> /\ pc[p] = "run"
      /\ g # None /\ gp[p] = None /\ None \notin Goroutines
      /\ ToSet(<<>>) = {} /\ IsInjective(<<>>)
  BY HereApart DEF Block, PointOf
<1>2. /\ pc'[p] = "get" /\ gp' = gp /\ curg'[p] = None /\ batch' = batch
      /\ runnext' = runnext /\ global' = global
      /\ head' = head /\ tail' = tail /\ runq' = runq /\ made' = made
      /\ \A q \in Procs \ {p} : Rests(q)
  BY <1>1 DEF Block, Goto, TypeOK, Rests
<1>3. Hand(p) = {g} /\ Hand(p)' = {} /\ g \in Goroutines
  BY <1>1, <1>2, HandIs DEF TypeOK
<1>4. ApartOf(p)'
  BY <1>1, <1>2 DEF ApartOf
<1>5. HandsApart' /\ \A q \in Procs \ {p} : Hand(q)' = Hand(q)
  BY <1>2, <1>4, OthersKeep
<1>6. g \in Hand(p) /\ Hand(p)' = Hand(p) \ {g}
  BY <1>3
<1> HIDE DEF g
<1>7. Mapped /\ Settled'
  BY <1>1, <1>2, <1>3, <1>5, <1>6, QueuesStay, BlockMaps
<1>8. QED
  BY <1>5, <1>7

LEMMA YieldRefines ==
  ASSUME IInv, NEW p \in Procs, Yield(p)
  PROVE  Mapped /\ Settled' /\ HandsApart'
<1> DEFINE g == curg[p]
           s == <<g>>
<1>1. /\ RingInv /\ Settled /\ TypeOK /\ ApartOf(p) /\ batch[p] = <<>> /\ pc[p] = "run"
      /\ g # None /\ gp[p] = None /\ None \notin Goroutines
      /\ ToSet(<<>>) = {} /\ IsInjective(<<>>)
  BY HereApart DEF Yield, PointOf
<1>2. /\ pc'[p] = "get" /\ gp' = gp /\ curg'[p] = None /\ batch' = batch
      /\ runnext' = runnext /\ global' = Append(global, g)
      /\ head' = head /\ tail' = tail /\ runq' = runq /\ made' = made
      /\ \A q \in Procs \ {p} : Rests(q)
  BY <1>1 DEF Yield, Goto, TypeOK, Rests
<1>3. Hand(p) = {g} /\ Hand(p)' = {} /\ g \in Goroutines /\ global \in Seq(Goroutines)
  BY <1>1, <1>2, HandIs DEF TypeOK
<1>4. ApartOf(p)'
  BY <1>1, <1>2 DEF ApartOf
<1>5. HandsApart' /\ \A q \in Procs \ {p} : Hand(q)' = Hand(q)
  BY <1>2, <1>4, OthersKeep
<1>6. global' = global \o s
  BY <1>2, <1>3, AppendIsConcat
<1>7. /\ s \in Seq(Goroutines) /\ s # <<>> /\ IsInjective(s) /\ Len(s) = 1 /\ ToSet(s) = {g}
      /\ Size \in Nat \ {0}
  BY <1>3, Short, Params
<1> HIDE DEF s
<1>8. ToSet(s) \subseteq Hand(p) /\ Hand(p)' = Hand(p) \ ToSet(s) /\ Len(s) <= Size
  BY <1>3, <1>7
<1>9. Mapped /\ Settled'
  BY <1>1, <1>2, <1>5, <1>6, <1>7, <1>8, QueuesStay, PutGlobalMaps
<1>10. QED
  BY <1>5, <1>9

LEMMA GetGlobalRefines ==
  ASSUME IInv, NEW p \in Procs, GetGlobal(p)
  PROVE  Mapped /\ Settled' /\ HandsApart'
<1> DEFINE g == Head(global)
<1>1. /\ RingInv /\ Settled /\ TypeOK /\ ApartOf(p) /\ batch[p] = <<>> /\ pc[p] = "get"
      /\ curg[p] = None /\ gp[p] = None /\ None \notin Goroutines
      /\ ToSet(<<>>) = {} /\ IsInjective(<<>>)
  BY HereApart DEF GetGlobal, PointOf
<1>2. global \in Seq(Goroutines) /\ global # <<>> /\ IsInjective(global)
  BY <1>1 DEF GetGlobal, TypeOK, Settled, Lined
<1>3. /\ g \in Goroutines /\ Len(global) \in Nat \ {0}
      /\ Tail(global) = SubSeq(global, 2, Len(global))
      /\ ToSet(SubSeq(global, 1, 1)) = {g}
  BY <1>2, FirstOf
<1>4. /\ pc'[p] = "run" /\ gp' = gp /\ curg'[p] = g /\ batch' = batch
      /\ runnext' = runnext /\ global' = Tail(global)
      /\ head' = head /\ tail' = tail /\ runq' = runq /\ made' = made
      /\ \A q \in Procs \ {p} : Rests(q)
  BY <1>1 DEF GetGlobal, Run, Goto, TypeOK, Rests
<1> HIDE DEF g
<1>5. Hand(p) = {} /\ Hand(p)' = {g}
  BY <1>1, <1>3, <1>4, HandIs
<1>6. ApartOf(p)'
  BY <1>1, <1>3, <1>4 DEF ApartOf
<1>7. HandsApart' /\ \A q \in Procs \ {p} : Hand(q)' = Hand(q)
  BY <1>4, <1>6, OthersKeep
<1> DEFINE k == 1
<1>8. /\ k \in 1..Len(global) /\ Hand(p)' = Hand(p) \cup ToSet(SubSeq(global, 1, k))
      /\ global' = SubSeq(global, k + 1, Len(global))
  BY <1>3, <1>4, <1>5
<1> HIDE DEF k
<1>9. Mapped /\ Settled'
  BY <1>1, <1>4, <1>7, <1>8, QueuesStay, TakeGlobalMaps
<1>10. QED
  BY <1>7, <1>9

LEMMA GetNextRefines ==
  ASSUME IInv, NEW p \in Procs, GetNext(p)
  PROVE  Mapped /\ Settled' /\ HandsApart'
<1>1. /\ RingInv /\ Settled /\ TypeOK /\ ApartOf(p) /\ batch[p] = <<>> /\ pc[p] = "get"
      /\ curg[p] = None /\ gp[p] = None /\ None \notin Goroutines
      /\ ToSet(<<>>) = {} /\ IsInjective(<<>>)
  BY HereApart DEF GetNext, PointOf
<1>2. /\ gp' = gp /\ batch' = batch /\ global' = global
      /\ head' = head /\ tail' = tail /\ runq' = runq /\ made' = made
      /\ \A q \in Procs \ {p} : Rests(q)
  BY <1>1 DEF GetNext, Run, Goto, TypeOK, Rests
<1>3. CASE runnext[p] = None
  <2>1. pc'[p] = "look" /\ curg' = curg /\ runnext' = runnext
    BY <1>1, <1>3 DEF GetNext, Goto, TypeOK
  <2>2. QED
    BY <1>1, <1>2, <2>1, QuietMaps
<1>4. CASE runnext[p] # None
  <2>1. pc'[p] = "run" /\ curg'[p] = runnext[p] /\ runnext' = [runnext EXCEPT ![p] = None]
    BY <1>1, <1>4 DEF GetNext, Run, Goto, TypeOK
  <2>2. Hand(p) = {} /\ Hand(p)' = Hand(p) \cup {runnext[p]}
    BY <1>1, <1>2, <1>4, <2>1, HandIs
  <2>3. ApartOf(p)'
    BY <1>1, <1>2, <1>4, <2>1 DEF ApartOf
  <2>4. HandsApart' /\ \A q \in Procs \ {p} : Hand(q)' = Hand(q)
    BY <1>2, <2>3, OthersKeep
  <2>5. Mapped /\ Settled'
    BY <1>1, <1>2, <1>4, <2>1, <2>2, <2>4, QueuesStay, TakeNextMaps
  <2>6. QED
    BY <2>4, <2>5
<1>5. QED
  BY <1>3, <1>4

LEMMA GetLookRefines ==
  ASSUME IInv, NEW p \in Procs, GetLook(p)
  PROVE  Mapped /\ Settled' /\ HandsApart'
<1>1. TypeOK /\ pc[p] = "look"
  BY HereApart DEF GetLook
<1>2. /\ pc'[p] \in {"find", "take"} /\ gp' = gp /\ curg' = curg /\ batch' = batch
      /\ runnext' = runnext /\ global' = global
      /\ head' = head /\ tail' = tail /\ runq' = runq /\ made' = made
      /\ \A q \in Procs \ {p} : Rests(q)
  BY <1>1 DEF GetLook, Goto, TypeOK, Rests
<1>3. QED
  BY <1>1, <1>2, QuietMaps

LEMMA GetTakeRefines ==
  ASSUME IInv, NEW p \in Procs, GetTake(p)
  PROVE  Mapped /\ Settled' /\ HandsApart'
<1> DEFINE g == runq[p][Slot(head[p])]
<1>1. /\ RingInv /\ Settled /\ TypeOK /\ ApartOf(p) /\ Good(p) /\ batch[p] = <<>>
      /\ pc[p] = "take" /\ curg[p] = None /\ gp[p] = None /\ None \notin Goroutines
      /\ ToSet(<<>>) = {} /\ IsInjective(<<>>) /\ h[p] # tail[p]
  <2>1. /\ TypeOK /\ PointOf(p) /\ RingInv /\ Settled /\ ApartOf(p) /\ Good(p)
        /\ pc[p] \notin {"put", "write", "publish", "spill"} => batch[p] = <<>>
        /\ None \notin Goroutines /\ ToSet(<<>>) = {} /\ IsInjective(<<>>)
    BY HereApart, InvParts
  <2>2. pc[p] = "take"
    BY DEF GetTake
  <2>3. curg[p] = None /\ gp[p] = None /\ h[p] # tail[p]
    BY <2>1, <2>2 DEF PointOf, Good, OldOf
  <2>4. QED
    BY <2>1, <2>2, <2>3
<1>2. CASE head[p] # h[p]
  <2>1. /\ pc' = [pc EXCEPT ![p] = "look"] /\ h' = [h EXCEPT ![p] = 0]
        /\ UNCHANGED <<head, tail, runq, runnext, global, lock, made, curg, gp, batch, grab>>
    BY <1>2 DEF GetTake, Goto
  <2>2. pc'[p] = "look" /\ \A q \in Procs \ {p} : Rests(q)
    BY <1>1, <2>1 DEF TypeOK, Rests
  <2>3. QED
    BY <1>1, <2>1, <2>2, QuietMaps
<1>3. CASE head[p] = h[p]
  <2>1. /\ head[p] \in Counter /\ tail[p] \in Counter /\ InRing(p) \in Nat
        /\ Queue(p) \in Seq(Goroutines) /\ Len(Queue(p)) = InRing(p) /\ head[p] \in Int
        /\ \A k \in 1..InRing(p) : Queue(p)[k] = runq[p][Slot(head[p] + k - 1)]
        /\ IsInjective(Queue(p))
    <3>1. head[p] \in Counter /\ tail[p] \in Counter /\ head[p] \in Nat
      BY <1>1, Types
    <3>2. /\ Queue(p) \in Seq(Goroutines) /\ Len(Queue(p)) = InRing(p) /\ InRing(p) \in Nat
          /\ \A k \in 1..InRing(p) : Queue(p)[k] = runq[p][Slot(head[p] + k - 1)]
      BY <1>1, QueueIs
    <3>3. IsInjective(Queue(p))
      BY <1>1 DEF Settled, Lined
    <3>4. QED
      BY <3>1, <3>2, <3>3
  <2>2. InRing(p) # 0
    BY <1>1, <1>3, <2>1, DistIs DEF InRing
  <2>3. 1 \in 1..InRing(p) /\ head[p] + 1 - 1 = head[p]
    BY <2>1, <2>2
  <2>4. Queue(p)[1] = g /\ g \in Goroutines
    BY <2>1, <2>3, ElementOfSeq
  <2>5. Queue(p) # <<>> /\ Head(Queue(p)) = g
    BY <2>1, <2>3, <2>4, EmptySeq
  <2>6. ToSet(SubSeq(Queue(p), 1, 1)) = {g}
    BY <2>1, <2>5, FirstOf
  <2>7. /\ head' = [head EXCEPT ![p] = (head[p] + 1) % W]
        /\ runq' = [runq EXCEPT ![p] = Without(p, head[p], 1)]
        /\ curg' = [curg EXCEPT ![p] = g] /\ h' = [h EXCEPT ![p] = 0]
        /\ pc' = [pc EXCEPT ![p] = "run"]
        /\ UNCHANGED <<tail, runnext, global, lock, made, gp, batch, grab>>
    BY <1>1, <1>3 DEF GetTake, Run, Goto, TypeOK
  <2> HIDE DEF g
  <2>8. /\ pc'[p] = "run" /\ curg'[p] = g
        /\ \A q \in Procs \ {p} : Rests(q) /\ tail'[q] = tail[q] /\ runq'[q] = runq[q]
    BY <1>1, <2>7 DEF TypeOK, Rests
  <2> DEFINE k == 1
  <2>9. k \in 1..InRing(p) /\ head' = [head EXCEPT ![p] = (head[p] + k) % W]
        /\ runq' = [runq EXCEPT ![p] = Without(p, head[p], k)]
        /\ ToSet(SubSeq(Queue(p), 1, k)) = {g}
    BY <2>3, <2>6, <2>7
  <2> HIDE DEF k
  <2>10. /\ Queue(p)' = SubSeq(Queue(p), k + 1, Len(Queue(p)))
         /\ \A q \in Procs \ {p} : Queue(q)' = Queue(q)
    BY <1>1, <2>7, <2>9, QueueShrinks
  <2>11. Hand(p) = {} /\ Hand(p)' = {g}
    BY <1>1, <2>4, <2>7, <2>8, HandIs
  <2>12. ApartOf(p)'
    BY <1>1, <2>4, <2>7, <2>8 DEF ApartOf
  <2>13. HandsApart' /\ \A q \in Procs \ {p} : Hand(q)' = Hand(q)
    BY <2>8, <2>12, OthersKeep
  <2>14. Hand(p)' = Hand(p) \cup ToSet(SubSeq(Queue(p), 1, k))
    BY <2>9, <2>11
  <2>15. Mapped /\ Settled'
    BY <1>1, <2>7, <2>9, <2>10, <2>13, <2>14, TakeMaps
  <2>16. QED
    BY <2>13, <2>15
<1>4. QED
  BY <1>2, <1>3

LEMMA TakeGlobalRefines ==
  ASSUME IInv, NEW p \in Procs, TakeGlobal(p)
  PROVE  Mapped /\ Settled' /\ HandsApart'
<1> DEFINE n == GlobalShare(Len(global))
           rest == SubSeq(global, 2, n)
           a == SubSeq(global, 1, n)
           g == Head(global)
<1>1. /\ RingInv /\ Settled /\ TypeOK /\ ApartOf(p) /\ batch[p] = <<>> /\ pc[p] = "find"
      /\ curg[p] = None /\ gp[p] = None /\ None \notin Goroutines
      /\ ToSet(<<>>) = {} /\ IsInjective(<<>>)
  BY HereApart DEF TakeGlobal, PointOf
<1>2. global \in Seq(Goroutines) /\ global # <<>> /\ IsInjective(global)
  BY <1>1 DEF TakeGlobal, TypeOK, Settled, Lined
<1>3. n \in 1..Len(global) /\ Len(global) \in Nat \ {0} /\ n \in 0..Len(global) /\ n \in Nat
  <2>1. Len(global) \in Nat \ {0}
    BY <1>2, EmptySeq, LenProperties
  <2> HIDE DEF n
  <2>2. n \in 1..Len(global)
    BY <2>1, ShareIs DEF n
  <2>3. QED
    BY <2>1, <2>2
<1>4. /\ curg' = [curg EXCEPT ![p] = g]
      /\ global' = SubSeq(global, n + 1, Len(global))
      /\ \/ Goto(p, "run") /\ UNCHANGED <<gp, batch, lock>> /\ rest = <<>>
         \/ /\ rest # <<>>
            /\ gp' = [gp EXCEPT ![p] = Head(rest)]
            /\ batch' = [batch EXCEPT ![p] = Tail(rest)]
            /\ lock' = p
            /\ Goto(p, "put")
      /\ UNCHANGED <<head, tail, runq, runnext, made, h, grab>> /\ lock = None
  BY DEF TakeGlobal
<1> HIDE DEF n
<1>5. /\ a \in Seq(Goroutines) /\ Len(a) = n /\ IsInjective(a) /\ \A i \in 1..n : a[i] = global[i]
  BY <1>2, <1>3, Cut
<1>6. a # <<>> /\ Head(a) = g /\ Tail(a) = rest
  <2>1. 1 \in 1..Len(global) /\ n \in 1..Len(global)
    BY <1>3
  <2>2. n \in 1..Len(global) /\ Head(SubSeq(global, 1, n)) = global[1]
        /\ Tail(SubSeq(global, 1, n)) = SubSeq(global, 1 + 1, n)
    BY <1>2, <2>1, HeadTailOfSubSeq
  <2>3. a # <<>>
    BY <1>3, <1>5, EmptySeq
  <2>4. Head(a) = g
    BY <1>2, <2>2
  <2>5. Tail(a) = rest
    BY <2>2
  <2>6. QED
    BY <2>3, <2>4, <2>5
<1> HIDE DEF a
<1>7. /\ g \in ToSet(a) /\ g \in Goroutines /\ IsInjective(rest) /\ ToSet(rest) = ToSet(a) \ {g}
      /\ rest \in Seq(Goroutines)
  <2>1. Tail(a) \in Seq(Goroutines)
    BY <1>5, <1>6, HeadTailProperties
  <2>2. /\ Head(a) \in ToSet(a) /\ Head(a) \in Goroutines /\ IsInjective(Tail(a))
        /\ ToSet(Tail(a)) = ToSet(a) \ {Head(a)}
    BY <1>5, <1>6, HeadApart
  <2>3. QED
    BY <1>6, <2>1, <2>2
<1> HIDE DEF rest, g
<1>8. rest # <<>> =>
        /\ Head(rest) \in ToSet(rest) /\ Head(rest) \in Goroutines /\ IsInjective(Tail(rest))
        /\ ToSet(Tail(rest)) = ToSet(rest) \ {Head(rest)}
  BY <1>7, HeadApart
<1>9. /\ curg'[p] = g
      /\ head' = head /\ tail' = tail /\ runq' = runq /\ runnext' = runnext /\ made' = made
      /\ global' = SubSeq(global, n + 1, Len(global))
      /\ \/ pc'[p] = "run" /\ gp'[p] = None /\ batch'[p] = <<>> /\ rest = <<>>
         \/ /\ pc'[p] = "put" /\ rest # <<>> /\ gp'[p] = Head(rest) /\ batch'[p] = Tail(rest)
      /\ \A q \in Procs \ {p} : Rests(q)
  <2>1. None \notin Procs
    BY RunQueueAssumption
  <2>2. QED
    BY <1>1, <1>4, <2>1 DEF Goto, TypeOK, Rests
<1>10. Hand(p) = {} /\ Hand(p)' = ToSet(a)
  <2>1. Hand(p) = {}
    BY <1>1, HandIs
  <2>2. Hand(p)' = ({g, gp'[p]} \ {None}) \cup ToSet(batch'[p])
    BY <1>9, HandIs
  <2>3. CASE rest = <<>>
    BY <1>1, <1>7, <1>9, <2>2, <2>3
  <2>4. CASE rest # <<>>
    <3>1. ToSet(rest) = {gp'[p]} \cup ToSet(batch'[p]) /\ gp'[p] # None /\ g # None
      BY <1>1, <1>7, <1>8, <1>9, <2>4
    <3>2. \A x : x \in Hand(p)' <=> x = g \/ x = gp'[p] \/ x \in ToSet(batch'[p])
      BY <2>2, <3>1
    <3>3. \A x : x \in ToSet(a) <=> x = g \/ x \in ToSet(rest)
      BY <1>7
    <3>4. \A x : x \in Hand(p)' <=> x \in ToSet(a)
      BY <3>1, <3>2, <3>3
    <3>5. QED
      BY <3>4
  <2>5. QED
    BY <2>1, <2>3, <2>4
<1>11. ApartOf(p)'
  <2>1. CASE rest = <<>>
    BY <1>1, <1>7, <1>9, <2>1 DEF ApartOf
  <2>2. CASE rest # <<>>
    <3>1. g # gp'[p] /\ g \notin ToSet(batch'[p]) /\ gp'[p] \notin ToSet(batch'[p])
      BY <1>7, <1>8, <1>9, <2>2
    <3>2. IsInjective(batch'[p]) /\ pc'[p] = "put"
      BY <1>8, <1>9, <2>2
    <3>3. QED
      BY <1>9, <3>1, <3>2 DEF ApartOf
  <2>3. QED
    BY <2>1, <2>2
<1>12. HandsApart' /\ \A q \in Procs \ {p} : Hand(q)' = Hand(q)
  BY <1>9, <1>11, OthersKeep
<1>13. Hand(p)' = Hand(p) \cup ToSet(SubSeq(global, 1, n))
  BY <1>10 DEF a
<1>14. Mapped /\ Settled'
  BY <1>1, <1>3, <1>9, <1>12, <1>13, QueuesStay, TakeGlobalMaps
<1>15. QED
  BY <1>12, <1>14

LEMMA StealRefines ==
  ASSUME IInv, NEW p \in Procs, Steal(p)
  PROVE  Mapped /\ Settled' /\ HandsApart'
<1>1. TypeOK /\ pc[p] = "find"
  BY HereApart DEF Steal
<1>2. PICK v \in Procs \ {p}, nextG \in BOOLEAN :
        grab' = [grab EXCEPT ![p].victim = v, ![p].nextG = nextG]
  BY DEF Steal
<1>3. /\ pc'[p] = "grab" /\ gp' = gp /\ curg' = curg /\ batch' = batch
      /\ runnext' = runnext /\ global' = global
      /\ head' = head /\ tail' = tail /\ runq' = runq /\ made' = made
  BY <1>1 DEF Steal, Goto, TypeOK
<1>4. \A q \in Procs \ {p} : Rests(q)
  BY <1>1, <1>2 DEF Steal, Goto, TypeOK, Rests
<1>5. QED
  BY <1>1, <1>3, <1>4, QuietMaps

LEMMA GrabHeadRefines ==
  ASSUME IInv, NEW p \in Procs, GrabHead(p)
  PROVE  Mapped /\ Settled' /\ HandsApart'
<1>1. TypeOK /\ pc[p] = "grab"
  BY HereApart DEF GrabHead
<1>2. /\ pc'[p] = "tail" /\ gp' = gp /\ curg' = curg /\ batch' = batch
      /\ runnext' = runnext /\ global' = global
      /\ head' = head /\ tail' = tail /\ runq' = runq /\ made' = made
      /\ \A q \in Procs \ {p} : Rests(q)
  BY <1>1 DEF GrabHead, Goto, TypeOK, Rests
<1>3. QED
  BY <1>1, <1>2, QuietMaps

LEMMA GrabTailRefines ==
  ASSUME IInv, NEW p \in Procs, GrabTail(p)
  PROVE  Mapped /\ Settled' /\ HandsApart'
<1>1. TypeOK /\ pc[p] = "tail"
  BY HereApart DEF GrabTail
<1>2. /\ gp' = gp /\ curg' = curg /\ batch' = batch /\ lock' = lock
      /\ runnext' = runnext /\ global' = global
      /\ head' = head /\ tail' = tail /\ runq' = runq /\ made' = made
  BY DEF GrabTail
<1>3. \E point \in {"runnext", "find", "grab", "copy"} : Goto(p, point)
  BY DEF GrabTail
<1>4. \A q \in Procs \ {p} : grab'[q] = grab[q] /\ h'[q] = h[q]
  BY <1>1 DEF GrabTail, EndGrab, TypeOK
<1>5. /\ pc'[p] \in {"runnext", "find", "grab", "copy"}
      /\ \A q \in Procs \ {p} : pc'[q] = pc[q]
  BY <1>1, <1>3 DEF Goto, TypeOK
<1>6. \A q \in Procs \ {p} : Rests(q)
  BY <1>2, <1>4, <1>5 DEF Rests
<1>7. QED
  BY <1>1, <1>2, <1>5, <1>6, QuietMaps

\* A thief that copies or forgets its copies has nothing in its ring.
LEMMA GrabCopyRefines ==
  ASSUME IInv, NEW p \in Procs, GrabCopy(p)
  PROVE  Mapped /\ Settled' /\ HandsApart'
<1> DEFINE i == grab[p].i
           s == Slot(tail[p] + i)
           g == runq[grab[p].victim][Slot(h[p] + i)]
           point == IF i + 1 = grab[p].n THEN "claim" ELSE "copy"
<1>1. TypeOK /\ pc[p] = "copy" /\ PointOf(p) /\ RingInv
  BY HereApart DEF GrabCopy
<1>2. InRing(p) = 0
  <2>1. head[p] = tail[p] /\ head[p] \in Counter
    BY <1>1, Types DEF PointOf, Seeking
  <2>2. QED
    BY <2>1, DistIs DEF InRing
<1>3. /\ runq' = [runq EXCEPT ![p][s] = g] /\ grab' = [grab EXCEPT ![p].i = i + 1]
      /\ pc' = [pc EXCEPT ![p] = point]
      /\ UNCHANGED <<head, tail, runnext, global, lock, made, curg, gp, batch, h>>
  BY DEF GrabCopy, Goto
<1>4. point \in {"claim", "copy"}
  OBVIOUS
<1> HIDE DEF i, s, g, point
<1>5. /\ pc'[p] = point
      /\ \A q \in Procs \ {p} : Rests(q) /\ runq'[q] = runq[q]
  BY <1>1, <1>3 DEF TypeOK, Rests
<1>6. QED
  BY <1>1, <1>2, <1>3, <1>4, <1>5, QuietMaps

LEMMA ClaimedIs ==
  ASSUME RingInv, NEW p \in Procs, pc[p] = "commit"
  PROVE  LET b == Batch(p, tail[p], grab[p].n)
         IN /\ b \in Seq(Goroutines) /\ Len(b) = grab[p].n
            /\ \A k \in 1..grab[p].n : b[k] = runq[p][Slot(tail[p] + k - 1)]
            /\ grab[p].n \in Nat \ {0} /\ InRing(p) = 0 /\ head[p] = tail[p]
            /\ grab[p].n <= Size \div 2
<1> DEFINE n == grab[p].n
           b == Batch(p, tail[p], n)
<1>1. /\ TypeOK /\ Good(p) /\ n \in 1..(Size \div 2) /\ head[p] = tail[p]
      /\ \A k \in 0..(n - 1) : runq[p][Slot(tail[p] + k)] # None
      /\ Size \div 2 \in Nat
  BY InvHas, Params DEF Good, PointOf, OldOf, FilledOf, Seeking
<1>2. InRing(p) = 0 /\ tail[p] \in Int
  <2>1. tail[p] \in Counter /\ tail[p] \in Nat
    BY <1>1, Types
  <2>2. QED
    BY <1>1, <2>1, DistIs DEF InRing
<1>3. b = [k \in 1..n |-> runq[p][Slot(tail[p] + k - 1)]]
  BY DEF Batch
<1> HIDE DEF b, n
<1>4. n \in Nat \ {0} /\ n <= Size \div 2
  BY <1>1
<1>5. ASSUME NEW k \in 1..n
      PROVE  runq[p][Slot(tail[p] + k - 1)] \in Goroutines
  <2>1. k - 1 \in 0..(n - 1) /\ tail[p] + (k - 1) = tail[p] + k - 1
        /\ tail[p] + (k - 1) \in Int
    BY <1>2, <1>4
  <2>2. runq[p][Slot(tail[p] + k - 1)] # None /\ Slot(tail[p] + k - 1) \in Slots
    BY <1>1, <2>1, SlotIs
  <2>3. QED
    BY <1>1, <2>2 DEF TypeOK
<1>6. b \in Seq(Goroutines) /\ Len(b) = n
  <2>1. b \in [1..n -> Goroutines]
    BY <1>3, <1>5
  <2>2. QED
    BY <1>4, <2>1
<1>7. \A k \in 1..n : b[k] = runq[p][Slot(tail[p] + k - 1)]
  BY <1>3
<1>8. QED
  BY <1>1, <1>2, <1>4, <1>6, <1>7 DEF b, n

\* The thief that moves the head of its victim has what was behind it in hand.
LEMMA GrabWonRefines ==
  ASSUME IInv, NEW p \in Procs, GrabClaim(p), NEW v \in Procs \ {p}, NEW n \in Nat \ {0},
         v = grab[p].victim, n = grab[p].n, head[v] = h[p], head[p] = tail[p],
         n <= Size \div 2, n <= Dist(tail[v], h[p]), grab[p].i = n,
         pc[p] = "claim", curg[p] = None, gp[p] = None, batch[p] = <<>>
  PROVE  Mapped /\ Settled' /\ HandsApart'
<1>1. /\ TypeOK /\ RingInv /\ Settled /\ ApartOf(p) /\ Good(p)
      /\ None \notin Goroutines /\ ToSet(<<>>) = {} /\ IsInjective(<<>>)
      /\ tail[p] \in Int /\ n <= InRing(v) /\ head[v] \in Int
  <2>1. /\ TypeOK /\ RingInv /\ Settled /\ ApartOf(p) /\ Good(p)
        /\ None \notin Goroutines /\ ToSet(<<>>) = {} /\ IsInjective(<<>>)
    BY HereApart, InvParts
  <2>2. tail[p] \in Nat /\ head[v] \in Nat
    BY <2>1, Types
  <2>3. QED
    BY <2>1, <2>2 DEF InRing
<1>2. /\ head' = [head EXCEPT ![v] = (head[v] + n) % W]
      /\ runq' = [runq EXCEPT ![v] = Without(v, head[v], n)]
      /\ pc' = [pc EXCEPT ![p] = "commit"]
      /\ UNCHANGED <<tail, runnext, global, lock, made, curg, gp, batch, h, grab>>
  BY <1>1 DEF GrabClaim, Goto, TypeOK
<1>3. \A k \in 0..(n - 1) : runq[p][Slot(tail[p] + k)] = runq[v][Slot(head[v] + k)]
  BY <1>1 DEF Good, FilledOf
<1>4. /\ Queue(v) \in Seq(Goroutines) /\ Len(Queue(v)) = InRing(v) /\ IsInjective(Queue(v))
      /\ \A k \in 1..InRing(v) : Queue(v)[k] = runq[v][Slot(head[v] + k - 1)]
      /\ InRing(v) \in Nat
  BY <1>1, QueueIs DEF Settled, Lined
<1>5. n \in 1..InRing(v) /\ n \in 0..Len(Queue(v))
  BY <1>1, <1>4
<1>6. /\ pc'[p] = "commit" /\ runq'[p] = runq[p]
      /\ \A q \in Procs \ {p} : Rests(q) /\ tail'[q] = tail[q]
      /\ \A q \in Procs \ {v} : runq'[q] = runq[q]
  BY <1>1, <1>2 DEF TypeOK, Rests
<1> DEFINE a == SubSeq(Queue(v), 1, n)
<1>7. /\ a \in Seq(Goroutines) /\ Len(a) = n /\ \A k \in 1..n : a[k] = Queue(v)[k]
      /\ IsInjective(a)
  <2> DEFINE s == Queue(v)
  <2>1. s \in Seq(Goroutines) /\ IsInjective(s) /\ n \in 0..Len(s)
    BY <1>4, <1>5
  <2> HIDE DEF s
  <2>2. /\ SubSeq(s, 1, n) \in Seq(Goroutines) /\ Len(SubSeq(s, 1, n)) = n
        /\ \A k \in 1..n : SubSeq(s, 1, n)[k] = s[k]
        /\ IsInjective(SubSeq(s, 1, n))
    BY <2>1, Cut
  <2>3. QED
    BY <2>2 DEF s
<1>8. /\ Queue(v)' = SubSeq(Queue(v), n + 1, Len(Queue(v)))
      /\ \A q \in Procs \ {v} : Queue(q)' = Queue(q)
  BY <1>1, <1>2, <1>5, QueueShrinks
<1> HIDE DEF a
<1>9. Batch(p, tail[p], grab[p].n)' = a
  <2>1. Batch(p, tail[p], grab[p].n)' = [k \in 1..n |-> runq[p][Slot(tail[p] + k - 1)]]
    <3>1. runq'[p] = runq[p] /\ tail' = tail /\ grab' = grab
      BY <1>2, <1>6
    <3>2. QED
      BY <3>1 DEF Batch
  <2>2. DOMAIN a = 1..n /\ a = [k \in DOMAIN a |-> a[k]]
    BY <1>7, LenProperties
  <2>3. ASSUME NEW k \in 1..n
        PROVE  runq[p][Slot(tail[p] + k - 1)] = a[k]
    <3>1. /\ k - 1 \in 0..(n - 1) /\ k \in 1..InRing(v)
          /\ tail[p] + k - 1 = tail[p] + (k - 1) /\ head[v] + (k - 1) = head[v] + k - 1
      BY <1>1, <1>4
    <3>2. QED
      BY <1>3, <1>4, <1>7, <3>1
  <2>4. QED
    BY <2>1, <2>2, <2>3
<1>10. pc[v] # "commit"
  BY <1>1, <1>4, ClaimedIs
<1>11. Claimed(p)' = ToSet(a) /\ IsInjective(Batch(p, tail[p], grab[p].n))'
  BY <1>6, <1>7, <1>9 DEF Claimed
<1>12. Hand(p) = {} /\ Hand(p)' = ToSet(a)
  <2>1. /\ curg'[p] = None /\ gp'[p] = None /\ batch'[p] = <<>> /\ pc[p] # "commit"
        /\ ToSet(<<>>) = {} /\ {None, None} \ {None} = {}
    BY <1>1, <1>2
  <2>2. ToSet(batch[p]) = {} /\ ToSet(batch'[p]) = {}
    BY <2>1
  <2>3. Claimed(p) = {}
    BY HandIs
  <2>4. Hand(p) = {}
    BY <2>1, <2>2, <2>3, HandIs
  <2>5. Hand(p)' = ToSet(a)
    BY <1>11, <2>1, <2>2, HandIs
  <2>6. QED
    BY <2>4, <2>5
<1>13. ApartOf(p)'
  <2>1. curg' = curg /\ gp' = gp /\ batch' = batch
    BY <1>2
  <2>2. QED
    BY <1>1, <1>6, <1>11, <2>1 DEF ApartOf
<1>14. HandsApart' /\ \A q \in Procs \ {p} : Hand(q)' = Hand(q)
  BY <1>6, <1>10, <1>13, OthersKeep
<1>15. Hand(p)' = Hand(p) \cup ToSet(SubSeq(Queue(v), 1, n))
  BY <1>12 DEF a
<1>16. Mapped /\ Settled'
  BY <1>1, <1>2, <1>5, <1>8, <1>14, <1>15, TakeMaps
<1>17. QED
  BY <1>14, <1>16

LEMMA GrabClaimRefines ==
  ASSUME IInv, NEW p \in Procs, GrabClaim(p)
  PROVE  Mapped /\ Settled' /\ HandsApart'
<1> DEFINE v == grab[p].victim
           n == grab[p].n
<1>1. /\ TypeOK /\ Good(p) /\ batch[p] = <<>>
      /\ pc[p] = "claim" /\ curg[p] = None /\ gp[p] = None
      /\ head[p] = tail[p] /\ v \in Procs \ {p}
      /\ n \in 1..(Size \div 2) /\ grab[p].i = n /\ n <= Dist(tail[v], h[p])
  <2>1. /\ TypeOK /\ PointOf(p) /\ Good(p)
        /\ pc[p] \notin {"put", "write", "publish", "spill"} => batch[p] = <<>>
    BY HereApart, InvParts
  <2>2. pc[p] = "claim"
    BY DEF GrabClaim
  <2>3. curg[p] = None /\ gp[p] = None /\ head[p] = tail[p] /\ v \in Procs \ {p}
    BY <2>1, <2>2 DEF PointOf, Seeking
  <2>4. n \in 1..(Size \div 2) /\ grab[p].i = n /\ n <= Dist(tail[v], h[p])
    BY <2>1, <2>2 DEF Good, OldOf
  <2>5. QED
    BY <2>1, <2>2, <2>3, <2>4
<1>2. InRing(p) = 0
  <2>1. head[p] \in Counter /\ tail[p] \in Counter
    BY <1>1, Types
  <2>2. QED
    BY <1>1, <2>1, DistIs DEF InRing
<1>3. CASE head[v] # h[p]
  <2>1. /\ runq' = [runq EXCEPT ![p] = Without(p, tail[p], n)]
        /\ pc' = [pc EXCEPT ![p] = "grab"] /\ h' = [h EXCEPT ![p] = 0] /\ head' = head
        /\ UNCHANGED <<tail, runnext, global, lock, made, curg, gp, batch, grab>>
    BY <1>3 DEF GrabClaim, Goto
  <2>2. pc'[p] = "grab" /\ \A q \in Procs \ {p} : Rests(q) /\ runq'[q] = runq[q]
    BY <1>1, <2>1 DEF TypeOK, Rests
  <2>3. QED
    BY <1>1, <1>2, <2>1, <2>2, QuietMaps
<1>4. CASE head[v] = h[p]
  <2>1. n \in Nat \ {0} /\ n <= Size \div 2
    <3>1. Size \div 2 \in Nat
      BY Params
    <3> HIDE DEF n
    <3>2. QED
      BY <1>1, <3>1
  <2>2. QED
    BY <1>1, <1>4, <2>1, GrabWonRefines
<1>5. QED
  BY <1>3, <1>4

LEMMA StealNextLookRefines ==
  ASSUME IInv, NEW p \in Procs, StealNextLook(p)
  PROVE  Mapped /\ Settled' /\ HandsApart'
<1>1. TypeOK /\ pc[p] = "runnext"
  BY HereApart DEF StealNextLook
<1>2. /\ gp' = gp /\ curg' = curg /\ batch' = batch /\ lock' = lock
      /\ runnext' = runnext /\ global' = global
      /\ head' = head /\ tail' = tail /\ runq' = runq /\ made' = made
  BY DEF StealNextLook
<1>3. \E point \in {"find", "cas"} : Goto(p, point)
  BY DEF StealNextLook
<1>4. \A q \in Procs \ {p} : grab'[q] = grab[q] /\ h'[q] = h[q]
  BY <1>1 DEF StealNextLook, EndGrab, TypeOK
<1>5. /\ pc'[p] \in {"find", "cas"}
      /\ \A q \in Procs \ {p} : pc'[q] = pc[q]
  BY <1>1, <1>3 DEF Goto, TypeOK
<1>6. \A q \in Procs \ {p} : Rests(q)
  BY <1>2, <1>4, <1>5 DEF Rests
<1>7. QED
  BY <1>1, <1>2, <1>5, <1>6, QuietMaps

LEMMA StealNextRefines ==
  ASSUME IInv, NEW p \in Procs, StealNext(p)
  PROVE  Mapped /\ Settled' /\ HandsApart'
<1> DEFINE v == grab[p].victim
           g == grab[p].next
<1>1. /\ RingInv /\ Settled /\ TypeOK /\ ApartOf(p) /\ batch[p] = <<>>
      /\ pc[p] = "cas" /\ curg[p] = None /\ gp[p] = None /\ None \notin Goroutines
      /\ ToSet(<<>>) = {} /\ IsInjective(<<>>) /\ v \in Procs /\ g # None
  BY HereApart DEF StealNext, PointOf, Seeking
<1>2. /\ gp' = gp /\ batch' = batch /\ lock' = lock /\ global' = global
      /\ head' = head /\ tail' = tail /\ runq' = runq /\ made' = made
  BY DEF StealNext
<1>3. \A q \in Procs \ {p} : grab'[q] = grab[q] /\ h'[q] = h[q]
  BY <1>1 DEF StealNext, EndGrab, TypeOK
<1>4. CASE runnext[v] # g
  <2>1. pc' = [pc EXCEPT ![p] = "grab"] /\ curg' = curg /\ runnext' = runnext
    BY <1>4 DEF StealNext, Goto
  <2>2. pc'[p] = "grab" /\ \A q \in Procs \ {p} : Rests(q)
    BY <1>1, <1>2, <1>3, <2>1 DEF TypeOK, Rests
  <2>3. QED
    BY <1>1, <1>2, <2>1, <2>2, QuietMaps
<1>5. CASE runnext[v] = g
  <2>1. /\ pc' = [pc EXCEPT ![p] = "run"] /\ curg' = [curg EXCEPT ![p] = g]
        /\ runnext' = [runnext EXCEPT ![v] = None]
    BY <1>5 DEF StealNext, Run, Goto
  <2>2. /\ pc'[p] = "run" /\ curg'[p] = g /\ \A q \in Procs \ {p} : Rests(q)
    BY <1>1, <1>2, <1>3, <2>1 DEF TypeOK, Rests
  <2>3. Hand(p) = {} /\ Hand(p)' = {runnext[v]}
    BY <1>1, <1>2, <1>5, <2>2, HandIs
  <2>4. ApartOf(p)'
    BY <1>1, <1>2, <2>2 DEF ApartOf
  <2>5. HandsApart' /\ \A q \in Procs \ {p} : Hand(q)' = Hand(q)
    BY <1>2, <2>2, <2>4, OthersKeep
  <2>6. Hand(p)' = Hand(p) \cup {runnext[v]} /\ runnext[v] # None
    BY <1>1, <1>5, <2>3
  <2> HIDE DEF v, g
  <2>7. Mapped /\ Settled'
    BY <1>1, <1>2, <2>1, <2>5, <2>6, QueuesStay, TakeNextMaps
  <2>8. QED
    BY <2>5, <2>7
<1>6. QED
  BY <1>4, <1>5

\* All that a thief has claimed but the last joins its ring, which was empty.
LEMMA CommitRefines ==
  ASSUME IInv, NEW p \in Procs, Commit(p)
  PROVE  Mapped /\ Settled' /\ HandsApart'
<1> DEFINE n == grab[p].n
           b == Batch(p, tail[p], n)
           m == n - 1
           s == SubSeq(b, 1, m)
           t == (tail[p] + m) % W
           g == b[n]
<1>1. /\ TypeOK /\ RingInv /\ Settled /\ pc[p] = "commit" /\ batch[p] = <<>>
      /\ curg[p] = None /\ gp[p] = None /\ head[p] = tail[p] /\ InRing(p) = 0
      /\ b \in Seq(Goroutines) /\ Len(b) = n /\ IsInjective(b)
      /\ \A k \in 1..n : b[k] = runq[p][Slot(tail[p] + k - 1)]
      /\ n \in Nat \ {0} /\ n <= Size \div 2
      /\ None \notin Goroutines /\ ToSet(<<>>) = {} /\ IsInjective(<<>>)
  <2>1. /\ TypeOK /\ PointOf(p) /\ RingInv /\ Settled /\ ApartOf(p)
        /\ pc[p] \notin {"put", "write", "publish", "spill"} => batch[p] = <<>>
        /\ None \notin Goroutines /\ ToSet(<<>>) = {} /\ IsInjective(<<>>)
    BY HereApart
  <2>2. pc[p] = "commit"
    BY DEF Commit
  <2>3. curg[p] = None /\ gp[p] = None
    BY <2>1, <2>2 DEF PointOf
  <2>4. /\ b \in Seq(Goroutines) /\ Len(b) = n
        /\ \A k \in 1..n : b[k] = runq[p][Slot(tail[p] + k - 1)]
        /\ n \in Nat \ {0} /\ n <= Size \div 2 /\ head[p] = tail[p] /\ InRing(p) = 0
    BY <2>1, <2>2, ClaimedIs
  <2>5. IsInjective(b)
    BY <2>1, <2>2 DEF ApartOf
  <2>6. QED
    BY <2>1, <2>2, <2>3, <2>4, <2>5
<1> HIDE DEF b, n
<1>2. /\ tail[p] \in Counter /\ tail[p] \in Int /\ Size \in Nat /\ W \in Nat \ {0}
      /\ Size = 2 * (Size \div 2) /\ Size \div 2 \in Nat /\ W >= 2 * Size
  <2>1. tail[p] \in Counter /\ tail[p] \in Nat
    BY <1>1, Types
  <2>2. QED
    BY <2>1, Params
<1>3. /\ m \in Nat /\ m \in 0..(W - 1) /\ m < Size /\ m <= Size /\ m \in 0..Len(b)
      /\ n = m + 1 /\ tail[p] + n - 1 = tail[p] + m
  BY <1>1, <1>2
<1> HIDE DEF m
<1>4. /\ runq' = [runq EXCEPT ![p] = Without(p, t, 1)] /\ tail' = [tail EXCEPT ![p] = t]
      /\ Run(p, runq[p][Slot(t)]) /\ EndGrab(p)
      /\ UNCHANGED <<head, runnext, global, lock, made, gp, batch>>
  BY <1>3 DEF Commit, n
<1>5. Slot(t) = Slot(tail[p] + m) /\ Slot(t) \in Slots /\ t \in Int
  <2>1. Slot(((tail[p] + m) % W) + 0) = Slot(tail[p] + m + 0)
    BY <1>2, <1>3, SlotIs
  <2>2. t \in Counter
    BY <1>2, <1>3, PlusIs
  <2>3. t \in Int
    <3> HIDE DEF t
    <3>1. QED
      BY <1>1, <2>2, Types
  <2>4. t + 0 = t /\ tail[p] + m + 0 = tail[p] + m
    <3> HIDE DEF t
    <3>1. QED
      BY <1>2, <1>3, <2>3
  <2>5. QED
    BY <2>1, <2>3, <2>4, SlotIs
<1>6. InRing(p)' = m
  <2>1. Dist(tail[p], tail[p]) = 0
    BY <1>2, DistIs
  <2>2. Dist(tail[p], tail[p]) + m < W
    BY <1>2, <1>3, <2>1
  <2>3. Dist(t, tail[p]) = Dist(tail[p], tail[p]) + m
    BY <1>2, <1>3, <2>2, TailSteps
  <2>4. tail'[p] = t /\ head'[p] = tail[p]
    BY <1>1, <1>4 DEF TypeOK
  <2>5. Dist(tail'[p], head'[p]) = m
    BY <1>3, <2>1, <2>3, <2>4
  <2>6. QED
    BY <2>5 DEF InRing
<1> HIDE DEF t
<1>7. g = runq[p][Slot(t)] /\ g \in Goroutines
  <2>1. n \in 1..n
    BY <1>1
  <2>2. QED
    BY <1>1, <1>3, <1>5, <2>1, ElementOfSeq
<1> HIDE DEF g
<1>8. /\ pc'[p] = "run" /\ curg'[p] = g /\ gp'[p] = None /\ batch'[p] = <<>>
      /\ head' = head /\ runnext' = runnext /\ global' = global /\ made' = made
      /\ \A q \in Procs \ {p} : Rests(q) /\ tail'[q] = tail[q] /\ runq'[q] = runq[q]
  <2>1. \A q \in Procs \ {p} : h'[q] = h[q] /\ grab'[q] = grab[q]
    BY <1>1, <1>4 DEF EndGrab, TypeOK
  <2>2. pc' = [pc EXCEPT ![p] = "run"] /\ curg' = [curg EXCEPT ![p] = g]
    BY <1>4, <1>7 DEF Run, Goto
  <2>3. QED
    BY <1>1, <1>4, <2>1, <2>2 DEF TypeOK, Rests
<1>9. /\ s \in Seq(Goroutines) /\ Len(s) = m /\ \A k \in 1..m : s[k] = b[k]
      /\ IsInjective(s) /\ ToSet(s) \subseteq ToSet(b)
      /\ SubSeq(b, m + 1, Len(b)) \in Seq(Goroutines) /\ Len(SubSeq(b, m + 1, Len(b))) = Len(b) - m
      /\ \A k \in 1..(Len(b) - m) : SubSeq(b, m + 1, Len(b))[k] = b[m + k]
      /\ ToSet(SubSeq(b, m + 1, Len(b))) = ToSet(b) \ ToSet(s)
  BY <1>1, <1>3, Cut
<1> HIDE DEF s
<1>10. ToSet(b) \ ToSet(s) = {g}
  <2> DEFINE r == SubSeq(b, m + 1, Len(b))
  <2>1. r \in Seq(Goroutines) /\ Len(r) = Len(b) - m /\ ToSet(r) = ToSet(b) \ ToSet(s)
        /\ \A k \in 1..(Len(b) - m) : r[k] = b[m + k]
    BY <1>9
  <2> HIDE DEF r
  <2>2. Len(r) = 1 /\ r[1] = g
    <3>1. Len(b) - m = 1 /\ m + 1 = n /\ 1 \in 1..(Len(b) - m)
      BY <1>1, <1>3
    <3>2. Len(r) = 1 /\ r[1] = b[m + 1]
      BY <2>1, <3>1
    <3>3. QED
      BY <3>1, <3>2 DEF g
  <2>3. \A x : x \in ToSet(r) <=> \E i \in 1..1 : x = r[i]
    BY <2>1, <2>2, ElementsAre
  <2>4. QED
    BY <2>1, <2>2, <2>3
<1>11. Queue(p)' = Queue(p) \o s
  <2>1. ASSUME NEW k \in 1..m
        PROVE  runq'[p][Slot(tail[p] + k - 1)] = s[k]
    <3>1. /\ k - 1 \in Slots /\ m \in Slots /\ k - 1 # m /\ k \in 1..n
          /\ tail[p] + (k - 1) = tail[p] + k - 1 /\ tail[p] + (k - 1) \in Int
      BY <1>2, <1>3 DEF Slots
    <3>2. Slot(tail[p] + (k - 1)) # Slot(t) /\ Slot(tail[p] + (k - 1)) \in Slots
      BY <1>2, <1>5, <3>1, SlotIs
    <3>3. \A j \in 0..(1 - 1) : t + j = t
      BY <1>5
    <3>4. Without(p, t, 1)[Slot(tail[p] + (k - 1))] = runq[p][Slot(tail[p] + (k - 1))]
      BY <3>2, <3>3 DEF Without
    <3>5. runq'[p] = Without(p, t, 1)
      BY <1>1, <1>4 DEF TypeOK
    <3>6. QED
      BY <1>1, <1>9, <3>1, <3>4, <3>5
  <2>2. /\ head'[p] = head[p] /\ InRing(p)' = InRing(p) + Len(s)
        /\ \A k \in 0..(InRing(p) - 1) :
             runq'[p][Slot(head[p] + k)] = runq[p][Slot(head[p] + k)]
    BY <1>1, <1>3, <1>6, <1>8, <1>9
  <2>3. \A k \in 1..Len(s) : runq'[p][Slot(head[p] + InRing(p) + k - 1)] = s[k]
    <3>1. head[p] + InRing(p) = tail[p]
      BY <1>1, <1>2
    <3>2. QED
      BY <1>9, <2>1, <3>1
  <2>4. QED
    BY <1>1, <1>9, <2>2, <2>3, QueueGrows
<1>12. ASSUME NEW q \in Procs \ {p}
       PROVE  Queue(q)' = Queue(q)
  BY <1>8 DEF Queue, Batch
<1>13. Hand(p) = ToSet(b) /\ Hand(p)' = {g}
  <2>1. Claimed(p) = ToSet(b)
    BY <1>1 DEF Claimed, b, n
  <2>2. ToSet(batch[p]) = {} /\ ToSet(batch'[p]) = {}
    BY <1>1, <1>8
  <2>3. g # None /\ Claimed(p)' = {}
    BY <1>1, <1>7, <1>8, HandIs
  <2>4. Hand(p) = ToSet(b)
    <3>1. curg[p] = None /\ gp[p] = None
      BY <1>1
    <3>2. QED
      BY <2>1, <2>2, <3>1, HandIs
  <2>5. Hand(p)' = {g}
    BY <1>8, <2>2, <2>3, HandIs
  <2>6. QED
    BY <2>4, <2>5
<1>14. ApartOf(p)'
  <2>1. g # None
    BY <1>1, <1>7
  <2>2. QED
    BY <1>1, <1>8, <2>1 DEF ApartOf
<1>15. HandsApart' /\ \A q \in Procs \ {p} : Hand(q)' = Hand(q)
  BY <1>8, <1>14, OthersKeep
<1>16. /\ Hand(p)' = Hand(p) \ ToSet(s) /\ ToSet(s) \subseteq Hand(p)
       /\ InRing(p) + Len(s) <= Size
  BY <1>1, <1>3, <1>9, <1>10, <1>13
<1>17. Mapped /\ Settled'
  <2>1. CASE s # <<>>
    BY <1>1, <1>8, <1>9, <1>11, <1>12, <1>15, <1>16, <2>1, PutMaps
  <2>2. CASE s = <<>>
    <3>1. Hand(p)' = Hand(p)
      BY <1>1, <1>16, <2>2
    <3>2. Queue(p)' = Queue(p)
      <4>1. Queue(p) \in Seq(Goroutines)
        BY <1>1, QueueIs
      <4>2. QED
        BY <1>11, <2>2, <4>1, ConcatEmptySeq
    <3>3. QED
      BY <1>1, <1>8, <1>12, <1>15, <3>1, <3>2, StaysMaps
  <2>3. QED
    BY <2>1, <2>2
<1>18. QED
  BY <1>15, <1>17

\* Each step of rings, counters and batches is a step of queues or none.
LEMMA NextMaps ==
  ASSUME IInv, [Next]_vars
  PROVE  Mapped /\ IInv'
<1>1. RingInv' /\ RingInv /\ Settled
  BY NextRing, InvParts
<1>2. Mapped /\ Settled' /\ HandsApart'
  <2>1. CASE UNCHANGED vars
    <3>1. /\ head' = head /\ tail' = tail /\ runq' = runq /\ runnext' = runnext
          /\ global' = global /\ lock' = lock /\ made' = made /\ pc' = pc /\ curg' = curg
          /\ gp' = gp /\ batch' = batch /\ h' = h /\ grab' = grab
      BY <2>1 DEF vars
    <3>2. \A p \in Procs : Hand(p)' = Hand(p)
      BY <3>1 DEF Hand, Claimed, Batch
    <3>3. HandsApart'
      BY <3>1 DEF IInv, HandsApart, Batch
    <3>4. QED
      BY <1>1, <3>1, <3>2, <3>3, QueuesStay, StaysMaps
  <2>2. CASE Next
    <3>1. PICK p \in Procs : Ready(p) \/ Block(p) \/ Yield(p) \/ Put(p) \/ Get(p) \/ Grab(p)
      BY <2>2 DEF Next
    <3>2. CASE Ready(p) \/ Block(p) \/ Yield(p)
      BY <3>2, ReadyRefines, BlockRefines, YieldRefines
    <3>3. CASE Put(p)
      BY <3>3, PutNextRefines, PutLookRefines, PutWriteRefines, PutPublishRefines,
         PutSlowRefines, SpillRefines DEF Put
    <3>4. CASE Get(p)
      BY <3>4, GetGlobalRefines, GetNextRefines, GetLookRefines, GetTakeRefines,
         TakeGlobalRefines DEF Get
    <3>5. CASE Grab(p)
      BY <3>5, StealRefines, GrabHeadRefines, GrabTailRefines, GrabCopyRefines,
         GrabClaimRefines, CommitRefines, StealNextLookRefines, StealNextRefines DEF Grab
    <3>6. QED
      BY <3>1, <3>2, <3>3, <3>4, <3>5
  <2>3. QED
    BY <2>1, <2>2
<1>3. IInv'
  BY <1>1, <1>2 DEF IInv, Settled
<1>4. QED
  BY <1>2, <1>3

\* At the beginning one goroutine is in the hands of one P.
LEMMA InitPlaces ==
  ASSUME Init
  PROVE  /\ \A p \in Procs : Queue(p) = <<>> /\ Hand(p) = IF p = Busy THEN {1} ELSE {}
         /\ Placed = {1} /\ 1 \in Goroutines
<1>1. /\ 1 \in Goroutines /\ None \notin Goroutines /\ Busy \in Procs
      /\ Start \in Counter /\ ToSet(<<>>) = {}
  BY Short, RunQueueAssumption DEF Goroutines, Counter
<1>2. ASSUME NEW p \in Procs
      PROVE  Queue(p) = <<>> /\ Hand(p) = IF p = Busy THEN {1} ELSE {}
  <2>1. Dist(Start, Start) = 0
    BY <1>1, DistIs
  <2>2. head[p] = Start /\ tail[p] = Start
    BY DEF Init
  <2>3. Queue(p) = [k \in 1..0 |-> runq[p][Slot(Start + k - 1)]]
    BY <2>1, <2>2 DEF Queue, Batch
  <2>4. Queue(p) = <<>>
    BY <2>3
  <2>5. /\ curg[p] = IF p = Busy THEN 1 ELSE None
        /\ gp[p] = None /\ batch[p] = <<>> /\ pc[p] # "commit"
    BY DEF Init
  <2>6. ToSet(batch[p]) = {} /\ Claimed(p) = {} /\ 1 # None
    BY <1>1, <2>5, HandIs
  <2>7. Hand(p) = IF p = Busy THEN {1} ELSE {}
    BY <2>5, <2>6, HandIs
  <2>8. QED
    BY <2>4, <2>7
<1>3. Placed = {1}
  <2>1. global = <<>> /\ \A p \in Procs : runnext[p] = None
    BY DEF Init
  <2>2. ToSet(global) = {} /\ \A p \in Procs : ToSet(Queue(p)) = {}
    BY <1>1, <1>2, <2>1
  <2>3. \A p \in Procs : {runnext[p]} \ {None} = {}
    BY <2>1
  <2>4. \A i : i \in Placed <=> i = 1
    <3>1. \A i : i \in Placed <=> \E p \in Procs : i \in Hand(p)
      BY <2>2, <2>3 DEF Placed
    <3>2. QED
      BY <1>1, <1>2, <3>1
  <2>5. QED
    BY <2>4
<1>4. QED
  BY <1>1, <1>2, <1>3

LEMMA InitInv ==
  ASSUME Init
  PROVE  IInv
<1>1. /\ \A p \in Procs : Queue(p) = <<>> /\ Hand(p) = IF p = Busy THEN {1} ELSE {}
      /\ Placed = {1} /\ IsInjective(<<>>) /\ ToSet(<<>>) = {} /\ None \notin Goroutines
  BY InitPlaces, Short, RunQueueAssumption
<1>2. /\ global = <<>> /\ made = 1 /\ None \notin Goroutines
      /\ \A p \in Procs : /\ runnext[p] = None /\ gp[p] = None /\ batch[p] = <<>>
                          /\ pc[p] \notin {"spill", "commit"}
  BY <1>1 DEF Init
<1>3. Alone
  <2>1. \A x \in Places : \A g : g \in At(x) => x = HandOf(Busy)
    <3>1. /\ At(Globally) = {}
          /\ \A p \in Procs : /\ At(QueueOf(p)) = {} /\ At(NextOf(p)) = {}
                              /\ p # Busy => At(HandOf(p)) = {}
      BY <1>1, <1>2, AtIs
    <3>2. QED
      BY <3>1, PlaceIs
  <2>2. QED
    BY <2>1 DEF Alone
<1>4. Lined /\ Numbered
  BY <1>1, <1>2 DEF Lined, Numbered
<1>5. HandsApart
  <2>1. ASSUME NEW p \in Procs
        PROVE  ApartOf(p)
    BY <1>1, <1>2 DEF ApartOf
  <2>2. QED
    BY <2>1 DEF HandsApart, ApartOf
<1>6. QED
  BY <1>3, <1>4, <1>5, InitRing DEF IInv

LEMMA InitMaps ==
  ASSUME Init
  PROVE  Queues!Init
<1> DEFINE running == {1}
           holder == [g \in running |-> Busy]
<1>1. /\ \A p \in Procs : Queue(p) = <<>> /\ Hand(p) = IF p = Busy THEN {1} ELSE {}
      /\ Placed = {1} /\ running \in SUBSET Goroutines
      /\ Busy \in Procs /\ holder \in [running -> Procs]
  BY InitPlaces, RunQueueAssumption
<1>2. queues = [p \in Procs |-> <<>>]
  BY <1>1 DEF queues
<1>3. idle = Goroutines \ running
  BY <1>1 DEF idle
<1>4. hands = [p \in Procs |-> {g \in running : holder[g] = p}]
  <2>1. \A p \in Procs : Hand(p) = {g \in running : holder[g] = p}
    BY <1>1
  <2>2. QED
    BY <2>1 DEF hands
<1>5. runnext = [p \in Procs |-> None] /\ global = <<>>
  BY DEF Init
<1> HIDE DEF running, holder
<1>6. \E f \in [running -> Procs] : hands = [p \in Procs |-> {g \in running : f[g] = p}]
  BY <1>1, <1>4
<1>7. QED
  BY <1>1, <1>2, <1>3, <1>5, <1>6 DEF Queues!Init

\* For every set of Ps and every size of the rings, whoever steals from whom:
\* counters, rings, copies and hands agree between any two accesses of runqput,
\* runqget, runqgrab and globrunqget, and no goroutine is in two places.
THEOREM Invariant == Spec => []IInv
<1>1. Init => IInv
  BY InitInv
<1>2. IInv /\ [Next]_vars => IInv'
  BY NextMaps
<1>3. QED
  BY <1>1, <1>2, PTL DEF Spec

\* No ring overflows, a P that parks has an empty ring, and a P that keeps
\* sched.lock while it puts goroutines never needs it a second time.
THEOREM NothingThrows == Spec => []NoThrow
<1>1. IInv => NoThrow
  BY DEF IInv, RingInv
<1>2. QED
  BY <1>1, Invariant, PTL

\* The rings, emptied by compare-and-swap while their owners fill them, are the
\* bounded queues of RunQueues: a goroutine put once is taken once, and what was
\* put in two steps is taken in their order.
THEOREM Refinement == Spec => ImplementsRunQueues
<1>1. Init => Queues!Init
  BY InitMaps
<1>2. IInv /\ [Next]_vars => [Queues!Next]_(Queues!vars)
  BY NextMaps DEF Mapped
<1>3. QED
  BY <1>1, <1>2, Invariant, PTL DEF Spec, ImplementsRunQueues, Queues!Spec
=============================================================================
