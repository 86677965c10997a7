---------------------------- MODULE CommonTheorems ----------------------------
(* Facts that the proofs of several components rest on: how one goroutine's   *)
(* step changes a count of goroutines, and what is left of a queue without    *)
(* repetitions.                                                               *)
EXTENDS Counting, SequencesExt, FiniteSetTheorems, SequenceTheorems, TLAPS

\* A count is a natural number, and it is zero when nobody is there.
THEOREM CountType ==
  ASSUME NEW P, NEW G, IsFiniteSet(G), NEW X, NEW pc \in [G -> X]
  PROVE  /\ IsFiniteSet(At(pc, P))
         /\ Count(pc, P) \in Nat
         /\ Count(pc, P) = 0 <=> \A g \in G : pc[g] \notin P
<1>1. At(pc, P) \in SUBSET G
  BY DEF At
<1>2. IsFiniteSet(At(pc, P))
  BY <1>1, FS_Subset
<1>3. Count(pc, P) \in Nat
  BY <1>2, FS_CardinalityType DEF Count
<1>4. Count(pc, P) = 0 <=> At(pc, P) = {}
  BY <1>2, FS_EmptySet DEF Count
<1>5. At(pc, P) = {} <=> \A g \in G : pc[g] \notin P
  BY DEF At
<1>6. QED
  BY <1>2, <1>3, <1>4, <1>5

\* One goroutine moves to v: the count of the points P changes by its arrival
\* and its departure.
THEOREM CountMove ==
  ASSUME NEW P, NEW G, IsFiniteSet(G), NEW X, NEW pc \in [G -> X],
         NEW g \in G, NEW v
  PROVE  Count([pc EXCEPT ![g] = v], P) =
           Count(pc, P) + Weight(v, P) - Weight(pc[g], P)
<1> DEFINE moved == [pc EXCEPT ![g] = v]
<1>1. IsFiniteSet(At(pc, P)) /\ Count(pc, P) \in Nat
  BY CountType
<1>2. g \in At(pc, P) <=> pc[g] \in P
  BY DEF At
<1>3. CASE v \in P
  <2>1. At(moved, P) = At(pc, P) \cup {g}
    BY <1>3 DEF At
  <2>2. Count(moved, P) =
          IF g \in At(pc, P) THEN Count(pc, P) ELSE Count(pc, P) + 1
    BY <1>1, <2>1, FS_AddElement, Zenon DEF Count
  <2>3. QED
    <3> HIDE DEF moved
    <3>1. Count(moved, P) =
            Count(pc, P) + 1 - Weight(pc[g], P)
      BY <1>1, <1>2, <2>2 DEF Weight
    <3>2. QED
      BY <3>1, <1>3 DEF moved, Weight
<1>4. CASE v \notin P
  <2>1. At(moved, P) = At(pc, P) \ {g}
    BY <1>4 DEF At
  <2>2. Count(moved, P) =
          IF g \in At(pc, P) THEN Count(pc, P) - 1 ELSE Count(pc, P)
    BY <1>1, <2>1, FS_RemoveElement, Zenon DEF Count
  <2>3. QED
    <3> HIDE DEF moved
    <3>1. Count(moved, P) =
            Count(pc, P) - Weight(pc[g], P)
      BY <1>1, <1>2, <2>2 DEF Weight
    <3>2. QED
      <4>1. Count(moved, P) =
              Count(pc, P) + 0 - Weight(pc[g], P)
        BY <3>1, <1>1 DEF Weight
      <4>2. QED
        BY <4>1, <1>4 DEF moved, Weight
<1>5. QED
  BY <1>3, <1>4

\* A goroutine that is at one of the points makes their count positive.
THEOREM CountPositive ==
  ASSUME NEW P, NEW G, IsFiniteSet(G), NEW X, NEW pc \in [G -> X],
         NEW g \in G, pc[g] \in P
  PROVE  Count(pc, P) \in Nat /\ Count(pc, P) > 0
<1>1. Count(pc, P) \in Nat /\ Count(pc, P) # 0
  BY CountType
<1>2. QED
  BY <1>1

\* When one goroutine is counted, it is the only one.
THEOREM CountOne ==
  ASSUME NEW P, NEW G, IsFiniteSet(G), NEW X, NEW pc \in [G -> X],
         Count(pc, P) <= 1,
         NEW g \in G, NEW h \in G, pc[g] \in P, pc[h] \in P
  PROVE  g = h
<1>1. IsFiniteSet(At(pc, P)) /\ Count(pc, P) \in Nat /\ Count(pc, P) > 0
  BY CountType, CountPositive
<1>2. Cardinality(At(pc, P)) = 1
  BY <1>1 DEF Count
<1>3. PICK x : At(pc, P) = {x}
  BY <1>1, <1>2, FS_Singleton
<1>4. QED
  BY <1>3 DEF At

\* There are no more goroutines at some of the points than at all of them.
THEOREM CountMonotone ==
  ASSUME NEW P, NEW Q, P \subseteq Q,
         NEW G, IsFiniteSet(G), NEW X, NEW pc \in [G -> X]
  PROVE  Count(pc, P) <= Count(pc, Q)
<1>1. IsFiniteSet(At(pc, Q))
  BY CountType
<1>2. At(pc, P) \subseteq At(pc, Q)
  BY DEF At
<1>3. QED
  BY <1>1, <1>2, FS_Subset DEF Count

\* Goroutines at the points of two disjoint sets are counted separately.
THEOREM CountUnion ==
  ASSUME NEW P, NEW Q, P \cap Q = {}, NEW pc, IsFiniteSet(DOMAIN pc)
  PROVE  Count(pc, P \cup Q) = Count(pc, P) + Count(pc, Q)
<1> DEFINE S == At(pc, P)
           T == At(pc, Q)
<1>1. IsFiniteSet(S) /\ IsFiniteSet(T)
  <2>1. S \in SUBSET DOMAIN pc /\ T \in SUBSET DOMAIN pc
    BY DEF At
  <2>2. QED
    BY <2>1, FS_Subset
<1>2. At(pc, P \cup Q) = S \cup T /\ S \cap T = {}
  BY DEF At
<1>3. /\ Count(pc, P \cup Q) = Cardinality(S \cup T)
      /\ Count(pc, P) = Cardinality(S) /\ Count(pc, Q) = Cardinality(T)
  BY <1>2, Zenon DEF Count
<1> HIDE DEF S, T
<1>4. Cardinality(S) \in Nat /\ Cardinality(T) \in Nat
  BY <1>1, FS_CardinalityType
<1>5. Cardinality(S \cap T) = 0
  BY <1>2, FS_EmptySet, Zenon
<1>6. Cardinality(S \cup T) =
        Cardinality(S) + Cardinality(T) - Cardinality(S \cap T)
  BY <1>1, FS_Union, Zenon
<1>7. QED
  BY <1>3, <1>4, <1>5, <1>6

\* The same for two points.
THEOREM CountPair ==
  ASSUME NEW p, NEW q, p # q, NEW pc, IsFiniteSet(DOMAIN pc)
  PROVE  Count(pc, {p, q}) = Count(pc, {p}) + Count(pc, {q})
<1> DEFINE P == {p}
           Q == {q}
<1>1. P \cap Q = {}
  OBVIOUS
<1>2. P \cup Q = {p, q}
  OBVIOUS
<1>3. Count(pc, P \cup Q) = Count(pc, P) + Count(pc, Q)
  <2> HIDE DEF P, Q
  <2>1. QED
    BY <1>1, CountUnion, Zenon
<1>4. QED
  BY <1>2, <1>3, Zenon

\* There are no more of them than there are goroutines.
THEOREM CountBounded ==
  ASSUME NEW P, NEW G, IsFiniteSet(G), NEW X, NEW pc \in [G -> X]
  PROVE  Count(pc, P) <= Cardinality(G)
<1>1. At(pc, P) \in SUBSET G
  BY DEF At
<1>2. QED
  BY <1>1, FS_Subset DEF Count

\* A queue without repetitions, less one of its elements.
THEOREM QueueLess ==
  ASSUME NEW S, NEW q \in Seq(S), NEW i \in 1..Len(q),
         \A j, k \in DOMAIN q : q[j] = q[k] => j = k
  PROVE  /\ RemoveAt(q, i) \in Seq(S)
         /\ Range(RemoveAt(q, i)) = Range(q) \ {q[i]}
         /\ \A j, k \in DOMAIN RemoveAt(q, i) :
              RemoveAt(q, i)[j] = RemoveAt(q, i)[k] => j = k
<1> DEFINE s == SubSeq(q, 1, i - 1)
           t == SubSeq(q, i + 1, Len(q))
           r == RemoveAt(q, i)
<1>1. /\ Len(q) \in Nat /\ DOMAIN q = 1..Len(q)
      /\ \A j \in 1..Len(q) : q[j] \in S
  BY LenProperties, ElementOfSeq
<1>2. /\ s \in Seq(S) /\ Len(s) = i - 1
      /\ \A j \in 1..(i - 1) : s[j] = q[j]
  <2>1. \A j \in 1..(i - 1) : q[j] \in S
    BY <1>1
  <2>2. QED
    BY <1>1, <2>1, SubSeqProperties, SMT
<1>3. /\ t \in Seq(S) /\ Len(t) = Len(q) - i
      /\ \A j \in 1..(Len(q) - i) : t[j] = q[i + j]
  <2>1. \A j \in (i + 1)..Len(q) : q[j] \in S
    BY <1>1
  <2>2. /\ t \in Seq(S)
        /\ Len(t) = IF i + 1 <= Len(q) THEN Len(q) - (i + 1) + 1 ELSE 0
    BY <1>1, <2>1, SubSeqProperties, SMT
  <2>3. \A j \in 1..(Len(q) - (i + 1) + 1) : t[j] = q[(i + 1) + j - 1]
    BY <1>1, <2>1, SubSeqProperties, SMT
  <2> HIDE DEF t
  <2>4. i \in Int /\ 1 <= i /\ i <= Len(q) /\ Len(q) \in Int
    BY <1>1
  <2>5. Len(t) = Len(q) - i
    BY <2>2, <2>4
  <2>6. ASSUME NEW j \in 1..(Len(q) - i)
        PROVE  t[j] = q[i + j]
    <3>1. j \in 1..(Len(q) - (i + 1) + 1) /\ (i + 1) + j - 1 = i + j
      BY <2>4
    <3>2. QED
      BY <2>3, <3>1
  <2>7. QED
    BY <2>2, <2>5, <2>6
<1>4. /\ r \in Seq(S) /\ Len(r) = Len(q) - 1
      /\ \A j \in 1..(Len(q) - 1) :
           r[j] = IF j < i THEN q[j] ELSE q[j + 1]
  <2>1. /\ r \in Seq(S) /\ Len(r) = Len(s) + Len(t)
        /\ \A j \in 1..(Len(s) + Len(t)) :
             r[j] = IF j <= Len(s) THEN s[j] ELSE t[j - Len(s)]
    <3>1. r = s \o t
      BY DEF RemoveAt
    <3>2. s \in Seq(S) /\ t \in Seq(S)
      BY <1>2, <1>3
    <3> HIDE DEF r, s, t
    <3>3. QED
      BY <3>1, <3>2, ConcatProperties
  <2> HIDE DEF r, s, t
  <2>2. i \in Int /\ 1 <= i /\ i <= Len(q) /\ Len(q) \in Int
    BY <1>1
  <2>3. Len(r) = Len(q) - 1 /\ Len(s) + Len(t) = Len(q) - 1
    BY <1>2, <1>3, <2>1, <2>2
  <2>4. ASSUME NEW j \in 1..(Len(q) - 1)
        PROVE  r[j] = IF j < i THEN q[j] ELSE q[j + 1]
    <3>1. r[j] = IF j <= i - 1 THEN s[j] ELSE t[j - (i - 1)]
      BY <1>2, <2>1, <2>3
    <3>2. CASE j < i
      BY <1>2, <2>2, <3>1, <3>2
    <3>3. CASE ~(j < i)
      <4>1. j - (i - 1) \in 1..(Len(q) - i) /\ i + (j - (i - 1)) = j + 1
        BY <2>2, <3>3
      <4>2. t[j - (i - 1)] = q[j + 1]
        BY <1>3, <4>1
      <4>3. QED
        BY <2>2, <3>1, <3>3, <4>2
    <3>4. QED
      BY <3>2, <3>3
  <2>5. QED
    BY <2>1, <2>3, <2>4
<1>5. DOMAIN r = 1..(Len(q) - 1)
  BY <1>4, LenProperties
<1> HIDE DEF r, s, t
<1>6. ASSUME NEW j \in DOMAIN r, NEW k \in DOMAIN r, r[j] = r[k]
      PROVE  j = k
  <2>1. PICK m \in DOMAIN q : r[j] = q[m] /\ m = IF j < i THEN j ELSE j + 1
    BY <1>1, <1>4, <1>5
  <2>2. PICK n \in DOMAIN q : r[k] = q[n] /\ n = IF k < i THEN k ELSE k + 1
    BY <1>1, <1>4, <1>5
  <2>3. m = n
    BY <1>6, <2>1, <2>2
  <2>4. j \in Int /\ k \in Int /\ i \in Int
    BY <1>1, <1>5
  <2>5. QED
    BY <2>1, <2>2, <2>3, <2>4
<1>7. Range(r) = Range(q) \ {q[i]}
  <2>1. ASSUME NEW j \in DOMAIN r
        PROVE  r[j] \in Range(q) \ {q[i]}
    <3>1. PICK m \in DOMAIN q : r[j] = q[m] /\ m = IF j < i THEN j ELSE j + 1
      BY <1>1, <1>4, <1>5
    <3>2. j \in Int /\ i \in DOMAIN q /\ i \in Int
      BY <1>1, <1>5
    <3>3. m # i
      BY <3>1, <3>2
    <3>4. q[m] # q[i]
      BY <3>2, <3>3
    <3>5. QED
      BY <3>1, <3>4 DEF Range
  <2>2. ASSUME NEW j \in DOMAIN q, q[j] # q[i]
        PROVE  q[j] \in Range(r)
    <3>1. CASE j < i
      <4>1. j \in DOMAIN r /\ r[j] = q[j]
        BY <1>1, <1>4, <1>5, <3>1
      <4>2. QED
        BY <4>1 DEF Range
    <3>2. CASE j > i
      <4>1. j - 1 \in DOMAIN r /\ r[j - 1] = q[j]
        BY <1>1, <1>4, <1>5, <3>2
      <4>2. QED
        BY <4>1 DEF Range
    <3>3. QED
      BY <1>1, <2>2, <3>1, <3>2
  <2>3. QED
    BY <2>1, <2>2 DEF Range
<1>8. QED
  BY <1>4, <1>6, <1>7 DEF r

\* A queue without repetitions, with a new element at its end.
THEOREM QueueMore ==
  ASSUME NEW S, NEW q \in Seq(S), NEW e \in S, e \notin Range(q),
         \A j, k \in DOMAIN q : q[j] = q[k] => j = k
  PROVE  /\ Append(q, e) \in Seq(S)
         /\ Range(Append(q, e)) = Range(q) \cup {e}
         /\ \A j, k \in DOMAIN Append(q, e) :
              Append(q, e)[j] = Append(q, e)[k] => j = k
<1> DEFINE r == Append(q, e)
<1>1. Len(q) \in Nat /\ DOMAIN q = 1..Len(q)
  BY LenProperties
<1>2. /\ r \in Seq(S) /\ Len(r) = Len(q) + 1
      /\ \A j \in 1..Len(q) : r[j] = q[j]
      /\ r[Len(q) + 1] = e
  BY AppendProperties
<1>3. DOMAIN r = 1..(Len(q) + 1)
  BY <1>2, LenProperties
<1> HIDE DEF r
<1>4. \A j, k \in DOMAIN r : r[j] = r[k] => j = k
  BY <1>1, <1>2, <1>3 DEF Range
<1>5. Range(r) = Range(q) \cup {e}
  BY <1>1, <1>2, <1>3 DEF Range
<1>6. QED
  BY <1>2, <1>4, <1>5 DEF r
=============================================================================
