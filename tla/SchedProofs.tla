------------------------------ MODULE SchedProofs ------------------------------
(***************************************************************************)
(* The scheduler's Ms and Ps, for every finite number of threads,          *)
(* processors and goroutines: IInv is inductive; no check of the runtime   *)
(* fails, checkdead's among them; and a goroutine waits beside an idle P   *)
(* only after the two steps that WorkConserved names.                      *)
(***************************************************************************)
EXTENDS Sched, FiniteSetTheorems, TLAPS

(***************************************************************************)
(* Numbers                                                                 *)
(***************************************************************************)

\* The smaller of two numbers.
LEMMA MinOfTwo ==
  ASSUME NEW i \in Int, NEW j \in Int
  PROVE  Min({i, j}) = IF i <= j THEN i ELSE j
<1>1. \E x \in {i, j} : \A y \in {i, j} : x <= y
  OBVIOUS
<1>2. Min({i, j}) \in {i, j} /\ \A y \in {i, j} : Min({i, j}) <= y
  BY <1>1 DEF Min
<1>3. QED
  BY <1>2

\* globrunqget takes at least one goroutine, and no more than there are.
LEMMA ShareBounds ==
  ASSUME NEW max \in {0, 1}, global \in Nat, global > 0, Ps # {}
  PROVE  Share(max) \in 1..global
<1>1. Cardinality(Ps) \in Nat /\ Cardinality(Ps) > 0
  BY SchedAssumption, FS_CardinalityType, FS_EmptySet
<1>2. CASE max = 1
  BY <1>2, MinOfTwo DEF Share
<1>3. CASE max = 0
  <2>1. global \div Cardinality(Ps) \in Nat
    BY <1>1
  <2>2. Min({global \div Cardinality(Ps) + 1, global}) \in 1..global
    BY <2>1, MinOfTwo
  <2>3. QED
    BY <1>3, <2>2 DEF Share
<1>4. QED
  BY <1>2, <1>3

\* There are finitely many threads, and sysmon is none of the Ms.
LEMMA Finite ==
  /\ IsFiniteSet(Actors) /\ Ms \subseteq Actors /\ Sysmon \in Actors \ Ms
  /\ \A a \in Actors : a \in Ms \/ a = Sysmon
BY SchedAssumption, FS_AddElement, Zenon DEF Actors

\* The places of one queue, apart from those of the others.
LEMMA PlacesSplit ==
  ASSUME NEW len \in [Ps -> 0..NG], NEW p \in Ps
  PROVE  LET own  == {s \in Places(len) : s[1] = p}
             rest == {s \in Places(len) : s[1] # p}
         IN /\ IsFiniteSet(own) /\ Cardinality(own) = len[p]
            /\ IsFiniteSet(rest) /\ Cardinality(rest) \in Nat
            /\ IsFiniteSet(Places(len))
            /\ Cardinality(Places(len)) = len[p] + Cardinality(rest)
<1> DEFINE own  == {s \in Places(len) : s[1] = p}
           rest == {s \in Places(len) : s[1] # p}
<1>1. len[p] \in 0..NG /\ NG \in Nat
  BY SchedAssumption
<1>2. IsFiniteSet(Places(len))
  <2>1. IsFiniteSet(1..NG)
    BY <1>1, FS_Interval
  <2>2. IsFiniteSet(Ps \X (1..NG))
    BY <2>1, SchedAssumption, FS_Product
  <2>3. Places(len) \in SUBSET (Ps \X (1..NG))
    BY DEF Places
  <2>4. QED
    BY <2>2, <2>3, FS_Subset
<1>3. own \in SUBSET Places(len) /\ rest \in SUBSET Places(len)
  OBVIOUS
<1>4. IsFiniteSet(own) /\ IsFiniteSet(rest)
  BY <1>2, <1>3, FS_Subset
<1>5. Cardinality(own) = len[p]
  <2>1. own = {p} \X (1..len[p])
    <3>1. \A i \in 1..NG : i <= len[p] <=> i \in 1..len[p]
      BY <1>1
    <3>2. 1..len[p] \subseteq 1..NG
      BY <1>1
    <3>3. own \subseteq {p} \X (1..len[p])
      BY <3>1 DEF Places
    <3>4. ASSUME NEW i \in 1..len[p]
          PROVE  <<p, i>> \in own
      BY <3>1, <3>2 DEF Places
    <3>5. QED
      BY <3>3, <3>4
  <2>2. IsFiniteSet({p}) /\ Cardinality({p}) = 1
    <3>1. {p} = {} \cup {p} /\ p \notin {}
      OBVIOUS
    <3>2. /\ IsFiniteSet({} \cup {p})
          /\ Cardinality({} \cup {p}) = IF p \in {} THEN Cardinality({}) ELSE Cardinality({}) + 1
      BY FS_EmptySet, FS_AddElement, Zenon
    <3>3. QED
      BY <3>1, <3>2, FS_EmptySet
  <2>3. IsFiniteSet(1..len[p]) /\ Cardinality(1..len[p]) = len[p]
    BY <1>1, FS_Interval
  <2>4. Cardinality({p} \X (1..len[p])) = Cardinality({p}) * Cardinality(1..len[p])
    BY <2>2, <2>3, FS_Product, Zenon
  <2>5. Cardinality(own) = 1 * len[p]
    BY <2>1, <2>2, <2>3, <2>4, Zenon
  <2> HIDE DEF own
  <2>6. QED
    BY <1>1, <2>5
<1>6. Cardinality(rest) \in Nat
  BY <1>4, FS_CardinalityType
<1>7. Cardinality(Places(len)) = Cardinality(own) + Cardinality(rest)
  <2>1. own \cap rest = {} /\ Places(len) = own \cup rest
    OBVIOUS
  <2>2. Cardinality(own \cap rest) = 0
    BY <2>1, FS_EmptySet
  <2>3. Cardinality(own \cup rest) = Cardinality(own) + Cardinality(rest) - Cardinality(own \cap rest)
    BY <1>4, FS_Union
  <2> HIDE DEF own, rest
  <2>4. QED
    BY <1>1, <1>5, <1>6, <2>1, <2>2, <2>3
<1>8. QED
  BY <1>2, <1>4, <1>5, <1>6, <1>7

\* The number of places when the length of one queue becomes v.
LEMMA PlacesMove ==
  ASSUME NEW len \in [Ps -> 0..NG], NEW p \in Ps, NEW v \in 0..NG
  PROVE  /\ Cardinality(Places(len)) \in Nat /\ len[p] <= Cardinality(Places(len))
         /\ Cardinality(Places([len EXCEPT ![p] = v])) = Cardinality(Places(len)) + v - len[p]
<1> DEFINE new  == [len EXCEPT ![p] = v]
           rest == {s \in Places(len) : s[1] # p}
           after == {s \in Places(new) : s[1] # p}
<1>1. new \in [Ps -> 0..NG] /\ new[p] = v
  OBVIOUS
<1>2. rest = after
  BY DEF Places
<1>3. /\ Cardinality(rest) \in Nat
      /\ Cardinality(Places(len)) = len[p] + Cardinality(rest)
  BY PlacesSplit
<1> HIDE DEF new
<1>4. Cardinality(Places(new)) = new[p] + Cardinality(after)
  BY <1>1, PlacesSplit
<1>5. len[p] \in Nat /\ v \in Nat
  BY SchedAssumption
<1> HIDE DEF rest, after
<1>6. Cardinality(Places(new)) = Cardinality(Places(len)) + v - len[p]
  BY <1>1, <1>2, <1>3, <1>4, <1>5
<1>7. QED
  BY <1>3, <1>5, <1>6 DEF new

\* Two queues together are no longer than all of them.
LEMMA PlacesOfTwo ==
  ASSUME NEW len \in [Ps -> 0..NG], NEW p \in Ps, NEW r \in Ps, p # r
  PROVE  len[p] + len[r] <= Cardinality(Places(len))
<1> DEFINE cut == [len EXCEPT ![p] = 0]
<1>1. 0 \in 0..NG /\ len[p] \in Nat /\ len[r] \in Nat
  BY SchedAssumption
<1>2. /\ Cardinality(Places(len)) \in Nat
      /\ Cardinality(Places(cut)) = Cardinality(Places(len)) + 0 - len[p]
  BY <1>1, PlacesMove
<1>3. cut \in [Ps -> 0..NG] /\ cut[r] = len[r]
  BY <1>1
<1> HIDE DEF cut
<1>4. cut[r] <= Cardinality(Places(cut))
  BY <1>1, <1>3, PlacesMove
<1>5. QED
  BY <1>1, <1>2, <1>3, <1>4

(***************************************************************************)
(* Who is counted                                                          *)
(***************************************************************************)

\* One more or one less of a finite set, when x alone may have changed sides.
LEMMA SetMove ==
  ASSUME NEW S, NEW T, NEW x, IsFiniteSet(S), \A y : y # x => (y \in T <=> y \in S)
  PROVE  /\ IsFiniteSet(T) /\ Cardinality(S) \in Nat /\ Cardinality(T) \in Nat
         /\ x \in S /\ x \in T => Cardinality(T) = Cardinality(S)
         /\ x \notin S /\ x \notin T => Cardinality(T) = Cardinality(S)
         /\ x \notin S /\ x \in T => Cardinality(T) = Cardinality(S) + 1
         /\ x \in S /\ x \notin T => Cardinality(T) = Cardinality(S) - 1
<1>1. Cardinality(S) \in Nat
  BY FS_CardinalityType
<1>2. CASE x \in T
  <2>1. T = S \cup {x}
    BY <1>2
  <2>2. /\ IsFiniteSet(T)
        /\ Cardinality(T) = IF x \in S THEN Cardinality(S) ELSE Cardinality(S) + 1
    BY <2>1, FS_AddElement
  <2>3. Cardinality(T) \in Nat
    BY <2>2, FS_CardinalityType
  <2>4. QED
    BY <1>1, <1>2, <2>2, <2>3
<1>3. CASE x \notin T
  <2>1. T = S \ {x}
    BY <1>3
  <2>2. /\ IsFiniteSet(T)
        /\ Cardinality(T) = IF x \in S THEN Cardinality(S) - 1 ELSE Cardinality(S)
    BY <2>1, FS_RemoveElement
  <2>3. Cardinality(T) \in Nat
    BY <2>2, FS_CardinalityType
  <2>4. QED
    BY <1>1, <1>3, <2>2, <2>3
<1>4. QED
  BY <1>2, <1>3

\* What a thread at point x adds to the goroutines in hand.
InHand(x) == IF x \in Carry THEN 1 ELSE 0

\* The number of goroutines in hand when m alone takes one or lets one go.
LEMMA CarryingMove ==
  ASSUME NEW m \in Ms, \A n \in Ms : n # m => (pc'[n] \in Carry <=> pc[n] \in Carry)
  PROVE  /\ Cardinality(Carrying) \in Nat /\ Cardinality(Carrying') \in Nat
         /\ Cardinality(Carrying') = Cardinality(Carrying) + InHand(pc'[m]) - InHand(pc[m])
         /\ pc[m] \in Carry => Cardinality(Carrying) > 0
<1>1. IsFiniteSet(Carrying)
  <2>1. Carrying \in SUBSET Ms
    BY DEF Carrying
  <2>2. QED
    BY <2>1, SchedAssumption, FS_Subset
<1>2. \A n : n # m => (n \in Carrying' <=> n \in Carrying)
  BY DEF Carrying
<1>3. /\ m \in Carrying <=> pc[m] \in Carry
      /\ m \in Carrying' <=> pc'[m] \in Carry
  BY DEF Carrying
<1>4. /\ Cardinality(Carrying) \in Nat /\ Cardinality(Carrying') \in Nat
      /\ m \in Carrying /\ m \in Carrying' => Cardinality(Carrying') = Cardinality(Carrying)
      /\ m \notin Carrying /\ m \notin Carrying' => Cardinality(Carrying') = Cardinality(Carrying)
      /\ m \notin Carrying /\ m \in Carrying' => Cardinality(Carrying') = Cardinality(Carrying) + 1
      /\ m \in Carrying /\ m \notin Carrying' => Cardinality(Carrying') = Cardinality(Carrying) - 1
  BY <1>1, <1>2, SetMove
<1>5. m \in Carrying => Cardinality(Carrying) # 0
  BY <1>1, FS_EmptySet
<1>6. QED
  BY <1>3, <1>4, <1>5 DEF InHand

\* A step keeps the number of goroutines when what it moves between the queues,
\* those that wait and the hand of m adds up.
LEMMA GoroutinesKept ==
  ASSUME TypeOK, GoroutinesInv, NEW m \in Ms,
         \A n \in Ms : n # m => (pc'[n] \in Carry <=> pc[n] \in Carry),
         waiting' \in Nat, global' \in Nat, q' \in [Ps -> 0..NG],
         waiting' + global' + Cardinality(Places(q')) + InHand(pc'[m])
           = waiting + global + Cardinality(Places(q)) + InHand(pc[m]),
         NEW p \in Ps
  PROVE  GoroutinesInv'
<1>1. /\ Cardinality(Carrying) \in Nat /\ Cardinality(Carrying') \in Nat
      /\ Cardinality(Carrying') = Cardinality(Carrying) + InHand(pc'[m]) - InHand(pc[m])
  BY CarryingMove
<1>2. q \in [Ps -> 0..NG] /\ waiting \in Nat /\ global \in Nat
  BY DEF TypeOK
<1>3. Cardinality(Places(q)) \in Nat /\ Cardinality(Places(q')) \in Nat
  <2>1. IsFiniteSet(Places(q)) /\ IsFiniteSet(Places(q'))
    BY <1>2, PlacesSplit
  <2>2. QED
    BY <2>1, FS_CardinalityType
<1>4. InHand(pc[m]) \in Nat /\ InHand(pc'[m]) \in Nat
  BY DEF InHand
<1>5. waiting + global + Cardinality(Places(q)) + Cardinality(Carrying) = NG
  BY DEF GoroutinesInv
<1>6. waiting' + global' + Cardinality(Places(q')) + Cardinality(Carrying') = NG
  BY <1>1, <1>2, <1>3, <1>4, <1>5
<1>7. QED
  BY <1>6 DEF GoroutinesInv, Places

\* Nor does it change when the counts do not and no hand does.
LEMMA GoroutinesSame ==
  ASSUME GoroutinesInv, UNCHANGED <<waiting, global, q>>,
         \A n \in Ms : pc'[n] \in Carry <=> pc[n] \in Carry
  PROVE  GoroutinesInv'
<1>1. Carrying' = Carrying
  BY DEF Carrying
<1>2. QED
  BY <1>1 DEF GoroutinesInv, Places

\* The number of spinning threads when a alone begins to spin or stops, and when
\* one takes the place of another.
LEMMA SpinnersMove ==
  ASSUME NEW a \in Actors, \A b \in Actors : b # a => (Spins(b)' <=> Spins(b))
  PROVE  /\ Cardinality(Spinners) \in Nat /\ Cardinality(Spinners') \in Nat
         /\ (Spins(a) <=> Spins(a)') => Cardinality(Spinners') = Cardinality(Spinners)
         /\ ~Spins(a) /\ Spins(a)' => Cardinality(Spinners') = Cardinality(Spinners) + 1
         /\ Spins(a) /\ ~Spins(a)' => Cardinality(Spinners') = Cardinality(Spinners) - 1
         /\ Spins(a) => Cardinality(Spinners) > 0
<1>1. IsFiniteSet(Spinners)
  <2>1. Spinners \in SUBSET Actors
    BY DEF Spinners
  <2>2. QED
    BY <2>1, Finite, FS_Subset
<1>2. \A b : b # a => (b \in Spinners' <=> b \in Spinners)
  BY DEF Spinners
<1>3. (a \in Spinners <=> Spins(a)) /\ (a \in Spinners' <=> Spins(a)')
  BY DEF Spinners
<1>4. /\ Cardinality(Spinners) \in Nat /\ Cardinality(Spinners') \in Nat
      /\ a \in Spinners /\ a \in Spinners' => Cardinality(Spinners') = Cardinality(Spinners)
      /\ a \notin Spinners /\ a \notin Spinners' => Cardinality(Spinners') = Cardinality(Spinners)
      /\ a \notin Spinners /\ a \in Spinners' => Cardinality(Spinners') = Cardinality(Spinners) + 1
      /\ a \in Spinners /\ a \notin Spinners' => Cardinality(Spinners') = Cardinality(Spinners) - 1
  BY <1>1, <1>2, SetMove
<1>5. a \in Spinners => Cardinality(Spinners) # 0
  BY <1>1, FS_EmptySet
<1>6. QED
  BY <1>3, <1>4, <1>5

LEMMA SpinnersSwap ==
  ASSUME NEW a \in Actors, NEW t \in Actors, a # t, Spins(a), ~Spins(a)', ~Spins(t), Spins(t)',
         \A b \in Actors \ {a, t} : Spins(b)' <=> Spins(b)
  PROVE  Cardinality(Spinners') = Cardinality(Spinners)
<1> DEFINE rest == Spinners \ {a}
<1>1. IsFiniteSet(Spinners)
  <2>1. Spinners \in SUBSET Actors
    BY DEF Spinners
  <2>2. QED
    BY <2>1, Finite, FS_Subset
<1>2. a \in Spinners /\ t \notin Spinners /\ Spinners' = rest \cup {t}
  BY DEF Spinners
<1>3. IsFiniteSet(rest) /\ Cardinality(rest) = Cardinality(Spinners) - 1
  BY <1>1, <1>2, FS_RemoveElement
<1>4. t \notin rest
  BY <1>2
<1> HIDE DEF rest
<1>5. Cardinality(Spinners') = Cardinality(rest) + 1
  BY <1>2, <1>3, <1>4, FS_AddElement
<1>6. Cardinality(Spinners) \in Nat
  BY <1>1, FS_CardinalityType
<1>7. QED
  BY <1>3, <1>5, <1>6

(***************************************************************************)
(* Who has a P                                                             *)
(***************************************************************************)

\* The P that a thread has that gives one away, or starts with one.
LEMMA HeldAt ==
  ASSUME TypeOK, PointInv
  PROVE  /\ \A a \in Actors : Held(a) \in Ps \cup {None}
         /\ \A a \in Actors : pc[a] \in Handoff => Held(a) = hand[a] /\ hand[a] \in Ps
         /\ \A m \in Ms : pc[m] \in Starting => Held(m) = nextp[m] /\ nextp[m] \in Ps
         /\ \A a \in Actors : pc[a] \notin Handoff \cup Starting => Held(a) = None
<1>1. Starting \cap Handoff = {} /\ pc[Sysmon] \notin Starting
  BY DEF PointInv, Starting, Handoff
<1>2. /\ \A a \in Actors : hand[a] \in Ps \cup {None}
      /\ \A m \in Ms : nextp[m] \in Ps \cup {None}
  BY DEF TypeOK
<1>3. /\ \A a \in Actors : pc[a] \in Handoff => hand[a] # None
      /\ \A m \in Ms : pc[m] \in Starting => nextp[m] # None
  BY DEF PointInv, ThreadInv
<1>4. QED
  BY <1>1, <1>2, <1>3, Finite DEF Held

\* A P that an M has with it is nowhere else.
LEMMA Owner ==
  ASSUME TypeOK, PointInv, LinkInv, HeldInv, NEW m \in Ms, pc[m] \in Working
  PROVE  /\ mp[m] \in Ps /\ pm[mp[m]] = m
         /\ status[mp[m]] = IF pc[m] = "stopping" THEN "gcstop" ELSE "running"
         /\ mp[m] \notin pidle
         /\ \A a \in Actors : Held(a) # mp[m]
         /\ \A n \in Ms : n # m => pm[mp[m]] # n /\ (pc[n] \in Working => mp[n] # mp[m])
<1>1. mp[m] \in Ps
  BY DEF TypeOK, PointInv, ThreadInv
<1>2. pm[mp[m]] = m /\ status[mp[m]] = IF pc[m] = "stopping" THEN "gcstop" ELSE "running"
  BY DEF LinkInv
<1>3. status[mp[m]] # "idle"
  BY <1>2
<1>4. mp[m] \notin pidle /\ \A a \in Actors : Held(a) # mp[m]
  BY <1>1, <1>3 DEF HeldInv
<1>5. \A n \in Ms : n # m => pm[mp[m]] # n /\ (pc[n] \in Working => mp[n] # mp[m])
  BY <1>2 DEF LinkInv
<1>6. QED
  BY <1>1, <1>2, <1>4, <1>5

\* An idle P has no M.
LEMMA IdleFree ==
  ASSUME TypeOK, PointInv, LinkInv, NEW p \in Ps, status[p] \in {"idle", "syscall"}
  PROVE  /\ pm[p] = None
         /\ \A m \in Ms : pc[m] \in Working => mp[m] # p
<1>1. \A m \in Ms : pc[m] \in Working => mp[m] # p
  BY DEF LinkInv
<1>2. pm[p] \in Ms \cup {None}
  BY DEF TypeOK
<1>3. QED
  BY <1>1, <1>2 DEF LinkInv

(***************************************************************************)
(* Steps that move no P                                                    *)
(***************************************************************************)

\* Points of one kind: a thread that goes from one to the other keeps what it has.
Alike(x, y) ==
  /\ x \in Working <=> y \in Working
  /\ x \in Handoff <=> y \in Handoff
  /\ x \in Starting <=> y \in Starting
  /\ x \in Calling <=> y \in Calling
  /\ {x, y} \cap {"idle", "retake", "inc", "stopping", "entered"} = {}

LEMMA ShiftLink ==
  ASSUME TypeOK, LinkInv, NEW a \in Actors, NEW x, pc' = [pc EXCEPT ![a] = x], Alike(pc[a], x),
         UNCHANGED <<mp, pm, status>>
  PROVE  LinkInv'
<1>1. \A b \in Actors : /\ pc'[b] \in Working <=> pc[b] \in Working
                        /\ pc'[b] \in Calling <=> pc[b] \in Calling
                        /\ pc'[b] = "stopping" <=> pc[b] = "stopping"
  BY DEF TypeOK, Alike
<1>2. \A m \in Ms : pc'[m] \in Working =>
        pm'[mp'[m]] = m /\ status'[mp'[m]] = IF pc'[m] = "stopping" THEN "gcstop" ELSE "running"
  BY <1>1, Finite DEF LinkInv
<1>3. \A p \in Ps :
        /\ pm'[p] # None => mp'[pm'[p]] = p /\ pc'[pm'[p]] \in Working
        /\ status'[p] = "running" => pm'[p] # None
  BY <1>1, Finite DEF LinkInv, TypeOK
<1>4. \A p \in Ps : status'[p] = "syscall" => \E m \in Ms : mp'[m] = p /\ pc'[m] \in Calling
  BY <1>1, Finite DEF LinkInv
<1>5. QED
  BY <1>2, <1>3, <1>4 DEF LinkInv

LEMMA ShiftHeld ==
  ASSUME TypeOK, HeldInv, NEW a \in Actors, NEW x, pc' = [pc EXCEPT ![a] = x], Alike(pc[a], x),
         UNCHANGED <<nextp, hand, status, pidle>>
  PROVE  HeldInv'
<1>1. \A b \in Actors : Held(b)' = Held(b)
  BY DEF TypeOK, Alike, Held
<1>2. QED
  BY <1>1 DEF HeldInv

LEMMA ShiftStop ==
  ASSUME TypeOK, StopInv, NEW a \in Actors, NEW x, pc' = [pc EXCEPT ![a] = x], Alike(pc[a], x),
         x = "gcstop" => gcwaiting, UNCHANGED <<status, pidle, gcwaiting, stopwait>>
  PROVE  StopInv'
<1>1. \A b \in Actors : /\ pc'[b] = "stopping" <=> pc[b] = "stopping"
                        /\ pc'[b] = "gcstop" => pc[b] = "gcstop" \/ gcwaiting
  BY DEF TypeOK, Alike
<1>2. QED
  BY <1>1, Finite DEF StopInv

\* Where an M may be while it spins.
SpinPoints == {"woken", "sched", "find", "steal", "stop", "released", "reset", "gcstop"}

LEMMA ShiftPoint ==
  ASSUME TypeOK, PointInv, NEW a \in Actors, NEW x \in Points, pc' = [pc EXCEPT ![a] = x],
         Alike(pc[a], x), UNCHANGED <<mp, nextp, hand, nmidlelocked>>,
         \A m \in Ms : spinning'[m] => (IF m = a THEN x \in SpinPoints ELSE spinning[m])
  PROVE  PointInv'
<1>1. ASSUME NEW m \in Ms
      PROVE  ThreadInv(m)'
  <2>1. ThreadInv(m) /\ m \in Actors
    BY Finite DEF PointInv
  <2>2. CASE m = a
    <3>1. pc'[m] = x
      BY <2>1, <2>2 DEF TypeOK
    <3>2. QED
      BY <2>1, <2>2, <3>1 DEF ThreadInv, Alike, SpinPoints
  <2>3. CASE m # a
    <3>1. pc'[m] = pc[m]
      BY <2>1, <2>3 DEF TypeOK
    <3>2. QED
      BY <2>1, <2>3, <3>1 DEF ThreadInv
  <2>4. QED
    BY <2>2, <2>3
<1>2. \A b \in Actors : hand'[b] # None <=> pc'[b] \in Handoff \cup {"retake"}
  BY DEF TypeOK, PointInv, Alike
<1>3. pc'[Sysmon] \in Handoff \cup {"idle", "retake", "inc"}
      /\ nmidlelocked' = IF pc'[Sysmon] = "idle" THEN 0 ELSE -1
  BY Finite DEF TypeOK, PointInv, Alike
<1>4. QED
  BY <1>1, <1>2, <1>3 DEF PointInv

\* The queues that are empty when a goes to x with what it has, and no queue grows
\* but that of its own P.
LEMMA ShiftQueue ==
  ASSUME TypeOK, PointInv, LinkInv, HeldInv, QueueInv,
         NEW a \in Actors, NEW x, pc' = [pc EXCEPT ![a] = x],
         UNCHANGED <<mp, nextp, hand, pidle>>,
         \A n \in Ms : n # a => spinning'[n] = spinning[n],
         \A p \in Ps : q[p] = 0 =>
           q'[p] = 0 \/ (a \in Ms /\ pc[a] \in Working /\ p = mp[a]),
         x \in {"handspin", "handidle", "handcas", "handlock", "startspin"} => q'[hand[a]] = 0,
         a \in Ms =>
           /\ x \in {"decide", "spin", "steal", "stop"} => q'[mp[a]] = 0
           /\ x = "sched" /\ spinning'[a] => q'[mp[a]] = 0
           /\ x = "new" => q'[nextp[a]] = 0
           /\ x = "woken" /\ spinning'[a] => q'[nextp[a]] = 0
  PROVE  QueueInv'
<1> DEFINE Own(p) == a \in Ms /\ pc[a] \in Working /\ p = mp[a]
<1>1. \A p \in Ps : Own(p) =>
        /\ p \notin pidle
        /\ \A b \in Actors : Held(b) # p
        /\ \A n \in Ms : n # a /\ pc[n] \in Working => mp[n] # p
  BY Owner
<1>2. \A p \in Ps : q[p] = 0 => q'[p] = 0 \/ Own(p)
  OBVIOUS
<1>3. pc'[a] = x /\ \A b \in Actors : b # a => pc'[b] = pc[b]
  BY DEF TypeOK
<1> HIDE DEF Own
<1>4. \A p \in pidle' : q'[p] = 0
  BY <1>1, <1>2 DEF QueueInv, TypeOK
<1>5. ASSUME NEW b \in Actors,
             pc'[b] \in {"handspin", "handidle", "handcas", "handlock", "startspin"}
      PROVE  q'[hand'[b]] = 0
  <2>1. CASE b = a
    BY <1>3, <1>5, <2>1
  <2>2. CASE b # a
    <3>1. q[hand[b]] = 0 /\ pc[b] \in Handoff
      BY <1>3, <1>5, <2>2 DEF QueueInv, Handoff
    <3>2. hand[b] \in Ps /\ Held(b) = hand[b]
      BY <3>1, HeldAt
    <3>3. QED
      BY <1>1, <1>2, <3>1, <3>2
  <2>3. QED
    BY <2>1, <2>2
<1>6. ASSUME NEW n \in Ms
      PROVE  /\ pc'[n] \in {"decide", "spin", "steal", "stop"} => q'[mp'[n]] = 0
             /\ pc'[n] = "sched" /\ spinning'[n] => q'[mp'[n]] = 0
  <2>1. CASE n = a
    BY <1>3, <2>1
  <2>2. CASE n # a
    <3>1. pc'[n] = pc[n] /\ spinning'[n] = spinning[n]
      BY <1>3, <2>2, Finite
    <3>2. pc[n] \in {"decide", "spin", "steal", "stop"} \/ (pc[n] = "sched" /\ spinning[n])
            => q[mp[n]] = 0 /\ pc[n] \in Working
      BY DEF QueueInv, Working
    <3>3. pc[n] \in Working => mp[n] \in Ps /\ ~Own(mp[n])
      BY <1>1, <2>2, Owner
    <3>4. QED
      BY <1>2, <3>1, <3>2, <3>3
  <2>3. QED
    BY <2>1, <2>2
<1>7. ASSUME NEW n \in Ms
      PROVE  /\ pc'[n] = "new" => q'[nextp'[n]] = 0
             /\ pc'[n] = "woken" /\ spinning'[n] => q'[nextp'[n]] = 0
  <2>1. CASE n = a
    BY <1>3, <2>1
  <2>2. CASE n # a
    <3>1. pc'[n] = pc[n] /\ spinning'[n] = spinning[n]
      BY <1>3, <2>2, Finite
    <3>2. pc[n] = "new" \/ (pc[n] = "woken" /\ spinning[n])
            => q[nextp[n]] = 0 /\ pc[n] \in Starting
      BY DEF QueueInv, Starting
    <3>3. pc[n] \in Starting => nextp[n] \in Ps /\ Held(n) = nextp[n]
      BY HeldAt
    <3>4. QED
      BY <1>1, <1>2, <3>1, <3>2, <3>3, Finite
  <2>3. QED
    BY <2>1, <2>2
<1>8. QED
  BY <1>4, <1>5, <1>6, <1>7 DEF QueueInv

\* Whoever moves between points of one kind keeps the places of all Ps right.
LEMMA Shift ==
  ASSUME IInv, NEW a \in Actors, NEW x \in Points, pc' = [pc EXCEPT ![a] = x], Alike(pc[a], x),
         UNCHANGED <<mp, nextp, hand, pm, status, pidle, nmidlelocked, gcwaiting, stopwait>>,
         x = "gcstop" => gcwaiting
  PROVE  /\ LinkInv' /\ HeldInv' /\ StopInv'
         /\ (\A m \in Ms : spinning'[m] => (IF m = a THEN x \in SpinPoints ELSE spinning[m]))
              => PointInv'
<1>1. TypeOK /\ PointInv /\ LinkInv /\ HeldInv /\ StopInv
  BY DEF IInv
<1>2. LinkInv'
  BY <1>1, ShiftLink
<1>3. HeldInv'
  BY <1>1, ShiftHeld
<1>4. StopInv'
  BY <1>1, ShiftStop
<1>5. ASSUME \A m \in Ms : spinning'[m] => (IF m = a THEN x \in SpinPoints ELSE spinning[m])
      PROVE  PointInv'
  BY <1>1, <1>5, ShiftPoint
<1>6. QED
  BY <1>2, <1>3, <1>4, <1>5

(***************************************************************************)
(* Work that is not left behind                                            *)
(***************************************************************************)

\* A thread that helps, or spins, is enough.
LEMMA WorkHelped ==
  ASSUME NEW m \in Ms, pc'[m] \in Help
  PROVE  WorkInv'
BY DEF WorkInv, Helps

LEMMA WorkSpun ==
  ASSUME NEW a \in Actors, Spins(a)'
  PROVE  WorkInv'
<1>1. Spinners' # {}
  BY DEF Spinners
<1>2. QED
  BY <1>1 DEF WorkInv

\* A step leaves nothing behind that takes away neither spinning threads nor help,
\* fills no empty queue and makes no P idle where there was none.
LEMMA WorkKept ==
  ASSUME WorkInv, pidle' # {} => pidle # {}, missed => missed',
         \A p \in Ps : q'[p] > 0 => q[p] > 0,
         \A b \in Actors : Spins(b) => Spins(b)',
         \A n \in Ms, p \in Ps : q'[p] > 0 /\ Helps(n, p) => Helps(n, p)'
  PROVE  WorkInv'
<1>1. Spinners # {} => Spinners' # {}
  BY DEF Spinners
<1>2. QED
  BY <1>1 DEF WorkInv

\* A step of a thread that neither spun nor helped does not.
LEMMA WorkBystander ==
  ASSUME TypeOK, WorkInv, NEW a \in Actors, NEW x, pc' = [pc EXCEPT ![a] = x], ~Spins(a),
         pc[a] \notin Help \cup {"recheck"},
         UNCHANGED <<spinning, todo>>, pidle' # {} => pidle # {}, missed => missed',
         \A p \in Ps : q'[p] > 0 => q[p] > 0
  PROVE  WorkInv'
<1>1. \A b \in Actors : b # a => pc'[b] = pc[b]
  BY DEF TypeOK
<1>2. \A b \in Actors : Spins(b) => Spins(b)'
  BY <1>1 DEF Spins
<1>3. \A n \in Ms, p \in Ps : Helps(n, p) => Helps(n, p)'
  BY <1>1, Finite DEF Helps
<1>4. QED
  BY <1>2, <1>3, WorkKept

\* Somebody works, so not all Ps are idle.
LEMMA GlobalByWorker ==
  ASSUME IInv, NEW m \in Ms, pc[m] \in Working, pidle' \subseteq pidle
  PROVE  GlobalInv'
<1>1. mp[m] \in Ps /\ mp[m] \notin pidle
  BY Owner DEF IInv
<1>2. QED
  BY <1>1 DEF GlobalInv

(***************************************************************************)
(* Steps that only look                                                    *)
(***************************************************************************)

\* Points that nmspinning counts.
Counted == {"new", "startspin", "startidle", "undo"}

\* A thread goes to a point of the same kind and changes no count.
LEMMA Quiet ==
  ASSUME IInv, NEW a \in Actors, NEW x \in Points \ Starting, pc' = [pc EXCEPT ![a] = x],
         Alike(pc[a], x), pc[a] \in Carry <=> x \in Carry, {pc[a], x} \cap Counted = {},
         UNCHANGED <<mp, nextp, spinning, hand, pVars, global, nmspinning, nmidlelocked,
                     gcwaiting, stopwait, waiting>>,
         x # "sched", x = "gcstop" => gcwaiting, a \in Ms /\ spinning[a] => x \in SpinPoints,
         x \in {"handspin", "handidle", "handcas", "handlock"} => q[hand[a]] = 0,
         x \in {"decide", "spin", "steal", "stop"} => q[mp[a]] = 0
  PROVE  /\ PointInv' /\ LinkInv' /\ HeldInv' /\ StopInv' /\ QueueInv'
         /\ SpinnersInv' /\ GoroutinesInv' /\ GlobalInv'
<1>1. TypeOK /\ PointInv /\ LinkInv /\ HeldInv /\ StopInv /\ QueueInv
  BY DEF IInv
<1>2. UNCHANGED <<pm, status, q, pidle>>
  BY DEF pVars
<1>3. LinkInv' /\ HeldInv' /\ StopInv'
  BY <1>2, Shift
<1>4. PointInv'
  BY <1>1, ShiftPoint
<1>5. QueueInv'
  <2>1. x \notin Counted \cup Starting
    OBVIOUS
  <2>2. x # "startspin" /\ x # "new" /\ x # "woken"
    BY <2>1 DEF Counted, Starting
  <2>3. QED
    BY <1>1, <1>2, <2>2, ShiftQueue
<1>6. \A b \in Actors : b # a => pc'[b] = pc[b]
  BY <1>1 DEF TypeOK
<1>7. pc'[a] = x
  BY <1>1 DEF TypeOK
<1>8. SpinnersInv'
  <2>1. \A b \in Actors : Spins(b)' <=> Spins(b)
    BY <1>6, <1>7 DEF Spins, Counted
  <2>2. Spinners' = Spinners
    BY <2>1 DEF Spinners
  <2>3. QED
    BY <1>2, <2>2 DEF IInv, SpinnersInv
<1>9. GoroutinesInv'
  <2>1. \A n \in Ms : pc'[n] \in Carry <=> pc[n] \in Carry
    BY <1>6, <1>7, Finite
  <2>2. GoroutinesInv
    BY DEF IInv
  <2>3. QED
    BY <1>2, <2>1, <2>2, GoroutinesSame
<1>10. GlobalInv'
  BY <1>2 DEF IInv, GlobalInv
<1>11. QED
  BY <1>3, <1>4, <1>5, <1>8, <1>9, <1>10

\* The types after a step of a that changes no more than this.
LEMMA QuietType ==
  ASSUME TypeOK, NEW a \in Actors, NEW x \in Points, pc' = [pc EXCEPT ![a] = x],
         UNCHANGED <<mp, nextp, hand, pm, status, pidle, nmidlelocked, gcwaiting, stopwait>>,
         ret' \in [Ms -> {"sched", "find"}], todo' \in [Ms -> SUBSET Ps],
         spinning' \in [Ms -> BOOLEAN], q' \in [Ps -> 0..NG], global' \in Nat,
         nmspinning' \in Nat, waiting' \in Nat, dead' \in {"no", "deadlock", "throw"},
         missed' \in BOOLEAN
  PROVE  TypeOK'
BY DEF TypeOK

LEMMA LookIdleInv == ASSUME IInv, NEW m \in Ms, LookIdle(m) PROVE IInv'
<1>1. PICK x \in {"run", "nspin", "cas"} :
           pc' = [pc EXCEPT ![m] = x] /\ (x = "run" => pidle = {})
  BY DEF LookIdle, Goto
<1>2. /\ pc[m] \in {"npidle", "found"}
      /\ UNCHANGED <<ret, mp, nextp, spinning, hand, todo, pVars, schedVars>>
  BY DEF LookIdle
<1>3. /\ UNCHANGED <<pm, status, q, pidle, global, nmspinning>>
      /\ UNCHANGED <<nmidlelocked, gcwaiting, stopwait, waiting, dead, missed>>
  BY <1>2 DEF pVars, schedVars, restVars
<1>4. TypeOK /\ PointInv /\ m \in Actors
  BY Finite DEF IInv
<1>5. Alike(pc[m], x) /\ (pc[m] \in Carry <=> x \in Carry)
  BY <1>2 DEF Alike, Working, Wakeup, Handoff, Starting, Calling, Carry
<1>6. x \in Points \ Starting /\ {pc[m], x} \cap Counted = {}
  BY <1>2 DEF Points, Starting, Working, Wakeup, Counted
<1>7. ~spinning[m]
  BY <1>2, <1>4 DEF PointInv, ThreadInv
<1>8. TypeOK'
  BY <1>1, <1>2, <1>3, <1>4, <1>6, QuietType DEF TypeOK
<1>9. /\ PointInv' /\ LinkInv' /\ HeldInv' /\ StopInv' /\ QueueInv'
      /\ SpinnersInv' /\ GoroutinesInv' /\ GlobalInv'
  BY <1>1, <1>2, <1>3, <1>4, <1>5, <1>6, <1>7, Quiet
<1>10. WorkInv'
  <2>1. CASE x = "run"
    BY <1>1, <1>3, <2>1 DEF WorkInv
  <2>2. CASE x # "run"
    <3>1. pc'[m] \in Help
      BY <1>1, <1>4, <2>2 DEF TypeOK, Help
    <3>2. QED
      BY <3>1, WorkHelped
  <2>3. QED
    BY <2>1, <2>2
<1>11. QED
  BY <1>3, <1>8, <1>9, <1>10 DEF IInv

\* While nmspinning is not zero, somebody spins.
LEMMA WorkCounted ==
  ASSUME SpinnersInv', nmspinning' # 0
  PROVE  WorkInv'
<1>1. Spinners' # {}
  BY FS_EmptySet DEF SpinnersInv
<1>2. QED
  BY <1>1 DEF WorkInv

LEMMA LookSpinningInv == ASSUME IInv, NEW m \in Ms, LookSpinning(m) PROVE IInv'
<1>1. PICK x \in {"run", "cas"} :
           pc' = [pc EXCEPT ![m] = x] /\ (x = "run" => nmspinning # 0)
  BY DEF LookSpinning, Goto
<1>2. /\ pc[m] = "nspin"
      /\ UNCHANGED <<ret, mp, nextp, spinning, hand, todo, pVars, schedVars>>
  BY DEF LookSpinning
<1>3. /\ UNCHANGED <<pm, status, q, pidle, global, nmspinning>>
      /\ UNCHANGED <<nmidlelocked, gcwaiting, stopwait, waiting, dead, missed>>
  BY <1>2 DEF pVars, schedVars, restVars
<1>4. TypeOK /\ PointInv /\ m \in Actors
  BY Finite DEF IInv
<1>5. Alike(pc[m], x) /\ (pc[m] \in Carry <=> x \in Carry)
  BY <1>2 DEF Alike, Working, Wakeup, Handoff, Starting, Calling, Carry
<1>6. x \in Points \ Starting /\ {pc[m], x} \cap Counted = {}
  BY <1>2 DEF Points, Starting, Working, Wakeup, Counted
<1>7. ~spinning[m]
  BY <1>2, <1>4 DEF PointInv, ThreadInv
<1>8. TypeOK'
  BY <1>1, <1>2, <1>3, <1>4, <1>6, QuietType DEF TypeOK
<1>9. /\ PointInv' /\ LinkInv' /\ HeldInv' /\ StopInv' /\ QueueInv'
      /\ SpinnersInv' /\ GoroutinesInv' /\ GlobalInv'
  BY <1>1, <1>2, <1>3, <1>4, <1>5, <1>6, <1>7, Quiet
<1>10. WorkInv'
  <2>1. CASE x = "run"
    BY <1>1, <1>3, <1>9, <2>1, WorkCounted
  <2>2. CASE x # "run"
    <3>1. pc'[m] \in Help
      BY <1>1, <1>4, <2>2 DEF TypeOK, Help
    <3>2. QED
      BY <3>1, WorkHelped
  <2>3. QED
    BY <2>1, <2>2
<1>11. QED
  BY <1>3, <1>8, <1>9, <1>10 DEF IInv

\* The looks of handoffp, each of which leaves the P in its hand.
LEMMA HandLooks ==
  ASSUME IInv, NEW a \in Actors,
         pc[a] \in {"hand", "handspin", "handidle", "handcas", "handlock"},
         NEW x \in {"start", "handspin", "handidle", "handcas", "handlock"},
         pc' = [pc EXCEPT ![a] = x],
         x # "start" => q[hand[a]] = 0,
         UNCHANGED <<ret, mp, nextp, spinning, hand, todo, pVars, schedVars>>
  PROVE  IInv'
<1>1. /\ UNCHANGED <<pm, status, q, pidle, global, nmspinning>>
      /\ UNCHANGED <<nmidlelocked, gcwaiting, stopwait, waiting, dead, missed>>
  BY DEF pVars, schedVars, restVars
<1>2. TypeOK /\ PointInv /\ WorkInv
  BY DEF IInv
<1>3. Alike(pc[a], x) /\ (pc[a] \in Carry <=> x \in Carry)
  BY DEF Alike, Working, Wakeup, Handoff, Starting, Calling, Carry
<1>4. x \in Points \ Starting /\ {pc[a], x} \cap Counted = {}
  BY DEF Points, Starting, Handoff, Counted
<1>5. ~(a \in Ms /\ spinning[a])
  BY <1>2 DEF PointInv, ThreadInv
<1>6. TypeOK'
  BY <1>1, <1>2, <1>4, QuietType DEF TypeOK
<1>7. /\ PointInv' /\ LinkInv' /\ HeldInv' /\ StopInv' /\ QueueInv'
      /\ SpinnersInv' /\ GoroutinesInv' /\ GlobalInv'
  BY <1>1, <1>3, <1>4, <1>5, Quiet
<1>8. WorkInv'
  <2>1. ~Spins(a)
    BY <1>4, <1>5 DEF Spins, Counted
  <2>2. pc[a] \notin Help \cup {"recheck"}
    BY DEF Help
  <2>3. QED
    BY <1>1, <1>2, <2>1, <2>2, WorkBystander
<1>9. QED
  BY <1>1, <1>6, <1>7, <1>8 DEF IInv

LEMMA HandLookInv == ASSUME IInv, NEW a \in Actors, HandLook(a) PROVE IInv'
<1>1. PICK x \in {"start", "handspin"} :
           pc' = [pc EXCEPT ![a] = x] /\ (x # "start" => ~(q[hand[a]] > 0))
  BY DEF HandLook, Goto
<1>2. pc[a] = "hand" /\ UNCHANGED <<ret, mp, nextp, spinning, hand, todo, pVars, schedVars>>
  BY DEF HandLook
<1>3. TypeOK /\ PointInv /\ pc[a] \in Handoff
  BY <1>2 DEF IInv, Handoff
<1>4. hand[a] \in Ps
  BY <1>3, HeldAt
<1>5. q[hand[a]] \in Nat
  BY <1>3, <1>4, SchedAssumption DEF TypeOK
<1>6. x # "start" => q[hand[a]] = 0
  BY <1>1, <1>5
<1>7. QED
  BY <1>1, <1>2, <1>6, HandLooks

LEMMA HandSpinInv == ASSUME IInv, NEW a \in Actors, HandSpin(a) PROVE IInv'
<1>1. PICK x \in {"handidle", "handlock"} : pc' = [pc EXCEPT ![a] = x]
  BY DEF HandSpin, Goto
<1>2. /\ pc[a] = "handspin"
      /\ UNCHANGED <<ret, mp, nextp, spinning, hand, todo, pVars, schedVars>>
  BY DEF HandSpin
<1>3. q[hand[a]] = 0
  BY <1>2 DEF IInv, QueueInv
<1>4. QED
  BY <1>1, <1>2, <1>3, HandLooks

LEMMA HandIdleInv == ASSUME IInv, NEW a \in Actors, HandIdle(a) PROVE IInv'
<1>1. PICK x \in {"handcas", "handlock"} : pc' = [pc EXCEPT ![a] = x]
  BY DEF HandIdle, Goto
<1>2. /\ pc[a] = "handidle"
      /\ UNCHANGED <<ret, mp, nextp, spinning, hand, todo, pVars, schedVars>>
  BY DEF HandIdle
<1>3. q[hand[a]] = 0
  BY <1>2 DEF IInv, QueueInv
<1>4. QED
  BY <1>1, <1>2, <1>3, HandLooks

\* handoffp and wakep may make one more thread spin, when none does.
LEMMA OneSpins ==
  ASSUME IInv, NEW a \in Actors, nmspinning = 0, nmspinning' = 1,
         NEW x \in {"startspin", "startidle"}, pc' = [pc EXCEPT ![a] = x],
         IF x = "startspin" THEN pc[a] = "handcas" ELSE a \in Ms /\ pc[a] = "cas",
         UNCHANGED <<ret, mp, nextp, spinning, hand, todo, pVars, global, restVars>>
  PROVE  IInv'
<1>1. /\ UNCHANGED <<pm, status, q, pidle>>
      /\ UNCHANGED <<nmidlelocked, gcwaiting, stopwait, waiting, dead, missed>>
  BY DEF pVars, restVars
<1>2. TypeOK /\ PointInv /\ LinkInv /\ HeldInv /\ QueueInv
  BY DEF IInv
<1>3. Alike(pc[a], x) /\ (pc[a] \in Carry <=> x \in Carry)
  BY DEF Alike, Working, Wakeup, Handoff, Starting, Calling, Carry
<1>4. x \in Points
  BY DEF Points, Working, Wakeup, Handoff
<1>5. ~(a \in Ms /\ spinning[a])
  BY <1>2 DEF PointInv, ThreadInv
<1>6. TypeOK'
  BY <1>1, <1>2, <1>4, QuietType DEF TypeOK
<1>7. LinkInv' /\ HeldInv' /\ StopInv'
  BY <1>1, <1>3, <1>4, Shift
<1>8. PointInv'
  BY <1>2, <1>3, <1>4, <1>5, <1>1, ShiftPoint
<1>9. QueueInv'
  <2>1. pc[a] = "handcas" => q[hand[a]] = 0
    BY <1>2 DEF QueueInv
  <2>2. QED
    BY <1>1, <1>2, <2>1, ShiftQueue
<1>10. \A b \in Actors : b # a => pc'[b] = pc[b]
  BY <1>2 DEF TypeOK
<1>11. pc'[a] = x
  BY <1>2 DEF TypeOK
<1>12. Spins(a)' /\ ~Spins(a)
  BY <1>5, <1>11 DEF Spins
<1>13. SpinnersInv'
  <2>1. \A b \in Actors : b # a => (Spins(b)' <=> Spins(b))
    BY <1>10 DEF Spins
  <2>2. Cardinality(Spinners') = Cardinality(Spinners) + 1
    BY <1>12, <2>1, SpinnersMove
  <2>3. nmspinning = Cardinality(Spinners)
    BY DEF IInv, SpinnersInv
  <2>4. nmspinning' = Cardinality(Spinners')
    BY <2>2, <2>3
  <2>5. QED
    BY <2>4 DEF SpinnersInv
<1>14. GoroutinesInv'
  <2>1. \A n \in Ms : pc'[n] \in Carry <=> pc[n] \in Carry
    BY <1>3, <1>10, <1>11, Finite
  <2>2. QED
    BY <1>1, <2>1, GoroutinesSame DEF IInv
<1>15. WorkInv' /\ GlobalInv'
  BY <1>1, <1>12, WorkSpun DEF IInv, GlobalInv
<1>16. QED
  BY <1>1, <1>6, <1>7, <1>8, <1>9, <1>13, <1>14, <1>15 DEF IInv

LEMMA HandCasInv == ASSUME IInv, NEW a \in Actors, HandCas(a) PROVE IInv'
<1>1. /\ pc[a] = "handcas"
      /\ UNCHANGED <<ret, mp, nextp, spinning, hand, todo, pVars, global, restVars>>
  BY DEF HandCas
<1>2. CASE nmspinning = 0
  <2>1. nmspinning' = 1 /\ pc' = [pc EXCEPT ![a] = "startspin"]
    BY <1>2 DEF HandCas, Goto
  <2>2. QED
    BY <1>1, <1>2, <2>1, OneSpins
<1>3. CASE nmspinning # 0
  <2>1. nmspinning' = nmspinning /\ pc' = [pc EXCEPT ![a] = "handlock"]
    BY <1>3 DEF HandCas, Goto
  <2>2. q[hand[a]] = 0
    BY <1>1 DEF IInv, QueueInv
  <2>3. UNCHANGED schedVars
    BY <1>1, <2>1 DEF schedVars
  <2>4. QED
    BY <1>1, <2>1, <2>2, <2>3, HandLooks
<1>4. QED
  BY <1>2, <1>3

LEMMA WakepInv == ASSUME IInv, NEW m \in Ms, Wakep(m) PROVE IInv'
<1>1. /\ pc[m] = "cas"
      /\ UNCHANGED <<ret, mp, nextp, spinning, hand, todo, pVars, global, restVars>>
  BY DEF Wakep
<1>2. TypeOK /\ PointInv /\ m \in Actors
  BY Finite DEF IInv
<1>3. CASE nmspinning = 0
  <2>1. nmspinning' = 1 /\ pc' = [pc EXCEPT ![m] = "startidle"]
    BY <1>3 DEF Wakep, Goto
  <2>2. QED
    BY <1>1, <1>2, <1>3, <2>1, OneSpins
<1>4. CASE nmspinning # 0
  <2>1. nmspinning' = nmspinning /\ pc' = [pc EXCEPT ![m] = "run"]
    BY <1>4 DEF Wakep, Goto
  <2>2. /\ UNCHANGED <<pm, status, q, pidle>>
        /\ UNCHANGED <<nmidlelocked, gcwaiting, stopwait, waiting, dead, missed>>
    BY <1>1 DEF pVars, restVars
  <2>3. Alike(pc[m], "run") /\ (pc[m] \in Carry <=> "run" \in Carry)
    BY <1>1 DEF Alike, Working, Wakeup, Handoff, Starting, Calling, Carry
  <2>4. "run" \in Points \ Starting /\ {pc[m], "run"} \cap Counted = {}
    BY <1>1 DEF Points, Starting, Working, Counted
  <2>5. ~spinning[m]
    BY <1>1, <1>2 DEF PointInv, ThreadInv
  <2>6. TypeOK'
    BY <1>1, <1>2, <2>1, <2>2, <2>4, QuietType DEF TypeOK
  <2>7. /\ PointInv' /\ LinkInv' /\ HeldInv' /\ StopInv' /\ QueueInv'
        /\ SpinnersInv' /\ GoroutinesInv' /\ GlobalInv'
    BY <1>1, <1>2, <2>1, <2>2, <2>3, <2>4, <2>5, Quiet
  <2>8. WorkInv'
    BY <1>4, <2>1, <2>7, WorkCounted
  <2>9. QED
    BY <2>2, <2>6, <2>7, <2>8 DEF IInv
<1>5. QED
  BY <1>3, <1>4

(***************************************************************************)
(* Steps that look for work, find it or make it                            *)
(***************************************************************************)

\* nmspinning follows a.
LEMMA SpinnersKept ==
  ASSUME TypeOK, SpinnersInv, NEW a \in Actors,
         \A b \in Actors : b # a => (Spins(b)' <=> Spins(b)),
         (Spins(a) <=> Spins(a)') => nmspinning' = nmspinning,
         ~Spins(a) /\ Spins(a)' => nmspinning' = nmspinning + 1,
         Spins(a) /\ ~Spins(a)' => nmspinning' = nmspinning - 1
  PROVE  nmspinning' \in Nat /\ SpinnersInv'
<1>1. nmspinning = Cardinality(Spinners)
  BY DEF SpinnersInv
<1>2. /\ Cardinality(Spinners) \in Nat /\ Cardinality(Spinners') \in Nat
      /\ (Spins(a) <=> Spins(a)') => Cardinality(Spinners') = Cardinality(Spinners)
      /\ ~Spins(a) /\ Spins(a)' => Cardinality(Spinners') = Cardinality(Spinners) + 1
      /\ Spins(a) /\ ~Spins(a)' => Cardinality(Spinners') = Cardinality(Spinners) - 1
  BY SpinnersMove
<1>3. nmspinning' = Cardinality(Spinners')
  BY <1>1, <1>2
<1>4. QED
  BY <1>2, <1>3 DEF SpinnersInv

\* What a step of m leaves right that moves no P: m goes to a point of the same
\* kind, spins or does not, and no queue grows but that of its own P.
LEMMA Moves ==
  ASSUME IInv, NEW m \in Ms, NEW x \in Points, pc' = [pc EXCEPT ![m] = x], Alike(pc[m], x),
         UNCHANGED <<mp, nextp, hand, pm, status, pidle, nmidlelocked, gcwaiting, stopwait>>,
         \A n \in Ms : n # m => spinning'[n] = spinning[n],
         spinning'[m] => x \in SpinPoints, x = "gcstop" => gcwaiting,
         (Spins(m) <=> Spins(m)') => nmspinning' = nmspinning,
         ~Spins(m) /\ Spins(m)' => nmspinning' = nmspinning + 1,
         Spins(m) /\ ~Spins(m)' => nmspinning' = nmspinning - 1,
         \A p \in Ps : q[p] = 0 => q'[p] = 0 \/ (pc[m] \in Working /\ p = mp[m]),
         x \notin Handoff,
         x \in {"decide", "spin", "steal", "stop"} => q'[mp[m]] = 0,
         x = "sched" /\ spinning'[m] => q'[mp[m]] = 0,
         x = "new" => q'[nextp[m]] = 0,
         x = "woken" /\ spinning'[m] => q'[nextp[m]] = 0
  PROVE  /\ PointInv' /\ LinkInv' /\ HeldInv' /\ StopInv' /\ QueueInv' /\ SpinnersInv'
         /\ nmspinning' \in Nat
<1>1. TypeOK /\ PointInv /\ LinkInv /\ HeldInv /\ QueueInv /\ SpinnersInv /\ m \in Actors
  BY Finite DEF IInv
<1>2. LinkInv' /\ HeldInv' /\ StopInv'
  BY <1>1, Shift
<1>3. PointInv'
  <2>1. \A n \in Ms : spinning'[n] => (IF n = m THEN x \in SpinPoints ELSE spinning[n])
    OBVIOUS
  <2>2. QED
    BY <1>1, <2>1, ShiftPoint
<1>4. QueueInv'
  <2>1. x \notin {"handspin", "handidle", "handcas", "handlock", "startspin"}
    BY DEF Handoff
  <2>2. QED
    BY <1>1, <2>1, ShiftQueue
<1>5. \A b \in Actors : b # m => (Spins(b)' <=> Spins(b))
  <2>1. \A b \in Actors : b # m => pc'[b] = pc[b]
    BY <1>1 DEF TypeOK
  <2>2. QED
    BY <2>1 DEF Spins
<1>6. SpinnersInv' /\ nmspinning' \in Nat
  BY <1>1, <1>5, SpinnersKept
<1>7. QED
  BY <1>2, <1>3, <1>4, <1>6

\* Where the others are when m goes to x.
LEMMA OthersStay ==
  ASSUME TypeOK, NEW a \in Actors, NEW x, pc' = [pc EXCEPT ![a] = x]
  PROVE  pc'[a] = x /\ \A b \in Actors : b # a => pc'[b] = pc[b]
BY DEF TypeOK

\* The goroutines add up after a step that moves one between the hand of m, those
\* that wait and the queues.
LEMMA GoroutinesMoved ==
  ASSUME IInv, NEW m \in Ms, NEW x, pc' = [pc EXCEPT ![m] = x],
         waiting' \in Nat, global' \in Nat, q' \in [Ps -> 0..NG],
         waiting' + global' + Cardinality(Places(q')) + InHand(x)
           = waiting + global + Cardinality(Places(q)) + InHand(pc[m]),
         NEW p \in Ps
  PROVE  GoroutinesInv'
<1>1. TypeOK /\ GoroutinesInv /\ m \in Actors
  BY Finite DEF IInv
<1>2. pc'[m] = x /\ \A b \in Actors : b # m => pc'[b] = pc[b]
  BY <1>1, OthersStay
<1>3. \A n \in Ms : n # m => (pc'[n] \in Carry <=> pc[n] \in Carry)
  BY <1>2, Finite
<1>4. QED
  BY <1>1, <1>2, <1>3, GoroutinesKept

LEMMA UndoInv == ASSUME IInv, NEW m \in Ms, Undo(m) PROVE IInv'
<1>1. /\ pc[m] = "undo" /\ pc' = [pc EXCEPT ![m] = "run"]
      /\ missed' = (missed \/ (pidle # {} /\ Queued)) /\ nmspinning' = nmspinning - 1
      /\ UNCHANGED <<ret, mp, nextp, spinning, hand, todo, pVars, global, nmidlelocked,
                    gcwaiting, stopwait, waiting, dead>>
  BY DEF Undo, Goto
<1>2. UNCHANGED <<pm, status, q, pidle>>
  BY <1>1 DEF pVars
<1>3. TypeOK /\ PointInv /\ m \in Actors
  BY Finite DEF IInv
<1>4. pc'[m] = "run" /\ \A b \in Actors : b # m => pc'[b] = pc[b]
  BY <1>1, <1>3, OthersStay
<1>5. Alike(pc[m], "run") /\ pc[m] \in Carry /\ "run" \in Carry
      /\ "run" \in Points /\ "run" \notin Handoff
  BY <1>1 DEF Alike, Working, Wakeup, Handoff, Starting, Calling, Carry, Points
<1>6. ~spinning[m]
  BY <1>1, <1>3 DEF PointInv, ThreadInv
<1>7. Spins(m) /\ ~Spins(m)'
  BY <1>1, <1>4, <1>6 DEF Spins
<1>8. /\ PointInv' /\ LinkInv' /\ HeldInv' /\ StopInv' /\ QueueInv' /\ SpinnersInv'
      /\ nmspinning' \in Nat
  BY <1>1, <1>2, <1>5, <1>6, <1>7, Moves
<1>9. TypeOK'
  <2>1. missed' \in BOOLEAN
    BY <1>1, <1>3 DEF TypeOK
  <2>2. QED
    BY <1>1, <1>2, <1>3, <1>5, <1>8, <2>1, QuietType DEF TypeOK
<1>10. GoroutinesInv'
  <2>1. \A n \in Ms : pc'[n] \in Carry <=> pc[n] \in Carry
    BY <1>4, <1>5, Finite
  <2>2. QED
    BY <1>1, <1>2, <2>1, GoroutinesSame DEF IInv
<1>11. WorkInv'
  <2>1. ASSUME pidle' # {}, ~missed'
        PROVE  \A p \in Ps : ~(q'[p] > 0)
    BY <1>1, <1>2, <2>1 DEF Queued
  <2>2. QED
    BY <2>1 DEF WorkInv
<1>12. GlobalInv'
  BY <1>1, <1>2 DEF IInv, GlobalInv
<1>13. QED
  BY <1>1, <1>8, <1>9, <1>10, <1>11, <1>12 DEF IInv

LEMMA ResetSpinningInv == ASSUME IInv, NEW m \in Ms, ResetSpinning(m) PROVE IInv'
<1>1. /\ pc[m] = "reset" /\ spinning' = [spinning EXCEPT ![m] = FALSE]
      /\ nmspinning' = IF spinning[m] THEN nmspinning - 1 ELSE nmspinning
      /\ UNCHANGED <<ret, mp, nextp, hand, todo, pVars, global, restVars>>
  BY DEF ResetSpinning
<1>2. PICK x \in {"found", "run"} :
           pc' = [pc EXCEPT ![m] = x] /\ (x = "run" => nmspinning' # 0)
  BY DEF ResetSpinning, Goto
<1>3. /\ UNCHANGED <<pm, status, q, pidle>>
      /\ UNCHANGED <<nmidlelocked, gcwaiting, stopwait, waiting, dead, missed>>
  BY <1>1 DEF pVars, restVars
<1>4. TypeOK /\ PointInv /\ m \in Actors
  BY Finite DEF IInv
<1>5. pc'[m] = x /\ \A b \in Actors : b # m => pc'[b] = pc[b]
  BY <1>2, <1>4, OthersStay
<1>6. Alike(pc[m], x) /\ pc[m] \in Carry /\ x \in Carry /\ x \in Points /\ x \notin Handoff
  BY <1>1 DEF Alike, Working, Wakeup, Handoff, Starting, Calling, Carry, Points
<1>7. /\ spinning' \in [Ms -> BOOLEAN] /\ ~spinning'[m]
      /\ \A n \in Ms : n # m => spinning'[n] = spinning[n]
  BY <1>1, <1>4 DEF TypeOK
<1>8. (Spins(m) <=> spinning[m]) /\ ~Spins(m)'
  BY <1>1, <1>5, <1>7 DEF Spins
<1>9. /\ PointInv' /\ LinkInv' /\ HeldInv' /\ StopInv' /\ QueueInv' /\ SpinnersInv'
      /\ nmspinning' \in Nat
  BY <1>1, <1>2, <1>3, <1>6, <1>7, <1>8, Moves
<1>10. TypeOK'
  BY <1>1, <1>2, <1>3, <1>4, <1>6, <1>7, <1>9, QuietType DEF TypeOK
<1>11. GoroutinesInv'
  <2>1. \A n \in Ms : pc'[n] \in Carry <=> pc[n] \in Carry
    BY <1>5, <1>6, Finite
  <2>2. QED
    BY <1>1, <1>3, <2>1, GoroutinesSame DEF IInv
<1>12. WorkInv'
  <2>1. CASE x = "run"
    BY <1>2, <1>9, <2>1, WorkCounted
  <2>2. CASE x = "found"
    BY <1>5, <2>2, WorkHelped DEF Help
  <2>3. QED
    BY <2>1, <2>2
<1>13. GlobalInv'
  BY <1>1, <1>3 DEF IInv, GlobalInv
<1>14. QED
  BY <1>3, <1>9, <1>10, <1>11, <1>12, <1>13 DEF IInv

\* Quiet, for an M that helps where it goes to, or when no P is idle.
LEMMA QuietHelped ==
  ASSUME IInv, NEW m \in Ms, NEW x \in Points \ Starting, pc' = [pc EXCEPT ![m] = x],
         Alike(pc[m], x), pc[m] \in Carry <=> x \in Carry, {pc[m], x} \cap Counted = {},
         UNCHANGED <<mp, nextp, spinning, hand, todo, pVars, schedVars>>,
         ret' \in [Ms -> {"sched", "find"}],
         x # "sched", x = "gcstop" => gcwaiting, spinning[m] => x \in SpinPoints,
         x \notin Handoff, x \in {"decide", "spin", "steal", "stop"} => q[mp[m]] = 0,
         x \in Help \/ gcwaiting
  PROVE  IInv'
<1>1. /\ UNCHANGED <<pm, status, q, pidle, global, nmspinning>>
      /\ UNCHANGED <<nmidlelocked, gcwaiting, stopwait, waiting, dead, missed>>
  BY DEF pVars, schedVars, restVars
<1>2. TypeOK /\ StopInv /\ m \in Actors
  BY Finite DEF IInv
<1>3. x \notin {"handspin", "handidle", "handcas", "handlock"}
  BY DEF Handoff
<1>4. /\ PointInv' /\ LinkInv' /\ HeldInv' /\ StopInv' /\ QueueInv'
      /\ SpinnersInv' /\ GoroutinesInv' /\ GlobalInv'
  BY <1>1, <1>2, <1>3, Quiet
<1>5. TypeOK'
  BY <1>1, <1>2, QuietType DEF TypeOK
<1>6. WorkInv'
  <2>1. CASE x \in Help
    <3>1. pc'[m] = x
      BY <1>2, OthersStay
    <3>2. QED
      BY <2>1, <3>1, WorkHelped
  <2>2. CASE gcwaiting
    BY <1>1, <1>2, <2>2 DEF StopInv, WorkInv
  <2>3. QED
    BY <2>1, <2>2
<1>7. QED
  BY <1>1, <1>4, <1>5, <1>6 DEF IInv

\* The goroutines of one queue, and of that and the global one, are not more than
\* there are.
LEMMA NotMore ==
  ASSUME IInv, NEW p \in Ps
  PROVE  /\ q[p] \in Nat /\ global \in Nat /\ waiting \in Nat
         /\ q[p] + global + waiting <= NG
         /\ \A r \in Ps : r # p => q[p] + q[r] <= NG
         /\ Cardinality(Places(q)) \in Nat /\ NG \in Nat
         /\ q \in [Ps -> 0..NG]
<1>1. TypeOK /\ GoroutinesInv
  BY DEF IInv
<1>2. q \in [Ps -> 0..NG] /\ global \in Nat /\ waiting \in Nat /\ NG \in Nat
  BY <1>1, SchedAssumption DEF TypeOK
<1>3. q[p] \in Nat /\ 0 \in 0..NG
  BY <1>2
<1>4. Cardinality(Places(q)) \in Nat /\ q[p] <= Cardinality(Places(q))
  BY <1>2, <1>3, PlacesMove
<1>5. \A r \in Ps : r # p => q[p] + q[r] <= Cardinality(Places(q))
  BY <1>2, PlacesOfTwo
<1>6. Cardinality(Carrying) \in Nat
  <2>1. Carrying \in SUBSET Ms
    BY DEF Carrying
  <2>2. IsFiniteSet(Carrying)
    BY <2>1, SchedAssumption, FS_Subset
  <2>3. QED
    BY <2>2, FS_CardinalityType
<1>7. waiting + global + Cardinality(Places(q)) + Cardinality(Carrying) = NG
  BY <1>1 DEF GoroutinesInv
<1>8. q[p] + global + waiting <= NG
  BY <1>2, <1>3, <1>4, <1>6, <1>7
<1>9. \A r \in Ps : r # p => q[p] + q[r] <= NG
  BY <1>2, <1>3, <1>4, <1>5, <1>6, <1>7
<1>10. QED
  BY <1>2, <1>3, <1>4, <1>8, <1>9

\* A goroutine, and a share for the own queue, are taken from the global one.
LEMMA TakeGlobalInv ==
  ASSUME IInv, NEW m \in Ms, pc[m] \in {"sched", "find", "stop"}, global > 0,
         NEW max \in {0, 1}, TakeGlobal(mp[m], max), pc' = [pc EXCEPT ![m] = "reset"],
         UNCHANGED <<mp, nextp, spinning, hand, todo, pm, status, pidle, nmspinning, restVars>>,
         ret' \in [Ms -> {"sched", "find"}]
  PROVE  IInv'
<1> DEFINE p == mp[m]
           n == Share(max)
<1>1. UNCHANGED <<nmidlelocked, gcwaiting, stopwait, waiting, dead, missed>>
  BY DEF restVars
<1>2. TypeOK /\ PointInv /\ m \in Actors
  BY Finite DEF IInv
<1>3. pc[m] \in Working
  BY DEF Working
<1>4. p \in Ps
  BY <1>2, <1>3 DEF TypeOK, PointInv, ThreadInv
<1>5. /\ q[p] \in Nat /\ global \in Nat /\ waiting \in Nat /\ q[p] + global + waiting <= NG
      /\ Cardinality(Places(q)) \in Nat /\ NG \in Nat /\ q \in [Ps -> 0..NG]
  BY <1>4, NotMore
<1>6. n \in 1..global
  BY <1>4, <1>5, ShareBounds
<1>7. global' = global - n /\ q' = [q EXCEPT ![p] = q[p] + n - 1]
  BY DEF TakeGlobal
<1> HIDE DEF n
<1>8. global' \in Nat /\ q[p] + n - 1 \in 0..NG
  BY <1>5, <1>6, <1>7
<1>9. q' \in [Ps -> 0..NG]
  BY <1>5, <1>7, <1>8
<1>10. Cardinality(Places(q')) = Cardinality(Places(q)) + (q[p] + n - 1) - q[p]
  BY <1>4, <1>5, <1>7, <1>8, PlacesMove
<1>11. Alike(pc[m], "reset") /\ "reset" \in Points /\ "reset" \notin Handoff
       /\ "reset" \in SpinPoints
  BY DEF Alike, Working, Wakeup, Handoff, Starting, Calling, Points, SpinPoints
<1>12. pc'[m] = "reset"
  BY <1>2, OthersStay
<1>13. Spins(m)' <=> Spins(m)
  BY <1>12 DEF Spins
<1>14. \A r \in Ps : q[r] = 0 => q'[r] = 0 \/ (pc[m] \in Working /\ r = mp[m])
  BY <1>3, <1>5, <1>7
<1>15. /\ PointInv' /\ LinkInv' /\ HeldInv' /\ StopInv' /\ QueueInv' /\ SpinnersInv'
       /\ nmspinning' \in Nat
  BY <1>1, <1>11, <1>13, <1>14, Moves
<1>16. TypeOK'
  BY <1>1, <1>2, <1>8, <1>9, <1>11, QuietType DEF TypeOK
<1>17. GoroutinesInv'
  <2>1. InHand("reset") = 1 /\ InHand(pc[m]) = 0
    BY DEF InHand, Carry, Wakeup, Handoff, Calling
  <2>2. waiting' + global' + Cardinality(Places(q')) + InHand("reset")
          = waiting + global + Cardinality(Places(q)) + InHand(pc[m])
    BY <1>1, <1>5, <1>6, <1>7, <1>10, <2>1
  <2>3. waiting' \in Nat
    BY <1>1, <1>5
  <2>4. QED
    BY <1>4, <1>8, <1>9, <2>2, <2>3, GoroutinesMoved
<1>18. WorkInv'
  BY <1>12, WorkHelped DEF Help
<1>19. GlobalInv'
  BY <1>3, GlobalByWorker
<1>20. QED
  BY <1>1, <1>15, <1>16, <1>17, <1>18, <1>19 DEF IInv

\* One goroutine less or more in the queue of p.
LEMMA OneLess ==
  ASSUME NEW len \in [Ps -> 0..NG], NEW p \in Ps, len[p] > 0,
         NEW new, new = [len EXCEPT ![p] = @ - 1]
  PROVE  /\ new \in [Ps -> 0..NG] /\ \A r \in Ps : new[r] > 0 => len[r] > 0
         /\ \A r \in Ps : r # p => new[r] = len[r]
         /\ Cardinality(Places(new)) = Cardinality(Places(len)) - 1
<1> DEFINE v == len[p] - 1
<1>1. v \in 0..NG /\ len[p] \in Nat
  BY SchedAssumption
<1>2. /\ new \in [Ps -> 0..NG] /\ \A r \in Ps : new[r] > 0 => len[r] > 0
      /\ \A r \in Ps : r # p => new[r] = len[r]
  BY <1>1
<1>3. new = [len EXCEPT ![p] = v]
  OBVIOUS
<1> HIDE DEF v
<1>4. /\ Cardinality(Places(len)) \in Nat
      /\ Cardinality(Places(new)) = Cardinality(Places(len)) + v - len[p]
  BY <1>1, <1>3, PlacesMove
<1>5. QED
  BY <1>1, <1>2, <1>4 DEF v

LEMMA OneMore ==
  ASSUME NEW len \in [Ps -> 0..NG], NEW p \in Ps, len[p] < NG,
         NEW new, new = [len EXCEPT ![p] = @ + 1]
  PROVE  /\ new \in [Ps -> 0..NG]
         /\ \A r \in Ps : r # p => new[r] = len[r]
         /\ Cardinality(Places(new)) = Cardinality(Places(len)) + 1
<1> DEFINE v == len[p] + 1
<1>1. v \in 0..NG /\ len[p] \in Nat
  BY SchedAssumption
<1>2. /\ new \in [Ps -> 0..NG]
      /\ \A r \in Ps : r # p => new[r] = len[r]
  BY <1>1
<1>3. new = [len EXCEPT ![p] = v]
  OBVIOUS
<1> HIDE DEF v
<1>4. /\ Cardinality(Places(len)) \in Nat
      /\ Cardinality(Places(new)) = Cardinality(Places(len)) + v - len[p]
  BY <1>1, <1>3, PlacesMove
<1>5. QED
  BY <1>1, <1>2, <1>4 DEF v

\* A goroutine is taken from the queue of the own P.
LEMMA TakeOwn ==
  ASSUME IInv, NEW m \in Ms, pc[m] \in {"sched", "find"}, q[mp[m]] > 0,
         q' = [q EXCEPT ![mp[m]] = @ - 1],
         NEW x \in {"run", "reset"}, pc' = [pc EXCEPT ![m] = x],
         x = "run" => pc[m] = "sched",
         UNCHANGED <<mp, nextp, spinning, hand, todo, pm, status, pidle, schedVars>>,
         ret' \in [Ms -> {"sched", "find"}]
  PROVE  IInv'
<1> DEFINE p == mp[m]
<1>1. UNCHANGED <<global, nmspinning, nmidlelocked, gcwaiting, stopwait, waiting, dead, missed>>
  BY DEF schedVars, restVars
<1>2. TypeOK /\ PointInv /\ QueueInv /\ WorkInv /\ m \in Actors
  BY Finite DEF IInv
<1>3. pc[m] \in Working
  BY DEF Working
<1>4. p \in Ps
  BY <1>2, <1>3 DEF TypeOK, PointInv, ThreadInv
<1>5. /\ q[p] \in Nat /\ global \in Nat /\ waiting \in Nat /\ q[p] + global + waiting <= NG
      /\ Cardinality(Places(q)) \in Nat /\ NG \in Nat /\ q \in [Ps -> 0..NG]
  BY <1>4, NotMore
<1>6. q[p] > 0 /\ q' = [q EXCEPT ![p] = @ - 1]
  OBVIOUS
<1>7. /\ q' \in [Ps -> 0..NG] /\ \A r \in Ps : q'[r] > 0 => q[r] > 0
      /\ \A r \in Ps : r # p => q'[r] = q[r]
      /\ Cardinality(Places(q')) = Cardinality(Places(q)) - 1
  BY <1>4, <1>5, <1>6, OneLess
<1>8. \A r \in Ps : q[r] = 0 => q'[r] = 0 \/ (pc[m] \in Working /\ r = mp[m])
  BY <1>3, <1>7
<1>9. Alike(pc[m], x) /\ x \in Points /\ x \notin Handoff
  BY DEF Alike, Working, Wakeup, Handoff, Starting, Calling, Points
<1>10. pc'[m] = x
  BY <1>2, OthersStay
<1>11. x = "run" => ~spinning[m]
  BY <1>2 DEF QueueInv
<1>12. Spins(m)' <=> Spins(m)
  BY <1>10 DEF Spins
<1>14. spinning'[m] => x \in SpinPoints
  BY <1>11 DEF SpinPoints
<1>15. /\ PointInv' /\ LinkInv' /\ HeldInv' /\ StopInv' /\ QueueInv' /\ SpinnersInv'
       /\ nmspinning' \in Nat
  BY <1>1, <1>8, <1>9, <1>12, <1>14, Moves
<1>16. TypeOK'
  BY <1>1, <1>2, <1>7, <1>9, QuietType DEF TypeOK
<1>17. GoroutinesInv'
  <2>1. InHand(x) = 1 /\ InHand(pc[m]) = 0
    BY DEF InHand, Carry, Wakeup, Handoff, Calling
  <2>2. waiting' + global' + Cardinality(Places(q')) + InHand(x)
          = waiting + global + Cardinality(Places(q)) + InHand(pc[m])
    BY <1>1, <1>5, <1>7, <2>1
  <2>3. waiting' \in Nat /\ global' \in Nat
    BY <1>1, <1>5
  <2>4. QED
    BY <1>4, <1>7, <2>2, <2>3, GoroutinesMoved
<1>18. WorkInv'
  <2>1. CASE x = "reset"
    BY <1>10, <2>1, WorkHelped DEF Help
  <2>2. CASE x = "run"
    <3>1. ~Spins(m) /\ pc[m] \notin Help \cup {"recheck"}
      BY <1>11, <2>2 DEF Spins, Help
    <3>2. QED
      BY <1>1, <1>2, <1>7, <3>1, WorkBystander
  <2>3. QED
    BY <2>1, <2>2
<1>19. GlobalInv'
  BY <1>3, GlobalByWorker
<1>20. QED
  BY <1>1, <1>15, <1>16, <1>17, <1>18, <1>19 DEF IInv

LEMMA ScheduleInv == ASSUME IInv, NEW m \in Ms, Schedule(m) PROVE IInv'
<1>1. /\ pc[m] = "sched"
      /\ UNCHANGED <<ret, mp, nextp, spinning, hand, todo, pm, status, pidle, nmspinning,
                    restVars>>
  BY DEF Schedule
<1>2. TypeOK /\ PointInv /\ m \in Actors
  BY Finite DEF IInv
<1>3. mp[m] \in Ps
  BY <1>1, <1>2 DEF TypeOK, PointInv, ThreadInv, Working
<1>4. q[mp[m]] \in Nat
  BY <1>3, NotMore
<1>5. ret' \in [Ms -> {"sched", "find"}]
  BY <1>1, <1>2 DEF TypeOK
<1>6. ASSUME NEW x \in {"gcstop", "find"}, pc' = [pc EXCEPT ![m] = x], UNCHANGED <<q, global>>,
             x = "gcstop" => gcwaiting
      PROVE  IInv'
  <2>1. Alike(pc[m], x) /\ x \in Points \ Starting /\ x \notin Handoff /\ x \in SpinPoints
    BY <1>1 DEF Alike, Working, Wakeup, Handoff, Starting, Calling, Points, SpinPoints
  <2>2. (pc[m] \in Carry <=> x \in Carry) /\ {pc[m], x} \cap Counted = {}
    BY <1>1 DEF Carry, Counted, Wakeup, Handoff, Calling
  <2>3. UNCHANGED <<pVars, schedVars>>
    BY <1>1, <1>6 DEF pVars, schedVars
  <2>4. x \in Help \/ gcwaiting
    BY <1>6 DEF Help
  <2>5. QED
    BY <1>1, <1>5, <1>6, <2>1, <2>2, <2>3, <2>4, QuietHelped
<1>7. CASE gcwaiting /\ Goto(m, "gcstop") /\ UNCHANGED <<q, global>>
  BY <1>6, <1>7 DEF Goto
<1>8. CASE ~gcwaiting /\ global > 0 /\ TakeGlobal(mp[m], 1) /\ Goto(m, "reset")
  BY <1>1, <1>5, <1>8, TakeGlobalInv DEF Goto
<1>9. CASE q' = [q EXCEPT ![mp[m]] = @ - 1] /\ Goto(m, "run") /\ UNCHANGED global /\ q[mp[m]] > 0
  <2>1. UNCHANGED schedVars
    BY <1>1, <1>9 DEF schedVars
  <2>2. QED
    BY <1>1, <1>5, <1>9, <2>1, TakeOwn DEF Goto
<1>10. CASE Goto(m, "find") /\ UNCHANGED <<q, global>>
  BY <1>6, <1>10 DEF Goto
<1>11. QED
  BY <1>7, <1>8, <1>9, <1>10 DEF Schedule

LEMMA FindRunnableInv == ASSUME IInv, NEW m \in Ms, FindRunnable(m) PROVE IInv'
<1>1. /\ pc[m] = "find"
      /\ UNCHANGED <<mp, nextp, spinning, hand, todo, pm, status, pidle, nmspinning, restVars>>
  BY DEF FindRunnable
<1>2. TypeOK /\ PointInv /\ m \in Actors
  BY Finite DEF IInv
<1>3. mp[m] \in Ps
  BY <1>1, <1>2 DEF TypeOK, PointInv, ThreadInv, Working
<1>4. q[mp[m]] \in Nat /\ global \in Nat
  BY <1>3, NotMore
<1>5. ret' \in [Ms -> {"sched", "find"}]
  BY <1>2 DEF TypeOK, FindRunnable
<1>6. ASSUME NEW x \in {"gcstop", "steal", "decide"}, pc' = [pc EXCEPT ![m] = x],
             UNCHANGED <<q, global>>, x = "gcstop" => gcwaiting,
             x # "gcstop" => q[mp[m]] = 0, spinning[m] => x # "decide"
      PROVE  IInv'
  <2>1. Alike(pc[m], x) /\ x \in Points \ Starting /\ x \notin Handoff
    BY <1>1 DEF Alike, Working, Wakeup, Handoff, Starting, Calling, Points
  <2>2. (pc[m] \in Carry <=> x \in Carry) /\ {pc[m], x} \cap Counted = {}
    BY <1>1 DEF Carry, Counted, Wakeup, Handoff, Calling
  <2>3. UNCHANGED <<pVars, schedVars>>
    BY <1>1, <1>6 DEF pVars, schedVars
  <2>4. (x \in Help \/ gcwaiting) /\ (spinning[m] => x \in SpinPoints)
    BY <1>6 DEF Help, SpinPoints
  <2>5. QED
    BY <1>1, <1>5, <1>6, <2>1, <2>2, <2>3, <2>4, QuietHelped
<1>7. CASE gcwaiting
  BY <1>6, <1>7 DEF FindRunnable, Goto
<1>8. CASE ~gcwaiting /\ q[mp[m]] > 0
  <2>1. /\ q' = [q EXCEPT ![mp[m]] = @ - 1] /\ pc' = [pc EXCEPT ![m] = "reset"]
        /\ UNCHANGED global
    BY <1>8 DEF FindRunnable, Goto
  <2>2. UNCHANGED schedVars
    BY <1>1, <2>1 DEF schedVars
  <2>3. QED
    BY <1>1, <1>5, <1>8, <2>1, <2>2, TakeOwn
<1>9. CASE ~gcwaiting /\ ~(q[mp[m]] > 0) /\ global > 0
  <2>1. TakeGlobal(mp[m], 0) /\ pc' = [pc EXCEPT ![m] = "reset"]
    BY <1>9 DEF FindRunnable, Goto
  <2>2. QED
    BY <1>1, <1>5, <1>9, <2>1, TakeGlobalInv
<1>10. CASE ~gcwaiting /\ ~(q[mp[m]] > 0) /\ ~(global > 0)
  <2>1. PICK x \in {"steal", "decide"} :
             /\ pc' = [pc EXCEPT ![m] = x] /\ (spinning[m] => x # "decide")
             /\ UNCHANGED <<q, global>>
    BY <1>10 DEF FindRunnable, Goto
  <2>2. q[mp[m]] = 0
    BY <1>4, <1>10
  <2>3. QED
    BY <1>6, <2>1, <2>2
<1>11. QED
  BY <1>7, <1>8, <1>9, <1>10

LEMMA DecideInv == ASSUME IInv, NEW m \in Ms, Decide(m) PROVE IInv'
<1>1. /\ pc[m] = "decide"
      /\ UNCHANGED <<ret, mp, nextp, spinning, hand, todo, pVars, schedVars>>
  BY DEF Decide
<1>2. PICK x \in {"stop", "spin"} : pc' = [pc EXCEPT ![m] = x]
  BY DEF Decide, Goto
<1>3. TypeOK /\ PointInv
  BY DEF IInv
<1>4. q[mp[m]] = 0
  BY <1>1 DEF IInv, QueueInv
<1>5. ~spinning[m]
  BY <1>1, <1>3 DEF PointInv, ThreadInv
<1>6. Alike(pc[m], x) /\ x \in Points \ Starting /\ x \notin Handoff /\ x \in Help
  BY <1>1 DEF Alike, Working, Wakeup, Handoff, Starting, Calling, Points, Help
<1>7. (pc[m] \in Carry <=> x \in Carry) /\ {pc[m], x} \cap Counted = {}
  BY <1>1 DEF Carry, Counted, Wakeup, Handoff, Calling
<1>8. ret' \in [Ms -> {"sched", "find"}]
  BY <1>1, <1>3 DEF TypeOK
<1>9. QED
  BY <1>1, <1>2, <1>4, <1>5, <1>6, <1>7, <1>8, QuietHelped

LEMMA SpinInv == ASSUME IInv, NEW m \in Ms, Spin(m) PROVE IInv'
<1>1. /\ pc[m] = "spin" /\ spinning' = [spinning EXCEPT ![m] = TRUE]
      /\ nmspinning' = nmspinning + 1 /\ pc' = [pc EXCEPT ![m] = "steal"]
      /\ UNCHANGED <<ret, mp, nextp, hand, todo, pVars, global, restVars>>
  BY DEF Spin, Goto
<1>2. /\ UNCHANGED <<pm, status, q, pidle>>
      /\ UNCHANGED <<nmidlelocked, gcwaiting, stopwait, waiting, dead, missed>>
  BY <1>1 DEF pVars, restVars
<1>3. TypeOK /\ PointInv /\ m \in Actors
  BY Finite DEF IInv
<1>4. pc'[m] = "steal" /\ \A b \in Actors : b # m => pc'[b] = pc[b]
  BY <1>1, <1>3, OthersStay
<1>5. Alike(pc[m], "steal") /\ "steal" \in Points /\ "steal" \notin Handoff
      /\ "steal" \in SpinPoints
  BY <1>1 DEF Alike, Working, Wakeup, Handoff, Starting, Calling, Points, SpinPoints
<1>6. pc[m] \notin Carry /\ "steal" \notin Carry
  BY <1>1 DEF Carry, Wakeup, Handoff, Calling
<1>7. /\ spinning' \in [Ms -> BOOLEAN] /\ spinning'[m]
      /\ \A n \in Ms : n # m => spinning'[n] = spinning[n]
  BY <1>1, <1>3 DEF TypeOK
<1>8. ~spinning[m] /\ q[mp[m]] = 0
  BY <1>1 DEF IInv, PointInv, ThreadInv, QueueInv
<1>9. ~Spins(m) /\ Spins(m)'
  BY <1>1, <1>7, <1>8 DEF Spins
<1>10. /\ PointInv' /\ LinkInv' /\ HeldInv' /\ StopInv' /\ QueueInv' /\ SpinnersInv'
       /\ nmspinning' \in Nat
  BY <1>1, <1>2, <1>5, <1>7, <1>8, <1>9, Moves
<1>11. TypeOK'
  BY <1>1, <1>2, <1>3, <1>5, <1>7, <1>10, QuietType DEF TypeOK
<1>12. GoroutinesInv'
  <2>1. \A n \in Ms : pc'[n] \in Carry <=> pc[n] \in Carry
    BY <1>4, <1>6, Finite
  <2>2. QED
    BY <1>1, <1>2, <2>1, GoroutinesSame DEF IInv
<1>13. WorkInv'
  BY <1>4, WorkHelped DEF Help
<1>14. GlobalInv'
  BY <1>1, <1>2 DEF IInv, GlobalInv
<1>15. QED
  BY <1>2, <1>10, <1>11, <1>12, <1>13, <1>14 DEF IInv

LEMMA StealInv == ASSUME IInv, NEW m \in Ms, Steal(m) PROVE IInv'
<1>1. /\ pc[m] = "steal"
      /\ UNCHANGED <<ret, mp, nextp, spinning, hand, todo, pm, status, pidle, schedVars>>
  BY DEF Steal
<1>2. TypeOK /\ PointInv /\ m \in Actors
  BY Finite DEF IInv
<1>3. pc[m] \in Working
  BY <1>1 DEF Working
<1>4. mp[m] \in Ps
  BY <1>2, <1>3 DEF TypeOK, PointInv, ThreadInv
<1>5. q[mp[m]] = 0
  BY <1>1 DEF IInv, QueueInv
<1>6. ret' \in [Ms -> {"sched", "find"}]
  BY <1>1, <1>2 DEF TypeOK
<1>7. UNCHANGED <<global, nmspinning, nmidlelocked, gcwaiting, stopwait, waiting, dead, missed>>
  BY <1>1 DEF schedVars, restVars
<1>8. ASSUME NEW x \in {"find", "stop"}, pc' = [pc EXCEPT ![m] = x], UNCHANGED q
      PROVE  IInv'
  <2>1. Alike(pc[m], x) /\ x \in Points \ Starting /\ x \notin Handoff /\ x \in Help
    BY <1>1 DEF Alike, Working, Wakeup, Handoff, Starting, Calling, Points, Help
  <2>2. (pc[m] \in Carry <=> x \in Carry) /\ {pc[m], x} \cap Counted = {} /\ x \in SpinPoints
    BY <1>1 DEF Carry, Counted, Wakeup, Handoff, Calling, SpinPoints
  <2>3. UNCHANGED pVars
    BY <1>1, <1>8 DEF pVars
  <2>4. QED
    BY <1>1, <1>5, <1>6, <1>8, <2>1, <2>2, <2>3, QuietHelped
<1>9. ASSUME NEW p \in Ps \ {mp[m]}, q[p] > 0, pc' = [pc EXCEPT ![m] = "reset"],
             q' = [q EXCEPT ![p] = @ \div 2, ![mp[m]] = @ + q[p] - (q[p] \div 2) - 1]
      PROVE  IInv'
  <2> DEFINE half == q[p] \div 2
             mine == q[p] - half - 1
             cut  == [q EXCEPT ![p] = half]
  <2>1. q[p] \in 0..NG /\ q[p] \in Nat /\ NG \in Nat /\ q \in [Ps -> 0..NG]
        /\ Cardinality(Places(q)) \in Nat
    BY <1>4, NotMore
  <2>2. half \in 0..NG /\ mine \in 0..NG
    BY <1>9, <2>1
  <2>3. cut \in [Ps -> 0..NG] /\ cut[mp[m]] = 0 /\ q' = [cut EXCEPT ![mp[m]] = mine]
    <3>1. half \in Nat /\ mine = 0 + q[p] - half - 1
      BY <2>1
    <3>2. cut \in [Ps -> 0..NG] /\ cut[mp[m]] = 0
      BY <1>5, <2>1, <2>2
    <3>3. q' = [q EXCEPT ![p] = half, ![mp[m]] = 0 + q[p] - half - 1]
      BY <1>5, <1>9
    <3>4. QED
      BY <3>1, <3>2, <3>3
  <2>4. Cardinality(Places(cut)) = Cardinality(Places(q)) + half - q[p]
    BY <2>1, <2>2, PlacesMove
  <2>5. q' \in [Ps -> 0..NG] /\ \A r \in Ps : q[r] = 0 => q'[r] = 0 \/ r = mp[m]
    <3>1. q[p] # 0
      BY <1>9
    <3> HIDE DEF half, mine
    <3>2. QED
      BY <2>1, <2>2, <2>3, <3>1
  <2> HIDE DEF cut
  <2>6. Cardinality(Places(q')) = Cardinality(Places(cut)) + mine - 0
    <3> HIDE DEF mine
    <3>1. QED
      BY <1>4, <2>2, <2>3, PlacesMove
  <2>7. Cardinality(Places(q')) = Cardinality(Places(q)) - 1
    BY <2>1, <2>2, <2>4, <2>6
  <2>8. Alike(pc[m], "reset") /\ "reset" \in Points /\ "reset" \notin Handoff
        /\ "reset" \in SpinPoints
    BY <1>1 DEF Alike, Working, Wakeup, Handoff, Starting, Calling, Points, SpinPoints
  <2>9. pc'[m] = "reset"
    BY <1>2, <1>9, OthersStay
  <2>10. Spins(m)' <=> Spins(m)
    BY <1>1, <2>9 DEF Spins
  <2>11. /\ PointInv' /\ LinkInv' /\ HeldInv' /\ StopInv' /\ QueueInv' /\ SpinnersInv'
         /\ nmspinning' \in Nat
    BY <1>1, <1>3, <1>7, <1>9, <2>5, <2>8, <2>10, Moves
  <2>12. TypeOK'
    BY <1>1, <1>2, <1>7, <1>9, <2>5, <2>8, QuietType DEF TypeOK
  <2>13. GoroutinesInv'
    <3>1. InHand("reset") = 1 /\ InHand(pc[m]) = 0
      BY <1>1 DEF InHand, Carry, Wakeup, Handoff, Calling
    <3>2. waiting \in Nat /\ global \in Nat
      BY <1>2 DEF TypeOK
    <3>3. waiting' + global' + Cardinality(Places(q')) + InHand("reset")
            = waiting + global + Cardinality(Places(q)) + InHand(pc[m])
      BY <1>7, <2>1, <2>7, <3>1, <3>2
    <3>4. waiting' \in Nat /\ global' \in Nat
      BY <1>7, <3>2
    <3>5. QED
      BY <1>4, <1>9, <2>5, <3>3, <3>4, GoroutinesMoved
  <2>14. WorkInv'
    BY <2>9, WorkHelped DEF Help
  <2>15. GlobalInv'
    BY <1>1, <1>3, GlobalByWorker
  <2>16. QED
    BY <1>7, <2>11, <2>12, <2>13, <2>14, <2>15 DEF IInv
<1>10. QED
  BY <1>8, <1>9 DEF Steal, Goto

\* It no longer spins, but has all queues still to look at.
LEMMA ReleasedInv == ASSUME IInv, NEW m \in Ms, Released(m) PROVE IInv'
<1>1. /\ pc[m] = "released" /\ spinning' = [spinning EXCEPT ![m] = FALSE]
      /\ nmspinning' = IF spinning[m] THEN nmspinning - 1 ELSE nmspinning
      /\ todo' = [todo EXCEPT ![m] = Ps] /\ pc' = [pc EXCEPT ![m] = "recheck"]
      /\ UNCHANGED <<ret, mp, nextp, hand, pVars, global, restVars>>
  BY DEF Released, Goto
<1>2. /\ UNCHANGED <<pm, status, q, pidle>>
      /\ UNCHANGED <<nmidlelocked, gcwaiting, stopwait, waiting, dead, missed>>
  BY <1>1 DEF pVars, restVars
<1>3. TypeOK /\ PointInv /\ m \in Actors
  BY Finite DEF IInv
<1>4. pc'[m] = "recheck" /\ \A b \in Actors : b # m => pc'[b] = pc[b]
  BY <1>1, <1>3, OthersStay
<1>5. Alike(pc[m], "recheck") /\ "recheck" \in Points /\ "recheck" \notin Handoff
  BY <1>1 DEF Alike, Working, Wakeup, Handoff, Starting, Calling, Points
<1>6. pc[m] \notin Carry /\ "recheck" \notin Carry
  BY <1>1 DEF Carry, Wakeup, Handoff, Calling
<1>7. /\ spinning' \in [Ms -> BOOLEAN] /\ ~spinning'[m]
      /\ \A n \in Ms : n # m => spinning'[n] = spinning[n]
  BY <1>1, <1>3 DEF TypeOK
<1>8. (Spins(m) <=> spinning[m]) /\ ~Spins(m)'
  BY <1>1, <1>4, <1>7 DEF Spins
<1>9. /\ PointInv' /\ LinkInv' /\ HeldInv' /\ StopInv' /\ QueueInv' /\ SpinnersInv'
      /\ nmspinning' \in Nat
  BY <1>1, <1>2, <1>5, <1>7, <1>8, Moves
<1>10. todo' \in [Ms -> SUBSET Ps] /\ todo'[m] = Ps
  BY <1>1, <1>3 DEF TypeOK
<1>11. TypeOK'
  BY <1>1, <1>2, <1>3, <1>5, <1>7, <1>9, <1>10, QuietType DEF TypeOK
<1>12. GoroutinesInv'
  <2>1. \A n \in Ms : pc'[n] \in Carry <=> pc[n] \in Carry
    BY <1>4, <1>6, Finite
  <2>2. QED
    BY <1>1, <1>2, <2>1, GoroutinesSame DEF IInv
<1>13. WorkInv'
  <2>1. \A p \in Ps : Helps(m, p)'
    BY <1>4, <1>10 DEF Helps
  <2>2. QED
    BY <2>1 DEF WorkInv
<1>14. GlobalInv'
  BY <1>1, <1>2 DEF IInv, GlobalInv
<1>15. QED
  BY <1>2, <1>9, <1>11, <1>12, <1>13, <1>14 DEF IInv

\* It passes by queues that are empty only.
LEMMA RecheckInv == ASSUME IInv, NEW m \in Ms, Recheck(m) PROVE IInv'
<1>1. /\ pc[m] = "recheck"
      /\ UNCHANGED <<mp, nextp, spinning, hand, pVars, schedVars>>
  BY DEF Recheck
<1>2. PICK p \in todo[m] :
           IF q[p] > 0
           THEN pc' = [pc EXCEPT ![m] = "again"] /\ todo' = [todo EXCEPT ![m] = {}]
           ELSE /\ todo' = [todo EXCEPT ![m] = @ \ {p}]
                /\ pc' = [pc EXCEPT ![m] = IF todo[m] = {p} THEN "stopm" ELSE "recheck"]
  BY DEF Recheck, Goto
<1>3. PICK x \in {"again", "stopm", "recheck"} :
           /\ pc' = [pc EXCEPT ![m] = x]
           /\ x # "again" => ~(q[p] > 0) /\ todo' = [todo EXCEPT ![m] = @ \ {p}]
           /\ x = "stopm" => todo[m] = {p}
  BY <1>2
<1>4. /\ UNCHANGED <<pm, status, q, pidle, global, nmspinning>>
      /\ UNCHANGED <<nmidlelocked, gcwaiting, stopwait, waiting, dead, missed>>
  BY <1>1 DEF pVars, schedVars, restVars
<1>5. TypeOK /\ PointInv /\ WorkInv /\ m \in Actors
  BY Finite DEF IInv
<1>6. pc'[m] = x /\ \A b \in Actors : b # m => pc'[b] = pc[b]
  BY <1>3, <1>5, OthersStay
<1>7. Alike(pc[m], x) /\ (pc[m] \in Carry <=> x \in Carry)
  BY <1>1 DEF Alike, Working, Wakeup, Handoff, Starting, Calling, Carry
<1>8. x \in Points \ Starting /\ {pc[m], x} \cap Counted = {}
  BY <1>1 DEF Points, Starting, Counted
<1>9. ~spinning[m]
  BY <1>1, <1>5 DEF PointInv, ThreadInv
<1>10. /\ PointInv' /\ LinkInv' /\ HeldInv' /\ StopInv' /\ QueueInv'
       /\ SpinnersInv' /\ GoroutinesInv' /\ GlobalInv'
  BY <1>1, <1>3, <1>4, <1>5, <1>7, <1>8, <1>9, Quiet
<1>11. ret' \in [Ms -> {"sched", "find"}] /\ todo' \in [Ms -> SUBSET Ps]
  BY <1>2, <1>5 DEF Recheck, TypeOK
<1>12. TypeOK'
  BY <1>1, <1>3, <1>4, <1>5, <1>8, <1>11, QuietType DEF TypeOK
<1>13. WorkInv'
  <2>1. CASE x = "again"
    BY <1>6, <2>1, WorkHelped DEF Help
  <2>2. CASE x # "again"
    <3>1. ~(q[p] > 0) /\ todo'[m] = todo[m] \ {p} /\ \A n \in Ms : n # m => todo'[n] = todo[n]
      BY <1>3, <1>5, <2>2 DEF TypeOK
    <3>2. pc[m] \notin Help
      BY <1>1 DEF Help
    <3>3. ASSUME NEW n \in Ms, NEW r \in Ps, q[r] > 0, Helps(n, r)
          PROVE  Helps(n, r)'
      <4>1. CASE n = m
        <5>1. r \in todo[m] /\ r # p
          BY <3>1, <3>2, <3>3, <4>1 DEF Helps
        <5>2. pc'[m] = "recheck" /\ r \in todo'[m]
          BY <1>3, <1>6, <2>2, <3>1, <5>1
        <5>3. QED
          BY <4>1, <5>2 DEF Helps
      <4>2. CASE n # m
        BY <1>6, <3>1, <3>3, <4>2, Finite DEF Helps
      <4>3. QED
        BY <4>1, <4>2
    <3>4. \A b \in Actors : Spins(b) => Spins(b)'
      BY <1>1, <1>6, <1>9 DEF Spins
    <3>5. QED
      BY <1>4, <1>5, <3>3, <3>4, WorkKept
  <2>3. QED
    BY <2>1, <2>2
<1>14. QED
  BY <1>4, <1>10, <1>12, <1>13 DEF IInv

\* The queue of the P that a new spinning thread gets is empty.
LEMMA MspinningInv == ASSUME IInv, NEW m \in Ms, Mspinning(m) PROVE IInv'
<1>1. /\ pc[m] = "new" /\ pc' = [pc EXCEPT ![m] = "woken"]
      /\ UNCHANGED <<ret, mp, nextp, hand, todo, pVars, global, restVars>>
  BY DEF Mspinning, Goto
<1>2. /\ UNCHANGED <<pm, status, q, pidle>>
      /\ UNCHANGED <<nmidlelocked, gcwaiting, stopwait, waiting, dead, missed>>
  BY <1>1 DEF pVars, restVars
<1>3. TypeOK /\ PointInv /\ m \in Actors
  BY Finite DEF IInv
<1>4. q[nextp[m]] = 0
  BY <1>1 DEF IInv, QueueInv
<1>5. spinning' = [spinning EXCEPT ![m] = TRUE] /\ UNCHANGED nmspinning
  BY <1>4 DEF Mspinning
<1>6. pc'[m] = "woken" /\ \A b \in Actors : b # m => pc'[b] = pc[b]
  BY <1>1, <1>3, OthersStay
<1>7. Alike(pc[m], "woken") /\ "woken" \in Points /\ "woken" \notin Handoff
      /\ "woken" \in SpinPoints
  BY <1>1 DEF Alike, Working, Wakeup, Handoff, Starting, Calling, Points, SpinPoints
<1>8. pc[m] \notin Carry /\ "woken" \notin Carry
  BY <1>1 DEF Carry, Wakeup, Handoff, Calling
<1>9. /\ spinning' \in [Ms -> BOOLEAN] /\ spinning'[m]
      /\ \A n \in Ms : n # m => spinning'[n] = spinning[n]
  BY <1>3, <1>5 DEF TypeOK
<1>10. Spins(m) /\ Spins(m)'
  BY <1>1, <1>9 DEF Spins
<1>11. /\ PointInv' /\ LinkInv' /\ HeldInv' /\ StopInv' /\ QueueInv' /\ SpinnersInv'
       /\ nmspinning' \in Nat
  BY <1>1, <1>2, <1>4, <1>5, <1>7, <1>9, <1>10, Moves
<1>12. TypeOK'
  BY <1>1, <1>2, <1>3, <1>7, <1>9, <1>11, QuietType DEF TypeOK
<1>13. GoroutinesInv'
  <2>1. \A n \in Ms : pc'[n] \in Carry <=> pc[n] \in Carry
    BY <1>6, <1>8, Finite
  <2>2. QED
    BY <1>1, <1>2, <2>1, GoroutinesSame DEF IInv
<1>14. WorkInv' /\ GlobalInv'
  BY <1>1, <1>2, <1>3, <1>10, WorkSpun DEF IInv, GlobalInv
<1>15. QED
  BY <1>2, <1>11, <1>12, <1>13, <1>14 DEF IInv

LEMMA GcStopSpinningInv == ASSUME IInv, NEW m \in Ms, GcStopSpinning(m) PROVE IInv'
<1>1. /\ pc[m] = "gcstop" /\ spinning[m] /\ spinning' = [spinning EXCEPT ![m] = FALSE]
      /\ nmspinning' = nmspinning - 1
      /\ UNCHANGED <<pc, ret, mp, nextp, hand, todo, pVars, global, restVars>>
  BY DEF GcStopSpinning
<1>2. /\ UNCHANGED <<pm, status, q, pidle>>
      /\ UNCHANGED <<nmidlelocked, gcwaiting, stopwait, waiting, dead, missed>>
  BY <1>1 DEF pVars, restVars
<1>3. TypeOK /\ PointInv /\ StopInv /\ m \in Actors
  BY Finite DEF IInv
<1>4. pc' = [pc EXCEPT ![m] = "gcstop"]
  BY <1>1, <1>3 DEF TypeOK
<1>5. gcwaiting /\ pidle = {}
  BY <1>1, <1>3 DEF StopInv
<1>6. Alike(pc[m], "gcstop") /\ "gcstop" \in Points /\ "gcstop" \notin Handoff
  BY <1>1 DEF Alike, Working, Wakeup, Handoff, Starting, Calling, Points
<1>7. /\ spinning' \in [Ms -> BOOLEAN] /\ ~spinning'[m]
      /\ \A n \in Ms : n # m => spinning'[n] = spinning[n]
  BY <1>1, <1>3 DEF TypeOK
<1>8. Spins(m) /\ ~Spins(m)'
  BY <1>1, <1>7 DEF Spins
<1>9. /\ PointInv' /\ LinkInv' /\ HeldInv' /\ StopInv' /\ QueueInv' /\ SpinnersInv'
      /\ nmspinning' \in Nat
  BY <1>1, <1>2, <1>4, <1>5, <1>6, <1>7, <1>8, Moves
<1>10. TypeOK'
  BY <1>1, <1>2, <1>3, <1>4, <1>6, <1>7, <1>9, QuietType DEF TypeOK
<1>11. GoroutinesInv'
  BY <1>1, <1>2, GoroutinesSame DEF IInv
<1>12. WorkInv' /\ GlobalInv'
  BY <1>1, <1>2, <1>5 DEF IInv, GlobalInv, WorkInv
<1>13. QED
  BY <1>2, <1>9, <1>10, <1>11, <1>12 DEF IInv

(***************************************************************************)
(* What a goroutine does that moves no P                                   *)
(***************************************************************************)

\* A goroutine is made runnable, blocks, or yields: m goes to x, and the counts change.
LEMMA CountsMove ==
  ASSUME IInv, NEW m \in Ms, pc[m] = "run", NEW x \in {"npidle", "sched"},
         pc' = [pc EXCEPT ![m] = x], waiting' \in Nat, global' \in Nat, q' \in [Ps -> 0..NG],
         \A p \in Ps : p # mp[m] => q'[p] = q[p],
         waiting' + global' + Cardinality(Places(q')) + InHand(x)
           = waiting + global + Cardinality(Places(q)) + InHand(pc[m]),
         x = "sched" => UNCHANGED q,
         UNCHANGED <<ret, mp, nextp, spinning, hand, todo, pm, status, pidle, nmspinning,
                     nmidlelocked, gcwaiting, stopwait, dead, missed>>
  PROVE  IInv'
<1>1. TypeOK /\ PointInv /\ WorkInv /\ m \in Actors /\ pc[m] \in Working
  BY Finite DEF IInv, Working
<1>2. mp[m] \in Ps /\ ~spinning[m]
  BY <1>1 DEF TypeOK, PointInv, ThreadInv
<1>3. pc'[m] = x
  BY <1>1, OthersStay
<1>4. Alike(pc[m], x) /\ x \in Points /\ x \notin Handoff
  BY DEF Alike, Working, Wakeup, Handoff, Starting, Calling, Points
<1>5. ~Spins(m) /\ ~Spins(m)'
  BY <1>2, <1>3 DEF Spins
<1>6. /\ PointInv' /\ LinkInv' /\ HeldInv' /\ StopInv' /\ QueueInv' /\ SpinnersInv'
      /\ nmspinning' \in Nat
  BY <1>1, <1>2, <1>4, <1>5, Moves
<1>7. TypeOK'
  BY <1>1, <1>4, <1>6, QuietType DEF TypeOK
<1>8. GoroutinesInv'
  BY <1>2, GoroutinesMoved
<1>9. WorkInv'
  <2>1. CASE x = "npidle"
    BY <1>3, <2>1, WorkHelped DEF Help
  <2>2. CASE x = "sched"
    <3>1. pc[m] \notin Help \cup {"recheck"}
      BY DEF Help
    <3>2. QED
      BY <1>1, <1>5, <2>2, <3>1, WorkBystander
  <2>3. QED
    BY <2>1, <2>2
<1>10. GlobalInv'
  BY <1>1, GlobalByWorker
<1>11. QED
  BY <1>6, <1>7, <1>8, <1>9, <1>10 DEF IInv

LEMMA ReadyInv == ASSUME IInv, NEW m \in Ms, Ready(m) PROVE IInv'
<1>1. /\ pc[m] = "run" /\ waiting > 0 /\ waiting' = waiting - 1
      /\ q' = [q EXCEPT ![mp[m]] = @ + 1] /\ pc' = [pc EXCEPT ![m] = "npidle"]
      /\ UNCHANGED <<ret, mp, nextp, spinning, hand, todo, pm, status, pidle, global,
                    nmspinning, nmidlelocked, gcwaiting, stopwait, dead, missed>>
  BY DEF Ready, Goto
<1>2. mp[m] \in Ps
  BY <1>1 DEF IInv, TypeOK, PointInv, ThreadInv, Working
<1>3. /\ q[mp[m]] \in Nat /\ global \in Nat /\ waiting \in Nat
      /\ q[mp[m]] + global + waiting <= NG
      /\ Cardinality(Places(q)) \in Nat /\ NG \in Nat /\ q \in [Ps -> 0..NG]
  BY <1>2, NotMore
<1>4. q[mp[m]] < NG
  BY <1>1, <1>3
<1>5. /\ q' \in [Ps -> 0..NG] /\ \A r \in Ps : r # mp[m] => q'[r] = q[r]
      /\ Cardinality(Places(q')) = Cardinality(Places(q)) + 1
  BY <1>1, <1>2, <1>3, <1>4, OneMore
<1>6. InHand("npidle") = 1 /\ InHand(pc[m]) = 1
  BY <1>1 DEF InHand, Carry, Wakeup
<1>7. waiting' + global' + Cardinality(Places(q')) + InHand("npidle")
        = waiting + global + Cardinality(Places(q)) + InHand(pc[m])
  BY <1>1, <1>3, <1>5, <1>6
<1>8. waiting' \in Nat /\ global' \in Nat
  BY <1>1, <1>3
<1>9. QED
  BY <1>1, <1>5, <1>7, <1>8, CountsMove

LEMMA BlockInv == ASSUME IInv, NEW m \in Ms, Block(m) PROVE IInv'
<1>1. /\ pc[m] = "run" /\ waiting' = waiting + 1 /\ pc' = [pc EXCEPT ![m] = "sched"]
      /\ UNCHANGED <<ret, mp, nextp, spinning, hand, todo, pVars, global, nmspinning,
                    nmidlelocked, gcwaiting, stopwait, dead, missed>>
  BY DEF Block, Goto
<1>2. UNCHANGED <<pm, status, q, pidle>>
  BY <1>1 DEF pVars
<1>3. mp[m] \in Ps
  BY <1>1 DEF IInv, TypeOK, PointInv, ThreadInv, Working
<1>4. /\ global \in Nat /\ waiting \in Nat
      /\ Cardinality(Places(q)) \in Nat /\ q \in [Ps -> 0..NG]
  BY <1>3, NotMore
<1>5. InHand("sched") = 0 /\ InHand(pc[m]) = 1
  BY <1>1 DEF InHand, Carry, Wakeup, Handoff, Calling
<1>6. waiting' + global' + Cardinality(Places(q')) + InHand("sched")
        = waiting + global + Cardinality(Places(q)) + InHand(pc[m])
  BY <1>1, <1>2, <1>4, <1>5
<1>7. waiting' \in Nat /\ global' \in Nat
  BY <1>1, <1>4
<1>8. QED
  BY <1>1, <1>2, <1>4, <1>6, <1>7, CountsMove

LEMMA GoschedInv == ASSUME IInv, NEW m \in Ms, Gosched(m) PROVE IInv'
<1>1. /\ pc[m] = "run" /\ global' = global + 1 /\ pc' = [pc EXCEPT ![m] = "sched"]
      /\ UNCHANGED <<ret, mp, nextp, spinning, hand, todo, pVars, nmspinning, restVars>>
  BY DEF Gosched, Goto
<1>2. /\ UNCHANGED <<pm, status, q, pidle>>
      /\ UNCHANGED <<nmidlelocked, gcwaiting, stopwait, waiting, dead, missed>>
  BY <1>1 DEF pVars, restVars
<1>3. mp[m] \in Ps
  BY <1>1 DEF IInv, TypeOK, PointInv, ThreadInv, Working
<1>4. /\ global \in Nat /\ waiting \in Nat
      /\ Cardinality(Places(q)) \in Nat /\ q \in [Ps -> 0..NG]
  BY <1>3, NotMore
<1>5. InHand("sched") = 0 /\ InHand(pc[m]) = 1
  BY <1>1 DEF InHand, Carry, Wakeup, Handoff, Calling
<1>6. waiting' + global' + Cardinality(Places(q')) + InHand("sched")
        = waiting + global + Cardinality(Places(q)) + InHand(pc[m])
  BY <1>1, <1>2, <1>4, <1>5
<1>7. waiting' \in Nat /\ global' \in Nat
  BY <1>1, <1>2, <1>4
<1>8. QED
  BY <1>1, <1>2, <1>4, <1>6, <1>7, CountsMove

(***************************************************************************)
(* checkdead                                                               *)
(***************************************************************************)

\* When no thread has anything in hand, all Ps are idle, no goroutine is in a
\* queue, and so all wait.
LEMMA AllParked ==
  ASSUME IInv, \A n \in Ms : pc[n] \in {"none", "parked", "stopm"}, pc[Sysmon] \in {"idle", "inc"}
  PROVE  waiting = NG
<1>1. TypeOK /\ PointInv /\ LinkInv /\ HeldInv /\ StopInv /\ QueueInv /\ GoroutinesInv /\ GlobalInv
  BY DEF IInv
<1>2. \A n \in Ms : pc[n] \notin Working /\ pc[n] \notin Calling /\ pc[n] \notin Carry
                    /\ pc[n] # "stopping"
  BY DEF Working, Wakeup, Calling, Carry, Handoff
<1>3. \A a \in Actors : pc[a] \notin Handoff /\ pc[a] \notin Starting
  BY Finite DEF Handoff, Starting
<1>4. \A a \in Actors : Held(a) = None
  BY <1>3 DEF Held
<1>5. ~gcwaiting
  BY <1>1, <1>2 DEF StopInv
<1>6. \A p \in Ps : p \in pidle
  <2>1. \A p \in Ps : p # None
    BY SchedAssumption
  <2>2. ASSUME NEW p \in Ps
        PROVE  status[p] = "idle"
    <3>1. status[p] # "gcstop"
      BY <1>1, <1>5 DEF StopInv
    <3>2. status[p] # "syscall"
      BY <1>1, <1>2 DEF LinkInv
    <3>3. pm[p] = None
      BY <1>1, <1>2 DEF LinkInv, TypeOK
    <3>4. status[p] # "running"
      BY <1>1, <3>3 DEF LinkInv
    <3>5. QED
      BY <1>1, <3>1, <3>2, <3>4 DEF TypeOK
  <2>3. QED
    BY <1>1, <1>4, <2>1, <2>2 DEF HeldInv
<1>7. global = 0
  BY <1>1, <1>6 DEF TypeOK, GlobalInv
<1>8. Cardinality(Carrying) = 0
  <2>1. Carrying = {}
    BY <1>2 DEF Carrying
  <2>2. QED
    BY <2>1, FS_EmptySet
<1>9. Cardinality(Places(q)) = 0
  <2>1. \A p \in Ps : q[p] = 0
    BY <1>1, <1>6 DEF QueueInv
  <2>2. Places(q) = {}
    BY <2>1 DEF Places
  <2>3. QED
    BY <2>2, FS_EmptySet
<1>10. waiting \in Nat /\ NG \in Nat
  BY <1>1, SchedAssumption DEF TypeOK
<1>11. waiting + global + Cardinality(Places(q)) + Cardinality(Carrying) = NG
  BY <1>1 DEF GoroutinesInv
<1>12. QED
  BY <1>7, <1>8, <1>9, <1>10, <1>11

\* What checkdead counts: parked threads are threads, and if only m is not parked,
\* the others are or do not exist.
LEMMA ThreadCounts ==
  LET all == {n \in Ms : pc[n] # "none"} IN
  /\ Cardinality(all) \in Nat /\ nmidle \in Nat /\ nmidle <= Cardinality(all)
  /\ nmidle = Cardinality(all) => \A n \in Ms : pc[n] \in {"none", "parked"}
  /\ \A m \in Ms : pc[m] \notin {"none", "parked"} =>
       /\ nmidle + 1 <= Cardinality(all)
       /\ nmidle + 1 = Cardinality(all) => \A n \in Ms : n = m \/ pc[n] \in {"none", "parked"}
<1> DEFINE all    == {n \in Ms : pc[n] # "none"}
           parked == {n \in Ms : pc[n] = "parked"}
<1>1. IsFiniteSet(all)
  <2>1. all \in SUBSET Ms
    OBVIOUS
  <2>2. QED
    BY <2>1, SchedAssumption, FS_Subset
<1>2. parked \in SUBSET all
  OBVIOUS
<1>3. IsFiniteSet(parked) /\ Cardinality(parked) <= Cardinality(all)
      /\ (Cardinality(parked) = Cardinality(all) => parked = all)
  BY <1>1, <1>2, FS_Subset
<1>4. Cardinality(parked) \in Nat /\ Cardinality(all) \in Nat
  BY <1>1, <1>3, FS_CardinalityType
<1>5. ASSUME NEW m \in Ms, pc[m] \notin {"none", "parked"}
      PROVE  /\ Cardinality(parked) + 1 <= Cardinality(all)
             /\ Cardinality(parked) + 1 = Cardinality(all) =>
                  \A n \in Ms : n = m \/ pc[n] \in {"none", "parked"}
  <2> DEFINE more == parked \cup {m}
  <2>1. IsFiniteSet(more) /\ Cardinality(more) = Cardinality(parked) + 1
    BY <1>3, <1>5, FS_AddElement
  <2>2. more \in SUBSET all
    BY <1>2, <1>5
  <2>3. Cardinality(more) <= Cardinality(all) /\ (Cardinality(more) = Cardinality(all) => more = all)
    BY <1>1, <2>2, FS_Subset
  <2>4. more = all => \A n \in Ms : n = m \/ pc[n] \in {"none", "parked"}
    OBVIOUS
  <2> HIDE DEF more
  <2>5. QED
    BY <2>1, <2>3, <2>4
<1>6. parked = all => \A n \in Ms : pc[n] \in {"none", "parked"}
  OBVIOUS
<1>7. nmidle = Cardinality(parked)
  BY DEF nmidle
<1> HIDE DEF parked
<1>8. QED
  BY <1>3, <1>4, <1>5, <1>6, <1>7

LEMMA StopmInv == ASSUME IInv, NEW m \in Ms, Stopm(m) PROVE IInv'
<1> DEFINE all == {n \in Ms : pc[n] # "none"}
           run == Cardinality(all) - (nmidle + 1) - nmidlelocked
<1>1. /\ pc[m] = "stopm" /\ pc' = [pc EXCEPT ![m] = "parked"]
      /\ dead' = IF run > 0 THEN dead
                 ELSE IF run < 0 \/ waiting < NG THEN "throw" ELSE "deadlock"
      /\ UNCHANGED <<ret, mp, nextp, spinning, hand, todo, pVars, global, nmspinning,
                    nmidlelocked, gcwaiting, stopwait, waiting, missed>>
  BY DEF Stopm, Goto, Checkdead
<1>2. UNCHANGED <<pm, status, q, pidle>>
  BY <1>1 DEF pVars
<1>3. TypeOK /\ PointInv /\ WorkInv /\ m \in Actors /\ dead # "throw"
  BY Finite DEF IInv
<1>4. ~spinning[m] /\ ~Spins(m)
  BY <1>1, <1>3 DEF PointInv, ThreadInv, Spins
<1>5. Alike(pc[m], "parked") /\ (pc[m] \in Carry <=> "parked" \in Carry)
  BY <1>1 DEF Alike, Working, Wakeup, Handoff, Starting, Calling, Carry
<1>6. "parked" \in Points \ Starting /\ {pc[m], "parked"} \cap Counted = {}
  BY <1>1 DEF Points, Starting, Counted
<1>7. /\ PointInv' /\ LinkInv' /\ HeldInv' /\ StopInv' /\ QueueInv'
      /\ SpinnersInv' /\ GoroutinesInv' /\ GlobalInv'
  BY <1>1, <1>3, <1>4, <1>5, <1>6, Quiet
<1>8. dead' \in {"no", "deadlock", "throw"} /\ dead' # "throw"
  <2>1. /\ Cardinality(all) \in Nat /\ nmidle \in Nat /\ nmidle + 1 <= Cardinality(all)
        /\ nmidle + 1 = Cardinality(all) => \A n \in Ms : n = m \/ pc[n] \in {"none", "parked"}
    BY <1>1, ThreadCounts
  <2>2. nmidlelocked = IF pc[Sysmon] = "idle" THEN 0 ELSE -1
    BY <1>3 DEF PointInv
  <2>3. run \in Int /\ run >= 0
    BY <2>1, <2>2
  <2>4. CASE run > 0
    BY <1>1, <1>3, <2>4 DEF TypeOK
  <2>5. CASE run = 0
    <3>1. nmidlelocked = 0 /\ nmidle + 1 = Cardinality(all)
      BY <2>1, <2>2, <2>5
    <3>2. pc[Sysmon] = "idle"
      BY <2>2, <3>1
    <3>3. \A n \in Ms : pc[n] \in {"none", "parked", "stopm"}
      BY <1>1, <2>1, <3>1
    <3>4. waiting = NG
      BY <3>2, <3>3, AllParked
    <3>5. ~(waiting < NG)
      BY <3>4, SchedAssumption
    <3>6. QED
      BY <1>1, <2>5, <3>5
  <2> HIDE DEF run
  <2>6. QED
    BY <2>3, <2>4, <2>5
<1>9. TypeOK'
  BY <1>1, <1>2, <1>3, <1>6, <1>8, QuietType DEF TypeOK
<1>10. WorkInv'
  <2>1. pc[m] \notin Help \cup {"recheck"}
    BY <1>1 DEF Help
  <2>2. QED
    BY <1>1, <1>2, <1>3, <1>4, <2>1, WorkBystander
<1>11. QED
  BY <1>7, <1>8, <1>9, <1>10 DEF IInv

(***************************************************************************)
(* Steps of one actor that moves a P                                       *)
(***************************************************************************)

\* Nobody but a does anything.
Only(a) ==
  /\ \A b \in Actors : b # a => pc'[b] = pc[b] /\ hand'[b] = hand[b]
  /\ \A n \in Ms : n # a => /\ mp'[n] = mp[n] /\ nextp'[n] = nextp[n]
                            /\ spinning'[n] = spinning[n] /\ todo'[n] = todo[n]

LEMMA PointMove ==
  ASSUME PointInv, NEW a \in Actors, Only(a), a \in Ms => ThreadInv(a)' /\ UNCHANGED nmidlelocked,
         hand'[a] # None <=> pc'[a] \in Handoff \cup {"retake"},
         a = Sysmon => /\ pc'[a] \in Handoff \cup {"idle", "retake", "inc"}
                       /\ nmidlelocked' = IF pc'[a] = "idle" THEN 0 ELSE -1
  PROVE  PointInv'
<1>1. ASSUME NEW n \in Ms
      PROVE  ThreadInv(n)'
  <2>1. CASE n = a
    BY <2>1
  <2>2. CASE n # a
    BY <2>2, Finite DEF PointInv, ThreadInv, Only
  <2>3. QED
    BY <2>1, <2>2
<1>2. \A b \in Actors : hand'[b] # None <=> pc'[b] \in Handoff \cup {"retake"}
  BY DEF PointInv, Only
<1>3. /\ pc'[Sysmon] \in Handoff \cup {"idle", "retake", "inc"}
      /\ nmidlelocked' = IF pc'[Sysmon] = "idle" THEN 0 ELSE -1
  BY Finite DEF PointInv, Only
<1>4. QED
  BY <1>1, <1>2, <1>3 DEF PointInv

\* p goes to m or leaves it.
LinkChange(m, p) ==
  /\ \A r \in Ps : r # p => status'[r] = status[r] /\ pm'[r] = pm[r]
  /\ mp[m] \in {None, p}
  /\ \A n \in Ms : n # m /\ pc[n] \in Working => mp[n] # p
  /\ pc'[m] \in Working =>
       mp'[m] = p /\ pm'[p] = m /\ status'[p] = IF pc'[m] = "stopping" THEN "gcstop" ELSE "running"
  /\ pm'[p] # None => pm'[p] = m /\ pc'[m] \in Working
  /\ status'[p] = "running" => pm'[p] # None
  /\ status'[p] = "syscall" => mp'[m] = p /\ pc'[m] \in Calling

LEMMA LinkMove ==
  ASSUME TypeOK, PointInv, LinkInv, NEW m \in Ms, NEW p \in Ps, Only(m), LinkChange(m, p)
  PROVE  LinkInv'
<1> USE DEF LinkChange
<1>1. \A n \in Ms : n # m => pc'[n] = pc[n] /\ mp'[n] = mp[n]
  BY Finite DEF Only
<1>2. None \notin Ps
  BY SchedAssumption
<1>3. ASSUME NEW n \in Ms, pc'[n] \in Working
      PROVE  pm'[mp'[n]] = n /\ status'[mp'[n]] = IF pc'[n] = "stopping" THEN "gcstop" ELSE "running"
  <2>1. CASE n = m
    BY <1>3, <2>1
  <2>2. CASE n # m
    <3>1. /\ pc[n] \in Working /\ mp[n] # p /\ pm[mp[n]] = n
          /\ status[mp[n]] = IF pc[n] = "stopping" THEN "gcstop" ELSE "running"
      BY <1>1, <1>3, <2>2 DEF LinkInv
    <3>2. mp[n] \in Ps
      BY <3>1 DEF TypeOK, PointInv, ThreadInv
    <3>3. QED
      BY <1>1, <2>2, <3>1, <3>2
  <2>3. QED
    BY <2>1, <2>2
<1>4. ASSUME NEW r \in Ps
      PROVE  /\ pm'[r] # None => mp'[pm'[r]] = r /\ pc'[pm'[r]] \in Working
             /\ status'[r] = "running" => pm'[r] # None
             /\ status'[r] = "syscall" => \E n \in Ms : mp'[n] = r /\ pc'[n] \in Calling
  <2>1. CASE r = p
    BY <2>1
  <2>2. CASE r # p
    <3>1. /\ pm[r] # None => mp[pm[r]] = r /\ pc[pm[r]] \in Working
          /\ status[r] = "running" => pm[r] # None
          /\ status[r] = "syscall" => \E n \in Ms : mp[n] = r /\ pc[n] \in Calling
      BY DEF LinkInv
    <3>2. pm[r] \in Ms \cup {None} /\ mp[m] # r
      BY <1>2, <2>2 DEF TypeOK
    <3>3. pm'[r] = pm[r] /\ status'[r] = status[r]
      BY <2>2
    <3>4. QED
      BY <1>1, <3>1, <3>2, <3>3
  <2>3. QED
    BY <2>1, <2>2
<1>5. QED
  BY <1>3, <1>4 DEF LinkInv

\* p comes on the idle list or leaves it, or goes to the hand of a or leaves it.
LEMMA HeldMove ==
  ASSUME PointInv, HeldInv, NEW a \in Actors, NEW p \in Ps, Only(a),
         \A r \in Ps : r # p => status'[r] = status[r] /\ (r \in pidle' <=> r \in pidle),
         Held(a) \in {None, p}, Held(a)' \in {None, p},
         \A b \in Actors : b # a => Held(b) # p,
         status'[p] = "idle" <=> p \in pidle' \/ Held(a)' = p,
         ~(p \in pidle' /\ Held(a)' = p), pidle' \subseteq Ps
  PROVE  HeldInv'
<1>1. \A b \in Actors : b # a => Held(b)' = Held(b)
  <2>1. pc[Sysmon] \notin Starting
    BY DEF PointInv, Handoff, Starting
  <2>2. QED
    BY <2>1, Finite DEF Only, Held
<1>2. None \notin Ps
  BY SchedAssumption
<1>3. ASSUME NEW r \in Ps
      PROVE  status'[r] = "idle" <=> r \in pidle' \/ \E b \in Actors : Held(b)' = r
  <2>1. CASE r = p
    BY <1>1, <2>1
  <2>2. CASE r # p
    <3>1. status[r] = "idle" <=> r \in pidle \/ \E b \in Actors : Held(b) = r
      BY DEF HeldInv
    <3>2. Held(a) # r /\ Held(a)' # r
      BY <1>2, <2>2
    <3>3. QED
      BY <1>1, <2>2, <3>1, <3>2
  <2>3. QED
    BY <2>1, <2>2
<1>4. \A b, c \in Actors : Held(b)' = Held(c)' => b = c \/ Held(b)' = None
  BY <1>1 DEF HeldInv
<1>5. \A b \in Actors : Held(b)' \notin pidle'
  <2>1. \A b \in Actors : b # a => Held(b) \notin pidle /\ Held(b) # p
    BY DEF HeldInv
  <2>2. QED
    BY <1>1, <1>2, <2>1
<1>6. QED
  BY <1>3, <1>4, <1>5 DEF HeldInv

\* p stops, or goes on.
LEMMA StopMove ==
  ASSUME StopInv, NEW a \in Actors, NEW p \in Ps, Only(a),
         UNCHANGED gcwaiting, {pc[a], pc'[a]} \cap {"stopping"} = {}, pc'[a] = "gcstop" => gcwaiting,
         \A r \in Ps : r # p => status'[r] = status[r],
         gcwaiting => pidle' = {} /\ status[p] # "gcstop",
         IF status'[p] = "gcstop" THEN gcwaiting /\ stopwait' = stopwait - 1
         ELSE stopwait' = stopwait
  PROVE  StopInv' /\ (gcwaiting => stopwait' \in Nat)
<1> DEFINE left == {r \in Ps : status[r] # "gcstop"}
<1>1. \A n \in Ms : pc'[n] = "stopping" <=> pc[n] = "stopping"
  BY DEF Only, Actors
<1>2. \A n \in Ms : pc'[n] = "gcstop" => pc[n] = "gcstop" \/ gcwaiting
  BY DEF Only, Actors
<1>3. \A r \in Ps : status'[r] = "gcstop" => gcwaiting
  BY DEF StopInv
<1>4. ASSUME gcwaiting
      PROVE  stopwait' = Cardinality(left') /\ stopwait' \in Nat
  <2>1. IsFiniteSet(left)
    <3>1. left \in SUBSET Ps
      OBVIOUS
    <3>2. QED
      BY <3>1, SchedAssumption, FS_Subset
  <2>2. p \in left /\ \A y : y # p => (y \in left' <=> y \in left)
    BY <1>4
  <2>3. p \in left' <=> status'[p] # "gcstop"
    OBVIOUS
  <2>4. stopwait = Cardinality(left)
    BY <1>4 DEF StopInv
  <2> HIDE DEF left
  <2>5. /\ Cardinality(left) \in Nat /\ Cardinality(left') \in Nat
        /\ p \in left' => Cardinality(left') = Cardinality(left)
        /\ p \notin left' => Cardinality(left') = Cardinality(left) - 1
    BY <2>1, <2>2, SetMove
  <2>6. QED
    BY <2>3, <2>4, <2>5
<1>5. QED
  BY <1>1, <1>2, <1>3, <1>4 DEF StopInv

LEMMA QueueMove ==
  ASSUME QueueInv, NEW a \in Actors, Only(a), UNCHANGED q, \A p \in pidle' : q[p] = 0,
         pc'[a] \in {"handspin", "handidle", "handcas", "handlock", "startspin"} => q[hand'[a]] = 0,
         a \in Ms =>
           /\ pc'[a] \in {"decide", "spin", "steal", "stop"} => q[mp'[a]] = 0
           /\ pc'[a] = "sched" /\ spinning'[a] => q[mp'[a]] = 0
           /\ pc'[a] = "new" => q[nextp'[a]] = 0
           /\ pc'[a] = "woken" /\ spinning'[a] => q[nextp'[a]] = 0
  PROVE  QueueInv'
<1>1. \A b \in Actors :
        pc'[b] \in {"handspin", "handidle", "handcas", "handlock", "startspin"} => q'[hand'[b]] = 0
  BY DEF QueueInv, Only
<1>2. ASSUME NEW n \in Ms
      PROVE  /\ pc'[n] \in {"decide", "spin", "steal", "stop"} => q'[mp'[n]] = 0
             /\ pc'[n] = "sched" /\ spinning'[n] => q'[mp'[n]] = 0
             /\ pc'[n] = "new" => q'[nextp'[n]] = 0
             /\ pc'[n] = "woken" /\ spinning'[n] => q'[nextp'[n]] = 0
  <2>1. CASE n = a
    BY <2>1
  <2>2. CASE n # a
    BY <2>2, Finite DEF QueueInv, Only
  <2>3. QED
    BY <2>1, <2>2
<1>3. QED
  BY <1>1, <1>2 DEF QueueInv

\* The types, when these change.
LEMMA MoveType ==
  ASSUME TypeOK, pc' \in [Actors -> Points], ret' \in [Ms -> {"sched", "find"}],
         mp' \in [Ms -> Ps \cup {None}], nextp' \in [Ms -> Ps \cup {None}],
         spinning' \in [Ms -> BOOLEAN], hand' \in [Actors -> Ps \cup {None}],
         pm' \in [Ps -> Ms \cup {None}],
         status' \in [Ps -> {"idle", "running", "syscall", "gcstop"}],
         pidle' \in SUBSET Ps, global' \in Nat, stopwait' \in Nat, missed' \in BOOLEAN,
         UNCHANGED <<todo, q, nmspinning, nmidlelocked, gcwaiting, waiting, dead>>
  PROVE  TypeOK'
BY DEF TypeOK

\* The P of an M, when it gives it up: for the idle list, to hand it off, to stop.
LEMMA ReleaseInv ==
  ASSUME IInv, NEW m \in Ms, pc[m] \in {"stop", "run", "gcstop"},
         NEW s \in {"idle", "gcstop"}, Release(m, s),
         NEW x \in {"released", "hand", "stopm"}, pc' = [pc EXCEPT ![m] = x],
         pc[m] = IF x = "released" THEN "stop" ELSE IF x = "hand" THEN "run" ELSE "gcstop",
         s = "gcstop" <=> x = "stopm",
         pidle' = IF x = "released" THEN pidle \cup {mp[m]} ELSE pidle,
         hand' = IF x = "hand" THEN [hand EXCEPT ![m] = mp[m]] ELSE hand,
         stopwait' = IF x = "stopm" THEN stopwait - 1 ELSE stopwait,
         x = "released" => ~gcwaiting /\ global = 0,
         x = "stopm" => ~spinning[m],
         UNCHANGED <<ret, nextp, spinning, todo, q, global, nmspinning, nmidlelocked,
                     gcwaiting, waiting, dead, missed>>
  PROVE  IInv'
<1> DEFINE p == mp[m]
<1>1. /\ TypeOK /\ PointInv /\ LinkInv /\ HeldInv /\ StopInv /\ QueueInv /\ SpinnersInv
      /\ WorkInv /\ m \in Actors
  BY Finite DEF IInv
<1>2. pc[m] \in Working /\ pc[m] # "stopping" /\ m # None /\ pc[m] \notin Handoff \cup Starting
  BY SchedAssumption DEF Working, Handoff, Starting
<1>3. /\ p \in Ps /\ pm[p] = m /\ status[p] = "running" /\ p \notin pidle
      /\ \A a \in Actors : Held(a) # p
      /\ \A n \in Ms : n # m /\ pc[n] \in Working => mp[n] # p
  BY <1>1, <1>2, Owner
<1>4. /\ mp' = [mp EXCEPT ![m] = None] /\ pm' = [pm EXCEPT ![p] = None]
      /\ status' = [status EXCEPT ![p] = s]
  BY DEF Release
<1>5. pc'[m] = x /\ \A b \in Actors : b # m => pc'[b] = pc[b]
  BY <1>1, OthersStay
<1>6. /\ x \in Points \ Working /\ x \notin Calling \cup Starting \cup {"entered"}
      /\ (x \in Handoff <=> x = "hand")
  BY DEF Points, Working, Wakeup, Handoff, Starting, Calling
<1>7. /\ mp'[m] = None /\ hand'[m] = (IF x = "hand" THEN p ELSE None)
      /\ nextp'[m] = None /\ (spinning'[m] => x = "released")
  BY <1>1, <1>2, <1>3, <1>4 DEF TypeOK, PointInv, ThreadInv, Working, Starting, Handoff
<1>8. Only(m)
  BY <1>1, <1>4, <1>5 DEF TypeOK, Only
<1>9. pm'[p] = None /\ status'[p] = s
      /\ \A r \in Ps : r # p => status'[r] = status[r] /\ pm'[r] = pm[r]
  BY <1>1, <1>3, <1>4 DEF TypeOK
<1>10. None \notin Ps
  BY SchedAssumption
<1>11. PointInv'
  <2>1. ThreadInv(m)'
    BY <1>5, <1>6, <1>7 DEF ThreadInv
  <2>2. hand'[m] # None <=> pc'[m] \in Handoff \cup {"retake"}
    BY <1>3, <1>5, <1>6, <1>7, <1>10
  <2>3. m # Sysmon
    BY Finite
  <2>4. QED
    BY <1>1, <1>8, <2>1, <2>2, <2>3, PointMove
<1>12. LinkInv'
  <2>1. mp[m] \in {None, p}
    OBVIOUS
  <2>2. LinkChange(m, p)
    BY <1>3, <1>5, <1>6, <1>9, <2>1 DEF LinkChange
  <2>3. QED
    BY <1>1, <1>3, <1>8, <2>2, LinkMove
<1>13. HeldInv'
  <2>1. Held(m) = None
    BY <1>2 DEF Held
  <2>2. Held(m)' = IF x = "hand" THEN p ELSE None
    BY <1>5, <1>6, <1>7 DEF Held
  <2>3. \A r \in Ps : r # p => status'[r] = status[r] /\ (r \in pidle' <=> r \in pidle)
    BY <1>9
  <2>4. status'[p] = "idle" <=> p \in pidle' \/ Held(m)' = p
    BY <1>3, <1>9, <1>10, <2>2
  <2>5. ~(p \in pidle' /\ Held(m)' = p) /\ pidle' \subseteq Ps
    BY <1>1, <1>3, <1>10, <2>2 DEF TypeOK
  <2>6. QED
    BY <1>1, <1>3, <1>8, <2>1, <2>2, <2>3, <2>4, <2>5, HeldMove
<1>14. StopInv' /\ stopwait' \in Nat
  <2>1. s = "gcstop" => gcwaiting
    BY <1>1 DEF StopInv
  <2>2. gcwaiting => pidle' = {} /\ status[p] # "gcstop"
    BY <1>1, <1>3 DEF StopInv
  <2>3. {pc[m], pc'[m]} \cap {"stopping"} = {} /\ pc'[m] # "gcstop"
    BY <1>2, <1>5
  <2>4. IF status'[p] = "gcstop" THEN gcwaiting /\ stopwait' = stopwait - 1
        ELSE stopwait' = stopwait
    BY <1>9, <2>1
  <2>5. StopInv' /\ (gcwaiting => stopwait' \in Nat)
    BY <1>1, <1>3, <1>8, <1>9, <2>2, <2>3, <2>4, StopMove
  <2>6. QED
    BY <1>1, <2>1, <2>5 DEF TypeOK
<1>15. QueueInv'
  <2>1. \A r \in pidle' : q[r] = 0
    BY <1>1 DEF QueueInv
  <2>2. QED
    BY <1>1, <1>5, <1>8, <2>1, QueueMove
<1>16. SpinnersInv'
  <2>1. \A b \in Actors : b # m => (Spins(b)' <=> Spins(b))
    BY <1>5 DEF Spins
  <2>2. Spins(m)' <=> Spins(m)
    BY <1>5 DEF Spins
  <2>3. QED
    BY <1>1, <2>1, <2>2, SpinnersKept
<1>17. TypeOK'
  <2>1. pc' \in [Actors -> Points] /\ hand' \in [Actors -> Ps \cup {None}]
    BY <1>1, <1>3, <1>6 DEF TypeOK
  <2>2. /\ mp' \in [Ms -> Ps \cup {None}] /\ pm' \in [Ps -> Ms \cup {None}]
        /\ status' \in [Ps -> {"idle", "running", "syscall", "gcstop"}] /\ pidle' \in SUBSET Ps
    BY <1>1, <1>3, <1>4 DEF TypeOK
  <2>3. QED
    BY <1>1, <1>14, <2>1, <2>2, MoveType DEF TypeOK
<1>18. GoroutinesInv'
  <2>1. pc[m] \in Carry <=> x \in Carry
    BY DEF Carry, Wakeup, Handoff, Calling
  <2>2. \A n \in Ms : pc'[n] \in Carry <=> pc[n] \in Carry
    BY <1>5, <2>1, Finite
  <2>3. QED
    BY <2>2, GoroutinesSame DEF IInv
<1>19. WorkInv'
  <2>1. CASE x = "released"
    BY <1>5, <2>1, WorkHelped DEF Help
  <2>2. CASE x = "hand"
    <3>1. ~Spins(m) /\ pc[m] \notin Help \cup {"recheck"}
      BY <1>1, <2>2 DEF Spins, Help, PointInv, ThreadInv
    <3>2. QED
      BY <1>1, <2>2, <3>1, WorkBystander
  <2>3. CASE x = "stopm"
    BY <1>1, <2>3 DEF StopInv, WorkInv
  <2>4. QED
    BY <2>1, <2>2, <2>3
<1>20. GlobalInv'
  <2>1. CASE x = "released"
    BY <2>1 DEF GlobalInv
  <2>2. CASE x # "released"
    BY <1>2, <2>2, GlobalByWorker
  <2>3. QED
    BY <2>1, <2>2
<1>21. QED
  BY <1>11, <1>12, <1>13, <1>14, <1>15, <1>16, <1>17, <1>18, <1>19, <1>20 DEF IInv

LEMMA StopLockedInv == ASSUME IInv, NEW m \in Ms, StopLocked(m) PROVE IInv'
<1>1. /\ pc[m] = "stop"
      /\ UNCHANGED <<ret, nextp, spinning, hand, todo, nmspinning, restVars>>
  BY DEF StopLocked
<1>2. UNCHANGED <<nmidlelocked, gcwaiting, stopwait, waiting, dead, missed>>
  BY <1>1 DEF restVars
<1>3. ret' \in [Ms -> {"sched", "find"}] /\ global \in Nat
  BY <1>1 DEF IInv, TypeOK
<1>4. CASE gcwaiting
  <2>1. pc' = [pc EXCEPT ![m] = "find"] /\ UNCHANGED <<mp, pm, status, pidle, q, global>>
    BY <1>4 DEF StopLocked, Goto
  <2>2. Alike(pc[m], "find") /\ "find" \in Points \ Starting /\ "find" \notin Handoff
        /\ "find" \in Help
    BY <1>1 DEF Alike, Working, Wakeup, Handoff, Starting, Calling, Points, Help
  <2>3. (pc[m] \in Carry <=> "find" \in Carry) /\ {pc[m], "find"} \cap Counted = {}
        /\ "find" \in SpinPoints
    BY <1>1 DEF Carry, Counted, Wakeup, Handoff, Calling, SpinPoints
  <2>4. UNCHANGED <<pVars, schedVars>>
    BY <1>1, <2>1 DEF pVars, schedVars
  <2>5. QED
    BY <1>1, <1>3, <2>1, <2>2, <2>3, <2>4, QuietHelped
<1>5. CASE ~gcwaiting /\ global > 0
  <2>1. /\ TakeGlobal(mp[m], 0) /\ pc' = [pc EXCEPT ![m] = "reset"]
        /\ UNCHANGED <<mp, pm, status, pidle>>
    BY <1>5 DEF StopLocked, Goto
  <2>2. QED
    BY <1>1, <1>3, <1>5, <2>1, TakeGlobalInv
<1>6. CASE ~gcwaiting /\ ~(global > 0)
  <2>1. /\ Release(m, "idle") /\ pidle' = pidle \cup {mp[m]}
        /\ pc' = [pc EXCEPT ![m] = "released"] /\ UNCHANGED <<q, global>>
    BY <1>6 DEF StopLocked, Goto
  <2>2. global = 0
    BY <1>3, <1>6
  <2>3. QED
    BY <1>1, <1>2, <1>6, <2>1, <2>2, ReleaseInv
<1>7. QED
  BY <1>4, <1>5, <1>6

LEMMA GcstopmInv == ASSUME IInv, NEW m \in Ms, Gcstopm(m) PROVE IInv'
<1>1. /\ pc[m] = "gcstop" /\ ~spinning[m] /\ Release(m, "gcstop")
      /\ stopwait' = stopwait - 1 /\ pc' = [pc EXCEPT ![m] = "stopm"]
      /\ UNCHANGED <<ret, nextp, spinning, hand, todo, q, pidle, global, nmspinning,
                    nmidlelocked, gcwaiting, waiting, dead, missed>>
  BY DEF Gcstopm, Goto
<1>2. QED
  BY <1>1, ReleaseInv

LEMMA EntersyscallblockInv == ASSUME IInv, NEW m \in Ms, Entersyscallblock(m) PROVE IInv'
<1>1. /\ pc[m] = "run" /\ Release(m, "idle") /\ hand' = [hand EXCEPT ![m] = mp[m]]
      /\ pc' = [pc EXCEPT ![m] = "hand"]
      /\ UNCHANGED <<ret, nextp, spinning, todo, q, pidle, schedVars>>
  BY DEF Entersyscallblock, Goto
<1>2. UNCHANGED <<global, nmspinning, nmidlelocked, gcwaiting, stopwait, waiting, dead, missed>>
  BY <1>1 DEF schedVars, restVars
<1>3. QED
  BY <1>1, <1>2, ReleaseInv

\* An M gets a P: from the idle list, the one it has been given, or the one it has
\* left for a system call.
LEMMA AcquireInv ==
  ASSUME IInv, NEW m \in Ms, NEW p \in Ps, Acquire(m, p),
         pc[m] \in {"again", "exit", "woken", "insys"},
         NEW x \in {"find", "run", "sched"}, pc' = [pc EXCEPT ![m] = x],
         IF pc[m] = "again" THEN x = "find" ELSE IF pc[m] = "woken" THEN x # "run" ELSE x = "run",
         pc[m] \in {"again", "exit"} => p \in pidle,
         pc[m] = "woken" => p = nextp[m],
         pc[m] = "insys" => p = mp[m] /\ status[p] = "syscall",
         pidle' = IF pc[m] \in {"again", "exit"} THEN pidle \ {p} ELSE pidle,
         nextp' = IF pc[m] = "woken" THEN [nextp EXCEPT ![m] = None] ELSE nextp,
         ret' \in [Ms -> {"sched", "find"}],
         UNCHANGED <<spinning, hand, todo, q, schedVars>>
  PROVE  IInv'
<1>1. /\ TypeOK /\ PointInv /\ LinkInv /\ HeldInv /\ StopInv /\ QueueInv /\ SpinnersInv
      /\ WorkInv /\ m \in Actors /\ m # Sysmon
  BY Finite DEF IInv
<1>2. UNCHANGED <<global, nmspinning, nmidlelocked, gcwaiting, stopwait, waiting, dead, missed>>
  BY DEF schedVars, restVars
<1>3. pc[m] \notin Working /\ pc[m] \notin Handoff /\ (pc[m] \in Starting <=> pc[m] = "woken")
      /\ (pc[m] \in Calling <=> pc[m] = "insys")
  BY DEF Working, Wakeup, Handoff, Starting, Calling
<1>4. x \in Points /\ x \in Working /\ x \notin Handoff \cup Starting
  BY DEF Points, Working, Handoff, Starting
<1>5. /\ mp[m] # None => pc[m] = "insys"
      /\ nextp[m] # None <=> pc[m] = "woken"
      /\ spinning[m] => pc[m] = "woken"
      /\ hand[m] = None
  BY <1>1, <1>3 DEF PointInv, ThreadInv
<1>6. Held(m) = IF pc[m] = "woken" THEN p ELSE None
  BY <1>3 DEF Held
<1>7. p # None /\ m # None
  BY SchedAssumption
<1>8. /\ status[p] = IF pc[m] = "insys" THEN "syscall" ELSE "idle"
      /\ p \notin pidle' /\ pidle' \subseteq pidle
  BY <1>1, <1>6, <1>7 DEF HeldInv
<1>9. pm[p] = None /\ \A n \in Ms : pc[n] \in Working => mp[n] # p
  BY <1>1, <1>8, IdleFree
<1>10. /\ mp' = [mp EXCEPT ![m] = p] /\ pm' = [pm EXCEPT ![p] = m]
       /\ status' = [status EXCEPT ![p] = "running"]
  BY DEF Acquire
<1>11. pc'[m] = x /\ \A b \in Actors : b # m => pc'[b] = pc[b]
  BY <1>1, OthersStay
<1>12. mp'[m] = p /\ nextp'[m] = None
  BY <1>1, <1>5, <1>10 DEF TypeOK
<1>13. Only(m)
  BY <1>1, <1>10, <1>11 DEF TypeOK, Only
<1>14. pm'[p] = m /\ status'[p] = "running"
       /\ \A r \in Ps : r # p => status'[r] = status[r] /\ pm'[r] = pm[r]
  BY <1>1, <1>10 DEF TypeOK
<1>15. PointInv'
  <2>1. ThreadInv(m)'
    BY <1>4, <1>5, <1>7, <1>11, <1>12 DEF ThreadInv
  <2>2. hand'[m] # None <=> pc'[m] \in Handoff \cup {"retake"}
    BY <1>4, <1>5, <1>11
  <2>3. QED
    BY <1>1, <1>2, <1>13, <2>1, <2>2, PointMove
<1>16. LinkInv'
  <2>1. mp[m] \in {None, p}
    BY <1>5
  <2>2. pc'[m] # "stopping" /\ pc'[m] \in Working
    BY <1>4, <1>11
  <2>3. LinkChange(m, p)
    BY <1>7, <1>9, <1>12, <1>14, <2>1, <2>2 DEF LinkChange
  <2>4. QED
    BY <1>1, <1>13, <2>3, LinkMove
<1>17. HeldInv'
  <2>1. Held(m)' = None
    BY <1>4, <1>11 DEF Held
  <2>2. \A r \in Ps : r # p => status'[r] = status[r] /\ (r \in pidle' <=> r \in pidle)
    BY <1>14
  <2>3. \A b \in Actors : b # m => Held(b) # p
    <3>1. CASE pc[m] = "woken"
      BY <1>1, <1>6, <1>7, <3>1 DEF HeldInv
    <3>2. CASE pc[m] = "insys"
      BY <1>1, <1>8, <3>2 DEF HeldInv
    <3>3. CASE pc[m] \in {"again", "exit"}
      BY <1>1, <3>3 DEF HeldInv
    <3>4. QED
      BY <3>1, <3>2, <3>3
  <2>4. status'[p] # "idle" /\ p \notin pidle' /\ Held(m)' # p /\ pidle' \subseteq Ps
    BY <1>1, <1>7, <1>8, <1>14, <2>1 DEF TypeOK
  <2>5. QED
    BY <1>1, <1>6, <1>13, <2>1, <2>2, <2>3, <2>4, HeldMove
<1>18. StopInv'
  <2>1. {pc[m], pc'[m]} \cap {"stopping"} = {} /\ pc'[m] # "gcstop"
    BY <1>11
  <2>2. gcwaiting => pidle' = {} /\ status[p] # "gcstop"
    BY <1>1, <1>8 DEF StopInv
  <2>3. QED
    BY <1>1, <1>2, <1>13, <1>14, <2>1, <2>2, StopMove
<1>19. QueueInv'
  <2>1. \A r \in pidle' : q[r] = 0
    BY <1>1, <1>8 DEF QueueInv
  <2>2. x = "sched" /\ spinning'[m] => q[mp'[m]] = 0
    BY <1>1, <1>5, <1>12 DEF QueueInv
  <2>3. QED
    BY <1>1, <1>11, <1>13, <2>1, <2>2, QueueMove
<1>20. Spins(m)' <=> Spins(m)
  BY <1>11 DEF Spins
<1>21. SpinnersInv'
  <2>1. \A b \in Actors : b # m => (Spins(b)' <=> Spins(b))
    BY <1>11 DEF Spins
  <2>2. QED
    BY <1>1, <1>2, <1>20, <2>1, SpinnersKept
<1>22. TypeOK'
  <2>1. pc' \in [Actors -> Points] /\ nextp' \in [Ms -> Ps \cup {None}]
    BY <1>1, <1>4 DEF TypeOK
  <2>2. /\ mp' \in [Ms -> Ps \cup {None}] /\ pm' \in [Ps -> Ms \cup {None}]
        /\ status' \in [Ps -> {"idle", "running", "syscall", "gcstop"}] /\ pidle' \in SUBSET Ps
    BY <1>1, <1>10 DEF TypeOK
  <2>3. QED
    BY <1>1, <1>2, <2>1, <2>2, MoveType DEF TypeOK
<1>23. GoroutinesInv'
  <2>1. pc[m] \in Carry <=> x \in Carry
    BY DEF Carry, Wakeup, Handoff, Calling
  <2>2. \A n \in Ms : pc'[n] \in Carry <=> pc[n] \in Carry
    BY <1>11, <2>1, Finite
  <2>3. QED
    BY <1>2, <2>2, GoroutinesSame DEF IInv
<1>24. WorkInv'
  <2>1. CASE x = "find"
    BY <1>11, <2>1, WorkHelped DEF Help
  <2>2. CASE Spins(m)
    BY <1>1, <1>20, <2>2, WorkSpun
  <2>3. CASE x # "find" /\ ~Spins(m)
    <3>1. pc[m] \notin Help \cup {"recheck"}
      BY <2>3 DEF Help
    <3>2. pidle' # {} => pidle # {}
      BY <1>8
    <3>3. QED
      BY <1>1, <1>2, <2>3, <3>1, <3>2, WorkBystander
  <2>4. QED
    BY <2>1, <2>2, <2>3
<1>25. GlobalInv'
  BY <1>8 DEF GlobalInv
<1>26. QED
  BY <1>2, <1>15, <1>16, <1>17, <1>18, <1>19, <1>21, <1>22, <1>23, <1>24, <1>25 DEF IInv

LEMMA AgainInv == ASSUME IInv, NEW m \in Ms, Again(m) PROVE IInv'
<1>1. /\ pc[m] = "again"
      /\ ret' = [ret EXCEPT ![m] = IF pidle = {} THEN "find" ELSE @]
      /\ UNCHANGED <<nextp, spinning, hand, todo, q, schedVars>>
  BY DEF Again
<1>2. TypeOK /\ PointInv /\ ret' \in [Ms -> {"sched", "find"}]
  BY <1>1 DEF IInv, TypeOK
<1>3. CASE pidle = {}
  <2>1. pc' = [pc EXCEPT ![m] = "stopm"] /\ UNCHANGED <<mp, pm, status, pidle>>
    BY <1>3 DEF Again, Goto
  <2>2. Alike(pc[m], "stopm") /\ (pc[m] \in Carry <=> "stopm" \in Carry)
    BY <1>1 DEF Alike, Working, Wakeup, Handoff, Starting, Calling, Carry
  <2>3. "stopm" \in Points \ Starting /\ {pc[m], "stopm"} \cap Counted = {}
    BY <1>1 DEF Points, Starting, Counted
  <2>4. ~spinning[m] /\ m \in Actors
    BY <1>1, <1>2, Finite DEF PointInv, ThreadInv
  <2>5. UNCHANGED <<global, nmspinning, nmidlelocked, gcwaiting, stopwait, waiting, dead, missed>>
        /\ UNCHANGED pVars
    BY <1>1, <2>1 DEF pVars, schedVars, restVars
  <2>6. /\ PointInv' /\ LinkInv' /\ HeldInv' /\ StopInv' /\ QueueInv'
        /\ SpinnersInv' /\ GoroutinesInv' /\ GlobalInv'
    BY <1>1, <2>1, <2>2, <2>3, <2>4, <2>5, Quiet
  <2>7. TypeOK'
    BY <1>1, <1>2, <2>1, <2>3, <2>4, <2>5, QuietType DEF TypeOK
  <2>8. WorkInv'
    BY <1>3, <2>1 DEF WorkInv
  <2>9. QED
    BY <2>5, <2>6, <2>7, <2>8 DEF IInv
<1>4. CASE pidle # {}
  <2>1. PICK p \in pidle : /\ Acquire(m, p) /\ pidle' = pidle \ {p}
                           /\ pc' = [pc EXCEPT ![m] = "find"]
    BY <1>4 DEF Again, Goto
  <2>2. p \in Ps
    BY <1>2 DEF TypeOK
  <2>3. QED
    BY <1>1, <1>2, <2>1, <2>2, AcquireInv
<1>5. QED
  BY <1>3, <1>4

LEMMA WokenInv == ASSUME IInv, NEW m \in Ms, Woken(m) PROVE IInv'
<1>1. /\ pc[m] = "woken" /\ Acquire(m, nextp[m]) /\ nextp' = [nextp EXCEPT ![m] = None]
      /\ pc' = [pc EXCEPT ![m] = ret[m]] /\ ret' = [ret EXCEPT ![m] = "sched"]
      /\ UNCHANGED <<spinning, hand, todo, q, pidle, schedVars>>
  BY DEF Woken, Goto
<1>2. TypeOK /\ PointInv
  BY DEF IInv
<1>3. nextp[m] \in Ps /\ ret[m] \in {"find", "sched"} /\ ret' \in [Ms -> {"sched", "find"}]
  BY <1>1, <1>2, HeldAt DEF TypeOK, Starting
<1>4. QED
  BY <1>1, <1>3, AcquireInv

LEMMA Exitsyscall0Inv == ASSUME IInv, NEW m \in Ms, Exitsyscall0(m) PROVE IInv'
<1>1. /\ pc[m] = "exit"
      /\ UNCHANGED <<ret, nextp, spinning, hand, todo, q, nmspinning, restVars>>
  BY DEF Exitsyscall0
<1>2. TypeOK /\ PointInv /\ m \in Actors /\ ret' \in [Ms -> {"sched", "find"}]
  BY <1>1, Finite DEF IInv, TypeOK
<1>3. CASE pidle # {}
  <2>1. PICK p \in pidle : /\ Acquire(m, p) /\ pidle' = pidle \ {p}
                           /\ pc' = [pc EXCEPT ![m] = "run"] /\ UNCHANGED global
    BY <1>3 DEF Exitsyscall0, Goto
  <2>2. p \in Ps /\ UNCHANGED schedVars
    BY <1>1, <1>2, <2>1 DEF TypeOK, schedVars
  <2>3. QED
    BY <1>1, <1>2, <2>1, <2>2, AcquireInv
<1>4. CASE pidle = {}
  <2>1. /\ global' = global + 1 /\ pc' = [pc EXCEPT ![m] = "stopm"]
        /\ UNCHANGED <<mp, pm, status, pidle>>
    BY <1>4 DEF Exitsyscall0, Goto
  <2>2. UNCHANGED <<nmidlelocked, gcwaiting, stopwait, waiting, dead, missed>>
    BY <1>1 DEF restVars
  <2>3. PICK p \in Ps : TRUE
    BY SchedAssumption
  <2>4. /\ global \in Nat /\ waiting \in Nat
        /\ Cardinality(Places(q)) \in Nat /\ q \in [Ps -> 0..NG]
    BY <2>3, NotMore
  <2>5. Alike(pc[m], "stopm") /\ "stopm" \in Points /\ "stopm" \notin Handoff
    BY <1>1 DEF Alike, Working, Wakeup, Handoff, Starting, Calling, Points
  <2>6. ~spinning[m] /\ pc'[m] = "stopm"
    BY <1>1, <1>2, <2>1, OthersStay DEF PointInv, ThreadInv
  <2>7. ~Spins(m) /\ ~Spins(m)'
    BY <1>1, <2>6 DEF Spins
  <2>8. /\ PointInv' /\ LinkInv' /\ HeldInv' /\ StopInv' /\ QueueInv' /\ SpinnersInv'
        /\ nmspinning' \in Nat
    BY <1>1, <2>1, <2>2, <2>5, <2>6, <2>7, Moves
  <2>9. global' \in Nat /\ waiting' \in Nat
    BY <2>1, <2>2, <2>4
  <2>10. TypeOK'
    BY <1>1, <1>2, <2>1, <2>2, <2>4, <2>5, <2>8, <2>9, QuietType DEF TypeOK
  <2>11. GoroutinesInv'
    <3>1. InHand("stopm") = 0 /\ InHand(pc[m]) = 1
      BY <1>1 DEF InHand, Carry, Wakeup, Handoff, Calling
    <3>2. waiting' + global' + Cardinality(Places(q')) + InHand("stopm")
            = waiting + global + Cardinality(Places(q)) + InHand(pc[m])
      BY <1>1, <2>1, <2>2, <2>4, <3>1
    <3>3. QED
      BY <1>1, <2>1, <2>3, <2>4, <2>9, <3>2, GoroutinesMoved
  <2>12. WorkInv' /\ GlobalInv'
    BY <1>4, <2>1, SchedAssumption DEF WorkInv, GlobalInv
  <2>13. QED
    BY <2>2, <2>8, <2>10, <2>11, <2>12 DEF IInv
<1>5. QED
  BY <1>3, <1>4

\* The links stay right when a P that no M has with it stops, or is taken.
LEMMA LinkRest ==
  ASSUME TypeOK, PointInv, LinkInv, NEW a \in Actors, Only(a), UNCHANGED pm,
         a \in Ms => pc[a] \notin Working /\ pc'[a] \notin Working,
         \A r \in Ps : \/ status'[r] = status[r]
                       \/ status[r] \in {"idle", "syscall"} /\ status'[r] \in {"idle", "gcstop"},
         \A r \in Ps : a \in Ms /\ mp[a] = r /\ status'[r] = "syscall" => mp'[a] = r /\ pc'[a] \in Calling
  PROVE  LinkInv'
<1>1. \A n \in Ms : n # a => pc'[n] = pc[n] /\ mp'[n] = mp[n]
  BY Finite DEF Only
<1>2. \A n \in Ms : pc'[n] \in Working => n # a
  OBVIOUS
<1>3. ASSUME NEW n \in Ms, pc'[n] \in Working
      PROVE  pm'[mp'[n]] = n /\ status'[mp'[n]] = IF pc'[n] = "stopping" THEN "gcstop" ELSE "running"
  <2>1. /\ pc[n] \in Working /\ mp'[n] = mp[n] /\ pc'[n] = pc[n] /\ pm[mp[n]] = n
        /\ status[mp[n]] = IF pc[n] = "stopping" THEN "gcstop" ELSE "running"
    BY <1>1, <1>2, <1>3 DEF LinkInv
  <2>2. mp[n] \in Ps
    BY <2>1 DEF TypeOK, PointInv, ThreadInv
  <2>3. QED
    BY <2>1, <2>2
<1>4. ASSUME NEW r \in Ps
      PROVE  /\ pm'[r] # None => mp'[pm'[r]] = r /\ pc'[pm'[r]] \in Working
             /\ status'[r] = "running" => pm'[r] # None
             /\ status'[r] = "syscall" => \E n \in Ms : mp'[n] = r /\ pc'[n] \in Calling
  <2>1. /\ pm[r] # None => mp[pm[r]] = r /\ pc[pm[r]] \in Working
        /\ status[r] = "running" => pm[r] # None
        /\ status[r] = "syscall" => \E n \in Ms : mp[n] = r /\ pc[n] \in Calling
        /\ pm[r] \in Ms \cup {None}
    BY DEF LinkInv, TypeOK
  <2>2. pm'[r] # None => mp'[pm'[r]] = r /\ pc'[pm'[r]] \in Working
    BY <1>1, <2>1
  <2>3. ASSUME status'[r] = "syscall"
        PROVE  \E n \in Ms : mp'[n] = r /\ pc'[n] \in Calling
    <3>1. status[r] = "syscall"
      BY <2>3
    <3>2. PICK n \in Ms : mp[n] = r /\ pc[n] \in Calling
      BY <2>1, <3>1
    <3>3. CASE n = a
      BY <2>3, <3>2, <3>3
    <3>4. CASE n # a
      BY <1>1, <3>2, <3>4
    <3>5. QED
      BY <3>3, <3>4
  <2>4. QED
    BY <2>1, <2>2, <2>3
<1>5. QED
  BY <1>3, <1>4 DEF LinkInv

\* Nothing else changes with what a does.
LEMMA HeldRest ==
  ASSUME PointInv, HeldInv, NEW a \in Actors, Only(a), Held(a)' = Held(a),
         UNCHANGED <<status, pidle>>
  PROVE  HeldInv'
<1>1. \A b \in Actors : Held(b)' = Held(b)
  <2>1. pc[Sysmon] \notin Starting
    BY DEF PointInv, Handoff, Starting
  <2>2. QED
    BY <2>1, Finite DEF Only, Held
<1>2. QED
  BY <1>1 DEF HeldInv

LEMMA StopRest ==
  ASSUME StopInv, NEW a \in Actors, Only(a), pc[a] \notin {"stopping", "gcstop"},
         pc'[a] \notin {"stopping", "gcstop"}, UNCHANGED <<status, pidle, gcwaiting, stopwait>>
  PROVE  StopInv'
<1>1. \A n \in Ms : n # a => pc'[n] = pc[n]
  BY Finite DEF Only
<1>2. \A n \in Ms : /\ pc'[n] = "stopping" <=> pc[n] = "stopping"
                    /\ pc'[n] = "gcstop" <=> pc[n] = "gcstop"
  BY <1>1
<1>3. QED
  BY <1>2 DEF StopInv

LEMMA CountsRest ==
  ASSUME IInv, NEW a \in Actors, Only(a), a \in Ms => (pc'[a] \in Carry <=> pc[a] \in Carry),
         Spins(a)' <=> Spins(a), UNCHANGED <<nmspinning, waiting, global, q>>
  PROVE  SpinnersInv' /\ GoroutinesInv'
<1>1. TypeOK /\ SpinnersInv /\ GoroutinesInv
  BY DEF IInv
<1>2. \A b \in Actors : b # a => (Spins(b)' <=> Spins(b))
  BY DEF Spins, Only
<1>3. \A n \in Ms : pc'[n] \in Carry <=> pc[n] \in Carry
  BY Finite DEF Only
<1>4. QED
  BY <1>1, <1>2, <1>3, SpinnersKept, GoroutinesSame

\* The P of a system call stays where it is.
LEMMA EntersyscallInv == ASSUME IInv, NEW m \in Ms, Entersyscall(m) PROVE IInv'
<1> DEFINE p == mp[m]
<1>1. /\ pc[m] = "run" /\ pm' = [pm EXCEPT ![p] = None]
      /\ status' = [status EXCEPT ![p] = "syscall"] /\ pc' = [pc EXCEPT ![m] = "entered"]
      /\ UNCHANGED <<ret, mp, nextp, spinning, hand, todo, q, pidle, schedVars>>
  BY DEF Entersyscall, Goto
<1>2. UNCHANGED <<global, nmspinning, nmidlelocked, gcwaiting, stopwait, waiting, dead, missed>>
  BY <1>1 DEF schedVars, restVars
<1>3. /\ TypeOK /\ PointInv /\ LinkInv /\ HeldInv /\ StopInv /\ QueueInv /\ WorkInv
      /\ m \in Actors /\ m # Sysmon
  BY Finite DEF IInv
<1>4. pc[m] \in Working /\ pc[m] \notin Handoff \cup Starting
  BY <1>1 DEF Working, Handoff, Starting
<1>5. "entered" \in Points \ Working /\ "entered" \in Calling /\ "entered" \notin Handoff \cup Starting
  BY DEF Points, Working, Wakeup, Handoff, Starting, Calling
<1>6. /\ p \in Ps /\ pm[p] = m /\ status[p] = "running" /\ p \notin pidle
      /\ \A a \in Actors : Held(a) # p
      /\ \A n \in Ms : n # m /\ pc[n] \in Working => mp[n] # p
  BY <1>1, <1>3, <1>4, Owner
<1>7. p # None
  BY <1>6, SchedAssumption
<1>8. pc'[m] = "entered" /\ \A b \in Actors : b # m => pc'[b] = pc[b]
  BY <1>1, <1>3, OthersStay
<1>9. Only(m)
  BY <1>1, <1>8 DEF Only
<1>10. pm'[p] = None /\ status'[p] = "syscall"
       /\ \A r \in Ps : r # p => status'[r] = status[r] /\ pm'[r] = pm[r]
  BY <1>1, <1>3, <1>6 DEF TypeOK
<1>11. nextp[m] = None /\ ~spinning[m] /\ hand[m] = None
  BY <1>1, <1>3, <1>4 DEF PointInv, ThreadInv
<1>12. PointInv'
  <2>1. ThreadInv(m)'
    BY <1>1, <1>5, <1>7, <1>8, <1>11 DEF ThreadInv
  <2>2. hand'[m] # None <=> pc'[m] \in Handoff \cup {"retake"}
    BY <1>1, <1>5, <1>8, <1>11
  <2>3. QED
    BY <1>2, <1>3, <1>9, <2>1, <2>2, PointMove
<1>13. LinkInv'
  <2>1. LinkChange(m, p)
    BY <1>1, <1>5, <1>6, <1>8, <1>10 DEF LinkChange
  <2>2. QED
    BY <1>3, <1>6, <1>9, <2>1, LinkMove
<1>14. HeldInv'
  <2>1. Held(m) = None /\ Held(m)' = None
    BY <1>4, <1>5, <1>8 DEF Held
  <2>2. \A r \in Ps : r # p => status'[r] = status[r] /\ (r \in pidle' <=> r \in pidle)
    BY <1>1, <1>10
  <2>3. pidle' \subseteq Ps /\ p \notin pidle' /\ status'[p] # "idle" /\ Held(m)' # p
    BY <1>1, <1>3, <1>6, <1>7, <1>10, <2>1 DEF TypeOK
  <2>4. QED
    BY <1>3, <1>6, <1>9, <2>1, <2>2, <2>3, HeldMove
<1>15. StopInv'
  <2>1. {pc[m], pc'[m]} \cap {"stopping"} = {} /\ pc'[m] # "gcstop"
    BY <1>1, <1>8
  <2>2. gcwaiting => pidle' = {} /\ status[p] # "gcstop"
    BY <1>1, <1>3, <1>6 DEF StopInv
  <2>3. QED
    BY <1>2, <1>3, <1>6, <1>9, <1>10, <2>1, <2>2, StopMove
<1>16. QueueInv'
  <2>1. \A r \in pidle' : q[r] = 0
    BY <1>1, <1>3 DEF QueueInv
  <2>2. QED
    BY <1>1, <1>3, <1>8, <1>9, <2>1, QueueMove
<1>17. SpinnersInv' /\ GoroutinesInv'
  <2>1. pc[m] \in Carry /\ pc'[m] \in Carry
    BY <1>1, <1>8 DEF Carry, Calling
  <2>2. Spins(m)' <=> Spins(m)
    BY <1>1, <1>8 DEF Spins
  <2>3. QED
    BY <1>1, <1>2, <1>3, <1>9, <2>1, <2>2, CountsRest
<1>18. TypeOK'
  <2>1. /\ pc' \in [Actors -> Points] /\ pm' \in [Ps -> Ms \cup {None}]
        /\ status' \in [Ps -> {"idle", "running", "syscall", "gcstop"}]
    BY <1>1, <1>3, <1>5 DEF TypeOK
  <2>2. QED
    BY <1>1, <1>2, <1>3, <2>1, MoveType DEF TypeOK
<1>19. WorkInv'
  <2>1. ~Spins(m) /\ pc[m] \notin Help \cup {"recheck"}
    BY <1>1, <1>11 DEF Spins, Help
  <2>2. QED
    BY <1>1, <1>2, <1>3, <2>1, WorkBystander
<1>20. GlobalInv'
  BY <1>1, <1>4, GlobalByWorker
<1>21. QED
  BY <1>2, <1>12, <1>13, <1>14, <1>15, <1>16, <1>17, <1>18, <1>19, <1>20 DEF IInv

\* It stops for stopTheWorld, if nobody has taken or stopped it.
LEMMA EntersyscallGcwaitInv == ASSUME IInv, NEW m \in Ms, EntersyscallGcwait(m) PROVE IInv'
<1> DEFINE p == mp[m]
           stops == gcwaiting /\ stopwait > 0 /\ status[p] = "syscall"
<1>1. /\ pc[m] = "entered" /\ pc' = [pc EXCEPT ![m] = "insys"]
      /\ UNCHANGED <<ret, mp, nextp, spinning, hand, todo, pm, q, pidle, global, nmspinning,
                    nmidlelocked, gcwaiting, waiting, dead, missed>>
      /\ stops => status' = [status EXCEPT ![p] = "gcstop"] /\ stopwait' = stopwait - 1
      /\ ~stops => UNCHANGED <<status, stopwait>>
  BY DEF EntersyscallGcwait, Goto
<1> HIDE DEF stops
<1>2. /\ TypeOK /\ PointInv /\ LinkInv /\ HeldInv /\ StopInv /\ QueueInv /\ WorkInv
      /\ m \in Actors /\ m # Sysmon
  BY Finite DEF IInv
<1>3. /\ pc[m] \notin Working \cup Handoff \cup Starting /\ "insys" \in Points /\ "insys" \in Calling
      /\ "insys" \notin Working \cup Handoff \cup Starting
  BY <1>1 DEF Points, Working, Wakeup, Handoff, Starting, Calling
<1>4. p # None /\ nextp[m] = None /\ ~spinning[m] /\ hand[m] = None
  BY <1>1, <1>2, <1>3 DEF PointInv, ThreadInv
<1>5. p \in Ps
  BY <1>2, <1>4 DEF TypeOK
<1>6. pc'[m] = "insys" /\ \A b \in Actors : b # m => pc'[b] = pc[b]
  BY <1>1, <1>2, OthersStay
<1>7. Only(m)
  BY <1>1, <1>6 DEF Only
<1>8. \A r \in Ps : r # p => status'[r] = status[r]
  BY <1>1, <1>2 DEF TypeOK
<1>9. stops => gcwaiting /\ status[p] = "syscall" /\ status'[p] = "gcstop" /\ stopwait' = stopwait - 1
  BY <1>1, <1>2, <1>5 DEF TypeOK, stops
<1>10. Held(m) = None /\ Held(m)' = None
  BY <1>3, <1>6 DEF Held
<1>11. PointInv'
  <2>1. ThreadInv(m)'
    BY <1>1, <1>3, <1>4, <1>6 DEF ThreadInv
  <2>2. hand'[m] # None <=> pc'[m] \in Handoff \cup {"retake"}
    BY <1>1, <1>3, <1>4, <1>6
  <2>3. QED
    BY <1>1, <1>2, <1>7, <2>1, <2>2, PointMove
<1>12. LinkInv'
  <2>1. \A r \in Ps : \/ status'[r] = status[r]
                      \/ status[r] \in {"idle", "syscall"} /\ status'[r] \in {"idle", "gcstop"}
    BY <1>1, <1>8, <1>9
  <2>2. mp'[m] = mp[m] /\ pc'[m] \in Calling
    BY <1>1, <1>3, <1>6
  <2>3. QED
    BY <1>1, <1>2, <1>3, <1>6, <1>7, <2>1, <2>2, LinkRest
<1>13. HeldInv'
  <2>1. CASE stops
    <3>1. p \notin pidle /\ \A b \in Actors : Held(b) # p
      BY <1>2, <1>5, <1>9, <2>1 DEF HeldInv
    <3>2. pidle' \subseteq Ps /\ p \notin pidle' /\ status'[p] # "idle" /\ Held(m)' # p
      BY <1>1, <1>2, <1>4, <1>9, <1>10, <2>1, <3>1 DEF TypeOK
    <3>3. \A r \in Ps : r # p => status'[r] = status[r] /\ (r \in pidle' <=> r \in pidle)
      BY <1>1, <1>8
    <3>4. QED
      BY <1>2, <1>5, <1>7, <1>10, <3>1, <3>2, <3>3, HeldMove
  <2>2. CASE ~stops
    BY <1>1, <1>2, <1>7, <1>10, <2>2, HeldRest
  <2>3. QED
    BY <2>1, <2>2
<1>14. StopInv' /\ stopwait' \in Nat
  <2>1. pc[m] \notin {"stopping", "gcstop"} /\ pc'[m] \notin {"stopping", "gcstop"}
    BY <1>1, <1>6
  <2>2. CASE stops
    <3>1. gcwaiting => pidle' = {} /\ status[p] # "gcstop"
      BY <1>1, <1>2, <1>9, <2>2 DEF StopInv
    <3>2. {pc[m], pc'[m]} \cap {"stopping"} = {} /\ pc'[m] # "gcstop"
      BY <2>1
    <3>3. StopInv' /\ (gcwaiting => stopwait' \in Nat)
      BY <1>1, <1>2, <1>5, <1>7, <1>8, <1>9, <2>2, <3>1, <3>2, StopMove
    <3>4. QED
      BY <1>9, <2>2, <3>3
  <2>3. CASE ~stops
    BY <1>1, <1>2, <1>7, <2>1, <2>3, StopRest DEF TypeOK
  <2>4. QED
    BY <2>2, <2>3
<1>15. QueueInv'
  <2>1. \A r \in pidle' : q[r] = 0
    BY <1>1, <1>2 DEF QueueInv
  <2>2. QED
    BY <1>1, <1>2, <1>6, <1>7, <2>1, QueueMove
<1>16. SpinnersInv' /\ GoroutinesInv'
  <2>1. pc[m] \in Carry /\ pc'[m] \in Carry
    BY <1>1, <1>6 DEF Carry, Calling
  <2>2. Spins(m)' <=> Spins(m)
    BY <1>1, <1>6 DEF Spins
  <2>3. QED
    BY <1>1, <1>2, <1>7, <2>1, <2>2, CountsRest
<1>17. TypeOK'
  <2>1. /\ pc' \in [Actors -> Points]
        /\ status' \in [Ps -> {"idle", "running", "syscall", "gcstop"}]
    BY <1>1, <1>2, <1>3 DEF TypeOK
  <2>2. QED
    BY <1>1, <1>2, <1>14, <2>1, MoveType DEF TypeOK
<1>18. WorkInv' /\ GlobalInv'
  <2>1. ~Spins(m) /\ pc[m] \notin Help \cup {"recheck"}
    BY <1>1, <1>4 DEF Spins, Help
  <2>2. WorkInv'
    BY <1>1, <1>2, <2>1, WorkBystander
  <2>3. QED
    BY <1>1, <2>2 DEF IInv, GlobalInv
<1>19. QED
  BY <1>1, <1>11, <1>12, <1>13, <1>14, <1>15, <1>16, <1>17, <1>18 DEF IInv

LEMMA ExitsyscallfastInv == ASSUME IInv, NEW m \in Ms, Exitsyscallfast(m) PROVE IInv'
<1>1. /\ pc[m] = "insys"
      /\ UNCHANGED <<ret, nextp, spinning, hand, todo, q, pidle, schedVars>>
  BY DEF Exitsyscallfast
<1>2. UNCHANGED <<global, nmspinning, nmidlelocked, gcwaiting, stopwait, waiting, dead, missed>>
  BY <1>1 DEF schedVars, restVars
<1>3. /\ TypeOK /\ PointInv /\ LinkInv /\ HeldInv /\ StopInv /\ QueueInv /\ WorkInv
      /\ m \in Actors /\ m # Sysmon
  BY Finite DEF IInv
<1>4. CASE mp[m] # None /\ status[mp[m]] = "syscall"
  <2>1. Acquire(m, mp[m]) /\ pc' = [pc EXCEPT ![m] = "run"]
    BY <1>4 DEF Exitsyscallfast, Goto
  <2>2. mp[m] \in Ps /\ ret' \in [Ms -> {"sched", "find"}]
    BY <1>1, <1>3, <1>4 DEF TypeOK
  <2>3. QED
    BY <1>1, <1>4, <2>1, <2>2, AcquireInv
<1>5. CASE ~(mp[m] # None /\ status[mp[m]] = "syscall")
  <2>1. /\ mp' = [mp EXCEPT ![m] = None] /\ pc' = [pc EXCEPT ![m] = "exit"]
        /\ UNCHANGED <<pm, status>>
    BY <1>5 DEF Exitsyscallfast, Goto
  <2>2. /\ pc[m] \notin Working \cup Handoff \cup Starting /\ "exit" \in Points
        /\ "exit" \notin Working \cup Handoff \cup Starting \cup Calling
    BY <1>1 DEF Points, Working, Wakeup, Handoff, Starting, Calling
  <2>3. nextp[m] = None /\ ~spinning[m] /\ hand[m] = None /\ None \notin Ps
    BY <1>1, <1>3, <2>2, SchedAssumption DEF PointInv, ThreadInv
  <2>4. pc'[m] = "exit" /\ \A b \in Actors : b # m => pc'[b] = pc[b]
    BY <1>3, <2>1, OthersStay
  <2>5. mp'[m] = None /\ Only(m)
    BY <1>1, <1>3, <2>1, <2>4 DEF TypeOK, Only
  <2>6. PointInv'
    <3>1. ThreadInv(m)'
      BY <1>1, <2>2, <2>3, <2>4, <2>5 DEF ThreadInv
    <3>2. hand'[m] # None <=> pc'[m] \in Handoff \cup {"retake"}
      BY <1>1, <2>2, <2>3, <2>4
    <3>3. QED
      BY <1>2, <1>3, <2>5, <3>1, <3>2, PointMove
  <2>7. LinkInv'
    <3>1. \A r \in Ps : ~(mp[m] = r /\ status'[r] = "syscall")
      BY <1>5, <2>1, <2>3
    <3>2. QED
      BY <1>3, <2>1, <2>2, <2>4, <2>5, <3>1, LinkRest
  <2>8. HeldInv'
    <3>1. Held(m)' = Held(m)
      BY <2>2, <2>4 DEF Held
    <3>2. QED
      BY <1>1, <1>3, <2>1, <2>5, <3>1, HeldRest
  <2>9. StopInv'
    BY <1>1, <1>2, <1>3, <2>1, <2>4, <2>5, StopRest
  <2>10. QueueInv'
    <3>1. \A r \in pidle' : q[r] = 0
      BY <1>1, <1>3 DEF QueueInv
    <3>2. QED
      BY <1>1, <1>3, <2>4, <2>5, <3>1, QueueMove
  <2>11. SpinnersInv' /\ GoroutinesInv'
    <3>1. pc[m] \in Carry /\ pc'[m] \in Carry
      BY <1>1, <2>4 DEF Carry, Calling
    <3>2. Spins(m)' <=> Spins(m)
      BY <1>1, <2>4 DEF Spins
    <3>3. QED
      BY <1>1, <1>2, <1>3, <2>5, <3>1, <3>2, CountsRest
  <2>12. TypeOK'
    <3>1. pc' \in [Actors -> Points] /\ mp' \in [Ms -> Ps \cup {None}]
      BY <1>3, <2>1, <2>2 DEF TypeOK
    <3>2. QED
      BY <1>1, <1>2, <1>3, <2>1, <3>1, MoveType DEF TypeOK
  <2>13. WorkInv' /\ GlobalInv'
    <3>1. ~Spins(m) /\ pc[m] \notin Help \cup {"recheck"}
      BY <1>1, <2>3 DEF Spins, Help
    <3>2. WorkInv'
      BY <1>1, <1>2, <1>3, <2>1, <3>1, WorkBystander
    <3>3. QED
      BY <1>1, <1>2, <3>2 DEF IInv, GlobalInv
  <2>14. QED
    BY <1>2, <2>6, <2>7, <2>8, <2>9, <2>10, <2>11, <2>12, <2>13 DEF IInv
<1>6. QED
  BY <1>4, <1>5

(***************************************************************************)
(* sysmon                                                                  *)
(***************************************************************************)

\* sysmon goes to x, with h in its hand: the P of a system call at "retake", one
\* that it has taken from it at "hand".
LEMMA SysmonInv ==
  ASSUME IInv, pc[Sysmon] \in {"idle", "retake", "inc"},
         NEW x \in {"idle", "retake", "hand", "inc"}, pc' = [pc EXCEPT ![Sysmon] = x],
         NEW h \in Ps \cup {None}, hand' = [hand EXCEPT ![Sysmon] = h],
         h # None <=> x \in {"retake", "hand"},
         x = "hand" => status[h] = "syscall" /\ status' = [status EXCEPT ![h] = "idle"],
         x # "hand" => UNCHANGED status,
         nmidlelocked' = IF x = "idle" THEN 0 ELSE -1,
         dead' \in {"no", "deadlock", "throw"}, dead' # "throw",
         UNCHANGED <<ret, mp, nextp, spinning, todo, pm, q, pidle, global, nmspinning,
                     gcwaiting, stopwait, waiting, missed>>
  PROVE  IInv'
<1>1. /\ TypeOK /\ PointInv /\ LinkInv /\ HeldInv /\ StopInv /\ QueueInv /\ WorkInv
      /\ Sysmon \in Actors /\ Sysmon \notin Ms
  BY Finite DEF IInv
<1>2. /\ pc[Sysmon] \notin Handoff \cup Starting /\ x \in Points /\ x \notin Starting
      /\ (x \in Handoff <=> x = "hand")
  BY DEF Points, Handoff, Starting
<1>3. None \notin Ps
  BY SchedAssumption
<1>4. pc'[Sysmon] = x /\ \A b \in Actors : b # Sysmon => pc'[b] = pc[b]
  BY <1>1, OthersStay
<1>5. hand'[Sysmon] = h /\ Only(Sysmon)
  BY <1>1, <1>4 DEF TypeOK, Only
<1>6. Held(Sysmon) = None /\ Held(Sysmon)' = IF x = "hand" THEN h ELSE None
  BY <1>2, <1>4, <1>5 DEF Held
<1>7. x = "hand" => /\ h \in Ps /\ status[h] = "syscall" /\ status'[h] = "idle"
                    /\ \A r \in Ps : r # h => status'[r] = status[r]
  BY <1>1 DEF TypeOK
<1>8. PointInv'
  <2>1. hand'[Sysmon] # None <=> pc'[Sysmon] \in Handoff \cup {"retake"}
    BY <1>2, <1>4, <1>5
  <2>2. pc'[Sysmon] \in Handoff \cup {"idle", "retake", "inc"}
        /\ nmidlelocked' = IF pc'[Sysmon] = "idle" THEN 0 ELSE -1
    BY <1>2, <1>4
  <2>3. QED
    BY <1>1, <1>5, <2>1, <2>2, PointMove
<1>9. LinkInv'
  <2>1. \A r \in Ps : \/ status'[r] = status[r]
                      \/ status[r] \in {"idle", "syscall"} /\ status'[r] \in {"idle", "gcstop"}
    BY <1>7
  <2>2. QED
    BY <1>1, <1>5, <2>1, LinkRest
<1>10. HeldInv'
  <2>1. CASE x = "hand"
    <3>1. h \notin pidle /\ \A b \in Actors : Held(b) # h
      BY <1>1, <1>7, <2>1 DEF HeldInv
    <3>2. pidle' \subseteq Ps /\ h \notin pidle' /\ status'[h] = "idle" /\ Held(Sysmon)' = h
      BY <1>1, <1>6, <1>7, <2>1, <3>1 DEF TypeOK
    <3>3. \A r \in Ps : r # h => status'[r] = status[r] /\ (r \in pidle' <=> r \in pidle)
      BY <1>7, <2>1
    <3>4. QED
      BY <1>1, <1>5, <1>6, <1>7, <2>1, <3>1, <3>2, <3>3, HeldMove
  <2>2. CASE x # "hand"
    BY <1>1, <1>5, <1>6, <2>2, HeldRest
  <2>3. QED
    BY <2>1, <2>2
<1>11. StopInv'
  <2>1. \A n \in Ms : pc'[n] = pc[n]
    BY <1>1, <1>4, Finite
  <2>2. \A r \in Ps : status'[r] = "gcstop" <=> status[r] = "gcstop"
    BY <1>7
  <2>3. {r \in Ps : status'[r] # "gcstop"} = {r \in Ps : status[r] # "gcstop"}
    BY <2>2
  <2>4. QED
    BY <1>1, <2>1, <2>2, <2>3 DEF StopInv
<1>12. QueueInv'
  <2>1. \A r \in pidle' : q[r] = 0
    BY <1>1 DEF QueueInv
  <2>2. QED
    BY <1>1, <1>4, <1>5, <2>1, QueueMove
<1>13. ~Spins(Sysmon) /\ ~Spins(Sysmon)'
  BY <1>1, <1>4 DEF Spins
<1>14. SpinnersInv' /\ GoroutinesInv'
  BY <1>1, <1>5, <1>13, CountsRest
<1>15. TypeOK'
  <2>1. pc' \in [Actors -> Points] /\ hand' \in [Actors -> Ps \cup {None}]
    BY <1>1, <1>2 DEF TypeOK
  <2>2. status' \in [Ps -> {"idle", "running", "syscall", "gcstop"}] /\ nmidlelocked' \in {-1, 0}
    BY <1>1 DEF TypeOK
  <2>3. QED
    BY <1>1, <2>1, <2>2 DEF TypeOK
<1>16. WorkInv' /\ GlobalInv'
  <2>1. pc[Sysmon] \notin Help \cup {"recheck"}
    BY DEF Help
  <2>2. WorkInv'
    BY <1>1, <1>13, <2>1, WorkBystander
  <2>3. QED
    BY <2>2 DEF IInv, GlobalInv
<1>17. QED
  BY <1>8, <1>9, <1>10, <1>11, <1>12, <1>14, <1>15, <1>16 DEF IInv

LEMMA RetakeInv == ASSUME IInv, Retake PROVE IInv'
<1>1. /\ pc[Sysmon] = "idle" /\ nmidlelocked' = nmidlelocked - 1
      /\ pc' = [pc EXCEPT ![Sysmon] = "retake"]
      /\ UNCHANGED <<ret, mp, nextp, spinning, todo, pVars, global, nmspinning, gcwaiting,
                    stopwait, waiting, dead, missed>>
  BY DEF Retake, Goto
<1>2. PICK p \in Ps : hand' = [hand EXCEPT ![Sysmon] = p]
  BY DEF Retake
<1>3. UNCHANGED <<pm, status, q, pidle>> /\ p # None
  BY <1>1, SchedAssumption DEF pVars
<1>4. nmidlelocked' = -1 /\ dead' \in {"no", "deadlock", "throw"} /\ dead' # "throw"
  BY <1>1 DEF IInv, PointInv, TypeOK
<1>5. QED
  BY <1>1, <1>2, <1>3, <1>4, SysmonInv

LEMMA RetakeCasInv == ASSUME IInv, RetakeCas PROVE IInv'
<1> DEFINE p == hand[Sysmon]
<1>1. /\ pc[Sysmon] = "retake"
      /\ UNCHANGED <<ret, mp, nextp, spinning, todo, pm, q, pidle, schedVars>>
  BY DEF RetakeCas
<1>2. UNCHANGED <<global, nmspinning, nmidlelocked, gcwaiting, stopwait, waiting, dead, missed>>
  BY <1>1 DEF schedVars, restVars
<1>3. TypeOK /\ PointInv
  BY DEF IInv
<1>4. p \in Ps /\ p # None
  BY <1>1, <1>3, Finite DEF TypeOK, PointInv
<1>5. nmidlelocked' = -1 /\ dead' \in {"no", "deadlock", "throw"} /\ dead' # "throw"
  BY <1>1, <1>2 DEF IInv, PointInv, TypeOK
<1>6. CASE status[p] = "syscall"
  <2>1. /\ status' = [status EXCEPT ![p] = "idle"] /\ pc' = [pc EXCEPT ![Sysmon] = "hand"]
        /\ UNCHANGED hand
    BY <1>6 DEF RetakeCas, Goto
  <2>2. hand' = [hand EXCEPT ![Sysmon] = p]
    BY <1>3, <2>1 DEF TypeOK
  <2>3. QED
    BY <1>1, <1>2, <1>4, <1>5, <1>6, <2>1, <2>2, SysmonInv
<1>7. CASE status[p] # "syscall"
  <2>1. /\ hand' = [hand EXCEPT ![Sysmon] = None] /\ pc' = [pc EXCEPT ![Sysmon] = "inc"]
        /\ UNCHANGED status
    BY <1>7 DEF RetakeCas, Goto
  <2>2. QED
    BY <1>1, <1>2, <1>5, <2>1, SysmonInv
<1>8. QED
  BY <1>6, <1>7

LEMMA RetakeEndInv == ASSUME IInv, RetakeEnd PROVE IInv'
<1> DEFINE all == {n \in Ms : pc[n] # "none"}
           run == Cardinality(all) - nmidle - (nmidlelocked + 1)
<1>1. /\ pc[Sysmon] = "inc" /\ pc' = [pc EXCEPT ![Sysmon] = "idle"]
      /\ nmidlelocked' = nmidlelocked + 1
      /\ dead' = IF run > 0 THEN dead
                 ELSE IF run < 0 \/ waiting < NG THEN "throw" ELSE "deadlock"
      /\ UNCHANGED <<ret, mp, nextp, spinning, hand, todo, pVars, global, nmspinning,
                    gcwaiting, stopwait, waiting, missed>>
  BY DEF RetakeEnd, Goto, Checkdead
<1>2. UNCHANGED <<pm, status, q, pidle>>
  BY <1>1 DEF pVars
<1>3. TypeOK /\ PointInv /\ dead # "throw"
  BY DEF IInv
<1>4. nmidlelocked = -1 /\ nmidlelocked' = 0
  BY <1>1, <1>3 DEF PointInv
<1>5. dead' \in {"no", "deadlock", "throw"} /\ dead' # "throw"
  <2>1. /\ Cardinality(all) \in Nat /\ nmidle \in Nat /\ nmidle <= Cardinality(all)
        /\ nmidle = Cardinality(all) => \A n \in Ms : pc[n] \in {"none", "parked"}
    BY ThreadCounts
  <2>2. run = Cardinality(all) - nmidle /\ run >= 0 /\ run \in Int
    BY <1>4, <2>1
  <2>3. CASE run > 0
    BY <1>1, <1>3, <2>3 DEF TypeOK
  <2>4. CASE run = 0
    <3>1. \A n \in Ms : pc[n] \in {"none", "parked", "stopm"}
      BY <2>1, <2>2, <2>4
    <3>2. waiting = NG
      BY <1>1, <3>1, AllParked
    <3>3. ~(waiting < NG)
      BY <3>2, SchedAssumption
    <3>4. QED
      BY <1>1, <2>4, <3>3
  <2> HIDE DEF run
  <2>5. QED
    BY <2>2, <2>3, <2>4
<1>6. hand' = [hand EXCEPT ![Sysmon] = None]
  <2>1. hand[Sysmon] = None
    BY <1>1, <1>3, Finite DEF PointInv, Handoff
  <2>2. QED
    BY <1>1, <1>3, <2>1 DEF TypeOK
<1>7. QED
  BY <1>1, <1>2, <1>4, <1>5, <1>6, SysmonInv

(***************************************************************************)
(* The end of handoffp, and startm                                         *)
(***************************************************************************)

\* Where an actor goes on that has had a P to give away.
LEMMA AfterHandoff ==
  ASSUME TypeOK, PointInv, NEW a \in Actors, pc[a] \in Handoff
  PROVE  /\ After(a) = IF a = Sysmon THEN "inc" ELSE "insys"
         /\ a \in Ms => mp[a] = None /\ nextp[a] = None /\ ~spinning[a]
<1>1. pc[a] \notin Working \cup Calling \cup Starting
  BY DEF Working, Wakeup, Calling, Starting, Handoff
<1>2. ASSUME a \in Ms
      PROVE  mp[a] = None /\ nextp[a] = None /\ ~spinning[a]
  BY <1>1, <1>2 DEF PointInv, ThreadInv, Handoff
<1>3. QED
  BY <1>2, Finite DEF After

LEMMA HandLockedInv == ASSUME IInv, NEW a \in Actors, HandLocked(a) PROVE IInv'
<1> DEFINE p == hand[a]
           x == After(a)
<1>1. /\ pc[a] = "handlock"
      /\ missed' = (missed \/ (pidle' # pidle /\ Queued))
      /\ UNCHANGED <<ret, mp, nextp, spinning, todo, pm, q, global, nmspinning, nmidlelocked,
                    gcwaiting, waiting, dead>>
  BY DEF HandLocked
<1>2. /\ TypeOK /\ PointInv /\ LinkInv /\ HeldInv /\ StopInv /\ QueueInv /\ WorkInv
      /\ Sysmon \notin Ms
  BY Finite DEF IInv
<1>3. pc[a] \in Handoff /\ pc[a] \notin Working \cup Starting \cup Calling
  BY <1>1 DEF Handoff, Working, Wakeup, Starting, Calling
<1>4. p \in Ps /\ Held(a) = p /\ None \notin Ps /\ q[p] = 0
  BY <1>1, <1>2, <1>3, HeldAt, SchedAssumption DEF QueueInv
<1>5. CASE ~gcwaiting /\ global > 0
  <2>1. pc' = [pc EXCEPT ![a] = "start"] /\ UNCHANGED <<hand, status, pidle, stopwait>>
    BY <1>5 DEF HandLocked, Goto
  <2>2. missed' = missed
    BY <1>1, <1>2, <2>1 DEF TypeOK
  <2>3. UNCHANGED <<pVars, schedVars>>
    BY <1>1, <2>1, <2>2 DEF pVars, schedVars, restVars
  <2>4. QED
    BY <1>1, <2>1, <2>3, HandLooks
<1>6. CASE ~(~gcwaiting /\ global > 0)
  <2>1. /\ pc' = [pc EXCEPT ![a] = x] /\ hand' = [hand EXCEPT ![a] = None]
        /\ gcwaiting => /\ status' = [status EXCEPT ![p] = "gcstop"]
                        /\ stopwait' = stopwait - 1 /\ UNCHANGED pidle
        /\ ~gcwaiting => pidle' = pidle \cup {p} /\ UNCHANGED <<status, stopwait>>
    BY <1>6 DEF HandLocked, Goto
  <2>2. /\ x = IF a = Sysmon THEN "inc" ELSE "insys"
        /\ a \in Ms => mp[a] = None /\ nextp[a] = None /\ ~spinning[a]
    BY <1>2, <1>3, AfterHandoff
  <2> HIDE DEF x
  <2>3. /\ x \in Points /\ x \notin Working \cup Starting \cup Handoff \cup {"retake"}
        /\ x \notin {"stopping", "gcstop"}
    BY <2>2 DEF Points, Working, Wakeup, Starting, Handoff, Calling
  <2>4. pc'[a] = x /\ \A b \in Actors : b # a => pc'[b] = pc[b]
    BY <1>2, <2>1, OthersStay
  <2>5. hand'[a] = None /\ Only(a)
    BY <1>1, <1>2, <2>1, <2>4 DEF TypeOK, Only
  <2>6. status[p] = "idle" /\ p \notin pidle /\ \A b \in Actors : b # a => Held(b) # p
    BY <1>2, <1>4 DEF HeldInv
  <2>7. /\ status'[p] = IF gcwaiting THEN "gcstop" ELSE "idle"
        /\ \A r \in Ps : r # p => status'[r] = status[r]
    BY <1>2, <1>4, <2>1, <2>6 DEF TypeOK
  <2>8. gcwaiting => pidle = {}
    BY <1>2 DEF StopInv
  <2>9. Held(a)' = None
    BY <2>3, <2>4 DEF Held
  <2>10. PointInv'
    <3>1. a \in Ms => ThreadInv(a)'
      BY <1>1, <1>2, <2>2, <2>3, <2>4 DEF ThreadInv
    <3>2. hand'[a] # None <=> pc'[a] \in Handoff \cup {"retake"}
      BY <2>3, <2>4, <2>5
    <3>3. a = Sysmon => pc'[a] = "inc" /\ nmidlelocked' = -1
      BY <1>1, <1>2, <2>2, <2>4 DEF PointInv
    <3>4. QED
      BY <1>1, <1>2, <2>5, <3>1, <3>2, <3>3, PointMove
  <2>11. LinkInv'
    <3>1. \A r \in Ps : \/ status'[r] = status[r]
                        \/ status[r] \in {"idle", "syscall"} /\ status'[r] \in {"idle", "gcstop"}
      BY <2>6, <2>7
    <3>2. \A r \in Ps : ~(a \in Ms /\ mp[a] = r)
      BY <1>4, <2>2
    <3>3. QED
      BY <1>1, <1>2, <1>3, <2>3, <2>4, <2>5, <3>1, <3>2, LinkRest
  <2>12. HeldInv'
    <3>1. \A r \in Ps : r # p => status'[r] = status[r] /\ (r \in pidle' <=> r \in pidle)
      BY <2>1, <2>7
    <3>2. status'[p] = "idle" <=> p \in pidle'
      BY <2>1, <2>6, <2>7
    <3>3. pidle' \subseteq Ps /\ Held(a)' # p
      BY <1>2, <1>4, <2>1, <2>9 DEF TypeOK
    <3>4. QED
      BY <1>2, <1>4, <2>5, <2>6, <2>9, <3>1, <3>2, <3>3, HeldMove
  <2>13. StopInv' /\ stopwait' \in Nat
    <3>1. {pc[a], pc'[a]} \cap {"stopping"} = {} /\ pc'[a] # "gcstop"
      BY <1>1, <2>3, <2>4
    <3>2. gcwaiting => pidle' = {} /\ status[p] # "gcstop"
      BY <2>1, <2>6, <2>8
    <3>3. IF status'[p] = "gcstop" THEN gcwaiting /\ stopwait' = stopwait - 1
          ELSE stopwait' = stopwait
      BY <2>1, <2>7
    <3>4. StopInv' /\ (gcwaiting => stopwait' \in Nat)
      BY <1>1, <1>2, <1>4, <2>5, <2>7, <3>1, <3>2, <3>3, StopMove
    <3>5. QED
      BY <1>2, <2>1, <3>4 DEF TypeOK
  <2>14. QueueInv'
    <3>1. \A r \in pidle' : q[r] = 0
      BY <1>2, <1>4, <2>1 DEF QueueInv
    <3>2. x \notin {"handspin", "handidle", "handcas", "handlock", "startspin", "decide", "spin",
                    "steal", "stop", "sched", "new", "woken"}
      BY <2>2
    <3>3. QED
      BY <1>1, <1>2, <2>4, <2>5, <3>1, <3>2, QueueMove
  <2>15. ~Spins(a) /\ ~Spins(a)'
    BY <1>1, <2>2, <2>4 DEF Spins
  <2>16. SpinnersInv' /\ GoroutinesInv'
    <3>1. a \in Ms => pc[a] \in Carry /\ pc'[a] \in Carry
      BY <1>1, <1>2, <2>2, <2>4 DEF Carry, Calling, Handoff
    <3>2. QED
      BY <1>1, <2>5, <2>15, <3>1, CountsRest
  <2>17. TypeOK'
    <3>1. pc' \in [Actors -> Points] /\ hand' \in [Actors -> Ps \cup {None}]
      BY <1>2, <2>1, <2>3 DEF TypeOK
    <3>2. /\ status' \in [Ps -> {"idle", "running", "syscall", "gcstop"}]
          /\ pidle' \in SUBSET Ps /\ missed' \in BOOLEAN
      BY <1>1, <1>2, <1>4, <2>1 DEF TypeOK
    <3>3. QED
      BY <1>1, <1>2, <2>13, <3>1, <3>2, MoveType DEF TypeOK
  <2>18. WorkInv'
    <3>1. CASE gcwaiting
      BY <2>1, <2>8, <3>1 DEF WorkInv
    <3>2. CASE ~gcwaiting
      <4>1. pidle' # pidle
        BY <2>1, <2>6, <3>2
      <4>2. ~missed' => \A r \in Ps : ~(q'[r] > 0)
        BY <1>1, <4>1 DEF Queued
      <4>3. QED
        BY <4>2 DEF WorkInv
    <3>3. QED
      BY <3>1, <3>2
  <2>19. GlobalInv'
    <3>1. CASE gcwaiting
      BY <1>1, <2>1, <3>1 DEF IInv, GlobalInv
    <3>2. CASE ~gcwaiting
      BY <1>1, <1>2, <1>6, <3>2 DEF TypeOK, GlobalInv
    <3>3. QED
      BY <3>1, <3>2
  <2>20. dead' # "throw"
    BY <1>1 DEF IInv
  <2>21. QED
    BY <2>10, <2>11, <2>12, <2>13, <2>14, <2>16, <2>17, <2>18, <2>19, <2>20 DEF IInv
<1>7. QED
  BY <1>5, <1>6

\* a has given p to t, a thread that was parked or new, to spin with or to run
\* what is in its queue.
GivenTo(a, t, p, spin, x, y) ==
  /\ pc' = [b \in Actors |-> IF b = a THEN x ELSE IF b = t THEN y ELSE pc[b]]
  /\ nextp' = [nextp EXCEPT ![t] = p]
  /\ spinning' = [spinning EXCEPT ![t] = spin /\ y = "woken"]
  /\ hand' = [hand EXCEPT ![a] = None]

LEMMA GiveInv ==
  ASSUME IInv, NEW a \in Actors, NEW t \in Ms, NEW p \in Ps, NEW spin \in BOOLEAN,
         pc[t] \in {"parked", "none"}, NEW y \in {"new", "woken"}, y = "new" => spin,
         NEW x, x = After(a),
         GivenTo(a, t, p, spin, x, y),
         pc[a] \in {"start", "startspin"} => p = hand[a] /\ pidle' = pidle,
         pc[a] \notin {"start", "startspin"} =>
           a \in Ms /\ pc[a] = "startidle" /\ p \in pidle /\ pidle' = pidle \ {p},
         spin <=> pc[a] # "start",
         UNCHANGED <<ret, mp, todo, pm, status, q, schedVars>>
  PROVE  IInv'
<1>1. UNCHANGED <<global, nmspinning, nmidlelocked, gcwaiting, stopwait, waiting, dead, missed>>
  BY DEF schedVars, restVars
<1>2. /\ TypeOK /\ PointInv /\ LinkInv /\ HeldInv /\ StopInv /\ QueueInv /\ SpinnersInv
      /\ GoroutinesInv /\ WorkInv /\ GlobalInv
  BY DEF IInv
<1>3. /\ t \in Actors /\ t # a /\ t # Sysmon /\ Sysmon \notin Ms /\ None \notin Ps
      /\ pc[a] \in {"start", "startspin", "startidle"}
      /\ Ms \subseteq Actors /\ \A b \in Actors : b \in Ms \/ b = Sysmon
  BY Finite, SchedAssumption
<1>4. /\ pc[t] \notin Working \cup Handoff \cup Starting \cup Calling \cup Carry
      /\ y \in Points /\ y \in Starting
      /\ y \notin Working \cup Handoff \cup Calling \cup Carry
  BY DEF Points, Working, Wakeup, Handoff, Starting, Calling, Carry
<1>5. /\ mp[t] = None /\ nextp[t] = None /\ ~spinning[t] /\ hand[t] = None
  BY <1>2, <1>3, <1>4 DEF PointInv, ThreadInv
<1>6. /\ x \in {"inc", "insys", "run"} /\ (x = "inc" <=> a = Sysmon)
      /\ x = "run" <=> pc[a] = "startidle"
      /\ a \in Ms => nextp[a] = None /\ ~spinning[a] /\ (x = "run" <=> mp[a] # None)
      /\ pc[a] \notin Starting
      /\ pc[a] \in Handoff <=> pc[a] # "startidle"
  <2>1. pc[a] \in Handoff <=> pc[a] # "startidle"
    BY <1>3 DEF Handoff
  <2>2. pc[a] \notin Starting
    BY <1>3 DEF Starting
  <2>3. CASE pc[a] = "startidle"
    <3>1. a \in Ms /\ pc[a] \in Working
      BY <2>3 DEF Working, Wakeup
    <3>2. mp[a] # None /\ nextp[a] = None /\ ~spinning[a]
      BY <1>2, <2>2, <2>3, <3>1 DEF PointInv, ThreadInv
    <3>3. x = "run" /\ a # Sysmon
      BY <1>3, <3>1, <3>2 DEF After
    <3>4. QED
      BY <2>1, <2>2, <2>3, <3>2, <3>3
  <2>4. CASE pc[a] # "startidle"
    <3>1. /\ x = IF a = Sysmon THEN "inc" ELSE "insys"
          /\ a \in Ms => mp[a] = None /\ nextp[a] = None /\ ~spinning[a]
      BY <1>2, <2>1, <2>4, AfterHandoff
    <3>2. QED
      BY <1>3, <2>1, <2>2, <2>4, <3>1
  <2>5. QED
    BY <2>3, <2>4
<1>7. /\ x \in Points /\ x \notin Handoff \cup Starting \cup {"idle", "retake"}
      /\ x \in Working <=> x = "run"
      /\ x # "inc" => x \in Carry
      /\ x = "insys" <=> x \in Calling
  BY <1>6 DEF Points, Working, Wakeup, Handoff, Starting, Calling, Carry
<1>8. /\ pc'[a] = x /\ pc'[t] = y
      /\ \A b \in Actors : b # a /\ b # t => pc'[b] = pc[b]
  BY <1>3 DEF GivenTo
<1>9. /\ nextp'[t] = p /\ spinning'[t] = (spin /\ y = "woken")
      /\ \A n \in Ms : n # t => nextp'[n] = nextp[n] /\ spinning'[n] = spinning[n]
  BY <1>2 DEF TypeOK, GivenTo
<1>10. /\ hand'[a] = None /\ \A b \in Actors : b # a => hand'[b] = hand[b]
  BY <1>2 DEF TypeOK, GivenTo
<1>11. /\ Held(a) = IF pc[a] = "startidle" THEN None ELSE p
       /\ Held(t) = None
  BY <1>3, <1>4, <1>6 DEF Held
<1>12. /\ status[p] = "idle" /\ p \notin pidle' /\ pidle' \subseteq pidle
       /\ \A b \in Actors : b # a => Held(b) # p
       /\ \A r \in Ps : r # p => (r \in pidle' <=> r \in pidle)
  <2>1. CASE pc[a] = "startidle"
    BY <1>2, <2>1 DEF HeldInv
  <2>2. CASE pc[a] # "startidle"
    BY <1>2, <1>3, <1>11, <2>2 DEF HeldInv
  <2>3. QED
    BY <2>1, <2>2
<1>13. PointInv'
  <2>1. ThreadInv(t)'
    <3>1. y \notin {"idle", "retake", "inc", "entered"}
      OBVIOUS
    <3>2. QED
      BY <1>3, <1>4, <1>5, <1>8, <1>9, <3>1 DEF ThreadInv
  <2>2. a \in Ms => ThreadInv(a)'
    BY <1>3, <1>6, <1>7, <1>8, <1>9 DEF ThreadInv
  <2>3. \A n \in Ms : n # a /\ n # t => ThreadInv(n)'
    BY <1>2, <1>8, <1>9, Finite DEF PointInv, ThreadInv
  <2>4. \A b \in Actors : hand'[b] # None <=> pc'[b] \in Handoff \cup {"retake"}
    <3>1. y # "retake"
      OBVIOUS
    <3>2. QED
      BY <1>2, <1>3, <1>4, <1>5, <1>7, <1>8, <1>10, <3>1 DEF PointInv
  <2>5. /\ pc'[Sysmon] \in Handoff \cup {"idle", "retake", "inc"}
        /\ nmidlelocked' = IF pc'[Sysmon] = "idle" THEN 0 ELSE -1
    <3>1. CASE a = Sysmon
      BY <1>1, <1>2, <1>3, <1>6, <1>8, <3>1 DEF PointInv
    <3>2. CASE a # Sysmon
      BY <1>1, <1>2, <1>3, <1>8, <3>2, Finite DEF PointInv
    <3>3. QED
      BY <3>1, <3>2
  <2>6. QED
    BY <2>1, <2>2, <2>3, <2>4, <2>5 DEF PointInv
<1>14. LinkInv'
  <2>1. \A n \in Ms : pc'[n] \in Working <=> pc[n] \in Working
    <3>1. a \in Ms => (pc[a] \in Working <=> x = "run")
      BY <1>3, <1>6 DEF Working, Wakeup
    <3>2. QED
      BY <1>3, <1>4, <1>7, <1>8, <3>1
  <2>2. \A n \in Ms : /\ pc[n] \in Calling => pc'[n] \in Calling
                      /\ (pc'[n] # "stopping" /\ pc[n] # "stopping") \/ pc'[n] = pc[n]
    <3>1. pc[a] \notin Calling \cup {"stopping"} /\ x # "stopping" /\ y # "stopping"
      BY <1>3, <1>6 DEF Calling
    <3>2. QED
      BY <1>3, <1>4, <1>8, <3>1
  <2>3. \A n \in Ms : pc'[n] \in Working =>
          pm[mp[n]] = n /\ status[mp[n]] = IF pc'[n] = "stopping" THEN "gcstop" ELSE "running"
    BY <1>2, <2>1, <2>2 DEF LinkInv
  <2>4. ASSUME NEW r \in Ps, pm[r] # None
        PROVE  mp[pm[r]] = r /\ pc'[pm[r]] \in Working
    <3>1. mp[pm[r]] = r /\ pc[pm[r]] \in Working /\ pm[r] \in Ms
      BY <1>2, <2>4 DEF LinkInv, TypeOK
    <3>2. QED
      BY <2>1, <3>1
  <2>5. ASSUME NEW r \in Ps, status[r] = "syscall"
        PROVE  \E n \in Ms : mp[n] = r /\ pc'[n] \in Calling
    <3>1. PICK n \in Ms : mp[n] = r /\ pc[n] \in Calling
      BY <1>2, <2>5 DEF LinkInv
    <3>2. QED
      BY <2>2, <3>1
  <2>6. \A r \in Ps : status[r] = "running" => pm[r] # None
    BY <1>2 DEF LinkInv
  <2>7. QED
    BY <2>3, <2>4, <2>5, <2>6 DEF LinkInv
<1>15. HeldInv'
  <2>1. Held(a)' = None /\ Held(t)' = p
    BY <1>4, <1>7, <1>8, <1>9 DEF Held
  <2>2. \A b \in Actors : b # a /\ b # t => Held(b)' = Held(b)
    <3>1. pc[Sysmon] \notin Starting
      BY <1>2 DEF PointInv, Handoff, Starting
    <3>2. QED
      BY <1>3, <1>8, <1>9, <1>10, <3>1 DEF Held
  <2>3. \A r \in Ps : status[r] = "idle" <=> r \in pidle' \/ \E b \in Actors : Held(b)' = r
    <3>1. ASSUME NEW r \in Ps
          PROVE  status[r] = "idle" <=> r \in pidle' \/ \E b \in Actors : Held(b)' = r
      <4>1. CASE r = p
        BY <1>3, <1>12, <2>1, <4>1
      <4>2. CASE r # p
        <5>1. status[r] = "idle" <=> r \in pidle \/ \E b \in Actors : Held(b) = r
          BY <1>2 DEF HeldInv
        <5>2. \A b \in Actors : Held(b)' = r <=> Held(b) = r
          BY <1>3, <1>11, <2>1, <2>2, <4>2
        <5>3. QED
          BY <1>12, <4>2, <5>1, <5>2
      <4>3. QED
        BY <4>1, <4>2
    <3>2. QED
      BY <3>1
  <2>4. \A b, c \in Actors : Held(b)' = Held(c)' => b = c \/ Held(b)' = None
    <3>1. \A b, c \in Actors : Held(b) = Held(c) => b = c \/ Held(b) = None
      BY <1>2 DEF HeldInv
    <3>2. \A b \in Actors : b = t \/ Held(b)' # p
      BY <1>3, <1>12, <2>1, <2>2
    <3>3. \A b \in Actors : b # t => Held(b)' = None \/ (b # a /\ Held(b)' = Held(b))
      BY <2>1, <2>2
    <3>4. QED
      BY <2>1, <3>1, <3>2, <3>3
  <2>5. \A b \in Actors : Held(b)' \notin pidle'
    <3>1. None \notin pidle'
      BY <1>2, <1>3, <1>12 DEF TypeOK
    <3>2. QED
      BY <1>2, <1>12, <2>1, <2>2, <3>1 DEF HeldInv
  <2>6. QED
    BY <2>3, <2>4, <2>5 DEF HeldInv
<1>16. StopInv'
  <2>1. \A n \in Ms : pc'[n] = pc[n] \/ (pc[n] \notin {"stopping", "gcstop"}
                                         /\ pc'[n] \notin {"stopping", "gcstop"})
    BY <1>3, <1>6, <1>8
  <2>2. \A n \in Ms : /\ pc'[n] = "stopping" <=> pc[n] = "stopping"
                      /\ pc'[n] = "gcstop" <=> pc[n] = "gcstop"
    BY <2>1
  <2>3. pidle = {} => pidle' = {}
    BY <1>12
  <2>4. QED
    BY <1>1, <1>2, <2>2, <2>3 DEF StopInv
<1>17. QueueInv'
  <2>1. spin => q[p] = 0
    BY <1>2, <1>3 DEF QueueInv
  <2>2. \A r \in pidle' : q[r] = 0
    BY <1>2, <1>12 DEF QueueInv
  <2>3. \A b \in Actors :
          pc'[b] \in {"handspin", "handidle", "handcas", "handlock", "startspin"} => q[hand'[b]] = 0
    BY <1>2, <1>6, <1>8, <1>10 DEF QueueInv
  <2>4. \A n \in Ms : /\ pc'[n] \in {"decide", "spin", "steal", "stop"} => q[mp[n]] = 0
                      /\ pc'[n] = "sched" /\ spinning'[n] => q[mp[n]] = 0
    BY <1>2, <1>3, <1>6, <1>8, <1>9 DEF QueueInv
  <2>5. \A n \in Ms : /\ pc'[n] = "new" => q[nextp'[n]] = 0
                      /\ pc'[n] = "woken" /\ spinning'[n] => q[nextp'[n]] = 0
    <3>1. ASSUME NEW n \in Ms
          PROVE  /\ pc'[n] = "new" => q[nextp'[n]] = 0
                 /\ pc'[n] = "woken" /\ spinning'[n] => q[nextp'[n]] = 0
      <4>1. CASE n = t
        BY <1>8, <1>9, <2>1, <4>1
      <4>2. CASE n = a
        BY <1>6, <1>8, <4>2
      <4>3. CASE n # a /\ n # t
        BY <1>2, <1>3, <1>8, <1>9, <4>3, Finite DEF QueueInv
      <4>4. QED
        BY <4>1, <4>2, <4>3
    <3>2. QED
      BY <3>1
  <2>6. QED
    BY <2>2, <2>3, <2>4, <2>5 DEF QueueInv
<1>18. /\ ~Spins(a)' /\ (Spins(a) <=> spin) /\ ~Spins(t) /\ (Spins(t)' <=> spin)
       /\ \A b \in Actors \ {a, t} : Spins(b)' <=> Spins(b)
  <2>1. ~Spins(a)' /\ (Spins(a) <=> spin)
    BY <1>3, <1>6, <1>8, <1>9 DEF Spins
  <2>2. ~Spins(t) /\ (Spins(t)' <=> spin)
    BY <1>5, <1>8, <1>9 DEF Spins
  <2>3. QED
    BY <1>8, <1>9, <2>1, <2>2 DEF Spins
<1>19. SpinnersInv'
  <2>1. Cardinality(Spinners') = Cardinality(Spinners)
    <3>1. CASE spin
      BY <1>3, <1>18, <3>1, SpinnersSwap
    <3>2. CASE ~spin
      <4>1. \A b \in Actors : Spins(b)' <=> Spins(b)
        BY <1>18, <3>2
      <4>2. Spinners' = Spinners
        BY <4>1 DEF Spinners
      <4>3. QED
        BY <4>2
    <3>3. QED
      BY <3>1, <3>2
  <2>2. QED
    BY <1>1, <1>2, <2>1 DEF SpinnersInv
<1>20. GoroutinesInv'
  <2>1. a \in Ms => pc[a] \in Carry /\ x \in Carry
    BY <1>3, <1>6, <1>7 DEF Carry, Wakeup, Handoff
  <2>2. \A n \in Ms : pc'[n] \in Carry <=> pc[n] \in Carry
    BY <1>3, <1>4, <1>8, <2>1
  <2>3. QED
    BY <1>1, <1>2, <2>2, GoroutinesSame
<1>21. TypeOK'
  <2>1. /\ pc' \in [Actors -> Points] /\ hand' \in [Actors -> Ps \cup {None}]
        /\ nextp' \in [Ms -> Ps \cup {None}]
    BY <1>2, <1>4, <1>7 DEF TypeOK, GivenTo
  <2>2. spinning' \in [Ms -> BOOLEAN]
    BY <1>2 DEF TypeOK, GivenTo
  <2>3. pidle' \in SUBSET Ps
    BY <1>2, <1>12 DEF TypeOK
  <2>4. QED
    BY <1>1, <1>2, <2>1, <2>2, <2>3, MoveType DEF TypeOK
<1>22. WorkInv'
  <2>1. CASE spin
    BY <1>3, <1>18, <2>1, WorkSpun
  <2>2. CASE ~spin
    <3>1. \A b \in Actors : Spins(b) => Spins(b)'
      BY <1>18, <2>2
    <3>2. pc[a] \notin Help \cup {"recheck"} /\ pc[t] \notin Help \cup {"recheck"}
      BY <2>2 DEF Help
    <3>3. \A n \in Ms, r \in Ps : Helps(n, r) => Helps(n, r)'
      BY <1>3, <1>8, <3>2, Finite DEF Helps
    <3>4. pidle' # {} => pidle # {}
      BY <1>12
    <3>5. QED
      BY <1>1, <1>2, <3>1, <3>3, <3>4, WorkKept
  <2>3. QED
    BY <2>1, <2>2
<1>23. GlobalInv'
  <2>1. CASE pidle' = pidle
    BY <1>1, <1>2, <2>1 DEF GlobalInv
  <2>2. CASE pidle' # pidle
    BY <1>12, <2>2 DEF GlobalInv
  <2>3. QED
    BY <2>1, <2>2
<1>24. QED
  BY <1>1, <1>2, <1>13, <1>14, <1>15, <1>16, <1>17, <1>19, <1>20, <1>21, <1>22, <1>23 DEF IInv

LEMMA GivenInv ==
  ASSUME IInv, NEW a \in Actors, NEW p \in Ps, NEW spin \in BOOLEAN, Give(a, p, spin),
         pc[a] \in {"start", "startspin"} => p = hand[a] /\ pidle' = pidle,
         pc[a] \notin {"start", "startspin"} =>
           a \in Ms /\ pc[a] = "startidle" /\ p \in pidle /\ pidle' = pidle \ {p},
         spin <=> pc[a] # "start",
         UNCHANGED <<ret, mp, todo, pm, status, q, schedVars>>
  PROVE  IInv'
<1> DEFINE idle == {m \in Ms : pc[m] = "parked"}
           new  == {m \in Ms : pc[m] = "none"}
           x    == After(a)
           y    == IF idle = {} /\ spin THEN "new" ELSE "woken"
<1>1. PICK t \in IF idle # {} THEN idle ELSE new :
           /\ nextp' = [nextp EXCEPT ![t] = p]
           /\ GotoAnd(a, x, {t}, y)
           /\ spinning' = [spinning EXCEPT ![t] = idle # {} /\ spin]
  BY DEF Give
<1>2. hand' = [hand EXCEPT ![a] = None]
  BY DEF Give
<1>3. t \in Ms /\ pc[t] \in {"parked", "none"}
  BY <1>1
<1>4. y \in {"new", "woken"} /\ (y = "new" => spin) /\ (idle # {} /\ spin <=> spin /\ y = "woken")
  OBVIOUS
<1>5. spinning' = [spinning EXCEPT ![t] = spin /\ y = "woken"]
  BY <1>1, <1>4
<1>6. pc' = [b \in Actors |-> IF b = a THEN x ELSE IF b = t THEN y ELSE pc[b]]
  BY <1>1 DEF GotoAnd
<1>7. GivenTo(a, t, p, spin, x, y) /\ x = After(a)
  BY <1>1, <1>2, <1>5, <1>6 DEF GivenTo
<1> HIDE DEF idle, new, x, y
<1>8. QED
  BY <1>3, <1>4, <1>7, GiveInv

LEMMA StartInv == ASSUME IInv, NEW a \in Actors, Start(a) PROVE IInv'
<1>1. /\ pc[a] = "start" /\ Give(a, hand[a], FALSE)
      /\ UNCHANGED <<ret, mp, todo, pVars, schedVars>>
  BY DEF Start
<1>2. hand[a] \in Ps
  BY <1>1, HeldAt DEF IInv, Handoff
<1>3. UNCHANGED <<pm, status, q, pidle>>
  BY <1>1 DEF pVars
<1>4. QED
  BY <1>1, <1>2, <1>3, GivenInv

LEMMA StartSpinningInv == ASSUME IInv, NEW a \in Actors, StartSpinning(a) PROVE IInv'
<1>1. /\ pc[a] = "startspin" /\ Give(a, hand[a], TRUE)
      /\ UNCHANGED <<ret, mp, todo, pVars, schedVars>>
  BY DEF StartSpinning
<1>2. hand[a] \in Ps
  BY <1>1, HeldAt DEF IInv, Handoff
<1>3. UNCHANGED <<pm, status, q, pidle>>
  BY <1>1 DEF pVars
<1>4. QED
  BY <1>1, <1>2, <1>3, GivenInv

LEMMA StartIdleInv == ASSUME IInv, NEW m \in Ms, StartIdle(m) PROVE IInv'
<1>1. pc[m] = "startidle" /\ UNCHANGED <<ret, mp, todo, pm, status, q, schedVars>>
  BY DEF StartIdle
<1>2. TypeOK /\ PointInv /\ m \in Actors
  BY Finite DEF IInv
<1>3. CASE pidle = {}
  <2>1. pc' = [pc EXCEPT ![m] = "undo"] /\ UNCHANGED <<nextp, spinning, hand, pidle>>
    BY <1>3 DEF StartIdle, Goto
  <2>2. UNCHANGED <<global, nmspinning, nmidlelocked, gcwaiting, stopwait, waiting, dead, missed>>
    BY <1>1 DEF schedVars, restVars
  <2>3. pc'[m] = "undo" /\ \A b \in Actors : b # m => pc'[b] = pc[b]
    BY <1>2, <2>1, OthersStay
  <2>4. Alike(pc[m], "undo") /\ pc[m] \in Carry /\ "undo" \in Carry
        /\ "undo" \in Points /\ "undo" \notin Handoff /\ pc[m] \in Working
    BY <1>1 DEF Alike, Working, Handoff, Starting, Calling, Wakeup, Carry, Points
  <2>5. ~spinning[m]
    BY <1>1, <1>2 DEF PointInv, ThreadInv
  <2>6. Spins(m) /\ Spins(m)'
    BY <1>1, <2>3 DEF Spins
  <2>7. /\ PointInv' /\ LinkInv' /\ HeldInv' /\ StopInv' /\ QueueInv' /\ SpinnersInv'
        /\ nmspinning' \in Nat
    BY <1>1, <2>1, <2>2, <2>4, <2>5, <2>6, Moves
  <2>8. TypeOK'
    BY <1>1, <1>2, <2>1, <2>2, <2>4, QuietType DEF TypeOK
  <2>9. GoroutinesInv'
    BY <1>1, <2>2, <2>3, <2>4, GoroutinesSame, Finite DEF IInv
  <2>10. WorkInv'
    BY <1>2, <2>6, WorkSpun
  <2>11. GlobalInv'
    BY <2>1, <2>2 DEF IInv, GlobalInv
  <2>12. QED
    BY <2>2, <2>7, <2>8, <2>9, <2>10, <2>11 DEF IInv
<1>4. CASE pidle # {}
  <2>1. PICK p \in pidle : Give(m, p, TRUE) /\ pidle' = pidle \ {p}
    BY <1>4 DEF StartIdle
  <2>2. p \in Ps
    BY <1>2, <2>1 DEF TypeOK
  <2>3. QED
    BY <1>1, <1>2, <2>1, <2>2, GivenInv
<1>5. QED
  BY <1>3, <1>4

(***************************************************************************)
(* The world stops and starts                                              *)
(***************************************************************************)

\* The Ps that nobody has with it stop at once.
LEMMA StopTheWorldInv == ASSUME IInv, NEW m \in Ms, StopTheWorld(m) PROVE IInv'
<1> DEFINE p == mp[m]
           Stops(r) == r = p \/ r \in pidle \/ status[r] = "syscall"
<1>1. /\ pc[m] = "run" /\ ~gcwaiting /\ gcwaiting' /\ pidle' = {}
      /\ status' = [r \in Ps |-> IF Stops(r) THEN "gcstop" ELSE status[r]]
      /\ stopwait' = Cardinality({r \in Ps : status'[r] # "gcstop"})
      /\ pc' = [pc EXCEPT ![m] = "stopping"]
  BY DEF StopTheWorld, Goto
<1>2. UNCHANGED <<ret, mp, nextp, spinning, hand, todo, pm, q, global, nmspinning,
                 nmidlelocked, waiting, dead, missed>>
  BY DEF StopTheWorld
<1>3. /\ TypeOK /\ PointInv /\ LinkInv /\ HeldInv /\ StopInv /\ QueueInv
      /\ m \in Actors /\ m # Sysmon
  BY Finite DEF IInv
<1>4. pc[m] \in Working /\ pc[m] \notin Handoff \cup Starting
  BY <1>1 DEF Working, Handoff, Starting
<1>5. "stopping" \in Points /\ "stopping" \in Working
      /\ "stopping" \notin Handoff \cup Starting \cup Calling
  BY DEF Points, Working, Wakeup, Handoff, Starting, Calling
<1>6. /\ p \in Ps /\ pm[p] = m
      /\ \A n \in Ms : n # m /\ pc[n] \in Working => mp[n] # p
      /\ \A a \in Actors : Held(a) # p
  BY <1>1, <1>3, <1>4, Owner
<1>7. pc'[m] = "stopping" /\ \A b \in Actors : b # m => pc'[b] = pc[b]
  BY <1>1, <1>3, OthersStay
<1>8. Only(m)
  BY <1>2, <1>7 DEF Only
<1>9. \A r \in Ps : /\ Stops(r) => status'[r] = "gcstop"
                    /\ ~Stops(r) => status'[r] = status[r]
  BY <1>1
<1>10. p # None /\ nextp[m] = None /\ ~spinning[m] /\ hand[m] = None
  BY <1>1, <1>3, <1>4, <1>6, SchedAssumption DEF PointInv, ThreadInv
<1>11. PointInv'
  <2>1. ThreadInv(m)'
    BY <1>2, <1>5, <1>7, <1>10 DEF ThreadInv
  <2>2. hand'[m] # None <=> pc'[m] \in Handoff \cup {"retake"}
    BY <1>2, <1>5, <1>7, <1>10
  <2>3. QED
    BY <1>2, <1>3, <1>8, <2>1, <2>2, PointMove
<1>12. LinkInv'
  <2>1. ASSUME NEW n \in Ms, pc'[n] \in Working
        PROVE  pm'[mp'[n]] = n /\ status'[mp'[n]] = IF pc'[n] = "stopping" THEN "gcstop" ELSE "running"
    <3>1. CASE n = m
      BY <1>2, <1>6, <1>7, <1>9, <3>1
    <3>2. CASE n # m
      <4>1. pc'[n] = pc[n] /\ pc[n] \in Working /\ pc[n] # "stopping"
        BY <1>1, <1>3, <1>7, <2>1, <3>2, Finite DEF StopInv
      <4>2. /\ mp[n] \in Ps /\ mp[n] # p /\ mp[n] \notin pidle
            /\ pm[mp[n]] = n /\ status[mp[n]] = "running"
        BY <1>3, <1>6, <3>2, <4>1, Owner
      <4>3. QED
        BY <1>2, <1>9, <4>1, <4>2
    <3>3. QED
      BY <3>1, <3>2
  <2>2. ASSUME NEW r \in Ps, pm[r] # None
        PROVE  mp[pm[r]] = r /\ pc'[pm[r]] \in Working
    <3>1. mp[pm[r]] = r /\ pc[pm[r]] \in Working /\ pm[r] \in Actors
      BY <1>3, <2>2, Finite DEF LinkInv, TypeOK
    <3>2. QED
      BY <1>5, <1>7, <3>1
  <2>3. \A r \in Ps : status'[r] = "running" => pm[r] # None
    BY <1>3, <1>9 DEF LinkInv
  <2>4. \A r \in Ps : status'[r] # "syscall"
    BY <1>9
  <2>5. QED
    BY <1>2, <2>1, <2>2, <2>3, <2>4 DEF LinkInv
<1>13. HeldInv'
  <2>1. \A b \in Actors : Held(b)' = Held(b)
    <3>1. pc[Sysmon] \notin Starting
      BY <1>3 DEF PointInv, Handoff, Starting
    <3>2. Held(m)' = Held(m)
      BY <1>4, <1>5, <1>7 DEF Held
    <3>3. QED
      BY <1>2, <1>7, <3>1, <3>2, Finite DEF Held
  <2>2. ASSUME NEW r \in Ps
        PROVE  status'[r] = "idle" <=> \E b \in Actors : Held(b) = r
    <3>1. status[r] = "idle" <=> r \in pidle \/ \E b \in Actors : Held(b) = r
      BY <1>3 DEF HeldInv
    <3>2. r \in pidle => \A b \in Actors : Held(b) # r
      BY <1>3 DEF HeldInv
    <3>3. QED
      BY <1>6, <1>9, <3>1, <3>2
  <2>3. QED
    BY <1>1, <1>3, <2>1, <2>2 DEF HeldInv
<1>14. StopInv'
  <2>1. \A n \in Ms : pc'[n] = "stopping" <=> n = m
    BY <1>1, <1>3, <1>7, Finite DEF StopInv
  <2>2. QED
    BY <1>1, <2>1 DEF StopInv
<1>15. QueueInv'
  BY <1>1, <1>2, <1>3, <1>7, <1>8, QueueMove
<1>16. SpinnersInv' /\ GoroutinesInv'
  <2>1. pc[m] \in Carry /\ pc'[m] \in Carry
    BY <1>1, <1>7 DEF Carry
  <2>2. Spins(m)' <=> Spins(m)
    BY <1>1, <1>2, <1>7 DEF Spins
  <2>3. QED
    BY <1>2, <1>3, <1>8, <2>1, <2>2, CountsRest
<1>17. TypeOK'
  <2>1. stopwait' \in Nat
    <3>1. IsFiniteSet({r \in Ps : status'[r] # "gcstop"})
      BY SchedAssumption, FS_Subset
    <3>2. QED
      BY <1>1, <3>1, FS_CardinalityType
  <2>2. status' \in [Ps -> {"idle", "running", "syscall", "gcstop"}]
    BY <1>1, <1>3 DEF TypeOK
  <2>3. pc' \in [Actors -> Points] /\ gcwaiting' \in BOOLEAN
    BY <1>1, <1>3, <1>5 DEF TypeOK
  <2>4. QED
    BY <1>1, <1>2, <1>3, <2>1, <2>2, <2>3 DEF TypeOK
<1>18. WorkInv' /\ GlobalInv'
  BY <1>1, SchedAssumption DEF WorkInv, GlobalInv
<1>19. QED
  BY <1>2, <1>11, <1>12, <1>13, <1>14, <1>15, <1>16, <1>17, <1>18 DEF IInv

\* When the world has stopped, its M is the only one that has a P with it.
LEMMA Stopped ==
  ASSUME IInv, NEW m \in Ms, pc[m] = "stopping", stopwait = 0
  PROVE  /\ \A r \in Ps : status[r] = "gcstop" /\ (pm[r] # None => r = mp[m])
         /\ \A n \in Ms : pc[n] \in Working => n = m
         /\ \A a \in Actors : Held(a) = None /\ pc[a] \notin Handoff \cup Starting
<1>1. TypeOK /\ PointInv /\ LinkInv /\ HeldInv /\ StopInv
  BY DEF IInv
<1> DEFINE left == {r \in Ps : status[r] # "gcstop"}
<1>2. \A r \in Ps : status[r] = "gcstop"
  <2>1. stopwait = Cardinality(left)
    BY <1>1 DEF StopInv
  <2>2. IsFiniteSet(left)
    <3>1. left \in SUBSET Ps
      OBVIOUS
    <3>2. QED
      BY <3>1, SchedAssumption, FS_Subset
  <2>3. left = {}
    <3> HIDE DEF left
    <3>1. QED
      BY <2>1, <2>2, FS_EmptySet
  <2>4. QED
    BY <2>3
<1>3. \A n \in Ms : pc[n] \in Working => n = m
  <2>1. ASSUME NEW n \in Ms, pc[n] \in Working
        PROVE  pc[n] = "stopping"
    <3>1. mp[n] \in Ps
      BY <1>1, <2>1 DEF TypeOK, PointInv, ThreadInv
    <3>2. QED
      BY <1>1, <1>2, <2>1, <3>1 DEF LinkInv
  <2>2. QED
    BY <1>1, <2>1 DEF StopInv
<1>4. \A r \in Ps : pm[r] # None => r = mp[m]
  <2>1. \A r \in Ps : pm[r] \in Ms \cup {None}
    BY <1>1 DEF TypeOK
  <2>2. QED
    BY <1>1, <1>3, <2>1 DEF LinkInv
<1>5. \A a \in Actors : Held(a) = None
  <2>1. \A a \in Actors : Held(a) \in Ps \cup {None}
    BY <1>1, HeldAt
  <2>2. QED
    BY <1>1, <1>2, <2>1 DEF HeldInv
<1>6. \A a \in Actors : pc[a] \notin Handoff \cup Starting
  <2>1. None \notin Ps
    BY SchedAssumption
  <2>2. pc[Sysmon] \notin Starting
    BY <1>1 DEF PointInv, Handoff, Starting
  <2>3. QED
    BY <1>1, <1>5, <2>1, <2>2, HeldAt, Finite
<1>7. QED
  BY <1>2, <1>3, <1>4, <1>5, <1>6

\* The threads that get a P with work when the world starts again.
Restart(m, work, woken) ==
  /\ work = {r \in Ps \ {mp[m]} : q[r] > 0}
  /\ woken \subseteq {t \in Ms : pc[t] \in {"parked", "none"}}
  /\ \A t \in woken : nextp'[t] \in work
  /\ \A r \in work : \E t \in woken : \A u \in woken : nextp'[u] = r <=> u = t
  /\ \A t \in Ms \ woken : nextp'[t] = nextp[t]
  /\ nextp' \in [Ms -> Ps \cup {None}]
  /\ pc' = [b \in Actors |-> IF b = m THEN "npidle" ELSE IF b \in woken THEN "woken" ELSE pc[b]]

LEMMA Restarts ==
  ASSUME TypeOK, NEW m \in Ms, StartTheWorld(m)
  PROVE  \E work, woken : Restart(m, work, woken) /\ pidle' = (Ps \ {mp[m]}) \ work
<1> DEFINE work == {r \in Ps \ {mp[m]} : q[r] > 0}
           idle == {t \in Ms : pc[t] = "parked"}
           new  == {t \in Ms : pc[t] = "none"}
<1>1. pidle' = (Ps \ {mp[m]}) \ work
  BY DEF StartTheWorld
<1>2. PICK f \in [work -> idle \cup new] :
        /\ \A r, s \in work : f[r] = f[s] => r = s
        /\ nextp' = [t \in Ms |-> IF \E r \in work : f[r] = t
                                 THEN CHOOSE r \in work : f[r] = t ELSE nextp[t]]
        /\ GotoAnd(m, "npidle", {f[r] : r \in work}, "woken")
  BY DEF StartTheWorld
<1> DEFINE woken == {f[r] : r \in work}
<1>3. woken \subseteq {t \in Ms : pc[t] \in {"parked", "none"}}
  BY <1>2
<1>4. ASSUME NEW t \in woken
      PROVE  nextp'[t] \in work /\ f[nextp'[t]] = t
  <2>1. \E r \in work : f[r] = t
    BY <1>4
  <2>2. t \in Ms /\ nextp'[t] = CHOOSE r \in work : f[r] = t
    BY <1>2, <1>3, <2>1
  <2>3. QED
    BY <2>1, <2>2
<1>5. ASSUME NEW r \in work
      PROVE  \E t \in woken : \A u \in woken : nextp'[u] = r <=> u = t
  <2>1. f[r] \in woken
    BY <1>5
  <2>2. \A u \in woken : nextp'[u] = r <=> u = f[r]
    BY <1>2, <1>4, <1>5, <2>1
  <2>3. QED
    BY <2>1, <2>2
<1>6. \A t \in Ms \ woken : nextp'[t] = nextp[t]
  BY <1>2
<1>7. nextp' \in [Ms -> Ps \cup {None}]
  <2>1. \A t \in Ms : nextp'[t] \in Ps \cup {None}
    BY <1>4, <1>6 DEF TypeOK
  <2>2. QED
    BY <1>2, <2>1
<1>8. pc' = [b \in Actors |-> IF b = m THEN "npidle" ELSE IF b \in woken THEN "woken" ELSE pc[b]]
  BY <1>2 DEF GotoAnd
<1>9. work = {r \in Ps \ {mp[m]} : q[r] > 0}
  OBVIOUS
<1> HIDE DEF work, woken
<1>10. Restart(m, work, woken)
  BY <1>3, <1>4, <1>5, <1>6, <1>7, <1>8, <1>9 DEF Restart
<1>11. QED
  BY <1>1, <1>10

LEMMA StartTheWorldInv == ASSUME IInv, NEW m \in Ms, StartTheWorld(m) PROVE IInv'
<1> DEFINE p == mp[m]
<1>1. /\ pc[m] = "stopping" /\ stopwait = 0 /\ gcwaiting' = FALSE
      /\ status' = [r \in Ps |-> IF r = p THEN "running" ELSE "idle"]
      /\ UNCHANGED <<ret, mp, spinning, hand, todo, pm, q, global, nmspinning, nmidlelocked,
                    stopwait, waiting, dead, missed>>
  BY DEF StartTheWorld
<1>2. /\ TypeOK /\ PointInv /\ LinkInv /\ HeldInv
      /\ m \in Actors /\ m # Sysmon /\ None \notin Ps /\ Sysmon \notin Ms
      /\ Ms \subseteq Actors /\ \A b \in Actors : b \in Ms \/ b = Sysmon
  BY Finite, SchedAssumption DEF IInv
<1>3. PICK work, woken : Restart(m, work, woken) /\ pidle' = (Ps \ {p}) \ work
  BY <1>2, Restarts
<1>4. /\ \A r \in Ps : pm[r] # None => r = p
      /\ \A n \in Ms : pc[n] \in Working => n = m
      /\ \A a \in Actors : Held(a) = None /\ pc[a] \notin Handoff \cup Starting
  BY <1>1, Stopped
<1>5. /\ pc[m] \in Working /\ "npidle" \in Working /\ "npidle" \notin Handoff \cup Starting \cup Calling
      /\ "npidle" \in Points /\ "woken" \in Points
      /\ "woken" \in Starting /\ "woken" \notin Working \cup Handoff \cup Calling
      /\ {"parked", "none"} \cap (Working \cup Handoff \cup Starting \cup Calling \cup Carry) = {}
      /\ {"stopping", "npidle"} \subseteq Carry /\ "woken" \notin Carry
      /\ {"stopping", "gcstop"} \subseteq Working /\ "npidle" \in Help
  BY <1>1 DEF Points, Working, Wakeup, Handoff, Starting, Calling, Carry, Help
<1>6. p \in Ps /\ pm[p] = m
  BY <1>1, <1>2, <1>5, Owner
<1>7. /\ woken \subseteq Ms /\ \A t \in woken : pc[t] \in {"parked", "none"} /\ nextp'[t] \in work
      /\ work \subseteq Ps \ {p} /\ \A r \in (Ps \ {p}) \ work : ~(q[r] > 0)
      /\ \A r \in work : \E t \in woken : \A u \in woken : nextp'[u] = r <=> u = t
      /\ \A t \in Ms \ woken : nextp'[t] = nextp[t]
  BY <1>3 DEF Restart
<1>8. /\ pc'[m] = "npidle" /\ m \notin woken
      /\ \A t \in woken : pc'[t] = "woken"
      /\ \A b \in Actors : b # m /\ b \notin woken => pc'[b] = pc[b]
  BY <1>1, <1>2, <1>3, <1>7 DEF Restart
<1>9. \A t \in woken : mp[t] = None /\ ~spinning[t] /\ hand[t] = None
  BY <1>2, <1>5, <1>7 DEF PointInv, ThreadInv
<1>10. p # None /\ nextp[m] = None /\ ~spinning[m] /\ hand[m] = None
  BY <1>1, <1>2, <1>5, <1>6 DEF PointInv, ThreadInv, Starting, Handoff
<1>11. PointInv'
  <2>1. ASSUME NEW n \in Ms
        PROVE  ThreadInv(n)'
    <3>1. CASE n = m
      BY <1>1, <1>5, <1>7, <1>8, <1>10, <3>1 DEF ThreadInv
    <3>2. CASE n \in woken
      BY <1>1, <1>2, <1>5, <1>7, <1>8, <1>9, <3>2 DEF ThreadInv
    <3>3. CASE n # m /\ n \notin woken
      BY <1>1, <1>2, <1>7, <1>8, <3>3 DEF PointInv, ThreadInv
    <3>4. QED
      BY <3>1, <3>2, <3>3
  <2>2. \A b \in Actors : hand'[b] # None <=> pc'[b] \in Handoff \cup {"retake"}
    <3>1. ASSUME NEW b \in Actors
          PROVE  hand'[b] # None <=> pc'[b] \in Handoff \cup {"retake"}
      <4>1. CASE b = m
        BY <1>1, <1>5, <1>8, <1>10, <4>1
      <4>2. CASE b \in woken
        BY <1>1, <1>5, <1>8, <1>9, <4>2
      <4>3. CASE b # m /\ b \notin woken
        BY <1>1, <1>2, <1>8, <4>3 DEF PointInv
      <4>4. QED
        BY <4>1, <4>2, <4>3
    <3>2. QED
      BY <3>1
  <2>3. pc'[Sysmon] = pc[Sysmon]
    BY <1>2, <1>7, <1>8, Finite
  <2>4. QED
    BY <1>1, <1>2, <2>1, <2>2, <2>3 DEF PointInv
<1>12. \A n \in Ms : pc'[n] \in Working => n = m
  BY <1>2, <1>4, <1>5, <1>8
<1>13. status'[p] = "running" /\ \A r \in Ps : r # p => status'[r] = "idle"
  BY <1>1, <1>6
<1>14. LinkInv'
  <2>1. \A n \in Ms : pc'[n] \in Working =>
          pm'[mp'[n]] = n /\ status'[mp'[n]] = IF pc'[n] = "stopping" THEN "gcstop" ELSE "running"
    BY <1>1, <1>6, <1>8, <1>12, <1>13
  <2>2. \A r \in Ps : /\ pm'[r] # None => mp'[pm'[r]] = r /\ pc'[pm'[r]] \in Working
                      /\ status'[r] = "running" => pm'[r] # None
                      /\ status'[r] # "syscall"
    <3>1. m # None
      BY SchedAssumption
    <3>2. QED
      BY <1>1, <1>4, <1>5, <1>6, <1>8, <1>13, <3>1
  <2>3. QED
    BY <2>1, <2>2 DEF LinkInv
<1>15. \A b \in Actors : Held(b)' = IF b \in woken THEN nextp'[b] ELSE None
  <2>1. \A b \in woken : Held(b)' = nextp'[b]
    BY <1>5, <1>8 DEF Held
  <2>2. Held(m)' = None
    BY <1>5, <1>8 DEF Held
  <2>3. \A b \in Actors : b # m /\ b \notin woken => Held(b)' = None
    BY <1>4, <1>8 DEF Held
  <2>4. QED
    BY <1>8, <2>1, <2>2, <2>3
<1>16. HeldInv'
  <2>1. ASSUME NEW r \in Ps
        PROVE  status'[r] = "idle" <=> r \in pidle' \/ \E b \in Actors : Held(b)' = r
    <3>1. r \in work <=> \E b \in Actors : Held(b)' = r
      BY <1>2, <1>7, <1>15
    <3>2. QED
      BY <1>3, <1>7, <1>13, <3>1
  <2>2. \A b, c \in Actors : Held(b)' = Held(c)' => b = c \/ Held(b)' = None
    <3>1. \A t, u \in woken : nextp'[t] = nextp'[u] => t = u
      BY <1>7
    <3>2. \A t \in woken : nextp'[t] # None
      BY <1>2, <1>7
    <3>3. QED
      BY <1>15, <3>1, <3>2
  <2>3. \A b \in Actors : Held(b)' \notin pidle'
    BY <1>2, <1>3, <1>7, <1>15
  <2>4. QED
    BY <2>1, <2>2, <2>3 DEF HeldInv
<1>17. StopInv'
  <2>1. \A n \in Ms : pc'[n] \notin {"stopping", "gcstop"}
    BY <1>5, <1>8, <1>12
  <2>2. \A r \in Ps : status'[r] # "gcstop"
    BY <1>13
  <2>3. QED
    BY <1>1, <2>1, <2>2 DEF StopInv
<1>18. QueueInv'
  <2>1. \A r \in pidle' : q'[r] = 0
    <3>1. \A r \in Ps : q[r] \in Nat
      BY <1>2, SchedAssumption DEF TypeOK
    <3>2. QED
      BY <1>1, <1>3, <1>7, <3>1
  <2>2. \A b \in Actors : pc'[b] \notin {"handspin", "handidle", "handcas", "handlock", "startspin"}
    <3>1. ASSUME NEW b \in Actors
          PROVE  pc'[b] \notin Handoff
      BY <1>4, <1>5, <1>8
    <3>2. QED
      BY <3>1 DEF Handoff
  <2>3. \A n \in Ms : /\ pc'[n] \notin {"decide", "spin", "steal", "stop", "sched", "new"}
                      /\ pc'[n] = "woken" => ~spinning'[n]
    <3>1. ASSUME NEW n \in Ms
          PROVE  /\ pc'[n] \notin {"decide", "spin", "steal", "stop", "sched", "new"}
                 /\ pc'[n] = "woken" => ~spinning'[n]
      <4>1. CASE n = m
        BY <1>8, <4>1
      <4>2. CASE n \in woken
        BY <1>1, <1>8, <1>9, <4>2
      <4>3. CASE n # m /\ n \notin woken
        <5>1. pc'[n] = pc[n] /\ pc[n] \notin Working \cup Starting
          BY <1>2, <1>4, <1>8, <4>3
        <5>2. QED
          BY <5>1 DEF Working, Starting
      <4>4. QED
        BY <4>1, <4>2, <4>3
    <3>2. QED
      BY <3>1
  <2>4. QED
    BY <2>1, <2>2, <2>3 DEF QueueInv
<1>19. SpinnersInv'
  <2>1. \A b \in Actors : Spins(b)' <=> Spins(b)
    BY <1>1, <1>7, <1>8 DEF Spins
  <2>2. Spinners' = Spinners
    BY <2>1 DEF Spinners
  <2>3. QED
    BY <1>1, <2>2 DEF IInv, SpinnersInv
<1>20. GoroutinesInv'
  <2>1. \A n \in Ms : pc'[n] \in Carry <=> pc[n] \in Carry
    BY <1>1, <1>2, <1>5, <1>7, <1>8
  <2>2. QED
    BY <1>1, <2>1, GoroutinesSame DEF IInv
<1>21. TypeOK'
  <2>1. pc' \in [Actors -> Points]
    BY <1>2, <1>3, <1>5 DEF TypeOK, Restart
  <2>2. status' \in [Ps -> {"idle", "running", "syscall", "gcstop"}] /\ pidle' \in SUBSET Ps
    BY <1>1, <1>3
  <2>3. nextp' \in [Ms -> Ps \cup {None}]
    BY <1>3 DEF Restart
  <2>4. QED
    BY <1>1, <1>2, <2>1, <2>2, <2>3 DEF TypeOK
<1>22. WorkInv'
  BY <1>5, <1>8, WorkHelped
<1>23. GlobalInv'
  BY <1>3, <1>6 DEF GlobalInv
<1>24. QED
  BY <1>1, <1>11, <1>14, <1>16, <1>17, <1>18, <1>19, <1>20, <1>21, <1>22, <1>23 DEF IInv

(***************************************************************************)
(* The invariant                                                           *)
(***************************************************************************)

LEMMA InitInv == Init => IInv
<1> SUFFICES ASSUME Init PROVE IInv
  OBVIOUS
<1>1. PICK m0 \in Ms, p0 \in Ps :
        /\ pc = [a \in Actors |-> IF a = m0 THEN "run" ELSE IF a = Sysmon THEN "idle" ELSE "none"]
        /\ mp = [m \in Ms |-> IF m = m0 THEN p0 ELSE None]
        /\ pm = [p \in Ps |-> IF p = p0 THEN m0 ELSE None]
        /\ status = [p \in Ps |-> IF p = p0 THEN "running" ELSE "idle"]
        /\ pidle = Ps \ {p0}
  BY DEF Init
<1>2. /\ ret = [m \in Ms |-> "sched"] /\ nextp = [m \in Ms |-> None]
      /\ spinning = [m \in Ms |-> FALSE] /\ hand = [a \in Actors |-> None]
      /\ todo = [m \in Ms |-> {}] /\ q = [p \in Ps |-> 0]
      /\ global = 0 /\ nmspinning = 0 /\ nmidlelocked = 0
      /\ gcwaiting = FALSE /\ stopwait = 0 /\ waiting = NG - 1 /\ dead = "no" /\ missed = FALSE
  BY DEF Init
<1>3. /\ Ms \subseteq Actors /\ Sysmon \in Actors \ Ms /\ None \notin Ps /\ None \notin Ms
      /\ \A a \in Actors : a \in Ms \/ a = Sysmon
  BY Finite, SchedAssumption
<1>4. /\ "run" \in Working /\ "run" \in Carry /\ "run" \notin Handoff \cup Starting
      /\ {"none", "idle"} \cap (Working \cup Handoff \cup Starting \cup Calling \cup Carry) = {}
      /\ {"run", "none", "idle"} \subseteq Points
  BY DEF Points, Working, Wakeup, Handoff, Starting, Calling, Carry
<1>5. /\ pc[m0] = "run" /\ pc[Sysmon] = "idle" /\ mp[m0] = p0 /\ pm[p0] = m0
      /\ \A m \in Ms : m # m0 => pc[m] = "none" /\ mp[m] = None
      /\ \A p \in Ps : p # p0 => pm[p] = None /\ status[p] = "idle"
      /\ status[p0] = "running"
  BY <1>1, <1>3
<1>6. TypeOK
  <2>1. NG - 1 \in Nat /\ 0 \in 0..NG
    BY SchedAssumption
  <2>2. pc \in [Actors -> Points]
    BY <1>1, <1>4
  <2>3. QED
    BY <1>1, <1>2, <2>1, <2>2 DEF TypeOK
<1>7. PointInv
  <2>1. \A m \in Ms : ThreadInv(m)
    BY <1>2, <1>3, <1>4, <1>5 DEF ThreadInv
  <2>2. \A a \in Actors : hand[a] # None <=> pc[a] \in Handoff \cup {"retake"}
    BY <1>2, <1>3, <1>4, <1>5
  <2>3. QED
    BY <1>2, <1>5, <2>1, <2>2 DEF PointInv
<1>8. LinkInv
  BY <1>3, <1>4, <1>5 DEF LinkInv
<1>9. HeldInv
  <2>1. \A a \in Actors : Held(a) = None
    BY <1>3, <1>4, <1>5 DEF Held
  <2>2. QED
    BY <1>1, <1>3, <1>5, <2>1 DEF HeldInv
<1>10. StopInv
  BY <1>2, <1>3, <1>5 DEF StopInv
<1>11. QueueInv
  BY <1>1, <1>2, <1>3, <1>5 DEF QueueInv
<1>12. SpinnersInv
  <2>1. \A a \in Actors : ~Spins(a)
    BY <1>2, <1>3, <1>5 DEF Spins
  <2>2. Spinners = {}
    BY <2>1 DEF Spinners
  <2>3. QED
    BY <1>2, <2>2, FS_EmptySet DEF SpinnersInv
<1>13. GoroutinesInv
  <2>1. Carrying = {m0}
    BY <1>4, <1>5 DEF Carrying
  <2>2. Cardinality(Carrying) = 1
    BY <2>1, FS_Singleton
  <2>3. Places(q) = {}
    BY <1>2, SchedAssumption DEF Places
  <2>4. Cardinality(Places(q)) = 0
    BY <2>3, FS_EmptySet
  <2>5. QED
    BY <1>2, <2>2, <2>4, SchedAssumption DEF GoroutinesInv
<1>14. WorkInv /\ GlobalInv /\ dead # "throw"
  BY <1>2 DEF WorkInv, GlobalInv
<1>15. QED
  BY <1>6, <1>7, <1>8, <1>9, <1>10, <1>11, <1>12, <1>13, <1>14 DEF IInv

LEMMA NextInv == IInv /\ [Next]_vars => IInv'
<1> SUFFICES ASSUME IInv, [Next]_vars PROVE IInv'
  OBVIOUS
<1>1. ASSUME NEW a \in Actors, Startm(a) \/ Handoffp(a)
      PROVE  IInv'
  BY <1>1, StartInv, StartSpinningInv, HandLookInv, HandSpinInv, HandIdleInv, HandCasInv,
     HandLockedInv DEF Startm, Handoffp
<1>2. ASSUME NEW m \in Ms, Wake(m)
      PROVE  IInv'
  BY <1>2, LookIdleInv, LookSpinningInv, ResetSpinningInv, WakepInv, StartIdleInv, UndoInv
     DEF Wake
<1>3. ASSUME NEW m \in Ms, Find(m)
      PROVE  IInv'
  BY <1>3, ScheduleInv, FindRunnableInv, DecideInv, SpinInv, StealInv, StopLockedInv,
     ReleasedInv, RecheckInv, AgainInv DEF Find
<1>4. ASSUME NEW m \in Ms, Stop(m)
      PROVE  IInv'
  BY <1>4, StopmInv, MspinningInv, WokenInv, GcStopSpinningInv, GcstopmInv DEF Stop
<1>5. ASSUME NEW m \in Ms, Goroutine(m)
      PROVE  IInv'
  BY <1>5, ReadyInv, BlockInv, GoschedInv, EntersyscallInv, EntersyscallGcwaitInv,
     EntersyscallblockInv, ExitsyscallfastInv, Exitsyscall0Inv, StopTheWorldInv,
     StartTheWorldInv DEF Goroutine
<1>6. CASE UNCHANGED vars
  <2>1. /\ UNCHANGED <<pc, ret, mp, nextp, spinning, hand, todo, pm, status, q, pidle>>
        /\ UNCHANGED <<global, nmspinning, nmidlelocked, gcwaiting, stopwait, waiting, dead, missed>>
    BY <1>6 DEF vars, mVars, pVars, schedVars, restVars
  <2>2. /\ \A a \in Actors : (Spins(a)' <=> Spins(a)) /\ Held(a)' = Held(a)
        /\ \A m \in Ms : ThreadInv(m)' <=> ThreadInv(m)
        /\ \A m \in Ms, p \in Ps : Helps(m, p)' <=> Helps(m, p)
    BY <2>1 DEF Spins, Held, ThreadInv, Helps
  <2>3. TypeOK' /\ PointInv' /\ LinkInv' /\ HeldInv'
    BY <2>1, <2>2 DEF IInv, TypeOK, PointInv, LinkInv, HeldInv
  <2>4. StopInv' /\ QueueInv' /\ GlobalInv' /\ dead' # "throw"
    BY <2>1 DEF IInv, StopInv, QueueInv, GlobalInv
  <2>5. Spinners' = Spinners
    BY <2>2 DEF Spinners
  <2>6. SpinnersInv' /\ WorkInv'
    BY <2>1, <2>2, <2>5 DEF IInv, SpinnersInv, WorkInv
  <2>7. GoroutinesInv'
    BY <2>1, GoroutinesSame DEF IInv
  <2>8. QED
    BY <2>3, <2>4, <2>6, <2>7 DEF IInv
<1>7. QED
  BY <1>1, <1>2, <1>3, <1>4, <1>5, <1>6, RetakeInv, RetakeCasInv, RetakeEndInv DEF Next

\* The places of the Ps, the counts that many keep, and the work that is not left
\* behind, at all times: IInv of any number of threads, Ps and goroutines.
THEOREM Invariant == Spec => []IInv
BY InitInv, NextInv, PTL DEF Spec

\* No check of the runtime fails: acquirep, releasep, pidleput, mspinning and
\* stopTheWorld find what they expect, and checkdead never throws.
THEOREM NothingThrows == Spec => []NoThrow
<1>1. IInv => NoThrow
  <2> SUFFICES ASSUME IInv PROVE NoThrow
    OBVIOUS
  <2>1. /\ TypeOK /\ PointInv /\ LinkInv /\ HeldInv /\ StopInv /\ QueueInv /\ dead # "throw"
        /\ Ms \subseteq Actors /\ None \notin Ps
    BY Finite, SchedAssumption DEF IInv
  <2>2. ASSUME NEW m \in Ms, pc[m] = "woken"
        PROVE  mp[m] = None /\ pm[nextp[m]] = None /\ status[nextp[m]] = "idle"
    <3>1. pc[m] \in Starting /\ pc[m] \notin Working \cup Calling
      BY <2>2 DEF Starting, Working, Wakeup, Calling
    <3>2. Held(m) = nextp[m] /\ nextp[m] \in Ps
      BY <2>1, <3>1, HeldAt
    <3>3. status[nextp[m]] = "idle"
      BY <2>1, <3>2 DEF HeldInv
    <3>4. pm[nextp[m]] = None
      BY <2>1, <3>2, <3>3, IdleFree
    <3>5. QED
      BY <2>1, <3>1, <3>3, <3>4 DEF PointInv, ThreadInv
  <2>3. ASSUME NEW m \in Ms, pc[m] \in {"run", "stop", "gcstop"}
        PROVE  pm[mp[m]] = m /\ status[mp[m]] = "running"
    <3>1. pc[m] \in Working /\ pc[m] # "stopping"
      BY <2>3 DEF Working
    <3>2. QED
      BY <2>1, <3>1 DEF LinkInv
  <2>4. ASSUME NEW m \in Ms, pc[m] = "stopping", stopwait = 0
        PROVE  \A p \in Ps : status[p] = "gcstop"
    BY <2>4, Stopped
  <2>5. ASSUME NEW p \in pidle
        PROVE  pm[p] = None /\ q[p] = 0
    <3>1. p \in Ps /\ status[p] = "idle"
      BY <2>1 DEF TypeOK, HeldInv
    <3>2. QED
      BY <2>1, <3>1, IdleFree DEF QueueInv
  <2>6. /\ \A m \in Ms : pc[m] = "sched" /\ spinning[m] => q[mp[m]] = 0
        /\ \A a \in Actors : pc[a] = "startspin" /\ hand[a] # None => q[hand[a]] = 0
    BY <2>1 DEF QueueInv
  <2>7. QED
    BY <2>1, <2>2, <2>3, <2>4, <2>5, <2>6 DEF NoThrow
<1>2. QED
  BY <1>1, Invariant, PTL

\* When all threads have come to rest, no goroutine waits in the queue of a P
\* while another is idle, but for the two steps that leave one: what ready and
\* resetspinning wake nobody for, findrunnable's last look finds.
THEOREM WorkIsConserved == Spec => []WorkConserved
<1>1. IInv => WorkConserved
  <2> SUFFICES ASSUME IInv, \A m \in Ms : pc[m] \in {"none", "parked", "run", "insys"},
                      pc[Sysmon] = "idle"
               PROVE  /\ pidle # {} /\ Queued => missed
                      /\ pidle = Ps => global = 0
    BY DEF WorkConserved
  <2>1. \A m \in Ms : ~spinning[m]
    BY DEF IInv, PointInv, ThreadInv
  <2>2. \A a \in Actors : ~Spins(a)
    BY <2>1, Finite DEF Spins
  <2>3. Spinners = {}
    BY <2>2 DEF Spinners
  <2>4. \A m \in Ms, p \in Ps : ~Helps(m, p)
    BY DEF Helps, Help
  <2>5. QED
    BY <2>3, <2>4 DEF IInv, WorkInv, GlobalInv, Queued
<1>2. QED
  BY <1>1, Invariant, PTL
=============================================================================
