--------------------------- MODULE NetFDProofs ---------------------------
(***************************************************************************)
(* A network descriptor for every finite set of goroutines and any number  *)
(* of descriptors and deadlines: IInv is inductive.  It follows that the   *)
(* reference counts are exact and nobody works on a destroyed descriptor,  *)
(* that nothing throws, that nobody sleeps on without reason, and that a   *)
(* timer makes only its own deadline pass.                                 *)
(***************************************************************************)
EXTENDS NetFD, FiniteSetTheorems, TLAPS

Word == [closed : BOOLEAN, lock : SUBSET Modes, ref : Nat, wait : [Modes -> Nat]]
Calls == [call : Modes \cup {None, "close", "deadline"}, fd : 0..MaxFD, left : 0..2]
Timers == [f : {None, "one", "both"}, seq : Nat, when : {0} \cup Times, armed : BOOLEAN]
Fires == [f : {None, "one", "both"}, seq : Nat, when : {0} \cup Times, fd : 0..MaxFD,
          mode : Modes]
Sections == [holder : Goroutines \cup {Timer, None}, expire : SUBSET Modes,
             todo : SUBSET Modes, woken : SUBSET Goroutines]

\* A word with another count of references.
LEMMA WordRef ==
  ASSUME NEW x \in Word, NEW r
  PROVE  [x EXCEPT !.ref = r] =
           [closed |-> x.closed, lock |-> x.lock, ref |-> r, wait |-> x.wait]
BY DEF Word

\* The parts of TypeOK.
MuType == mu \in [FDs -> Word] /\ sema \in [FDs -> [Modes -> Nat]] /\ opened \in 0..MaxFD
PdType ==
  /\ pd \in [fd : 0..MaxFD, closing : BOOLEAN, seq : Nat]
  /\ deadline \in [Modes -> {-1, 0} \cup Times] /\ timer \in [Modes -> Timers]
  /\ firing \in Fires /\ cs \in Sections
RwType == rw \in [Modes -> {"nil", "ready", "wait"} \cup Goroutines]
KernelType == avail \in SUBSET Modes /\ edge \in SUBSET Modes /\ inflight \in SUBSET Modes
CallType == pc \in [Goroutines -> Points] /\ op \in [Goroutines -> Calls]

LEMMA TypeParts == TypeOK <=> MuType /\ PdType /\ RwType /\ KernelType /\ CallType
BY DEF TypeOK, MuType, PdType, RwType, KernelType, CallType, Word, Calls, Timers, Fires,
       Sections

LEMMA TypePartsNext ==
  TypeOK' <=> MuType' /\ PdType' /\ RwType' /\ KernelType' /\ CallType'
BY DEF TypeOK, MuType, PdType, RwType, KernelType, CallType, Word, Calls, Timers, Fires,
       Sections

LEMMA PointsKnown ==
  /\ IOPoints \subseteq RefPoints /\ RefPoints \subseteq Points
  /\ {"lock", "sleep", "destroy", "idle"} \subseteq Points
  /\ RefPoints \cap {"lock", "sleep", "destroy", "idle"} = {}
  /\ {"set", "evict", "cs", "decref"} \subseteq RefPoints \ IOPoints
  /\ IOPoints = {"reset", "sys", "wait", "block", "recheck", "commit", "parked", "xchg",
                 "unlock"}
BY DEF IOPoints, RefPoints, Points

\* A goroutine goes on to another point of its call,
LEMMA GotoType ==
  ASSUME CallType, NEW g \in Goroutines, NEW p \in Points, Goto(g, p)
  PROVE  /\ CallType'
         /\ pc'[g] = p /\ \A h \in Goroutines : h # g => pc'[h] = pc[h]
         /\ \A h \in Goroutines : op'[h] = op[h]
BY DEF CallType, Goto

\* ends it,
LEMMA ReturnType ==
  ASSUME CallType, NEW g \in Goroutines, Return(g)
  PROVE  /\ CallType'
         /\ pc'[g] = "idle" /\ op'[g] = NoOp
         /\ \A h \in Goroutines : h # g => pc'[h] = pc[h] /\ op'[h] = op[h]
<1>1. NoOp \in Calls /\ "idle" \in Points
  BY NetFDAssumption DEF NoOp, Points, Calls
<1>2. QED
  BY <1>1 DEF CallType, Return

\* or begins one.
LEMMA BeginType ==
  ASSUME CallType, NEW g \in Goroutines, NEW c \in Modes \cup {"close", "deadline"},
         NEW f \in FDs, NEW p \in Points, Begin(g, c, f, p)
  PROVE  /\ CallType'
         /\ pc'[g] = p /\ op'[g].call = c /\ op'[g].fd = f
         /\ \A h \in Goroutines : h # g => pc'[h] = pc[h] /\ op'[h] = op[h]
<1> DEFINE new == [call |-> c, fd |-> f, left |-> IF c = "w" THEN 2 ELSE 1]
<1>1. new \in Calls
  BY NetFDAssumption DEF FDs, Calls
<1>2. pc' = [pc EXCEPT ![g] = p] /\ op' = [op EXCEPT ![g] = new]
  BY DEF Begin
<1>3. new.call = c /\ new.fd = f
  OBVIOUS
<1> HIDE DEF new
<1>4. QED
  BY <1>1, <1>2, <1>3 DEF CallType
-----------------------------------------------------------------------------
(* Initially *)

LEMMA InitInv == Init => IInv
<1> SUFFICES ASSUME Init PROVE IInv
  OBVIOUS
<1> USE NetFDAssumption
<1>1. TypeOK
  <2>1. NoOp \in Calls /\ "idle" \in Points
    BY DEF NoOp, Points, Calls
  <2>2. MuType
    BY DEF Init, MuType, Word
  <2>3. PdType
    BY DEF Init, PdType, Timers, Fires, Sections, NoTimer, NoFire, NoCS, Modes
  <2>4. QED
    BY <2>1, <2>2, <2>3, TypeParts DEF Init, RwType, KernelType, CallType
<1>2. CallInv
  BY DEF Init, CallInv, NoCS, NoOp, IOPoints, None
<1>3. RefsInv
  <2>1. \A f \in FDs : Using(f) = {} /\ \A m \in Modes : Locking(f, m) = {} /\ Sleeping(f, m) = {}
    BY DEF Init, Using, Locking, Sleeping, RefPoints, IOPoints
  <2>2. Cardinality({}) = 0
    BY FS_EmptySet
  <2>3. \A f \in FDs :
          /\ mu[f].ref = 0 /\ mu[f].lock = {} /\ ~mu[f].closed
          /\ \A m \in Modes : mu[f].wait[m] = 0 /\ sema[f][m] = 0
    BY DEF Init
  <2>4. \A f \in FDs :
          /\ Cardinality(Using(f)) = 0
          /\ \A m \in Modes : Cardinality(Locking(f, m)) = 0 /\ Cardinality(Sleeping(f, m)) = 0
    BY <2>1, <2>2, Zenon
  <2>5. QED
    BY <2>3, <2>4 DEF RefsInv
<1>4. OwnerInv
  BY DEF Init, OwnerInv, RefPoints, IOPoints, FDs
<1>5. CloseInv /\ WordInv /\ WakeInv
  BY DEF Init, CloseInv, WordInv, WakeInv, NoCS
<1>6. TimerInv
  BY DEF Init, TimerInv, NoTimer, NoCS, NoFire, None, Modes
<1>7. QED
  BY <1>1, <1>2, <1>3, <1>4, <1>5, <1>6 DEF IInv
-----------------------------------------------------------------------------
(* What a step leaves alone *)

\* g is in the same call on the same descriptor,
Same(g) == op'[g].fd = op[g].fd /\ op'[g].call = op[g].call

\* and holds what it held.
Keeps(g) ==
  \/ Same(g) /\ pc[g] \in IOPoints /\ pc'[g] \in IOPoints
  \/ Same(g) /\ pc[g] \in RefPoints \ IOPoints /\ pc'[g] \in RefPoints \ IOPoints
  \/ Same(g) /\ pc'[g] = pc[g]
  \/ pc[g] = "destroy" /\ pc'[g] = "idle"

LEMMA CallFrame ==
  ASSUME CallInv, UNCHANGED opened, \A g \in Goroutines : Keeps(g),
         \A g \in Goroutines : pc'[g] = "cs" <=> cs'.holder = g,
         cs'.holder = None => cs' = NoCS
  PROVE  CallInv'
<1>1. \A g \in Goroutines :
        pc'[g] # "idle" => Same(g) /\ pc[g] # "idle"
  BY PointsKnown DEF Keeps
<1>2. \A g \in Goroutines :
        pc'[g] \in IOPoints \cup {"lock", "sleep"} => Same(g) /\ pc[g] \in IOPoints \cup {"lock", "sleep"}
  BY PointsKnown DEF Keeps
<1>3. QED
  BY <1>1, <1>2 DEF CallInv, Same, Mode, NoCS

LEMMA RefsFrame ==
  ASSUME RefsInv, UNCHANGED <<mu, sema>>, \A g \in Goroutines : Keeps(g)
  PROVE  RefsInv'
<1>1. \A g \in Goroutines :
        /\ pc'[g] \in RefPoints <=> pc[g] \in RefPoints
        /\ pc'[g] \in IOPoints <=> pc[g] \in IOPoints
        /\ pc'[g] = "sleep" <=> pc[g] = "sleep"
        /\ pc'[g] = "lock" <=> pc[g] = "lock"
        /\ pc[g] \in RefPoints \cup {"sleep", "lock"} => Same(g)
  BY PointsKnown DEF Keeps
<1>2. \A f \in FDs : Using(f)' = Using(f)
  BY <1>1 DEF Using, Same
<1>3. \A f \in FDs, m \in Modes : Locking(f, m)' = Locking(f, m)
  BY <1>1 DEF Using, Locking, Mode, Same
<1>4. \A f \in FDs, m \in Modes : Sleeping(f, m)' = Sleeping(f, m)
  BY <1>1 DEF Sleeping, Mode, Same
<1>5. \A f \in FDs, m \in Modes, g \in Goroutines : Trying(g, f, m)' <=> Trying(g, f, m)
  BY <1>1 DEF Trying, Mode, Same
<1>6. QED
  BY <1>2, <1>3, <1>4, <1>5 DEF RefsInv

LEMMA OwnerFrame ==
  ASSUME OwnerInv, UNCHANGED <<mu, opened>>, pd'.fd = pd.fd, \A g \in Goroutines : Keeps(g)
  PROVE  OwnerInv'
<1>1. \A g \in Goroutines :
        /\ pc'[g] \in RefPoints \cup {"destroy"} => Same(g) /\ pc[g] \in RefPoints \cup {"destroy"}
        /\ pc'[g] = "destroy" => pc[g] = "destroy"
  BY PointsKnown DEF Keeps
<1>2. QED
  BY <1>1 DEF OwnerInv, Same

LEMMA CloseFrame ==
  ASSUME CloseInv, pd'.fd = pd.fd, pd'.closing = pd.closing, pd.fd \in {0} \cup FDs,
         \A f \in FDs : mu'[f].closed = mu[f].closed,
         \A g \in Goroutines : pc'[g] = "evict" <=> pc[g] = "evict"
  PROVE  CloseInv'
BY DEF CloseInv

LEMMA TimerFrame ==
  ASSUME TimerInv, UNCHANGED pdVars
  PROVE  TimerInv'
BY DEF TimerInv, pdVars, ForDeadline, FiredModes

\* The points at which a goroutine looks at what rg or wg says.
WaitPoints == {"wait", "block", "recheck", "commit", "parked", "xchg"}

LEMMA WaitFrame ==
  ASSUME WordInv, WakeInv, UNCHANGED <<rw, cs, deadline, edge, inflight>>,
         pd'.closing = pd.closing, avail' \subseteq avail, cs.woken \subseteq Goroutines,
         \A g \in Goroutines :
           pc[g] \in WaitPoints \/ pc'[g] \in WaitPoints => Same(g) /\ pc'[g] = pc[g]
  PROVE  WordInv' /\ WakeInv'
<1>1. WordInv'
  BY DEF WordInv, WaitPoints, Same, Mode
<1>2. WakeInv'
  BY DEF WakeInv, WaitPoints, Same, Mode, Failed
<1>3. QED
  BY <1>1, <1>2

\* Nobody else does input or output in the same direction.
LEMMA Alone ==
  ASSUME IInv, NEW g \in Goroutines, NEW h \in Goroutines,
         pc[g] \in IOPoints, pc[h] \in IOPoints, Mode(g) = Mode(h)
  PROVE  g = h
<1> DEFINE f == pd.fd
           m == Mode(g)
           L == Locking(f, m)
<1>1. op[g].fd = f /\ op[h].fd = f /\ m \in Modes /\ f \in FDs
  <2>1. pc[g] # "idle" /\ op[g].fd \in 1..opened /\ opened \in 0..MaxFD
    BY PointsKnown DEF IInv, CallInv, TypeOK
  <2>2. op[g].fd = pd.fd /\ op[h].fd = pd.fd
    BY PointsKnown DEF IInv, OwnerInv
  <2>3. QED
    BY <2>1, <2>2, NetFDAssumption DEF IInv, CallInv, FDs
<1>2. g \in L /\ h \in L
  BY <1>1, PointsKnown DEF Locking, Using
<1>3. IsFiniteSet(L)
  BY NetFDAssumption, FS_Subset DEF Locking, Using
<1>4. Cardinality(L) \in Nat /\ Cardinality(L) <= 1
  <2>1. Cardinality(L) = IF m \in mu[f].lock THEN 1 ELSE 0
    BY <1>1 DEF IInv, RefsInv
  <2> HIDE DEF L
  <2>2. QED
    BY <2>1
<1> HIDE DEF L
<1>5. SUFFICES ASSUME g # h PROVE FALSE
  OBVIOUS
<1>6. {g, h} \subseteq L /\ Cardinality({g, h}) = 2
  <2>1. IsFiniteSet({g}) /\ Cardinality({g}) = 1
    BY FS_Singleton
  <2>2. Cardinality({g} \cup {h}) = Cardinality({g}) + 1
    BY <2>1, <1>5, FS_AddElement
  <2>3. {g} \cup {h} = {g, h}
    OBVIOUS
  <2>4. QED
    BY <1>2, <2>1, <2>2, <2>3
<1>7. Cardinality({g, h}) <= Cardinality(L)
  BY <1>3, <1>6, FS_Subset
<1>8. QED
  BY <1>4, <1>6, <1>7
-----------------------------------------------------------------------------
(* The goroutine that does input or output *)

\* Only g moves, between two points of its input or output; the fdMutex and the
\* deadlines stay as they are.
IOStep(g) ==
  /\ pc[g] \in IOPoints /\ pc'[g] \in IOPoints /\ CallType'
  /\ \A h \in Goroutines : Same(h) /\ (h # g => pc'[h] = pc[h])
  /\ UNCHANGED <<muVars, pdVars>>

LEMMA IOFrame ==
  ASSUME IInv, NEW g \in Goroutines, IOStep(g)
  PROVE  MuType' /\ PdType' /\ CallInv' /\ RefsInv' /\ OwnerInv' /\ CloseInv' /\ TimerInv'
<1>1. UNCHANGED muVars /\ UNCHANGED pdVars
  BY DEF IOStep
<1>2. \A h \in Goroutines :
        Keeps(h) /\ (pc'[h] = "cs" <=> pc[h] = "cs") /\ (pc'[h] = "evict" <=> pc[h] = "evict")
  BY PointsKnown DEF Keeps, IOStep
<1>3. MuType /\ PdType
  BY TypeParts DEF IInv
<1>4. MuType' /\ PdType'
  BY <1>1, <1>3 DEF MuType, PdType, muVars, pdVars
<1>5. CallInv'
  BY <1>1, <1>2, CallFrame DEF IInv, CallInv, muVars, pdVars
<1>6. RefsInv'
  BY <1>1, <1>2, RefsFrame DEF IInv, muVars
<1>7. OwnerInv'
  BY <1>1, <1>2, OwnerFrame DEF IInv, muVars, pdVars
<1>8. CloseInv'
  <2>1. pd.fd \in {0} \cup FDs
    BY <1>3, NetFDAssumption DEF PdType, FDs
  <2>2. QED
    BY <1>1, <1>2, <2>1, CloseFrame DEF IInv, muVars, pdVars
<1>9. TimerInv'
  BY <1>1, TimerFrame DEF IInv
<1>10. QED
  BY <1>4, <1>5, <1>6, <1>7, <1>8, <1>9

\* The word of its direction becomes v.
LEMMA IOWait ==
  ASSUME IInv, NEW g \in Goroutines, IOStep(g), pc[g] # "parked",
         NEW v \in {"nil", "ready", "wait"} \cup Goroutines, rw' = [rw EXCEPT ![Mode(g)] = v],
         avail' \subseteq avail, UNCHANGED <<edge, inflight>>,
         v = "wait" => pc'[g] \in {"recheck", "commit", "xchg"},
         v \in Goroutines => v = g /\ pc'[g] = "parked",
         pc'[g] = "parked" => v = g,
         pc'[g] \in WaitPoints /\ Mode(g) \in avail' =>
           Mode(g) \in edge \cup inflight \/ v = "ready",
         \/ pc'[g] = "commit" /\ v = "wait"
         \/ pc'[g] = "parked"
         => (Failed(Mode(g)) => Mode(g) \in cs.todo)
  PROVE  IInv'
<1> DEFINE m == Mode(g)
<1>1. m \in Modes /\ rw \in [Modes -> {"nil", "ready", "wait"} \cup Goroutines]
  BY TypeParts DEF IInv, CallInv, IOStep, RwType
<1>2. rw'[m] = v /\ \A k \in Modes : k # m => rw'[k] = rw[k]
  BY <1>1
<1>3. \A h \in Goroutines : Mode(h)' = Mode(h) /\ (h # g => pc'[h] = pc[h])
  BY DEF IOStep, Same, Mode
<1>4. \A h \in Goroutines :
        h # g /\ pc[h] \in WaitPoints => Mode(h) \in Modes /\ Mode(h) # m
  <2>1. WaitPoints \subseteq IOPoints
    BY DEF WaitPoints, IOPoints
  <2>2. QED
    BY <2>1, Alone DEF IOStep, IInv, CallInv
<1>5. cs' = cs /\ cs.woken \subseteq Goroutines /\ g \notin cs.woken
  BY TypeParts DEF IInv, WordInv, IOStep, pdVars, PdType, Sections
<1>6. \A k \in Modes : Failed(k)' <=> Failed(k)
  BY DEF Failed, IOStep, pdVars
<1> HIDE DEF m
<1>7. WordInv'
  <2>1. ASSUME NEW k \in Modes, rw'[k] = "wait"
        PROVE  \E h \in Goroutines : Mode(h)' = k /\ pc'[h] \in {"recheck", "commit", "xchg"}
    <3>1. CASE k = m
      BY <1>2, <1>3, <2>1, <3>1 DEF m
    <3>2. CASE k # m
      <4>1. PICK h \in Goroutines : Mode(h) = k /\ pc[h] \in {"recheck", "commit", "xchg"}
        BY <1>2, <2>1, <3>2 DEF IInv, WordInv
      <4>2. QED
        BY <4>1, <1>3, <3>2 DEF m
    <3>3. QED
      BY <3>1, <3>2
  <2>2. ASSUME NEW k \in Modes, NEW h \in Goroutines, rw'[k] = h
        PROVE  pc'[h] = "parked" /\ op'[h].call = k
    <3>1. CASE k = m
      BY <1>2, <1>3, <2>2, <3>1 DEF m, Mode
    <3>2. CASE k # m
      BY <1>2, <1>3, <2>2, <3>2 DEF IInv, WordInv, m, Mode
    <3>3. QED
      BY <3>1, <3>2
  <2>3. \A h \in cs'.woken : pc'[h] = "parked" /\ rw'[Mode(h)'] # h
    BY <1>2, <1>3, <1>4, <1>5 DEF IInv, WordInv, WaitPoints
  <2>4. \A k \in Modes : rw'[k] \in Goroutines => pc'[rw'[k]] = "parked" /\ op'[rw'[k]].call = k
    BY <2>2
  <2>5. QED
    BY <2>1, <2>3, <2>4 DEF WordInv, Mode
<1>8. WakeInv'
  <2> SUFFICES ASSUME NEW h \in Goroutines
               PROVE  /\ pc'[h] \in WaitPoints /\ Mode(h)' \in avail' =>
                           Mode(h)' \in edge' \cup inflight' \/ rw'[Mode(h)'] = "ready"
                      /\ \/ pc'[h] = "commit" /\ rw'[Mode(h)'] = "wait"
                         \/ pc'[h] = "parked" /\ h \notin cs'.woken
                         => (Failed(Mode(h))' => Mode(h)' \in cs'.todo)
                      /\ pc'[h] = "parked" /\ h \notin cs'.woken => rw'[Mode(h)'] = h
    BY DEF WakeInv, WaitPoints
  <2>1. CASE h = g
    BY <2>1, <1>1, <1>2, <1>3, <1>5, <1>6 DEF m
  <2>2. CASE h # g
    BY <2>2, <1>2, <1>3, <1>4, <1>5, <1>6 DEF IInv, WakeInv, WaitPoints
  <2>3. QED
    BY <2>1, <2>2
<1>9. RwType'
  BY <1>1 DEF RwType
<1>10. KernelType'
  BY TypeParts DEF IInv, KernelType
<1>11. QED
  BY <1>7, <1>8, <1>9, <1>10, IOFrame, TypePartsNext DEF IInv, IOStep

\* What rg or wg says is about the goroutine that does input or output.
LEMMA OwnWord ==
  ASSUME IInv, NEW g \in Goroutines, pc[g] \in IOPoints
  PROVE  /\ Mode(g) \in Modes
         /\ rw \in [Modes -> {"nil", "ready", "wait"} \cup Goroutines]
         /\ rw[Mode(g)] \in {"nil", "ready", "wait"} \cup Goroutines
         /\ rw[Mode(g)] = "wait" => pc[g] \in {"recheck", "commit", "xchg"}
         /\ rw[Mode(g)] \in Goroutines => rw[Mode(g)] = g /\ pc[g] = "parked"
<1>1. Mode(g) \in Modes
  BY DEF IInv, CallInv
<1>2. rw \in [Modes -> {"nil", "ready", "wait"} \cup Goroutines]
  BY TypeParts DEF IInv, RwType
<1>3. ASSUME rw[Mode(g)] = "wait" PROVE pc[g] \in {"recheck", "commit", "xchg"}
  <2>1. PICK h \in Goroutines : Mode(h) = Mode(g) /\ pc[h] \in {"recheck", "commit", "xchg"}
    BY <1>1, <1>3 DEF IInv, WordInv
  <2>2. QED
    BY <2>1, Alone, PointsKnown
<1>4. ASSUME NEW h \in Goroutines, rw[Mode(g)] = h PROVE h = g /\ pc[g] = "parked"
  <2>1. pc[h] = "parked" /\ Mode(h) = Mode(g)
    BY <1>1, <1>4 DEF IInv, WordInv
  <2>2. QED
    BY <2>1, Alone, PointsKnown
<1>5. QED
  BY <1>1, <1>2, <1>3, <1>4

\* It goes on to p.
LEMMA IOGoto ==
  ASSUME IInv, NEW g \in Goroutines, pc[g] \in IOPoints, NEW p \in IOPoints, Goto(g, p),
         UNCHANGED <<muVars, pdVars>>
  PROVE  IOStep(g) /\ pc'[g] = p
BY GotoType, PointsKnown, TypeParts DEF IInv, IOStep, Same, Goto

LEMMA ResetInv ==
  ASSUME IInv, NEW g \in Goroutines, Reset(g)
  PROVE  IInv'
<1>1. pc[g] \in IOPoints /\ pc[g] # "parked"
  BY PointsKnown DEF Reset
<1>2. UNCHANGED <<muVars, pdVars>> /\ UNCHANGED <<avail, edge, inflight>>
  BY DEF Reset, kernelVars
<1>3. CASE Failed(Mode(g))
  <2>1. IOStep(g) /\ pc'[g] = "unlock"
    BY <1>1, <1>2, <1>3, IOGoto, PointsKnown DEF Reset
  <2>2. rw' = [rw EXCEPT ![Mode(g)] = rw[Mode(g)]]
    BY <1>1, <1>3, OwnWord DEF Reset
  <2>3. QED
    BY <1>1, <1>2, <2>1, <2>2, OwnWord, IOWait DEF WaitPoints, Reset
<1>4. CASE ~Failed(Mode(g))
  <2>1. IOStep(g) /\ pc'[g] = "sys"
    BY <1>1, <1>2, <1>4, IOGoto, PointsKnown DEF Reset
  <2>2. rw' = [rw EXCEPT ![Mode(g)] = "nil"]
    BY <1>4 DEF Reset
  <2>3. QED
    BY <1>1, <1>2, <2>1, <2>2, IOWait, NetFDAssumption DEF WaitPoints
<1>5. QED
  BY <1>3, <1>4

LEMMA SyscallInv ==
  ASSUME IInv, NEW g \in Goroutines, Syscall(g)
  PROVE  IInv'
<1>1. pc[g] = "sys" /\ pc[g] \in IOPoints /\ pc[g] # "parked"
  BY PointsKnown DEF Syscall
<1>2. UNCHANGED <<muVars, pdVars>> /\ UNCHANGED <<rw, edge, inflight>> /\ avail' \subseteq avail
  BY DEF Syscall
<1>3. rw' = [rw EXCEPT ![Mode(g)] = rw[Mode(g)]]
  BY <1>1, <1>2, OwnWord
<1>4. rw[Mode(g)] \in {"nil", "ready"} /\ rw[Mode(g)] \notin Goroutines
  BY <1>1, OwnWord
<1>5. CASE Goto(g, "unlock")
  <2>1. IOStep(g) /\ pc'[g] = "unlock"
    BY <1>1, <1>2, <1>5, IOGoto, PointsKnown
  <2>2. pc'[g] \notin WaitPoints
    BY <2>1 DEF WaitPoints
  <2>3. QED
    BY <1>1, <1>2, <1>3, <1>4, <2>1, <2>2, IOWait
<1>6. CASE op[g].left > 1 /\ op' = [op EXCEPT ![g].left = @ - 1] /\ UNCHANGED pc
  <2>1. CallType
    BY TypeParts DEF IInv
  <2>2. op' \in [Goroutines -> Calls] /\ \A h \in Goroutines : Same(h)
    BY <1>6, <2>1 DEF CallType, Calls, Same
  <2>3. IOStep(g)
    BY <1>1, <1>2, <1>6, <2>1, <2>2 DEF IOStep, CallType
  <2>4. pc'[g] = "sys" /\ pc'[g] \notin WaitPoints
    BY <1>1, <1>6 DEF WaitPoints
  <2>5. QED
    BY <1>1, <1>2, <1>3, <1>4, <2>3, <2>4, IOWait
<1>7. CASE Mode(g) \notin avail /\ Goto(g, "wait")
  <2>1. IOStep(g) /\ pc'[g] = "wait"
    BY <1>1, <1>2, <1>7, IOGoto, PointsKnown
  <2>2. Mode(g) \notin avail'
    BY <1>2, <1>7
  <2>3. QED
    BY <1>1, <1>2, <1>3, <1>4, <2>1, <2>2, IOWait
<1>8. QED
  BY <1>5, <1>6, <1>7 DEF Syscall

LEMMA PollWaitInv ==
  ASSUME IInv, NEW g \in Goroutines, PollWait(g)
  PROVE  IInv'
<1>1. pc[g] = "wait" /\ pc[g] \in IOPoints /\ pc[g] # "parked"
  BY PointsKnown DEF PollWait
<1>2. UNCHANGED <<muVars, pdVars>> /\ UNCHANGED <<rw, avail, edge, inflight>>
  BY DEF PollWait, kernelVars
<1>3. rw' = [rw EXCEPT ![Mode(g)] = rw[Mode(g)]]
  BY <1>1, <1>2, OwnWord
<1>4. IOStep(g) /\ pc'[g] \in {"unlock", "block"}
  BY <1>1, <1>2, IOGoto, PointsKnown DEF PollWait
<1>5. Mode(g) \in avail => Mode(g) \in edge \cup inflight \/ rw[Mode(g)] = "ready"
  BY <1>1 DEF IInv, WakeInv
<1>6. rw[Mode(g)] \in {"nil", "ready"}
  BY <1>1, OwnWord
<1>7. rw[Mode(g)] \notin Goroutines /\ rw[Mode(g)] # "wait"
  BY <1>6, NetFDAssumption
<1>8. QED
  BY <1>1, <1>2, <1>3, <1>4, <1>5, <1>6, <1>7, IOWait DEF WaitPoints

LEMMA BlockInv ==
  ASSUME IInv, NEW g \in Goroutines, Block(g)
  PROVE  IInv'
<1>1. pc[g] = "block" /\ pc[g] \in IOPoints /\ pc[g] # "parked"
  BY PointsKnown DEF Block
<1>2. UNCHANGED <<muVars, pdVars>> /\ UNCHANGED <<avail, edge, inflight>>
  BY DEF Block, kernelVars
<1>3. CASE rw[Mode(g)] = "ready"
  <2>1. rw' = [rw EXCEPT ![Mode(g)] = "nil"] /\ Goto(g, "sys")
    BY <1>3 DEF Block
  <2>2. IOStep(g) /\ pc'[g] = "sys"
    BY <1>1, <1>2, <2>1, IOGoto, PointsKnown
  <2>3. QED
    BY <1>1, <1>2, <2>1, <2>2, IOWait, NetFDAssumption DEF WaitPoints
<1>4. CASE rw[Mode(g)] # "ready"
  <2>1. rw' = [rw EXCEPT ![Mode(g)] = "wait"] /\ Goto(g, "recheck")
    BY <1>4 DEF Block
  <2>2. IOStep(g) /\ pc'[g] = "recheck"
    BY <1>1, <1>2, <2>1, IOGoto, PointsKnown
  <2>3. Mode(g) \in avail => Mode(g) \in edge \cup inflight
    BY <1>1, <1>4 DEF IInv, WakeInv
  <2>4. QED
    BY <1>1, <1>2, <2>1, <2>2, <2>3, IOWait, NetFDAssumption DEF WaitPoints
<1>5. QED
  BY <1>3, <1>4

LEMMA RecheckInv ==
  ASSUME IInv, NEW g \in Goroutines, Recheck(g)
  PROVE  IInv'
<1>1. pc[g] = "recheck" /\ pc[g] \in IOPoints /\ pc[g] # "parked"
  BY PointsKnown DEF Recheck
<1>2. UNCHANGED <<muVars, pdVars>> /\ UNCHANGED <<rw, avail, edge, inflight>>
  BY DEF Recheck, kernelVars
<1>3. rw' = [rw EXCEPT ![Mode(g)] = rw[Mode(g)]]
  BY <1>1, <1>2, OwnWord
<1>4. IOStep(g) /\ pc'[g] = IF Failed(Mode(g)) THEN "xchg" ELSE "commit"
  BY <1>1, <1>2, IOGoto, PointsKnown DEF Recheck
<1>5. Mode(g) \in avail => Mode(g) \in edge \cup inflight \/ rw[Mode(g)] = "ready"
  BY <1>1 DEF IInv, WakeInv
<1>6. rw[Mode(g)] \in {"nil", "ready", "wait"} /\ rw[Mode(g)] \notin Goroutines
  BY <1>1, OwnWord
<1>7. pc'[g] \in {"xchg", "commit"} /\ (pc'[g] = "commit" => ~Failed(Mode(g)))
  BY <1>4
<1>8. QED
  BY <1>1, <1>2, <1>3, <1>4, <1>5, <1>6, <1>7, IOWait DEF WaitPoints

LEMMA ParkInv ==
  ASSUME IInv, NEW g \in Goroutines, Park(g)
  PROVE  IInv'
<1>1. pc[g] = "commit" /\ pc[g] \in IOPoints /\ pc[g] # "parked"
  BY PointsKnown DEF Park
<1>2. UNCHANGED <<muVars, pdVars>> /\ UNCHANGED <<avail, edge, inflight>>
  BY DEF Park, kernelVars
<1>3. Mode(g) \in avail => Mode(g) \in edge \cup inflight \/ rw[Mode(g)] = "ready"
  BY <1>1 DEF IInv, WakeInv
<1>4. CASE rw[Mode(g)] = "wait"
  <2>1. rw' = [rw EXCEPT ![Mode(g)] = g] /\ Goto(g, "parked")
    BY <1>4 DEF Park
  <2>2. IOStep(g) /\ pc'[g] = "parked"
    BY <1>1, <1>2, <2>1, IOGoto, PointsKnown
  <2>3. Failed(Mode(g)) => Mode(g) \in cs.todo
    BY <1>1, <1>4 DEF IInv, WakeInv
  <2>4. QED
    BY <1>1, <1>2, <1>3, <1>4, <2>1, <2>2, <2>3, IOWait, NetFDAssumption DEF WaitPoints
<1>5. CASE rw[Mode(g)] # "wait"
  <2>1. rw' = [rw EXCEPT ![Mode(g)] = rw[Mode(g)]] /\ Goto(g, "xchg")
    BY <1>1, <1>5, OwnWord DEF Park
  <2>2. IOStep(g) /\ pc'[g] = "xchg"
    BY <1>1, <1>2, <2>1, IOGoto, PointsKnown
  <2>3. QED
    BY <1>1, <1>2, <1>3, <1>5, <2>1, <2>2, OwnWord, IOWait DEF WaitPoints
<1>6. QED
  BY <1>4, <1>5

LEMMA UnparkedInv ==
  ASSUME IInv, NEW g \in Goroutines, Unparked(g)
  PROVE  IInv'
<1>1. pc[g] = "xchg" /\ pc[g] \in IOPoints /\ pc[g] # "parked"
  BY PointsKnown DEF Unparked
<1>2. UNCHANGED <<muVars, pdVars>> /\ UNCHANGED <<avail, edge, inflight>>
  BY DEF Unparked, kernelVars
<1>3. IOStep(g) /\ pc'[g] = IF rw[Mode(g)] = "ready" THEN "sys" ELSE "wait"
  BY <1>1, <1>2, IOGoto, PointsKnown DEF Unparked
<1>4. rw' = [rw EXCEPT ![Mode(g)] = "nil"]
  BY DEF Unparked
<1>5. Mode(g) \in avail => Mode(g) \in edge \cup inflight \/ rw[Mode(g)] = "ready"
  BY <1>1 DEF IInv, WakeInv
<1>6. QED
  BY <1>1, <1>2, <1>3, <1>4, <1>5, IOWait, NetFDAssumption DEF WaitPoints
-----------------------------------------------------------------------------
(* The poller and the kernel *)

\* Everybody keeps what it holds, and the pollDesc is that of the same descriptor.
LEMMA HeldFrame ==
  ASSUME IInv, UNCHANGED muVars, \A g \in Goroutines : Keeps(g), pd'.fd = pd.fd,
         \A g \in Goroutines : pc'[g] = "cs" <=> cs'.holder = g,
         cs'.holder = None => cs' = NoCS
  PROVE  MuType' /\ CallInv' /\ RefsInv' /\ OwnerInv'
<1>1. MuType'
  BY TypeParts DEF IInv, MuType, muVars
<1>2. CallInv'
  BY CallFrame DEF IInv, muVars
<1>3. RefsInv'
  BY RefsFrame DEF IInv, muVars
<1>4. OwnerInv'
  BY OwnerFrame DEF IInv, muVars
<1>5. QED
  BY <1>1, <1>2, <1>3, <1>4

\* Nothing of it changes, and nobody is about to evict who was not before.
LEMMA OpenFrame ==
  ASSUME IInv, UNCHANGED mu, pd'.fd = pd.fd, pd'.closing = pd.closing,
         \A g \in Goroutines : pc'[g] = "evict" <=> pc[g] = "evict"
  PROVE  CloseInv'
<1>1. pd.fd \in {0} \cup FDs
  BY TypeParts, NetFDAssumption DEF IInv, PdType, FDs
<1>2. QED
  BY <1>1, CloseFrame DEF IInv

\* Parked goroutines go on.
LEMMA UnparkKeeps ==
  ASSUME IInv, NEW gs, \A g \in gs \cap Goroutines : pc[g] = "parked",
         pc' = Unpark(gs), UNCHANGED op
  PROVE  /\ CallType'
         /\ \A g \in Goroutines :
              /\ Keeps(g) /\ Same(g)
              /\ pc'[g] = IF g \in gs THEN "xchg" ELSE pc[g]
              /\ pc'[g] = "evict" <=> pc[g] = "evict"
              /\ pc'[g] = "cs" <=> pc[g] = "cs"
<1>1. CallType
  BY TypeParts DEF IInv
<1>2. \A g \in Goroutines : pc'[g] = IF g \in gs THEN "xchg" ELSE pc[g]
  BY DEF Unpark
<1>3. CallType'
  BY <1>1, PointsKnown DEF CallType, Unpark
<1>4. QED
  BY <1>2, <1>3, PointsKnown DEF Keeps, Same

LEMMA PollInv ==
  ASSUME IInv, Poll
  PROVE  IInv'
<1>1. UNCHANGED muVars /\ UNCHANGED pdVars /\ UNCHANGED <<rw, avail, pc, op>>
  BY DEF Poll
<1>2. \A g \in Goroutines : Keeps(g)
  BY <1>1 DEF Keeps, Same
<1>3. UNCHANGED mu /\ UNCHANGED <<pd, deadline, timer, firing, cs>>
  BY <1>1 DEF muVars, pdVars
<1>4. MuType' /\ CallInv' /\ RefsInv' /\ OwnerInv'
  BY <1>1, <1>2, <1>3, HeldFrame DEF IInv, CallInv
<1>5. CloseInv' /\ TimerInv'
  BY <1>1, <1>3, OpenFrame, TimerFrame DEF IInv
<1>6. TypeOK'
  BY <1>1, <1>3, <1>4, TypeParts, TypePartsNext
     DEF IInv, PdType, RwType, KernelType, CallType, Poll
<1>7. WordInv'
  BY <1>1, <1>3 DEF IInv, WordInv, Mode
<1>8. WakeInv'
  BY <1>1, <1>3 DEF IInv, WakeInv, Mode, Failed, Poll
<1>9. QED
  BY <1>4, <1>5, <1>6, <1>7, <1>8 DEF IInv

LEMMA ArriveInv ==
  ASSUME IInv, NEW m \in Modes, Arrive(m)
  PROVE  IInv'
<1>1. UNCHANGED muVars /\ UNCHANGED pdVars /\ UNCHANGED <<rw, inflight, pc, op>>
  BY DEF Arrive
<1>2. \A g \in Goroutines : Keeps(g)
  BY <1>1 DEF Keeps, Same
<1>3. UNCHANGED mu /\ UNCHANGED <<pd, deadline, timer, firing, cs>>
  BY <1>1 DEF muVars, pdVars
<1>4. MuType' /\ CallInv' /\ RefsInv' /\ OwnerInv'
  BY <1>1, <1>2, <1>3, HeldFrame DEF IInv, CallInv
<1>5. CloseInv' /\ TimerInv'
  BY <1>1, <1>3, OpenFrame, TimerFrame DEF IInv
<1>6. TypeOK'
  BY <1>1, <1>3, <1>4, TypeParts, TypePartsNext
     DEF IInv, PdType, RwType, KernelType, CallType, Arrive
<1>7. WordInv'
  BY <1>1, <1>3 DEF IInv, WordInv, Mode
<1>8. WakeInv'
  BY <1>1, <1>3 DEF IInv, WakeInv, Mode, Failed, Arrive
<1>9. QED
  BY <1>4, <1>5, <1>6, <1>7, <1>8 DEF IInv

\* What becomes of a word that is unblocked.
LEMMA UnblockWord ==
  ASSUME IInv, NEW m \in Modes, NEW ioready \in BOOLEAN, Unblock(m, ioready)
  PROVE  /\ RwType'
         /\ rw'[m] \in {"nil", "ready"}
         /\ ioready => rw'[m] = "ready"
         /\ rw[m] = "ready" => rw'[m] = "ready"
         /\ \A k \in Modes : k # m => rw'[k] = rw[k]
<1>1. rw \in [Modes -> {"nil", "ready", "wait"} \cup Goroutines]
  BY TypeParts DEF IInv, RwType
<1>2. QED
  BY <1>1 DEF Unblock, RwType

\* A goroutine that is in it is parked there and not yet taken out.
LEMMA BlockedParked ==
  ASSUME IInv, NEW m \in Modes, NEW g \in Blocked(m)
  PROVE  g \in Goroutines /\ g = rw[m] /\ pc[g] = "parked" /\ Mode(g) = m /\ g \notin cs.woken
BY DEF Blocked, IInv, WordInv

LEMMA PollReadyInv ==
  ASSUME IInv, NEW m \in Modes, PollReady(m)
  PROVE  IInv'
<1>1. UNCHANGED muVars /\ UNCHANGED pdVars /\ UNCHANGED <<avail, edge, op>>
  BY DEF PollReady
<1>2. UNCHANGED mu /\ UNCHANGED <<pd, deadline, timer, firing, cs>>
  BY <1>1 DEF muVars, pdVars
<1>3. /\ CallType'
      /\ \A g \in Goroutines :
           /\ Keeps(g) /\ Same(g)
           /\ pc'[g] = IF g \in Blocked(m) THEN "xchg" ELSE pc[g]
           /\ pc'[g] = "evict" <=> pc[g] = "evict"
           /\ pc'[g] = "cs" <=> pc[g] = "cs"
  BY BlockedParked, UnparkKeeps DEF PollReady
<1>4. MuType' /\ CallInv' /\ RefsInv' /\ OwnerInv'
  BY <1>1, <1>2, <1>3, HeldFrame DEF IInv, CallInv
<1>5. CloseInv' /\ TimerInv'
  BY <1>1, <1>2, <1>3, OpenFrame, TimerFrame DEF IInv
<1>6. /\ RwType' /\ rw'[m] = "ready"
      /\ \A k \in Modes : k # m => rw'[k] = rw[k]
  BY UnblockWord DEF PollReady
<1>7. TypeOK'
  BY <1>1, <1>2, <1>3, <1>4, <1>6, TypeParts, TypePartsNext
     DEF IInv, PdType, KernelType, PollReady
<1>8. WordInv'
  <2>1. \A g \in Goroutines : Mode(g)' = Mode(g)
    BY <1>1 DEF Mode
  <2>2. ASSUME NEW k \in Modes, rw'[k] = "wait"
        PROVE  \E g \in Goroutines : Mode(g)' = k /\ pc'[g] \in {"recheck", "commit", "xchg"}
    <3>1. rw[k] = "wait"
      BY <1>6, <2>2
    <3>2. PICK g \in Goroutines : Mode(g) = k /\ pc[g] \in {"recheck", "commit", "xchg"}
      BY <3>1 DEF IInv, WordInv
    <3>3. QED
      BY <1>3, <2>1, <3>2
  <2>3. ASSUME NEW k \in Modes, NEW g \in Goroutines, rw'[k] = g
        PROVE  pc'[g] = "parked" /\ Mode(g)' = k
    <3>1. k # m /\ rw[k] = g
      BY <1>6, <2>3, NetFDAssumption
    <3>2. pc[g] = "parked" /\ Mode(g) = k
      BY <3>1 DEF IInv, WordInv
    <3>3. QED
      BY <1>3, <2>1, <3>1, <3>2, BlockedParked
  <2>4. ASSUME NEW g \in cs.woken
        PROVE  pc'[g] = "parked" /\ rw'[Mode(g)'] # g
    <3>1. g \in Goroutines /\ pc[g] = "parked" /\ rw[Mode(g)] # g /\ Mode(g) \in Modes
      BY TypeParts, PointsKnown DEF IInv, WordInv, CallInv, PdType, Sections
    <3>2. g \notin Blocked(m)
      BY BlockedParked
    <3>3. QED
      BY <1>3, <1>6, <2>1, <3>1, <3>2, NetFDAssumption
  <2>5. \A k \in Modes : rw'[k] \in Goroutines => pc'[rw'[k]] = "parked" /\ op'[rw'[k]].call = k
    BY <2>3 DEF Mode
  <2>6. QED
    BY <1>2, <2>2, <2>4, <2>5 DEF WordInv, Mode
<1>9. WakeInv'
  <2> SUFFICES ASSUME NEW g \in Goroutines
               PROVE  /\ pc'[g] \in WaitPoints /\ Mode(g) \in avail =>
                           Mode(g) \in edge \cup inflight' \/ rw'[Mode(g)] = "ready"
                      /\ \/ pc'[g] = "commit" /\ rw'[Mode(g)] = "wait"
                         \/ pc'[g] = "parked" /\ g \notin cs.woken
                         => (Failed(Mode(g)) => Mode(g) \in cs.todo)
                      /\ pc'[g] = "parked" /\ g \notin cs.woken => rw'[Mode(g)] = g
    BY <1>1, <1>2 DEF WakeInv, WaitPoints, Mode, Failed
  <2>1. pc'[g] \in WaitPoints => Mode(g) \in Modes /\ pc[g] \in WaitPoints
    BY <1>3, BlockedParked, PointsKnown DEF WaitPoints, IInv, CallInv
  <2>2. \A k \in Modes : k \in inflight /\ k # m => k \in inflight'
    BY DEF PollReady
  <2>3. pc'[g] = "parked" /\ g \notin cs.woken => pc[g] = "parked" /\ Mode(g) # m
    <3>1. SUFFICES ASSUME pc'[g] = "parked", g \notin cs.woken
                   PROVE  pc[g] = "parked" /\ Mode(g) # m
      OBVIOUS
    <3>2. pc[g] = "parked" /\ g \notin Blocked(m)
      BY <1>3, <3>1
    <3>3. rw[Mode(g)] = g
      BY <3>1, <3>2 DEF IInv, WakeInv
    <3>4. QED
      BY <3>2, <3>3 DEF Blocked
  <2>4. pc'[g] = "commit" => pc[g] = "commit"
    BY <1>3
  <2>5. pc[g] \in WaitPoints /\ Mode(g) \in avail =>
          Mode(g) \in edge \cup inflight \/ rw[Mode(g)] = "ready"
    BY DEF IInv, WakeInv, WaitPoints
  <2>6. pc'[g] \in WaitPoints /\ Mode(g) \in avail =>
          Mode(g) \in edge \cup inflight' \/ rw'[Mode(g)] = "ready"
    BY <1>6, <2>1, <2>2, <2>5
  <2>7. pc'[g] = "commit" /\ rw'[Mode(g)] = "wait" => (Failed(Mode(g)) => Mode(g) \in cs.todo)
    BY <1>6, <2>1, <2>4 DEF IInv, WakeInv, WaitPoints
  <2>8. pc'[g] = "parked" /\ g \notin cs.woken =>
          (Failed(Mode(g)) => Mode(g) \in cs.todo) /\ rw'[Mode(g)] = g
    BY <1>6, <2>1, <2>3 DEF IInv, WakeInv, WaitPoints
  <2>9. QED
    BY <2>6, <2>7, <2>8
<1>10. QED
  BY <1>4, <1>5, <1>7, <1>8, <1>9 DEF IInv
-----------------------------------------------------------------------------
(* Timers, and the critical section *)

LEMMA FireInv ==
  ASSUME IInv, NEW m \in Modes, Fire(m)
  PROVE  IInv'
<1>1. UNCHANGED muVars /\ UNCHANGED <<pd, deadline, cs, rw, avail, edge, inflight, pc, op>>
  BY DEF Fire, kernelVars
<1>2. \A g \in Goroutines : Keeps(g)
  BY <1>1 DEF Keeps, Same
<1>3. MuType' /\ CallInv' /\ RefsInv' /\ OwnerInv'
  BY <1>1, <1>2, HeldFrame DEF IInv, CallInv
<1>4. CloseInv'
  BY <1>1, OpenFrame DEF muVars
<1>5. PdType /\ \A k \in Modes : timer[k] \in Timers
  BY TypeParts DEF IInv, PdType
<1>6. firing' = [f |-> timer[m].f, seq |-> timer[m].seq, when |-> timer[m].when,
                 fd |-> pd.fd, mode |-> m]
  BY DEF Fire
<1>7. PdType'
  <2>1. firing' \in Fires
    BY <1>5, <1>6 DEF PdType, Timers, Fires
  <2>2. timer' \in [Modes -> Timers]
    BY <1>5 DEF PdType, Timers, Fire
  <2>3. QED
    BY <1>1, <1>5, <2>1, <2>2 DEF PdType
<1>8. TypeOK'
  BY <1>1, <1>3, <1>7, TypeParts, TypePartsNext DEF IInv, RwType, KernelType, CallType
<1>9. WordInv' /\ WakeInv'
  BY <1>1 DEF IInv, WordInv, WakeInv, Mode, Failed
<1>10. /\ \A k \in Modes :
            /\ timer'[k].f = timer[k].f /\ timer'[k].seq = timer[k].seq
            /\ timer'[k].when = timer[k].when
            /\ timer'[k].armed => timer[k].armed
       /\ ~timer'[m].armed
  BY <1>5 DEF Fire, PdType, Timers
<1>11. TimerInv'
  <2>1. firing = NoFire /\ timer[m].armed /\ timer[m].f # None
    BY DEF Fire, IInv, TimerInv
  <2>2. cs.holder # Timer
    BY <2>1 DEF IInv, TimerInv
  <2>3. "r" \in Modes /\ "w" \in Modes
    BY DEF Modes
  <2>4. \A f, t, ms : ms \subseteq Modes => (ForDeadline(f, t, ms)' <=> ForDeadline(f, t, ms))
    BY <1>1, <1>10 DEF ForDeadline
  <2> DEFINE ms(k) == IF timer[k].f = "both" THEN Modes ELSE {k}
  <2>5. FiredModes' = ms(m) /\ ms(m) \subseteq Modes
    BY <1>6 DEF FiredModes
  <2>6. timer[m].f = "both" => m = "r"
    BY <2>1 DEF IInv, TimerInv
  <2>7. \A k \in ms(m) : ~timer'[k].armed
    <3>1. SUFFICES ASSUME NEW k \in ms(m), k # m PROVE ~timer'[k].armed
      BY <1>10
    <3>2. timer[m].f = "both" /\ k = "w" /\ m = "r"
      BY <2>6, <3>1 DEF Modes
    <3>3. timer["w"].f = None
      BY <3>2 DEF IInv, TimerInv
    <3>4. QED
      BY <1>10, <2>3, <3>2, <3>3 DEF IInv, TimerInv
  <2>8. \A k \in Modes :
          /\ timer'[k].armed => timer'[k].f # None
          /\ timer'[k].f # None =>
               /\ timer'[k].seq <= pd.seq /\ timer'[k].when > 0 /\ (timer'[k].f = "both" => k = "r")
               /\ timer'[k].seq = pd.seq =>
                    /\ ~pd.closing /\ pd.fd # 0
                    /\ ForDeadline(timer'[k].f, timer'[k].when,
                                   IF timer'[k].f = "both" THEN Modes ELSE {k})
    BY <1>10 DEF IInv, TimerInv
  <2>9. firing'.f # None /\ firing'.seq <= pd.seq /\ firing'.when > 0
    BY <1>6, <2>1 DEF IInv, TimerInv
  <2>10. firing'.seq = pd.seq =>
           /\ ~pd.closing /\ pd.fd = firing'.fd
           /\ ForDeadline(firing'.f, firing'.when, ms(m))
    BY <1>6, <2>1 DEF IInv, TimerInv
  <2>11. timer'["r"].f = "both" => timer'["w"].f = None
    BY <1>10, <2>3 DEF IInv, TimerInv
  <2>12. cs.expire = {}
    BY <2>2 DEF IInv, TimerInv
  <2>13. \A k \in Modes :
           ForDeadline(timer'[k].f, timer'[k].when,
                       IF timer'[k].f = "both" THEN Modes ELSE {k})
           => ForDeadline(timer[k].f, timer[k].when,
                       IF timer[k].f = "both" THEN Modes ELSE {k})'
    BY <1>1, <1>10 DEF ForDeadline
  <2>14. ForDeadline(firing'.f, firing'.when, ms(m))
         => ForDeadline(firing.f, firing.when, FiredModes)'
    BY <2>5, <1>1, <1>10 DEF ForDeadline
  <2> HIDE DEF ms
  <2>15. \A k \in FiredModes' : ~timer'[k].armed
    BY <2>5, <2>7
  <2>16. QED
    BY <1>1, <2>2, <2>8, <2>9, <2>10, <2>11, <2>12, <2>13, <2>14, <2>15 DEF TimerInv
<1>12. QED
  BY <1>3, <1>4, <1>8, <1>9, <1>11 DEF IInv

LEMMA DeadlineImplInv ==
  ASSUME IInv, DeadlineImpl
  PROVE  IInv'
<1>1. UNCHANGED muVars /\ UNCHANGED <<pd, deadline, timer, rw, avail, edge, inflight, pc, op>>
  BY DEF DeadlineImpl, kernelVars
<1>2. \A g \in Goroutines : Keeps(g)
  BY <1>1 DEF Keeps, Same
<1>3. cs = NoCS /\ firing # NoFire
  BY DEF DeadlineImpl, IInv, CallInv
<1>4. \/ firing.seq # pd.seq /\ firing' = NoFire /\ cs' = cs
      \/ firing.seq = pd.seq /\ firing' = firing
         /\ cs' = [holder |-> Timer, expire |-> FiredModes, todo |-> {}, woken |-> {}]
  BY DEF DeadlineImpl, NoCS
<1>5. FiredModes \subseteq Modes
  BY TypeParts DEF FiredModes, IInv, PdType, Fires
<1>6. PdType'
  <2>1. NoFire \in Fires
    BY NetFDAssumption DEF NoFire, Fires, Modes
  <2>2. cs' \in Sections
    BY <1>3, <1>4, <1>5, TypeParts DEF Sections, IInv, PdType
  <2>3. QED
    BY <1>1, <1>4, <2>1, <2>2, TypeParts DEF IInv, PdType
<1>7. \A g \in Goroutines : pc'[g] = "cs" <=> cs'.holder = g
  <2>1. \A g \in Goroutines : g # None /\ g # Timer
    BY NetFDAssumption DEF None
  <2>2. cs.holder = None /\ cs'.holder \in {None, Timer}
    BY <1>3, <1>4 DEF NoCS
  <2>3. QED
    BY <1>1, <2>1, <2>2 DEF IInv, CallInv
<1>8. cs'.holder = None => cs' = NoCS
  BY <1>3, <1>4, NetFDAssumption DEF None
<1>9. MuType' /\ CallInv' /\ RefsInv' /\ OwnerInv'
  BY <1>1, <1>2, <1>7, <1>8, HeldFrame
<1>10. CloseInv'
  BY <1>1, OpenFrame DEF muVars
<1>11. TypeOK'
  BY <1>1, <1>6, <1>9, TypeParts, TypePartsNext DEF IInv, RwType, KernelType, CallType
<1>12. cs'.todo = cs.todo /\ cs'.woken = cs.woken
  BY <1>3, <1>4 DEF NoCS
<1>13. WordInv' /\ WakeInv'
  BY <1>1, <1>12 DEF IInv, WordInv, WakeInv, Mode, Failed
<1>14. cs.holder # Timer /\ cs.expire = {}
  BY <1>3, NetFDAssumption DEF NoCS, None
<1>15. TimerInv'
  <2>1. CASE firing' = NoFire /\ cs' = cs
    BY <1>1, <1>14, <2>1 DEF IInv, TimerInv, ForDeadline
  <2>2. CASE /\ firing.seq = pd.seq /\ firing' = firing
             /\ cs'.holder = Timer /\ cs'.expire = FiredModes
    BY <1>1, <1>3, <1>14, <2>2 DEF IInv, TimerInv, ForDeadline, FiredModes
  <2>3. QED
    BY <1>4, <2>1, <2>2
<1>16. QED
  BY <1>9, <1>10, <1>11, <1>13, <1>15 DEF IInv

LEMMA ExpireInv ==
  ASSUME IInv, Expire
  PROVE  IInv'
<1> DEFINE m == First(cs.expire)
<1>1. UNCHANGED muVars /\ UNCHANGED <<pd, firing, rw, avail, edge, inflight, pc, op>>
  BY DEF Expire, kernelVars
<1>2. \A g \in Goroutines : Keeps(g)
  BY <1>1 DEF Keeps, Same
<1>3. cs \in Sections /\ deadline \in [Modes -> {-1, 0} \cup Times] /\ timer \in [Modes -> Timers]
      /\ firing \in Fires
  BY TypeParts DEF IInv, PdType
<1>4. m \in cs.expire /\ m \in Modes
  BY <1>3 DEF First, Expire, Sections, Modes
<1>5. /\ deadline' = [deadline EXCEPT ![m] = -1]
      /\ timer' = [timer EXCEPT ![m].f = None]
      /\ cs' = [cs EXCEPT !.expire = cs.expire \ {m}, !.todo = {m}]
  BY DEF Expire
<1> HIDE DEF m
<1>6. /\ cs'.holder = cs.holder /\ cs'.woken = cs.woken
      /\ cs'.expire = cs.expire \ {m} /\ cs'.todo = {m} /\ cs' \in Sections
  BY <1>3, <1>4, <1>5 DEF Sections
<1>7. /\ deadline'[m] = -1 /\ deadline' \in [Modes -> {-1, 0} \cup Times]
      /\ \A k \in Modes : k # m => deadline'[k] = deadline[k]
  BY <1>3, <1>4, <1>5
<1>8. /\ timer'[m].f = None /\ timer'[m].armed = timer[m].armed
      /\ \A k \in Modes : k # m => timer'[k] = timer[k]
      /\ timer' \in [Modes -> Timers]
  BY <1>3, <1>4, <1>5 DEF Timers
<1>9. PdType'
  BY <1>1, <1>3, <1>6, <1>7, <1>8, TypeParts DEF IInv, PdType
<1>10. cs.holder = Timer /\ cs'.holder # None
  BY <1>4, <1>6, NetFDAssumption DEF IInv, TimerInv, None
<1>11. MuType' /\ CallInv' /\ RefsInv' /\ OwnerInv'
  BY <1>1, <1>2, <1>6, <1>10, HeldFrame DEF IInv, CallInv
<1>12. CloseInv'
  BY <1>1, OpenFrame DEF muVars
<1>13. TypeOK'
  BY <1>1, <1>9, <1>11, TypeParts, TypePartsNext DEF IInv, RwType, KernelType, CallType
<1>14. WordInv'
  BY <1>1, <1>6 DEF IInv, WordInv, Mode
<1>15. WakeInv'
  <2>1. cs.todo = {}
    BY DEF Expire
  <2>2. \A g \in Goroutines :
          pc[g] \in {"commit", "parked"} => Mode(g) \in Modes
    BY PointsKnown DEF IInv, CallInv
  <2>3. \A k \in Modes : Failed(k)' => Failed(k) \/ k = m
    BY <1>1, <1>7 DEF Failed
  <2>4. \A g \in Goroutines :
          \/ pc[g] = "commit" /\ rw[Mode(g)] = "wait"
          \/ pc[g] = "parked" /\ g \notin cs.woken
          => (Failed(Mode(g))' => Mode(g) \in cs'.todo)
    <3> SUFFICES ASSUME NEW g \in Goroutines,
                        \/ pc[g] = "commit" /\ rw[Mode(g)] = "wait"
                        \/ pc[g] = "parked" /\ g \notin cs.woken,
                        Failed(Mode(g))'
                 PROVE  Mode(g) \in cs'.todo
      OBVIOUS
    <3>1. ~Failed(Mode(g))
      BY <2>1 DEF IInv, WakeInv
    <3>2. Mode(g)' = Mode(g) /\ Mode(g) \in Modes
      BY <1>1, <2>2 DEF Mode
    <3>3. Failed(Mode(g))' => Failed(Mode(g)) \/ Mode(g) = m
      BY <1>1, <1>7, <3>2 DEF Failed
    <3>4. QED
      BY <3>1, <3>3, <1>6
  <2>5. QED
    BY <1>1, <1>6, <2>4 DEF IInv, WakeInv, Mode, Failed
<1>16. TimerInv'
  <2>1. /\ firing # NoFire /\ firing.seq = pd.seq
        /\ ~pd.closing /\ pd.fd = firing.fd
        /\ \A k \in FiredModes : ~timer[k].armed
        /\ \A k \in FiredModes \ cs.expire : timer[k].f = None
        /\ ForDeadline(firing.f, firing.when, cs.expire)
        /\ firing.f # None /\ firing.when > 0
    BY <1>10 DEF IInv, TimerInv
  <2>2. FiredModes' = FiredModes /\ FiredModes \subseteq Modes
    BY <1>1, <1>3 DEF FiredModes, Fires
  <2>3. deadline[m] = firing.when /\ (timer[m].f # None \/ (firing.f = "both" /\ m = "w"))
    BY <1>4, <2>1 DEF ForDeadline
  <2>4. "r" \in Modes /\ "w" \in Modes /\ Modes = {"r", "w"}
    BY DEF Modes
  <2>5. m \in FiredModes /\ ~timer[m].armed
    BY <1>4, <1>10, <2>1 DEF IInv, TimerInv
  <2>6. ASSUME NEW k \in Modes, k # m, timer[k].f = "both", m \in Modes PROVE timer[k].f = None
    <3>1. k = "r" /\ m = "w"
      BY <2>6, <2>4 DEF IInv, TimerInv, None
    <3>2. timer["w"].f = None
      BY <2>6, <3>1 DEF IInv, TimerInv
    <3>3. firing.f = "both" /\ "r" \in FiredModes
      BY <2>3, <2>4, <3>1, <3>2 DEF FiredModes
    <3>4. "r" \notin cs.expire
      BY <3>1 DEF First, m
    <3>5. QED
      BY <2>1, <3>1, <3>3, <3>4
  <2>7. ASSUME NEW k \in Modes, timer'[k].f # None
        PROVE  /\ k # m /\ timer'[k].f # "both"
               /\ timer'[k] = timer[k] /\ deadline'[k] = deadline[k]
    BY <1>4, <1>7, <1>8, <2>6, <2>7 DEF None
  <2>8. \A k \in Modes :
          /\ timer'[k].armed => timer'[k].f # None
          /\ timer'[k].f # None =>
               /\ timer'[k].seq <= pd.seq /\ timer'[k].when > 0
               /\ timer'[k].seq = pd.seq =>
                    ~pd.closing /\ pd.fd # 0 /\ deadline'[k] = timer'[k].when
    <3>1. ASSUME NEW k \in Modes, timer'[k].armed PROVE timer'[k].f # None
      BY <1>8, <2>5, <3>1 DEF IInv, TimerInv
    <3>2. ASSUME NEW k \in Modes, timer'[k].f # None
          PROVE  /\ timer'[k].seq <= pd.seq /\ timer'[k].when > 0
                 /\ timer'[k].seq = pd.seq =>
                      ~pd.closing /\ pd.fd # 0 /\ deadline'[k] = timer'[k].when
      BY <2>7, <3>2 DEF IInv, TimerInv, ForDeadline
    <3>3. QED
      BY <3>1, <3>2
  <2>9. \A k \in FiredModes : ~timer'[k].armed
    BY <2>1, <2>2, <2>5, <1>8
  <2>10. \A k \in FiredModes \ cs'.expire : timer'[k].f = None
    BY <2>1, <2>2, <1>6, <1>8
  <2>11. \A k \in cs'.expire :
           deadline'[k] = firing.when /\ (timer'[k].f # None \/ (firing.f = "both" /\ k = "w"))
    BY <1>3, <1>6, <1>7, <1>8, <2>1 DEF ForDeadline, Sections
  <2>12. cs'.expire \subseteq FiredModes /\ cs'.holder = Timer
    BY <1>6, <1>10, <2>1 DEF IInv, TimerInv
  <2>13. firing'.seq <= pd.seq
    BY <1>1, <2>1 DEF IInv, TimerInv
  <2>14. \A k \in Modes : timer'[k].f # "both"
    BY <2>7 DEF None
  <2>15. \A k \in Modes :
           timer'[k].f # None /\ timer'[k].seq = pd.seq =>
             ForDeadline(timer[k].f, timer[k].when, IF timer[k].f = "both" THEN Modes ELSE {k})'
    BY <2>8, <2>14 DEF ForDeadline
  <2>16. ForDeadline(firing.f, firing.when, IF cs.holder = Timer THEN cs.expire ELSE FiredModes)'
    BY <1>1, <2>11, <2>12 DEF ForDeadline
  <2>17. timer'["r"].f # "both"
    BY <2>4, <2>14
  <2>18. QED
    BY <1>1, <2>1, <2>2, <2>8, <2>9, <2>10, <2>12, <2>13, <2>14, <2>15, <2>16, <2>17 DEF TimerInv
<1>17. QED
  BY <1>11, <1>12, <1>13, <1>14, <1>15, <1>16 DEF IInv

\* The timers for deadlines d have what TimerInv says of them.
LEMMA TimersForDeadlines ==
  ASSUME NEW d \in [Modes -> {-1, 0} \cup Times], NEW seq \in Nat
  PROVE  LET t == TimersFor(d, seq)
         IN /\ t \in [Modes -> Timers]
            /\ t["w"].f # "both" /\ (t["r"].f = "both" => d["r"] = d["w"] /\ t["w"].f = None)
            /\ \A m \in Modes :
                 /\ t[m].armed => t[m].f # None
                 /\ t[m].f # None => t[m].seq = seq /\ t[m].when = d[m] /\ d[m] > 0
<1> DEFINE New(f, m) == [f |-> f, seq |-> seq, when |-> d[m], armed |-> TRUE]
           t == TimersFor(d, seq)
<1>1. "r" \in Modes /\ "w" \in Modes /\ Modes = {"r", "w"}
  BY DEF Modes
<1>2. \A m \in Modes : d[m] > 0 => d[m] \in Times
  BY NetFDAssumption
<1>3. \A m \in Modes, f \in {"one", "both"} : d[m] > 0 => New(f, m) \in Timers
  BY <1>2 DEF Timers
<1>4. NoTimer \in Timers
  BY DEF NoTimer, Timers
<1>5. CASE d["r"] > 0 /\ d["r"] = d["w"]
  <2>1. t = [m \in Modes |-> IF m = "r" THEN New("both", "r") ELSE NoTimer]
    BY <1>5 DEF TimersFor
  <2>2. t["r"] = New("both", "r") /\ t["w"] = NoTimer
    BY <1>1, <2>1
  <2>3. t \in [Modes -> Timers]
    BY <1>1, <1>3, <1>4, <1>5, <2>1
  <2> HIDE DEF t
  <2>4. t["r"].f = "both" /\ t["r"].seq = seq /\ t["r"].when = d["r"]
        /\ t["w"].f = None /\ ~t["w"].armed
    BY <2>2 DEF NoTimer
  <2>5. QED
    BY <1>1, <1>5, <2>3, <2>4 DEF t, None
<1>6. CASE ~(d["r"] > 0 /\ d["r"] = d["w"])
  <2>1. t = [m \in Modes |-> IF d[m] > 0 THEN New("one", m) ELSE NoTimer]
    BY <1>6 DEF TimersFor
  <2>2. \A m \in Modes : t[m] = IF d[m] > 0 THEN New("one", m) ELSE NoTimer
    BY <2>1
  <2>3. t \in [Modes -> Timers]
    BY <1>3, <1>4, <2>1
  <2> HIDE DEF t
  <2>4. \A m \in Modes :
          /\ t[m].f # "both" /\ (t[m].armed => t[m].f # None)
          /\ t[m].f # None => t[m].seq = seq /\ t[m].when = d[m] /\ d[m] > 0
    <3> SUFFICES ASSUME NEW m \in Modes
                 PROVE  /\ t[m].f # "both" /\ (t[m].armed => t[m].f # None)
                        /\ t[m].f # None => t[m].seq = seq /\ t[m].when = d[m] /\ d[m] > 0
      OBVIOUS
    <3>1. CASE d[m] > 0
      <4>1. t[m] = New("one", m)
        BY <2>2, <3>1
      <4>2. t[m].f = "one" /\ t[m].seq = seq /\ t[m].when = d[m]
        BY <4>1
      <4>3. QED
        BY <3>1, <4>2 DEF None
    <3>2. CASE ~(d[m] > 0)
      <4>1. t[m] = NoTimer
        BY <2>2, <3>2
      <4>2. t[m].f = None /\ ~t[m].armed
        BY <4>1 DEF NoTimer
      <4>3. QED
        BY <4>2 DEF None
    <3>3. QED
      BY <3>1, <3>2
  <2>5. QED
    BY <1>1, <2>3, <2>4 DEF t
<1>7. QED
  BY <1>5, <1>6

\* Timers of an earlier seq are of no account any more.
LEMMA NewSeq ==
  ASSUME IInv, pd'.seq = pd.seq + 1, firing' = firing, cs.holder = None,
         cs'.holder # Timer, cs'.expire = {},
         \A m \in Modes :
           /\ timer'[m].armed => timer'[m].f # None
           /\ timer'[m].f # None =>
                /\ timer'[m].seq <= pd'.seq /\ timer'[m].when > 0
                /\ timer'[m].f = "both" => m = "r"
                /\ timer'[m].seq = pd'.seq =>
                     /\ ~pd'.closing /\ pd'.fd # 0
                     /\ ForDeadline(timer[m].f, timer[m].when,
                                    IF timer[m].f = "both" THEN Modes ELSE {m})',
         timer'["r"].f = "both" => timer'["w"].f = None
  PROVE  TimerInv'
<1>1. pd.seq \in Nat /\ firing.seq \in Nat
  BY TypeParts DEF IInv, PdType, Fires
<1>2. firing # NoFire => firing.seq <= pd.seq /\ firing.f # None /\ firing.when > 0
  BY DEF IInv, TimerInv
<1>3. firing # NoFire => firing'.seq # pd'.seq /\ firing'.seq <= pd'.seq
  BY <1>1, <1>2
<1>4. QED
  BY <1>2, <1>3 DEF TimerInv

LEMMA SetDeadlineInv ==
  ASSUME IInv, NEW g \in Goroutines, SetDeadline(g)
  PROVE  IInv'
<1>1. UNCHANGED muVars /\ UNCHANGED <<firing, rw, avail, edge, inflight>>
  BY DEF SetDeadline, kernelVars
<1>2. pc[g] = "set" /\ cs = NoCS /\ cs.holder = None
  BY DEF SetDeadline, IInv, CallInv
<1>3. CallType /\ PdType
  BY TypeParts DEF IInv
<1>4. ASSUME NEW p \in {"decref", "cs"}, Goto(g, p)
      PROVE  /\ CallType' /\ pc'[g] = p
             /\ \A h \in Goroutines :
                  /\ Keeps(h) /\ Same(h) /\ (h # g => pc'[h] = pc[h])
                  /\ pc'[h] = "evict" <=> pc[h] = "evict"
                  /\ pc[h] \in WaitPoints \/ pc'[h] \in WaitPoints => pc'[h] = pc[h]
  <2>1. p \in Points /\ p \in RefPoints \ IOPoints /\ pc[g] \in RefPoints \ IOPoints
    BY <1>2, PointsKnown
  <2>2. /\ CallType' /\ pc'[g] = p
        /\ \A h \in Goroutines : h # g => pc'[h] = pc[h]
        /\ UNCHANGED op
    BY <1>3, <1>4, <2>1, GotoType DEF Goto
  <2>3. QED
    BY <1>2, <2>1, <2>2 DEF Keeps, Same, WaitPoints
<1>5. CASE pd.closing
  <2>1. UNCHANGED <<pd, deadline, timer, cs>> /\ Goto(g, "decref")
    BY <1>5 DEF SetDeadline
  <2>2. UNCHANGED pdVars
    BY <1>1, <2>1 DEF pdVars
  <2>3. \A h \in Goroutines : pc'[h] = "cs" <=> cs'.holder = h
    BY <1>2, <1>4, <2>1 DEF IInv, CallInv
  <2>4. MuType' /\ CallInv' /\ RefsInv' /\ OwnerInv'
    BY <1>1, <1>2, <1>4, <2>1, <2>3, HeldFrame
  <2>5. CloseInv' /\ TimerInv'
    BY <1>1, <1>4, <2>1, <2>2, OpenFrame, TimerFrame DEF IInv, muVars
  <2>6. WordInv' /\ WakeInv'
    BY <1>1, <1>4, <2>1, <1>3, WaitFrame DEF IInv, PdType, Sections
  <2>7. TypeOK'
    BY <1>1, <1>3, <1>4, <2>1, <2>4, TypeParts, TypePartsNext DEF IInv, PdType, RwType, KernelType
  <2>8. QED
    BY <2>4, <2>5, <2>6, <2>7 DEF IInv
<1>6. CASE ~pd.closing
  <2>1. /\ pd' = [pd EXCEPT !.seq = @ + 1] /\ timer' = TimersFor(deadline', pd.seq + 1)
        /\ cs' = [NoCS EXCEPT !.holder = g, !.todo = {m \in Modes : deadline'[m] < 0}]
        /\ Goto(g, "cs")
    BY <1>6 DEF SetDeadline
  <2>2. deadline' \in [Modes -> {-1, 0} \cup Times]
    <3>1. PICK ms \in SUBSET Modes \ {{}}, t \in {-1, 0} \cup Times :
            deadline' = [m \in Modes |-> IF m \in ms THEN t ELSE deadline[m]]
      BY <1>6 DEF SetDeadline
    <3>2. QED
      BY <1>3, <3>1 DEF PdType
  <2>3. /\ cs'.holder = g /\ cs'.expire = {} /\ cs'.woken = {}
        /\ cs'.todo = {m \in Modes : deadline'[m] < 0} /\ cs' \in Sections
    BY <2>1 DEF NoCS, Sections
  <2>4. /\ pd'.fd = pd.fd /\ pd'.closing = FALSE /\ pd'.closing = pd.closing
        /\ pd'.seq = pd.seq + 1 /\ pd'.seq \in Nat
        /\ pd' \in [fd : 0..MaxFD, closing : BOOLEAN, seq : Nat]
    BY <1>3, <1>6, <2>1 DEF PdType
  <2>5. g # None /\ g # Timer
    BY NetFDAssumption DEF None
  <2>6. timer' \in [Modes -> Timers]
    BY <2>1, <2>2, <2>4, TimersForDeadlines
  <2>7. PdType'
    BY <1>1, <1>3, <2>2, <2>3, <2>4, <2>6 DEF PdType
  <2>8. \A h \in Goroutines : pc'[h] = "cs" <=> cs'.holder = h
    <3>1. \A h \in Goroutines : pc[h] # "cs"
      BY <1>2, NetFDAssumption DEF IInv, CallInv, None
    <3>2. QED
      BY <1>4, <2>1, <2>3, <3>1
  <2>9. MuType' /\ CallInv' /\ RefsInv' /\ OwnerInv'
    BY <1>1, <1>4, <2>1, <2>3, <2>4, <2>5, <2>8, HeldFrame
  <2>10. CloseInv'
    BY <1>1, <1>4, <2>1, <2>4, OpenFrame DEF muVars
  <2>11. TypeOK'
    BY <1>1, <1>4, <2>1, <2>7, <2>9, TypeParts, TypePartsNext DEF IInv, RwType, KernelType
  <2>12. \A h \in Goroutines :
           /\ Mode(h)' = Mode(h)
           /\ pc[h] \in WaitPoints \/ pc'[h] \in WaitPoints => pc'[h] = pc[h]
    BY <1>4, <2>1 DEF Mode, Same
  <2>13. cs.woken = {} /\ cs'.woken = {}
    BY <1>2, <2>3 DEF NoCS
  <2>14. WordInv'
    BY <1>1, <1>4, <2>1, <2>12, <2>13 DEF IInv, WordInv, WaitPoints, Mode, Same
  <2>15. WakeInv'
    <3>1. \A h \in Goroutines :
            pc'[h] \in WaitPoints => (Failed(Mode(h))' => Mode(h)' \in cs'.todo)
      <4>1. \A h \in Goroutines : pc'[h] \in WaitPoints => Mode(h)' \in Modes
        <5>1. WaitPoints \subseteq IOPoints
          BY DEF WaitPoints, IOPoints
        <5>2. QED
          BY <2>9, <5>1 DEF CallInv
      <4>2. QED
        BY <4>1, <2>3, <2>4 DEF Failed
    <3>2. QED
      BY <1>1, <2>12, <2>13, <3>1 DEF IInv, WakeInv, WaitPoints
  <2>16. TimerInv'
    <3>1. pd.fd # 0
      <4>1. op[g].fd = pd.fd /\ op[g].fd \in 1..opened
        BY <1>2, PointsKnown DEF IInv, OwnerInv, CallInv
      <4>2. QED
        BY <4>1
    <3>2. "r" \in Modes /\ "w" \in Modes /\ Modes = {"r", "w"}
      BY DEF Modes
    <3>3. /\ timer'["w"].f # "both"
          /\ timer'["r"].f = "both" => deadline'["r"] = deadline'["w"] /\ timer'["w"].f = None
          /\ \A m \in Modes :
               /\ timer'[m].armed => timer'[m].f # None
               /\ timer'[m].f # None =>
                    timer'[m].seq = pd'.seq /\ timer'[m].when = deadline'[m] /\ deadline'[m] > 0
      BY <2>1, <2>2, <2>4, TimersForDeadlines
    <3>4. \A m \in Modes :
            timer'[m].f # None =>
              ForDeadline(timer[m].f, timer[m].when,
                          IF timer[m].f = "both" THEN Modes ELSE {m})'
      BY <3>2, <3>3 DEF ForDeadline
    <3>5. pd'.seq <= pd'.seq
      BY <2>4
    <3>6. QED
      BY <1>1, <1>2, <2>3, <2>4, <2>5, <3>1, <3>2, <3>3, <3>4, <3>5, NewSeq
  <2>17. QED
    BY <2>9, <2>10, <2>11, <2>14, <2>15, <2>16 DEF IInv
<1>7. QED
  BY <1>5, <1>6

LEMMA EvictInv ==
  ASSUME IInv, NEW g \in Goroutines, Evict(g)
  PROVE  IInv'
<1>1. UNCHANGED muVars /\ UNCHANGED <<deadline, timer, firing, rw, avail, edge, inflight, op>>
  BY DEF Evict, Goto, kernelVars
<1>2. pc[g] = "evict" /\ cs = NoCS /\ cs.holder = None /\ Goto(g, "cs")
  BY DEF Evict, IInv, CallInv
<1>3. CallType /\ PdType
  BY TypeParts DEF IInv
<1>4. /\ CallType' /\ pc'[g] = "cs"
      /\ \A h \in Goroutines : h # g => pc'[h] = pc[h]
  BY <1>2, <1>3, GotoType, PointsKnown
<1>5. \A h \in Goroutines :
        /\ Keeps(h) /\ Same(h)
        /\ pc[h] \in WaitPoints \/ pc'[h] \in WaitPoints => pc'[h] = pc[h]
  BY <1>1, <1>2, <1>4, PointsKnown DEF Keeps, Same, WaitPoints
<1>6. /\ cs'.holder = g /\ cs'.expire = {} /\ cs'.woken = {} /\ cs'.todo = Modes
      /\ cs' \in Sections
  BY DEF NoCS, Sections, Evict
<1>7. /\ pd'.fd = pd.fd /\ pd'.closing = TRUE
      /\ pd'.seq = pd.seq + 1 /\ pd.seq \in Nat /\ pd'.seq \in Nat
      /\ pd' \in [fd : 0..MaxFD, closing : BOOLEAN, seq : Nat]
  <2>1. pd \in [fd : 0..MaxFD, closing : BOOLEAN, seq : Nat]
    BY <1>3 DEF PdType
  <2>2. pd' = [pd EXCEPT !.closing = TRUE, !.seq = pd.seq + 1]
    BY DEF Evict
  <2>3. pd.fd \in 0..MaxFD /\ pd.seq \in Nat
    BY <2>1
  <2>4. pd' = [fd |-> pd.fd, closing |-> TRUE, seq |-> pd.seq + 1]
    BY <2>1, <2>2
  <2>5. QED
    BY <2>3, <2>4
<1>8. g # None /\ g # Timer
  BY NetFDAssumption DEF None
<1>9. PdType'
  BY <1>1, <1>3, <1>6, <1>7 DEF PdType
<1>10. \A h \in Goroutines : pc'[h] = "cs" <=> cs'.holder = h
  <2>1. \A h \in Goroutines : pc[h] # "cs"
    BY <1>2, NetFDAssumption DEF IInv, CallInv, None
  <2>2. QED
    BY <1>4, <1>6, <2>1
<1>11. MuType' /\ CallInv' /\ RefsInv' /\ OwnerInv'
  BY <1>1, <1>5, <1>6, <1>7, <1>8, <1>10, HeldFrame
<1>12. op[g].fd = pd.fd /\ pd.fd \in 1..opened
  BY <1>2, PointsKnown DEF IInv, OwnerInv, CallInv
<1>13. CloseInv'
  <2>1. \A h \in Goroutines : pc'[h] # "evict"
    BY <1>2, <1>4 DEF IInv, CloseInv
  <2>2. mu[pd.fd].closed
    BY <1>2, <1>12 DEF IInv, CloseInv
  <2>3. QED
    BY <1>1, <1>7, <2>1, <2>2 DEF CloseInv, muVars
<1>14. TypeOK'
  BY <1>1, <1>4, <1>9, <1>11, TypeParts, TypePartsNext DEF IInv, RwType, KernelType
<1>15. \A h \in Goroutines : Mode(h)' = Mode(h)
  BY <1>1 DEF Mode
<1>16. cs.woken = {} /\ cs'.woken = {}
  BY <1>2, <1>6 DEF NoCS
<1>17. WordInv'
  BY <1>1, <1>5, <1>16 DEF IInv, WordInv, WaitPoints, Mode, Same
<1>18. WakeInv'
  <2>1. \A h \in Goroutines : pc'[h] \in WaitPoints => Mode(h)' \in cs'.todo
    <3>1. WaitPoints \subseteq IOPoints
      BY DEF WaitPoints, IOPoints
    <3>2. QED
      BY <1>6, <1>11, <3>1 DEF CallInv
  <2>2. QED
    BY <1>1, <1>5, <1>15, <1>16, <2>1 DEF IInv, WakeInv, WaitPoints
<1>19. TimerInv'
  <2>1. \A m \in Modes :
          /\ timer'[m].armed => timer'[m].f # None
          /\ timer'[m].f # None =>
               /\ timer'[m].seq <= pd.seq /\ timer'[m].when > 0
               /\ timer'[m].f = "both" => m = "r"
    BY <1>1 DEF IInv, TimerInv
  <2>2. \A m \in Modes :
          timer'[m].f # None => timer'[m].seq <= pd'.seq /\ timer'[m].seq # pd'.seq
    <3> SUFFICES ASSUME NEW m \in Modes, timer'[m].f # None
                 PROVE  timer'[m].seq <= pd'.seq /\ timer'[m].seq # pd'.seq
      OBVIOUS
    <3>1. timer'[m].seq \in Nat
      BY <1>1, <1>3 DEF PdType, Timers
    <3>2. QED
      BY <1>7, <2>1, <3>1
  <2>3. timer'["r"].f = "both" => timer'["w"].f = None
    BY <1>1 DEF IInv, TimerInv
  <2>4. QED
    BY <1>1, <1>2, <1>6, <1>7, <1>8, <2>1, <2>2, <2>3, NewSeq
<1>20. QED
  BY <1>11, <1>13, <1>14, <1>17, <1>18, <1>19 DEF IInv

LEMMA UnblockLockedInv ==
  ASSUME IInv, UnblockLocked
  PROVE  IInv'
<1> DEFINE m == First(cs.todo)
<1>1. UNCHANGED muVars
      /\ UNCHANGED <<pd, deadline, timer, firing, avail, edge, inflight, pc, op>>
  BY DEF UnblockLocked, kernelVars
<1>2. \A g \in Goroutines : Keeps(g)
  BY <1>1 DEF Keeps, Same
<1>3. cs \in Sections
  BY TypeParts DEF IInv, PdType
<1>4. m \in cs.todo /\ m \in Modes
  BY <1>3 DEF First, UnblockLocked, Sections, Modes
<1>5. /\ cs' = [cs EXCEPT !.todo = cs.todo \ {m}, !.woken = cs.woken \cup Blocked(m)]
      /\ Unblock(m, FALSE)
  BY DEF UnblockLocked
<1> HIDE DEF m
<1>6. Blocked(m) \subseteq Goroutines
  BY DEF Blocked
<1>7. /\ cs'.holder = cs.holder /\ cs'.expire = cs.expire
      /\ cs'.todo = cs.todo \ {m} /\ cs'.woken = cs.woken \cup Blocked(m) /\ cs' \in Sections
  BY <1>3, <1>5, <1>6 DEF Sections
<1>8. PdType'
  BY <1>1, <1>7, TypeParts DEF IInv, PdType
<1>9. /\ RwType' /\ rw'[m] \in {"nil", "ready"}
      /\ rw[m] = "ready" => rw'[m] = "ready"
      /\ \A k \in Modes : k # m => rw'[k] = rw[k]
  BY <1>4, <1>5, UnblockWord
<1>10. rw'[m] \notin Goroutines /\ rw'[m] # "wait"
  BY <1>9, NetFDAssumption
<1>11. cs.holder # None
  BY <1>4 DEF IInv, CallInv, NoCS
<1>12. MuType' /\ CallInv' /\ RefsInv' /\ OwnerInv'
  BY <1>1, <1>2, <1>7, <1>11, HeldFrame DEF IInv, CallInv
<1>13. CloseInv'
  BY <1>1, OpenFrame DEF muVars
<1>14. TypeOK'
  BY <1>1, <1>8, <1>9, <1>12, TypeParts, TypePartsNext DEF IInv, KernelType, CallType
<1>15. TimerInv'
  BY <1>1, <1>7 DEF IInv, TimerInv, ForDeadline, FiredModes
<1>16. WordInv'
  <2>1. ASSUME NEW k \in Modes, rw'[k] = "wait"
        PROVE  \E g \in Goroutines : Mode(g)' = k /\ pc'[g] \in {"recheck", "commit", "xchg"}
    BY <1>1, <1>9, <1>10, <2>1 DEF IInv, WordInv, Mode
  <2>2. ASSUME NEW k \in Modes, NEW g \in Goroutines, rw'[k] = g
        PROVE  pc'[g] = "parked" /\ op'[g].call = k
    BY <1>1, <1>9, <1>10, <2>2 DEF IInv, WordInv, Mode
  <2>3. ASSUME NEW g \in cs'.woken
        PROVE  pc'[g] = "parked" /\ rw'[op'[g].call] # g
    <3>1. CASE g \in Blocked(m)
      BY <1>1, <1>4, <1>10, <3>1, BlockedParked DEF Mode
    <3>2. CASE g \in cs.woken
      <4>1. g \in Goroutines /\ pc[g] = "parked" /\ rw[Mode(g)] # g /\ Mode(g) \in Modes
        BY <1>3, <3>2, PointsKnown DEF IInv, WordInv, CallInv, Sections
      <4>2. QED
        BY <1>1, <1>9, <1>10, <4>1 DEF Mode
    <3>3. QED
      BY <1>7, <2>3, <3>1, <3>2
  <2>4. \A k \in Modes : rw'[k] \in Goroutines => pc'[rw'[k]] = "parked" /\ op'[rw'[k]].call = k
    BY <2>2
  <2>5. QED
    BY <2>1, <2>3, <2>4 DEF WordInv, Mode
<1>17. WakeInv'
  <2> SUFFICES ASSUME NEW g \in Goroutines, pc[g] \in WaitPoints
               PROVE  /\ Mode(g) \in avail =>
                           Mode(g) \in edge \cup inflight \/ rw'[Mode(g)] = "ready"
                      /\ \/ pc[g] = "commit" /\ rw'[Mode(g)] = "wait"
                         \/ pc[g] = "parked" /\ g \notin cs'.woken
                         => (Failed(Mode(g)) => Mode(g) \in cs'.todo)
                      /\ pc[g] = "parked" /\ g \notin cs'.woken => rw'[Mode(g)] = g
    BY <1>1 DEF WakeInv, WaitPoints, Mode, Failed
  <2>1. Mode(g) \in Modes
    BY PointsKnown DEF WaitPoints, IInv, CallInv
  <2>2. CASE Mode(g) # m
    BY <1>7, <1>9, <2>1, <2>2 DEF IInv, WakeInv, WaitPoints
  <2>3. CASE Mode(g) = m
    <3>1. pc[g] = "parked" => g \in cs'.woken
      <4>1. SUFFICES ASSUME pc[g] = "parked", g \notin cs.woken PROVE g \in Blocked(m)
        BY <1>7
      <4>2. rw[m] = g
        BY <4>1, <2>3 DEF IInv, WakeInv
      <4>3. QED
        BY <4>2 DEF Blocked
    <3>2. Mode(g) \in avail => Mode(g) \in edge \cup inflight \/ rw[Mode(g)] = "ready"
      BY DEF IInv, WakeInv, WaitPoints
    <3>3. QED
      BY <1>9, <1>10, <2>3, <3>1, <3>2
  <2>4. QED
    BY <2>2, <2>3
<1>18. QED
  BY <1>12, <1>13, <1>14, <1>15, <1>16, <1>17 DEF IInv

LEMMA UnlockInv ==
  ASSUME IInv, Unlock
  PROVE  IInv'
<1>1. UNCHANGED muVars /\ UNCHANGED <<pd, deadline, rw, avail, edge, inflight, op>>
  BY DEF Unlock, kernelVars
<1>2. PdType /\ CallType /\ cs \in Sections
  BY TypeParts DEF IInv, PdType
<1>3. /\ cs' = NoCS /\ cs'.holder = None /\ cs'.expire = {} /\ cs'.todo = {} /\ cs'.woken = {}
      /\ cs' \in Sections
  BY DEF Unlock, NoCS, Sections
<1>4. \A g \in cs.woken : g \in Goroutines /\ pc[g] = "parked"
  BY <1>2 DEF IInv, WordInv, Sections
<1>5. /\ \A g \in Goroutines :
           pc'[g] = IF g = cs.holder THEN "decref" ELSE IF g \in cs.woken THEN "xchg" ELSE pc[g]
      /\ CallType'
  <2>1. Unpark(cs.woken) \in [Goroutines -> Points]
    BY <1>2, PointsKnown DEF Unpark, CallType
  <2>2. \A g \in Goroutines : Unpark(cs.woken)[g] = IF g \in cs.woken THEN "xchg" ELSE pc[g]
    BY DEF Unpark
  <2>3. CASE cs.holder = Timer
    BY <1>1, <1>2, <2>1, <2>2, <2>3, NetFDAssumption DEF Unlock, CallType
  <2>4. CASE cs.holder # Timer
    <3>1. pc' = [Unpark(cs.woken) EXCEPT ![cs.holder] = "decref"]
      BY <2>4 DEF Unlock
    <3>2. QED
      BY <1>1, <1>2, <2>1, <2>2, <3>1, PointsKnown DEF CallType
  <2>5. QED
    BY <2>3, <2>4
<1>6. \A g \in Goroutines : pc[g] = "cs" <=> g = cs.holder
  BY DEF IInv, CallInv
<1>7. \A g \in Goroutines :
        /\ Keeps(g) /\ Same(g) /\ pc'[g] # "cs"
        /\ pc'[g] = "evict" <=> pc[g] = "evict"
  BY <1>1, <1>4, <1>5, <1>6, PointsKnown DEF Keeps, Same
<1>8. \A g \in Goroutines : g # None
  BY NetFDAssumption DEF None
<1>9. MuType' /\ CallInv' /\ RefsInv' /\ OwnerInv'
  BY <1>1, <1>3, <1>7, <1>8, HeldFrame
<1>10. CloseInv'
  BY <1>1, <1>7, OpenFrame DEF muVars
<1>11. \/ timer' = timer
       \/ /\ pd.closing /\ cs.holder # Timer
          /\ timer' = [m \in Modes |-> NoTimer]
  <2>1. CASE pd.closing /\ cs.holder # Timer
    BY <2>1 DEF Unlock
  <2>2. CASE ~(pd.closing /\ cs.holder # Timer)
    BY <1>2, <2>2 DEF Unlock, PdType
  <2>3. QED
    BY <2>1, <2>2
<1>12. \/ firing' = NoFire /\ cs.holder = Timer
       \/ firing' = firing /\ cs.holder # Timer
  BY DEF Unlock
<1>13. PdType'
  <2>1. NoFire \in Fires /\ NoTimer \in Timers
    BY NetFDAssumption DEF NoFire, Fires, NoTimer, Timers, Modes
  <2>2. QED
    BY <1>1, <1>2, <1>3, <1>11, <1>12, <2>1 DEF PdType
<1>14. TypeOK'
  BY <1>1, <1>5, <1>9, <1>13, TypeParts, TypePartsNext DEF IInv, RwType, KernelType
<1>15. \A g \in Goroutines :
         /\ Mode(g)' = Mode(g)
         /\ pc[g] \in {"recheck", "commit", "xchg"} => pc'[g] = pc[g]
         /\ pc[g] = "parked" /\ g \notin cs.woken => pc'[g] = "parked"
         /\ pc'[g] = "parked" => pc[g] = "parked" /\ g \notin cs.woken
         /\ pc'[g] = "commit" => pc[g] = "commit"
         /\ pc'[g] \in WaitPoints => pc[g] \in WaitPoints
  BY <1>1, <1>4, <1>5, <1>6 DEF Mode, WaitPoints
<1>16. WordInv'
  <2>1. ASSUME NEW k \in Modes, rw[k] = "wait"
        PROVE  \E g \in Goroutines : Mode(g)' = k /\ pc'[g] \in {"recheck", "commit", "xchg"}
    <3>1. PICK g \in Goroutines : Mode(g) = k /\ pc[g] \in {"recheck", "commit", "xchg"}
      BY <2>1 DEF IInv, WordInv
    <3>2. QED
      BY <1>15, <3>1
  <2>2. ASSUME NEW k \in Modes, NEW g \in Goroutines, rw[k] = g
        PROVE  pc'[g] = "parked" /\ op'[g].call = k
    <3>1. pc[g] = "parked" /\ Mode(g) = k /\ g \notin cs.woken
      BY <2>2 DEF IInv, WordInv
    <3>2. QED
      BY <1>15, <3>1 DEF Mode
  <2>3. \A k \in Modes : rw'[k] \in Goroutines => pc'[rw'[k]] = "parked" /\ op'[rw'[k]].call = k
    BY <1>1, <2>2
  <2>4. QED
    BY <1>1, <1>3, <2>1, <2>3 DEF WordInv, Mode
<1>17. WakeInv'
  <2>1. cs.todo = {}
    BY DEF Unlock
  <2>2. \A k : Failed(k)' <=> Failed(k)
    BY <1>1 DEF Failed
  <2>3. QED
    BY <1>1, <1>3, <1>15, <2>1, <2>2 DEF IInv, WakeInv, WaitPoints
<1>18. TimerInv'
  <2>1. cs.expire = {}
    BY DEF Unlock
  <2>2. cs.holder = Timer \/ (cs.holder # Timer /\ firing' = firing)
    BY <1>12
  <2>3. None # Timer
    BY NetFDAssumption DEF None
  <2>4. CASE timer' = timer
    <3>1. CASE firing' = NoFire
      BY <1>1, <1>3, <2>3, <2>4, <3>1 DEF IInv, TimerInv, ForDeadline
    <3>2. CASE firing' = firing /\ cs.holder # Timer
      BY <1>1, <1>3, <2>3, <2>4, <3>2 DEF IInv, TimerInv, ForDeadline, FiredModes
    <3>3. QED
      BY <1>12, <3>1, <3>2
  <2>5. CASE /\ pd.closing /\ cs.holder # Timer
             /\ timer' = [m \in Modes |-> NoTimer]
    <3>1. /\ \A m \in Modes : timer'[m].f = None /\ ~timer'[m].armed
          /\ "r" \in Modes /\ "w" \in Modes
      BY <2>5 DEF NoTimer, Modes
    <3>2. firing' = firing /\ (firing # NoFire => firing.seq # pd.seq)
      BY <1>12, <2>5 DEF IInv, TimerInv
    <3>3. firing # NoFire => firing.f # None /\ firing.seq <= pd.seq /\ firing.when > 0
      BY DEF IInv, TimerInv
    <3>4. QED
      BY <1>1, <1>3, <2>3, <3>1, <3>2, <3>3 DEF TimerInv
  <2>6. QED
    BY <1>11, <2>4, <2>5
<1>19. QED
  BY <1>9, <1>10, <1>14, <1>16, <1>17, <1>18 DEF IInv
-----------------------------------------------------------------------------
(* The fdMutex *)

Refs(f) == Cardinality(Using(f))
Locks(f, m) == Cardinality(Locking(f, m))
Sleeps(f, m) == Cardinality(Sleeping(f, m))

\* What RefsInv says of one descriptor.
RefsAt(f) ==
  /\ mu[f].ref = Refs(f)
  /\ \A m \in Modes :
       /\ Locks(f, m) = IF m \in mu[f].lock THEN 1 ELSE 0
       /\ mu[f].wait[m] + sema[f][m] = Sleeps(f, m)
       /\ mu[f].closed => mu[f].wait[m] = 0
       /\ mu[f].wait[m] > 0 =>
            m \in mu[f].lock \/ sema[f][m] > 0 \/ \E g \in Goroutines : Trying(g, f, m)

LEMMA RefsEach ==
  /\ RefsInv <=> \A f \in FDs : RefsAt(f)
  /\ RefsInv' <=> \A f \in FDs : RefsAt(f)'
BY DEF RefsInv, RefsAt, Refs, Locks, Sleeps

\* Only g moves, and not at the points at which it looks at what rg or wg says.
Moves(g) ==
  /\ CallType'
  /\ \A h \in Goroutines : h # g => Same(h) /\ pc'[h] = pc[h]
  /\ pc[g] \notin WaitPoints \cup {"cs"} /\ pc'[g] \notin WaitPoints \cup {"cs"}

Holds(g, f) == op[g].fd = f /\ pc[g] \in RefPoints
HoldsLock(g, f, m) == op[g].fd = f /\ pc[g] \in IOPoints /\ Mode(g) = m
Sleeps1(g, f, m) == op[g].fd = f /\ pc[g] = "sleep" /\ Mode(g) = m
In(b) == IF b THEN 1 ELSE 0

LEMMA CountSet ==
  ASSUME NEW S, NEW T, NEW g, IsFiniteSet(S), T \ {g} = S \ {g}
  PROVE  /\ Cardinality(S) \in Nat
         /\ Cardinality(T) = Cardinality(S) + In(g \in T) - In(g \in S)
<1>1. Cardinality(S) \in Nat
  BY FS_CardinalityType
<1>2. CASE g \in T <=> g \in S
  <2>1. T = S
    BY <1>2
  <2>2. QED
    BY <1>1, <2>1 DEF In
<1>3. CASE g \in T /\ g \notin S
  <2>1. T = S \cup {g}
    BY <1>3
  <2>2. Cardinality(T) = Cardinality(S) + 1
    BY <1>3, <2>1, FS_AddElement
  <2>3. QED
    BY <1>1, <1>3, <2>2 DEF In
<1>4. CASE g \notin T /\ g \in S
  <2>1. T = S \ {g}
    BY <1>4
  <2>2. Cardinality(T) = Cardinality(S) - 1
    BY <1>4, <2>1, FS_RemoveElement
  <2>3. QED
    BY <1>1, <1>4, <2>2 DEF In
<1>5. QED
  BY <1>2, <1>3, <1>4

\* How the counts change when g moves.
LEMMA Counts ==
  ASSUME NEW g \in Goroutines, Moves(g), NEW f \in FDs
  PROVE  /\ Refs(f) \in Nat
         /\ Refs(f)' = Refs(f) + In(Holds(g, f)') - In(Holds(g, f))
         /\ \A m \in Modes :
              /\ Locks(f, m) \in Nat /\ Sleeps(f, m) \in Nat
              /\ Locks(f, m)' = Locks(f, m) + In(HoldsLock(g, f, m)') - In(HoldsLock(g, f, m))
              /\ Sleeps(f, m)' = Sleeps(f, m) + In(Sleeps1(g, f, m)') - In(Sleeps1(g, f, m))
              /\ \A h \in Goroutines : h # g => (Trying(h, f, m)' <=> Trying(h, f, m))
<1>1. /\ IsFiniteSet(Using(f)) /\ Using(f)' \ {g} = Using(f) \ {g}
      /\ g \in Using(f)' <=> Holds(g, f)'
      /\ g \in Using(f) <=> Holds(g, f)
  <2>1. Using(f) \subseteq Goroutines
    BY DEF Using
  <2>2. IsFiniteSet(Using(f))
    BY <2>1, NetFDAssumption, FS_Subset
  <2>3. QED
    BY <2>2 DEF Using, Holds, Moves, Same
<1>2. Refs(f) \in Nat /\ Refs(f)' = Refs(f) + In(Holds(g, f)') - In(Holds(g, f))
  <2>1. /\ Refs(f) \in Nat
        /\ Refs(f)' = Refs(f) + In(g \in Using(f)') - In(g \in Using(f))
    BY <1>1, CountSet DEF Refs
  <2>2. In(g \in Using(f)') = In(Holds(g, f)') /\ In(g \in Using(f)) = In(Holds(g, f))
    BY <1>1 DEF In
  <2>3. QED
    BY <2>1, <2>2
<1>3. ASSUME NEW m \in Modes
      PROVE  /\ Locks(f, m) \in Nat
             /\ Locks(f, m)' = Locks(f, m) + In(HoldsLock(g, f, m)') - In(HoldsLock(g, f, m))
  <2>1. /\ Locking(f, m) \subseteq Goroutines /\ Locking(f, m)' \ {g} = Locking(f, m) \ {g}
        /\ g \in Locking(f, m)' <=> HoldsLock(g, f, m)'
        /\ g \in Locking(f, m) <=> HoldsLock(g, f, m)
    BY PointsKnown DEF Locking, Using, HoldsLock, Moves, Same, Mode
  <2>2. IsFiniteSet(Locking(f, m))
    BY <2>1, NetFDAssumption, FS_Subset
  <2>3. /\ Locks(f, m) \in Nat
        /\ Locks(f, m)' = Locks(f, m) + In(g \in Locking(f, m)') - In(g \in Locking(f, m))
    BY <2>1, <2>2, CountSet DEF Locks
  <2>4. /\ In(g \in Locking(f, m)') = In(HoldsLock(g, f, m)')
        /\ In(g \in Locking(f, m)) = In(HoldsLock(g, f, m))
    BY <2>1 DEF In
  <2>5. QED
    BY <2>3, <2>4
<1>4. ASSUME NEW m \in Modes
      PROVE  /\ Sleeps(f, m) \in Nat
             /\ Sleeps(f, m)' = Sleeps(f, m) + In(Sleeps1(g, f, m)') - In(Sleeps1(g, f, m))
  <2>1. /\ Sleeping(f, m) \subseteq Goroutines /\ Sleeping(f, m)' \ {g} = Sleeping(f, m) \ {g}
        /\ g \in Sleeping(f, m)' <=> Sleeps1(g, f, m)'
        /\ g \in Sleeping(f, m) <=> Sleeps1(g, f, m)
    BY DEF Sleeping, Sleeps1, Moves, Same, Mode
  <2>2. IsFiniteSet(Sleeping(f, m))
    BY <2>1, NetFDAssumption, FS_Subset
  <2>3. /\ Sleeps(f, m) \in Nat
        /\ Sleeps(f, m)' = Sleeps(f, m) + In(g \in Sleeping(f, m)') - In(g \in Sleeping(f, m))
    BY <2>1, <2>2, CountSet DEF Sleeps
  <2>4. /\ In(g \in Sleeping(f, m)') = In(Sleeps1(g, f, m)')
        /\ In(g \in Sleeping(f, m)) = In(Sleeps1(g, f, m))
    BY <2>1 DEF In
  <2>5. QED
    BY <2>3, <2>4
<1>5. \A m \in Modes, h \in Goroutines : h # g => (Trying(h, f, m)' <=> Trying(h, f, m))
  BY DEF Moves, Trying, Mode, Same
<1>6. QED
  BY <1>2, <1>3, <1>4, <1>5

\* A descriptor to which g neither goes nor comes from.
LEMMA OtherFD ==
  ASSUME IInv, NEW g \in Goroutines, Moves(g), NEW f \in FDs,
         pc[g] \in RefPoints \cup {"lock", "sleep"} => op[g].fd # f,
         pc'[g] \in RefPoints \cup {"lock", "sleep"} => op'[g].fd # f,
         mu'[f] = mu[f], sema'[f] = sema[f]
  PROVE  RefsAt(f)'
<1>1. ~Holds(g, f) /\ ~Holds(g, f)'
  BY DEF Holds
<1>2. \A m \in Modes : /\ ~HoldsLock(g, f, m) /\ ~HoldsLock(g, f, m)'
                       /\ ~Sleeps1(g, f, m) /\ ~Sleeps1(g, f, m)'
                       /\ ~Trying(g, f, m)
  BY PointsKnown DEF HoldsLock, Sleeps1, Trying
<1>3. RefsAt(f)
  BY RefsEach DEF IInv
<1>4. Refs(f) \in Nat /\ Refs(f)' = Refs(f)
  <2>1. Refs(f) \in Nat /\ Refs(f)' = Refs(f) + In(Holds(g, f)') - In(Holds(g, f))
    BY Counts
  <2>2. In(Holds(g, f)') = 0 /\ In(Holds(g, f)) = 0
    BY <1>1 DEF In
  <2>3. QED
    BY <2>1, <2>2
<1>5. \A m \in Modes : Locks(f, m)' = Locks(f, m) /\ Sleeps(f, m)' = Sleeps(f, m)
  <2> SUFFICES ASSUME NEW m \in Modes
               PROVE  Locks(f, m)' = Locks(f, m) /\ Sleeps(f, m)' = Sleeps(f, m)
    OBVIOUS
  <2>1. /\ Locks(f, m) \in Nat /\ Sleeps(f, m) \in Nat
        /\ Locks(f, m)' = Locks(f, m) + In(HoldsLock(g, f, m)') - In(HoldsLock(g, f, m))
        /\ Sleeps(f, m)' = Sleeps(f, m) + In(Sleeps1(g, f, m)') - In(Sleeps1(g, f, m))
    BY Counts
  <2>2. /\ In(HoldsLock(g, f, m)') = 0 /\ In(HoldsLock(g, f, m)) = 0
        /\ In(Sleeps1(g, f, m)') = 0 /\ In(Sleeps1(g, f, m)) = 0
    BY <1>2 DEF In
  <2>3. QED
    BY <2>1, <2>2
<1>6. \A m \in Modes :
        (\E h \in Goroutines : Trying(h, f, m)) => \E h \in Goroutines : Trying(h, f, m)'
  <2> SUFFICES ASSUME NEW m \in Modes, NEW h \in Goroutines, Trying(h, f, m)
               PROVE  Trying(h, f, m)'
    OBVIOUS
  <2>1. h # g
    BY <1>2
  <2>2. QED
    BY <2>1, Counts
<1>7. QED
  BY <1>3, <1>4, <1>5, <1>6 DEF RefsAt

\* What a call that is in the fdMutex leaves alone.
LEMMA MoveFrame ==
  ASSUME IInv, NEW g \in Goroutines, Moves(g), UNCHANGED <<opened, pdVars, rw, kernelVars>>,
         mu' \in [FDs -> Word], sema' \in [FDs -> [Modes -> Nat]],
         pc'[g] # "idle" => op'[g].fd \in 1..opened,
         pc'[g] \in IOPoints \cup {"lock", "sleep"} => op'[g].call \in Modes
  PROVE  TypeOK' /\ CallInv' /\ WordInv' /\ WakeInv' /\ TimerInv'
<1>1. UNCHANGED pdVars /\ UNCHANGED <<pd, deadline, timer, firing, cs, avail, edge, inflight>>
  BY DEF pdVars, kernelVars
<1>2. TypeOK'
  BY <1>1, TypeParts, TypePartsNext
     DEF IInv, MuType, PdType, RwType, KernelType, Moves
<1>3. CallInv'
  <2>1. pc[g] # "cs" /\ pc'[g] # "cs" /\ cs' = cs
    BY <1>1 DEF Moves
  <2>2. QED
    BY <2>1 DEF IInv, CallInv, Moves, Same, Mode, NoCS
<1>4. \A h \in Goroutines :
        pc[h] \in WaitPoints \/ pc'[h] \in WaitPoints => Same(h) /\ pc'[h] = pc[h]
  BY DEF Moves
<1>5. cs.woken \subseteq Goroutines
  BY TypeParts DEF IInv, PdType, Sections
<1>6. WordInv' /\ WakeInv'
  BY <1>1, <1>4, <1>5, WaitFrame DEF IInv
<1>7. TimerInv'
  BY <1>1, TimerFrame DEF IInv
<1>8. QED
  BY <1>2, <1>3, <1>6, <1>7

\* g comes to hold a reference to an open descriptor,
LEMMA EnterFrame ==
  ASSUME IInv, NEW g \in Goroutines, Moves(g), UNCHANGED <<opened, pd>>,
         pc[g] \in {"idle", "lock"}, pc'[g] \in RefPoints,
         NEW f \in FDs, f <= opened, ~mu[f].closed, op'[g].fd = f,
         \A k \in FDs : mu'[k].closed = mu[k].closed \/ k = f,
         (pc'[g] = "evict") <=> mu'[f].closed, mu'[f].closed \in BOOLEAN
  PROVE  OwnerInv' /\ CloseInv'
<1>1. f = pd.fd /\ f # 0
  BY NetFDAssumption DEF IInv, OwnerInv, FDs
<1>2. \A h \in Goroutines : pc[h] # "destroy"
  <2>1. SUFFICES ASSUME NEW h \in Goroutines, pc[h] = "destroy" PROVE FALSE
    OBVIOUS
  <2>2. op[h].fd = pd.fd /\ mu[op[h].fd].closed
    BY <2>1 DEF IInv, OwnerInv
  <2>3. QED
    BY <1>1, <2>2
<1>3. \A h \in Goroutines : h # g => pc'[h] = pc[h] /\ op'[h].fd = op[h].fd
  BY DEF Moves, Same
<1>4. pc'[g] # "destroy" /\ \A h \in Goroutines : pc'[h] # "destroy"
  BY <1>2, <1>3, PointsKnown
<1>5. OwnerInv'
  <2>1. \A h \in Goroutines : pc'[h] \in RefPoints \cup {"destroy"} => op'[h].fd = pd.fd
    BY <1>1, <1>3, <1>4 DEF IInv, OwnerInv
  <2>2. \A k \in FDs : IF k <= opened THEN mu'[k].closed \/ k = pd.fd ELSE ~mu'[k].closed
    BY <1>1 DEF IInv, OwnerInv
  <2>3. QED
    BY <1>4, <2>1, <2>2 DEF OwnerInv
<1>6. ~pd.closing /\ \A h \in Goroutines : pc[h] # "evict"
  BY <1>1 DEF IInv, CloseInv
<1>7. CloseInv'
  BY <1>1, <1>3, <1>6 DEF CloseInv
<1>8. QED
  BY <1>5, <1>7

\* keeps to itself,
LEMMA OutsideFrame ==
  ASSUME IInv, NEW g \in Goroutines, Moves(g), UNCHANGED <<opened, pd>>,
         pc[g] \in {"idle", "lock", "sleep"}, pc'[g] \in {"idle", "lock", "sleep"},
         \A k \in FDs : mu'[k].closed = mu[k].closed
  PROVE  OwnerInv' /\ CloseInv'
<1>1. \A h \in Goroutines :
        /\ h # g => pc'[h] = pc[h] /\ op'[h].fd = op[h].fd
        /\ pc'[h] \in RefPoints \cup {"destroy"} => pc'[h] = pc[h] /\ op'[h].fd = op[h].fd
        /\ pc'[h] = "evict" <=> pc[h] = "evict"
  BY PointsKnown DEF Moves, Same
<1>2. pd.fd \in {0} \cup FDs
  BY TypeParts, NetFDAssumption DEF IInv, PdType, FDs
<1>3. CloseInv'
  BY <1>1, <1>2, CloseFrame DEF IInv
<1>4. \A h \in Goroutines : pc[h] = "destroy" => mu[op[h].fd].closed /\ op[h].fd \in FDs
  <2>1. \A h \in Goroutines : pc[h] = "destroy" => op[h].fd \in 1..opened
    BY DEF IInv, CallInv
  <2>2. 1..opened \subseteq FDs
    BY TypeParts, NetFDAssumption DEF IInv, MuType, FDs
  <2>3. QED
    BY <2>1, <2>2 DEF IInv, OwnerInv
<1>5. OwnerInv'
  <2>1. \A h \in Goroutines :
          /\ pc'[h] \in RefPoints \cup {"destroy"} => op'[h].fd = pd'.fd
          /\ pc'[h] = "destroy" => mu'[op'[h].fd].closed
    BY <1>1, <1>4 DEF IInv, OwnerInv
  <2>2. \A h, k \in Goroutines :
          pc'[h] = "destroy" /\ k # h => pc'[k] \notin RefPoints \cup {"destroy"}
    BY <1>1 DEF IInv, OwnerInv
  <2>3. \A k \in FDs :
          IF k <= opened' THEN mu'[k].closed \/ k = pd'.fd ELSE ~mu'[k].closed
    BY DEF IInv, OwnerInv
  <2>4. QED
    BY <2>1, <2>2, <2>3 DEF OwnerInv
<1>6. QED
  BY <1>3, <1>5

\* or lets go of its reference.
LEMMA LeaveFrame ==
  ASSUME IInv, NEW g \in Goroutines, Moves(g), UNCHANGED <<opened, pd>>,
         pc[g] \in RefPoints \ {"evict"},
         \A k \in FDs : mu'[k].closed = mu[k].closed,
         \/ pc'[g] = "idle"
         \/ /\ pc'[g] = "destroy" /\ op'[g].fd = op[g].fd
            /\ mu[op[g].fd].closed /\ Refs(op[g].fd)' = 0
  PROVE  OwnerInv' /\ CloseInv'
<1>1. \A h \in Goroutines :
        /\ h # g => pc'[h] = pc[h] /\ op'[h].fd = op[h].fd
        /\ pc'[h] = "evict" <=> pc[h] = "evict"
  BY PointsKnown DEF Moves, Same
<1>2. pd.fd \in {0} \cup FDs
  BY TypeParts, NetFDAssumption DEF IInv, PdType, FDs
<1>3. CloseInv'
  BY <1>1, <1>2, CloseFrame DEF IInv
<1>4. \A h \in Goroutines : pc[h] # "destroy"
  BY PointsKnown DEF IInv, OwnerInv
<1>5. op[g].fd = pd.fd /\ op[g].fd \in FDs
  <2>1. op[g].fd \in 1..opened
    BY PointsKnown DEF IInv, CallInv
  <2>2. 1..opened \subseteq FDs
    BY TypeParts, NetFDAssumption DEF IInv, MuType, FDs
  <2>3. QED
    BY <2>1, <2>2 DEF IInv, OwnerInv
<1>6. \A h \in Goroutines :
        h # g /\ pc'[h] \in RefPoints \cup {"destroy"} => op'[h].fd = pd'.fd /\ pc'[h] \in RefPoints
  BY <1>1, <1>4 DEF IInv, OwnerInv
<1>7. \A k \in FDs : IF k <= opened' THEN mu'[k].closed \/ k = pd'.fd ELSE ~mu'[k].closed
  BY DEF IInv, OwnerInv
<1>8. CASE pc'[g] = "idle"
  <2>1. \A h \in Goroutines :
          /\ pc'[h] # "destroy"
          /\ pc'[h] \in RefPoints \cup {"destroy"} => op'[h].fd = pd'.fd
    BY <1>1, <1>4, <1>6, <1>8, PointsKnown
  <2>2. \A h \in Goroutines :
          /\ pc'[h] \in RefPoints \cup {"destroy"} => op'[h].fd = pd'.fd
          /\ pc'[h] = "destroy" => mu'[op'[h].fd].closed
    BY <2>1
  <2>3. \A h, k \in Goroutines :
          pc'[h] = "destroy" /\ k # h => pc'[k] \notin RefPoints \cup {"destroy"}
    BY <2>1
  <2>4. QED
    BY <1>3, <1>7, <2>2, <2>3 DEF OwnerInv
<1>9. CASE /\ pc'[g] = "destroy" /\ op'[g].fd = op[g].fd
           /\ mu[op[g].fd].closed /\ Refs(op[g].fd)' = 0
  <2>1. \A h \in Goroutines : ~(pc'[h] \in RefPoints /\ op'[h].fd = pd.fd)
    <3>1. SUFFICES ASSUME NEW h \in Goroutines, pc'[h] \in RefPoints, op'[h].fd = pd.fd PROVE FALSE
      OBVIOUS
    <3>2. \E f \in FDs : f = pd.fd /\ Refs(f)' = 0 /\ h \in Using(f)'
      <4>1. \A f \in FDs : f = pd.fd => h \in Using(f)'
        BY <3>1 DEF Using
      <4>2. QED
        BY <1>5, <1>9, <4>1
    <3>3. PICK f \in FDs : Refs(f)' = 0 /\ h \in Using(f)'
      BY <3>2
    <3>4. Using(f)' \subseteq Goroutines
      BY DEF Using
    <3>5. IsFiniteSet(Using(f)')
      BY <3>4, NetFDAssumption, FS_Subset
    <3>6. Using(f)' = {}
      BY <3>3, <3>5, FS_EmptySet DEF Refs
    <3>7. QED
      BY <3>3, <3>6
  <2>2. \A h \in Goroutines : h # g => pc'[h] \notin RefPoints \cup {"destroy"}
    BY <1>6, <2>1
  <2>3. mu'[op'[g].fd].closed /\ op'[g].fd = pd'.fd
    BY <1>5, <1>9
  <2>4. \A h \in Goroutines :
          /\ pc'[h] \in RefPoints \cup {"destroy"} => op'[h].fd = pd'.fd
          /\ pc'[h] = "destroy" => mu'[op'[h].fd].closed
    BY <2>2, <2>3
  <2>5. \A h, k \in Goroutines :
          pc'[h] = "destroy" /\ k # h => pc'[k] \notin RefPoints \cup {"destroy"}
    BY <1>9, <2>2
  <2>6. QED
    BY <1>3, <1>7, <2>4, <2>5 DEF OwnerInv
<1>10. QED
  BY <1>3, <1>8, <1>9

\* What the words of an fdMutex are.
LEMMA Words ==
  ASSUME IInv, NEW f \in FDs
  PROVE  /\ mu \in [FDs -> Word] /\ sema \in [FDs -> [Modes -> Nat]] /\ opened \in 0..MaxFD
         /\ mu[f] \in Word /\ mu[f].closed \in BOOLEAN
         /\ mu[f].lock \in SUBSET Modes /\ mu[f].ref \in Nat
         /\ mu[f].wait \in [Modes -> Nat] /\ sema[f] \in [Modes -> Nat]
         /\ RefsAt(f)
<1>1. MuType
  BY TypeParts DEF IInv
<1>2. RefsAt(f)
  BY RefsEach DEF IInv
<1>3. QED
  BY <1>1, <1>2 DEF MuType, Word

LEMMA RWLockInv ==
  ASSUME IInv, NEW g \in Goroutines, NEW m \in Modes, NEW f \in FDs, f \in 1..opened,
         pc[g] = "idle" \/ Trying(g, f, m), RWLock(g, m, f)
  PROVE  IInv'
<1>1. UNCHANGED <<opened, pdVars, rw, kernelVars>> /\ UNCHANGED <<opened, pd, sema>>
  BY DEF RWLock, pdVars
<1>2. CallType
  BY TypeParts DEF IInv
<1>3. /\ mu \in [FDs -> Word] /\ sema \in [FDs -> [Modes -> Nat]]
      /\ mu[f] \in Word /\ mu[f].closed \in BOOLEAN
      /\ mu[f].lock \in SUBSET Modes /\ mu[f].ref \in Nat
      /\ mu[f].wait \in [Modes -> Nat] /\ sema[f] \in [Modes -> Nat]
      /\ RefsAt(f)
  BY Words
<1>4. /\ pc[g] \in {"idle", "lock"}
      /\ pc[g] = "lock" => op[g].fd = f /\ Mode(g) = m
      /\ pc[g] \notin RefPoints \cup WaitPoints \cup {"cs", "sleep"}
  BY PointsKnown DEF Trying, WaitPoints
<1>5. \A k \in Modes : /\ ~Holds(g, f) /\ ~HoldsLock(g, f, k) /\ ~Sleeps1(g, f, k)
                       /\ Trying(g, f, k) => k = m
  BY <1>4, PointsKnown DEF Holds, HoldsLock, Sleeps1, Trying
<1>6. CASE mu[f].closed /\ Return(g) /\ UNCHANGED mu
  <2>1. Moves(g) /\ pc'[g] = "idle"
    BY <1>2, <1>4, <1>6, ReturnType, PointsKnown DEF Moves, Same, WaitPoints
  <2>2. TypeOK' /\ CallInv' /\ WordInv' /\ WakeInv' /\ TimerInv'
    BY <1>1, <1>3, <1>6, <2>1, MoveFrame, PointsKnown
  <2>3. OwnerInv' /\ CloseInv'
    BY <1>1, <1>4, <1>6, <2>1, OutsideFrame
  <2>4. ASSUME NEW k \in FDs, k # f PROVE RefsAt(k)'
    BY <1>1, <1>4, <1>6, <2>1, <2>4, OtherFD, PointsKnown
  <2>5. RefsAt(f)'
    <3>1. Refs(f)' = Refs(f) /\ \A k \in Modes : Locks(f, k)' = Locks(f, k) /\ Sleeps(f, k)' = Sleeps(f, k)
      <4>1. /\ In(Holds(g, f)') = 0 /\ In(Holds(g, f)) = 0
            /\ \A k \in Modes :
                 /\ In(HoldsLock(g, f, k)') = 0 /\ In(HoldsLock(g, f, k)) = 0
                 /\ In(Sleeps1(g, f, k)') = 0 /\ In(Sleeps1(g, f, k)) = 0
        BY <1>5, <2>1, PointsKnown DEF In, Holds, HoldsLock, Sleeps1
      <4>2. QED
        BY <2>1, <4>1, Counts
    <3>2. \A k \in Modes : mu[f].wait[k] = 0
      BY <1>3, <1>6 DEF RefsAt
    <3>3. QED
      BY <1>1, <1>3, <1>6, <3>1, <3>2 DEF RefsAt
  <2>6. RefsInv'
    BY <2>4, <2>5, RefsEach
  <2>7. QED
    BY <2>2, <2>3, <2>6 DEF IInv
<1>7. CASE /\ ~mu[f].closed /\ m \notin mu[f].lock
           /\ mu' = [mu EXCEPT ![f].lock = @ \cup {m}, ![f].ref = @ + 1]
           /\ Begin(g, m, f, "reset")
  <2>1. /\ Moves(g) /\ pc'[g] = "reset" /\ op'[g].fd = f /\ op'[g].call = m
        /\ pc'[g] \in IOPoints /\ pc'[g] \in RefPoints
    BY <1>2, <1>4, <1>7, BeginType, PointsKnown DEF Moves, Same, WaitPoints
  <2>2. /\ mu' \in [FDs -> Word] /\ \A k \in FDs : k # f => mu'[k] = mu[k]
        /\ mu'[f].closed = mu[f].closed /\ mu'[f].lock = mu[f].lock \cup {m}
        /\ mu'[f].ref = mu[f].ref + 1 /\ mu'[f].wait = mu[f].wait
    BY <1>3, <1>7 DEF Word
  <2>3. TypeOK' /\ CallInv' /\ WordInv' /\ WakeInv' /\ TimerInv'
    BY <1>1, <1>3, <2>1, <2>2, MoveFrame
  <2>4. OwnerInv' /\ CloseInv'
    <3>1. f <= opened
      OBVIOUS
    <3>2. ~mu'[f].closed /\ mu'[f].closed \in BOOLEAN /\ pc'[g] # "evict"
      BY <1>3, <1>7, <2>1, <2>2
    <3>3. \A k \in FDs : mu'[k].closed = mu[k].closed \/ k = f
      BY <2>2
    <3>4. QED
      BY <1>1, <1>4, <1>7, <2>1, <3>1, <3>2, <3>3, EnterFrame
  <2>5. ASSUME NEW k \in FDs, k # f PROVE RefsAt(k)'
    BY <1>1, <1>4, <2>1, <2>2, <2>5, OtherFD, PointsKnown
  <2>6. RefsAt(f)'
    <3>1. Refs(f)' = Refs(f) + 1
      <4>1. In(Holds(g, f)') = 1 /\ In(Holds(g, f)) = 0
        BY <1>5, <2>1 DEF In, Holds
      <4>2. QED
        BY <2>1, <4>1, Counts
    <3>2. ASSUME NEW k \in Modes
          PROVE  /\ Locks(f, k)' = Locks(f, k) + (IF k = m THEN 1 ELSE 0)
                 /\ Sleeps(f, k)' = Sleeps(f, k)
      <4>1. /\ In(HoldsLock(g, f, k)') = (IF k = m THEN 1 ELSE 0) /\ In(HoldsLock(g, f, k)) = 0
            /\ In(Sleeps1(g, f, k)') = 0 /\ In(Sleeps1(g, f, k)) = 0
        BY <1>5, <2>1 DEF In, HoldsLock, Sleeps1, Mode
      <4>2. /\ Locks(f, k) \in Nat /\ Sleeps(f, k) \in Nat
            /\ Locks(f, k)' = Locks(f, k) + In(HoldsLock(g, f, k)') - In(HoldsLock(g, f, k))
            /\ Sleeps(f, k)' = Sleeps(f, k) + In(Sleeps1(g, f, k)') - In(Sleeps1(g, f, k))
        BY <2>1, Counts
      <4>3. QED
        BY <4>1, <4>2
    <3>3. \A k \in Modes :
            k # m /\ (\E h \in Goroutines : Trying(h, f, k)) =>
              \E h \in Goroutines : Trying(h, f, k)'
      <4> SUFFICES ASSUME NEW k \in Modes, k # m, NEW h \in Goroutines, Trying(h, f, k)
                   PROVE  Trying(h, f, k)'
        OBVIOUS
      <4>1. h # g
        BY <1>5
      <4>2. QED
        BY <2>1, <4>1, Counts
    <3>4. Refs(f) = mu[f].ref /\ \A k \in Modes :
            /\ Locks(f, k) = IF k \in mu[f].lock THEN 1 ELSE 0
            /\ mu[f].wait[k] + sema[f][k] = Sleeps(f, k)
            /\ mu[f].wait[k] > 0 =>
                 k \in mu[f].lock \/ sema[f][k] > 0 \/ \E h \in Goroutines : Trying(h, f, k)
      BY <1>3 DEF RefsAt
    <3>5. \A k \in Modes : Locks(f, k)' = IF k \in mu'[f].lock THEN 1 ELSE 0
      BY <1>7, <2>2, <3>2, <3>4
    <3>6. \A k \in Modes :
            /\ mu'[f].wait[k] + sema'[f][k] = Sleeps(f, k)'
            /\ mu'[f].wait[k] > 0 =>
                 k \in mu'[f].lock \/ sema'[f][k] > 0 \/ \E h \in Goroutines : Trying(h, f, k)'
      BY <1>1, <2>2, <3>2, <3>3, <3>4
    <3>7. mu'[f].ref = Refs(f)' /\ ~mu'[f].closed
      BY <1>7, <2>2, <3>1, <3>4
    <3>8. QED
      BY <3>5, <3>6, <3>7 DEF RefsAt
  <2>7. RefsInv'
    BY <2>5, <2>6, RefsEach
  <2>8. QED
    BY <2>3, <2>4, <2>7 DEF IInv
<1>8. CASE /\ ~mu[f].closed /\ m \in mu[f].lock
           /\ mu' = [mu EXCEPT ![f].wait[m] = @ + 1]
           /\ Begin(g, m, f, "sleep")
  <2>1. /\ Moves(g) /\ pc'[g] = "sleep" /\ op'[g].fd = f /\ op'[g].call = m
        /\ pc'[g] \notin RefPoints
    BY <1>2, <1>4, <1>8, BeginType, PointsKnown DEF Moves, Same, WaitPoints
  <2>2. /\ mu' \in [FDs -> Word] /\ \A k \in FDs : k # f => mu'[k] = mu[k]
        /\ mu'[f].closed = mu[f].closed /\ mu'[f].lock = mu[f].lock
        /\ mu'[f].ref = mu[f].ref
        /\ \A k \in Modes : mu'[f].wait[k] = IF k = m THEN mu[f].wait[k] + 1 ELSE mu[f].wait[k]
    <3> DEFINE more == [mu[f].wait EXCEPT ![m] = mu[f].wait[m] + 1]
    <3>1. /\ more \in [Modes -> Nat]
          /\ \A k \in Modes : more[k] = IF k = m THEN mu[f].wait[k] + 1 ELSE mu[f].wait[k]
      BY <1>3
    <3>2. mu' = [mu EXCEPT ![f] = [mu[f] EXCEPT !.wait = more]]
      BY <1>3, <1>8 DEF Word
    <3> HIDE DEF more
    <3>3. QED
      BY <1>3, <3>1, <3>2 DEF Word
  <2>3. TypeOK' /\ CallInv' /\ WordInv' /\ WakeInv' /\ TimerInv'
    BY <1>1, <1>3, <2>1, <2>2, MoveFrame
  <2>4. OwnerInv' /\ CloseInv'
    BY <1>1, <1>4, <2>1, <2>2, OutsideFrame
  <2>5. ASSUME NEW k \in FDs, k # f PROVE RefsAt(k)'
    BY <1>1, <1>4, <2>1, <2>2, <2>5, OtherFD, PointsKnown
  <2>6. RefsAt(f)'
    <3>1. Refs(f)' = Refs(f)
      <4>1. In(Holds(g, f)') = 0 /\ In(Holds(g, f)) = 0
        BY <1>5, <2>1 DEF In, Holds
      <4>2. QED
        BY <2>1, <4>1, Counts
    <3>2. ASSUME NEW k \in Modes
          PROVE  /\ Locks(f, k)' = Locks(f, k)
                 /\ Sleeps(f, k) \in Nat
                 /\ Sleeps(f, k)' = Sleeps(f, k) + (IF k = m THEN 1 ELSE 0)
      <4>1. /\ In(HoldsLock(g, f, k)') = 0 /\ In(HoldsLock(g, f, k)) = 0
            /\ In(Sleeps1(g, f, k)') = (IF k = m THEN 1 ELSE 0) /\ In(Sleeps1(g, f, k)) = 0
        BY <1>5, <2>1, PointsKnown DEF In, HoldsLock, Sleeps1, Mode
      <4>2. /\ Locks(f, k) \in Nat /\ Sleeps(f, k) \in Nat
            /\ Locks(f, k)' = Locks(f, k) + In(HoldsLock(g, f, k)') - In(HoldsLock(g, f, k))
            /\ Sleeps(f, k)' = Sleeps(f, k) + In(Sleeps1(g, f, k)') - In(Sleeps1(g, f, k))
        BY <2>1, Counts
      <4>3. QED
        BY <4>1, <4>2
    <3>3. \A k \in Modes :
            k # m /\ (\E h \in Goroutines : Trying(h, f, k)) =>
              \E h \in Goroutines : Trying(h, f, k)'
      <4> SUFFICES ASSUME NEW k \in Modes, k # m, NEW h \in Goroutines, Trying(h, f, k)
                   PROVE  Trying(h, f, k)'
        OBVIOUS
      <4>1. h # g
        BY <1>5
      <4>2. QED
        BY <2>1, <4>1, Counts
    <3>4. Refs(f) = mu[f].ref /\ \A k \in Modes :
            /\ Locks(f, k) = IF k \in mu[f].lock THEN 1 ELSE 0
            /\ mu[f].wait[k] + sema[f][k] = Sleeps(f, k)
            /\ mu[f].wait[k] > 0 =>
                 k \in mu[f].lock \/ sema[f][k] > 0 \/ \E h \in Goroutines : Trying(h, f, k)
      BY <1>3 DEF RefsAt
    <3>5. \A k \in Modes : Locks(f, k)' = IF k \in mu'[f].lock THEN 1 ELSE 0
      BY <2>2, <3>2, <3>4
    <3>6. \A k \in Modes : mu'[f].wait[k] + sema'[f][k] = Sleeps(f, k)'
      BY <1>1, <1>3, <2>2, <3>2, <3>4
    <3>7. \A k \in Modes :
            mu'[f].wait[k] > 0 =>
              k \in mu'[f].lock \/ sema'[f][k] > 0 \/ \E h \in Goroutines : Trying(h, f, k)'
      BY <1>1, <1>8, <2>2, <3>3, <3>4
    <3>8. mu'[f].ref = Refs(f)' /\ ~mu'[f].closed
      BY <1>8, <2>2, <3>1, <3>4
    <3>9. QED
      BY <3>5, <3>6, <3>7, <3>8 DEF RefsAt
  <2>7. RefsInv'
    BY <2>5, <2>6, RefsEach
  <2>8. QED
    BY <2>3, <2>4, <2>7 DEF IInv
<1>9. QED
  BY <1>6, <1>7, <1>8 DEF RWLock

\* The descriptor of a call.
LEMMA OwnFD ==
  ASSUME IInv, NEW g \in Goroutines, pc[g] # "idle"
  PROVE  op[g].fd \in FDs /\ op[g].fd \in 1..opened
<1>1. op[g].fd \in 1..opened
  BY DEF IInv, CallInv
<1>2. 1..opened \subseteq FDs
  BY TypeParts, NetFDAssumption DEF IInv, MuType, FDs
<1>3. QED
  BY <1>1, <1>2

LEMMA WakeStepInv ==
  ASSUME IInv, NEW g \in Goroutines, Wake(g)
  PROVE  IInv'
<1>1. PICK f \in FDs : f = op[g].fd
  BY OwnFD DEF Wake
<1>2. PICK m \in Modes : m = Mode(g)
  BY DEF Wake, IInv, CallInv
<1>3. /\ mu \in [FDs -> Word] /\ sema \in [FDs -> [Modes -> Nat]]
      /\ sema[f] \in [Modes -> Nat] /\ mu[f].wait \in [Modes -> Nat] /\ RefsAt(f)
  BY Words
<1>4. UNCHANGED <<opened, pdVars, rw, kernelVars>> /\ UNCHANGED <<opened, pd, mu>>
  BY DEF Wake, pdVars
<1>5. pc[g] = "sleep" /\ sema[f][m] > 0 /\ Goto(g, "lock")
  BY <1>1, <1>2 DEF Wake
<1>6. /\ Moves(g) /\ pc'[g] = "lock" /\ op'[g] = op[g]
      /\ {pc[g], pc'[g]} \cap RefPoints = {}
  <2>1. CallType
    BY TypeParts DEF IInv
  <2>2. QED
    BY <1>5, <2>1, GotoType, PointsKnown DEF Moves, Same, WaitPoints
<1>7. /\ sema' \in [FDs -> [Modes -> Nat]] /\ \A k \in FDs : k # f => sema'[k] = sema[k]
      /\ \A k \in Modes : sema'[f][k] = IF k = m THEN sema[f][k] - 1 ELSE sema[f][k]
  <2> DEFINE less == [sema[f] EXCEPT ![m] = sema[f][m] - 1]
  <2>1. /\ less \in [Modes -> Nat]
        /\ \A k \in Modes : less[k] = IF k = m THEN sema[f][k] - 1 ELSE sema[f][k]
    BY <1>3, <1>5
  <2>2. sema' = [sema EXCEPT ![f] = less]
    BY <1>1, <1>2 DEF Wake
  <2> HIDE DEF less
  <2>3. QED
    BY <1>3, <2>1, <2>2
<1>8. TypeOK' /\ CallInv' /\ WordInv' /\ WakeInv' /\ TimerInv'
  <2>1. op'[g].fd \in 1..opened /\ op'[g].call \in Modes
    BY <1>2, <1>5, <1>6, OwnFD DEF Mode
  <2>2. QED
    BY <1>3, <1>4, <1>6, <1>7, <2>1, MoveFrame
<1>9. OwnerInv' /\ CloseInv'
  BY <1>4, <1>5, <1>6, OutsideFrame
<1>10. ASSUME NEW k \in FDs, k # f PROVE RefsAt(k)'
  BY <1>1, <1>4, <1>6, <1>7, <1>10, OtherFD
<1>11. RefsAt(f)'
  <2>1. Refs(f)' = Refs(f)
    <3>1. In(Holds(g, f)') = 0 /\ In(Holds(g, f)) = 0
      BY <1>6 DEF In, Holds
    <3>2. QED
      BY <1>6, <3>1, Counts
  <2>2. ASSUME NEW k \in Modes
        PROVE  /\ Locks(f, k)' = Locks(f, k)
               /\ Sleeps(f, k) \in Nat
               /\ Sleeps(f, k)' = Sleeps(f, k) - (IF k = m THEN 1 ELSE 0)
    <3>1. /\ In(HoldsLock(g, f, k)') = 0 /\ In(HoldsLock(g, f, k)) = 0
          /\ In(Sleeps1(g, f, k)') = 0 /\ In(Sleeps1(g, f, k)) = (IF k = m THEN 1 ELSE 0)
      BY <1>1, <1>2, <1>5, <1>6, PointsKnown DEF In, HoldsLock, Sleeps1, Mode
    <3>2. /\ Locks(f, k) \in Nat /\ Sleeps(f, k) \in Nat
          /\ Locks(f, k)' = Locks(f, k) + In(HoldsLock(g, f, k)') - In(HoldsLock(g, f, k))
          /\ Sleeps(f, k)' = Sleeps(f, k) + In(Sleeps1(g, f, k)') - In(Sleeps1(g, f, k))
      BY <1>6, Counts
    <3>3. QED
      BY <3>1, <3>2
  <2>3. Refs(f) = mu[f].ref /\ \A k \in Modes :
          /\ Locks(f, k) = IF k \in mu[f].lock THEN 1 ELSE 0
          /\ mu[f].wait[k] + sema[f][k] = Sleeps(f, k)
          /\ mu[f].closed => mu[f].wait[k] = 0
          /\ mu[f].wait[k] > 0 =>
               k \in mu[f].lock \/ sema[f][k] > 0 \/ \E h \in Goroutines : Trying(h, f, k)
    BY <1>3 DEF RefsAt
  <2>4. ASSUME NEW k \in Modes PROVE mu[f].wait[k] + sema'[f][k] = Sleeps(f, k)'
    <3>1. /\ mu[f].wait[k] \in Nat /\ sema[f][k] \in Nat
          /\ mu[f].wait[k] + sema[f][k] = Sleeps(f, k)
      BY <1>3, <2>3
    <3>2. CASE k = m
      BY <1>7, <2>2, <3>1, <3>2
    <3>3. CASE k # m
      BY <1>7, <2>2, <3>1, <3>3
    <3>4. QED
      BY <3>2, <3>3
  <2>5. Trying(g, f, m)'
    BY <1>1, <1>2, <1>6 DEF Trying, Mode
  <2>6. \A k \in Modes :
          k # m /\ (\E h \in Goroutines : Trying(h, f, k)) =>
            \E h \in Goroutines : Trying(h, f, k)'
    <3> SUFFICES ASSUME NEW k \in Modes, k # m, NEW h \in Goroutines, Trying(h, f, k)
                 PROVE  Trying(h, f, k)'
      OBVIOUS
    <3>1. h # g
      BY <1>5 DEF Trying
    <3>2. QED
      BY <1>6, <3>1, Counts
  <2>7. \A k \in Modes :
          mu[f].wait[k] > 0 =>
            k \in mu[f].lock \/ sema'[f][k] > 0 \/ \E h \in Goroutines : Trying(h, f, k)'
    BY <1>7, <2>3, <2>5, <2>6
  <2>8. QED
    BY <1>4, <2>1, <2>2, <2>3, <2>4, <2>7 DEF RefsAt
<1>12. RefsInv'
  BY <1>10, <1>11, RefsEach
<1>13. QED
  BY <1>8, <1>9, <1>12 DEF IInv

\* A call that holds a reference but no lock begins,
LEMMA RefTaken ==
  ASSUME IInv, NEW g \in Goroutines, Moves(g), NEW f \in FDs, pc[g] = "idle",
         pc'[g] \in RefPoints \ IOPoints, op'[g].fd = f,
         \A k \in FDs : k # f => mu'[k] = mu[k] /\ sema'[k] = sema[k],
         mu'[f].lock = mu[f].lock, mu'[f].ref = mu[f].ref + 1,
         \/ /\ mu'[f].closed = mu[f].closed /\ mu'[f].wait = mu[f].wait /\ sema'[f] = sema[f]
         \/ \A k \in Modes : mu'[f].wait[k] = 0 /\ sema'[f][k] = sema[f][k] + mu[f].wait[k]
  PROVE  RefsInv'
<1>1. ASSUME NEW k \in FDs, k # f PROVE RefsAt(k)'
  BY <1>1, OtherFD, PointsKnown
<1>2. /\ mu[f].ref \in Nat /\ mu[f].wait \in [Modes -> Nat] /\ sema[f] \in [Modes -> Nat]
      /\ RefsAt(f)
  BY Words
<1>3. Refs(f)' = Refs(f) + 1
  <2>1. In(Holds(g, f)') = 1 /\ In(Holds(g, f)) = 0
    BY PointsKnown DEF In, Holds
  <2>2. QED
    BY <2>1, Counts
<1>4. ASSUME NEW k \in Modes
      PROVE  Locks(f, k)' = Locks(f, k) /\ Sleeps(f, k)' = Sleeps(f, k)
  <2>1. /\ In(HoldsLock(g, f, k)') = 0 /\ In(HoldsLock(g, f, k)) = 0
        /\ In(Sleeps1(g, f, k)') = 0 /\ In(Sleeps1(g, f, k)) = 0
    BY PointsKnown DEF In, HoldsLock, Sleeps1
  <2>2. /\ Locks(f, k) \in Nat /\ Sleeps(f, k) \in Nat
        /\ Locks(f, k)' = Locks(f, k) + In(HoldsLock(g, f, k)') - In(HoldsLock(g, f, k))
        /\ Sleeps(f, k)' = Sleeps(f, k) + In(Sleeps1(g, f, k)') - In(Sleeps1(g, f, k))
    BY Counts
  <2>3. QED
    BY <2>1, <2>2
<1>5. \A k \in Modes :
        (\E h \in Goroutines : Trying(h, f, k)) => \E h \in Goroutines : Trying(h, f, k)'
  <2> SUFFICES ASSUME NEW k \in Modes, NEW h \in Goroutines, Trying(h, f, k)
               PROVE  Trying(h, f, k)'
    OBVIOUS
  <2>1. h # g
    BY DEF Trying
  <2>2. QED
    BY <2>1, Counts
<1>6. Refs(f) = mu[f].ref /\ \A k \in Modes :
        /\ Locks(f, k) = IF k \in mu[f].lock THEN 1 ELSE 0
        /\ mu[f].wait[k] + sema[f][k] = Sleeps(f, k)
        /\ mu[f].closed => mu[f].wait[k] = 0
        /\ mu[f].wait[k] > 0 =>
             k \in mu[f].lock \/ sema[f][k] > 0 \/ \E h \in Goroutines : Trying(h, f, k)
  BY <1>2 DEF RefsAt
<1>7. \A k \in Modes :
        /\ mu'[f].wait[k] + sema'[f][k] = Sleeps(f, k)'
        /\ mu'[f].closed => mu'[f].wait[k] = 0
        /\ mu'[f].wait[k] > 0 =>
             k \in mu'[f].lock \/ sema'[f][k] > 0 \/ \E h \in Goroutines : Trying(h, f, k)'
  <2>1. CASE mu'[f].closed = mu[f].closed /\ mu'[f].wait = mu[f].wait /\ sema'[f] = sema[f]
    BY <2>1, <1>4, <1>5, <1>6
  <2>2. CASE \A k \in Modes : mu'[f].wait[k] = 0 /\ sema'[f][k] = sema[f][k] + mu[f].wait[k]
    <3> SUFFICES ASSUME NEW k \in Modes
                 PROVE  mu'[f].wait[k] = 0 /\ mu'[f].wait[k] + sema'[f][k] = Sleeps(f, k)'
      OBVIOUS
    <3>1. mu[f].wait[k] \in Nat /\ sema[f][k] \in Nat
      BY <1>2
    <3>2. QED
      BY <2>2, <3>1, <1>4, <1>6
  <2>3. QED
    BY <2>1, <2>2
<1>8. RefsAt(f)'
  BY <1>3, <1>4, <1>6, <1>7 DEF RefsAt
<1>9. QED
  BY <1>1, <1>8, RefsEach

LEMMA IncrefInv ==
  ASSUME IInv, NEW g \in Goroutines, NEW f \in FDs, Incref(g, f)
  PROVE  IInv'
<1>1. UNCHANGED <<opened, pdVars, rw, kernelVars>> /\ UNCHANGED <<opened, pd, sema>>
  BY DEF Incref, pdVars
<1>2. /\ mu \in [FDs -> Word] /\ sema \in [FDs -> [Modes -> Nat]] /\ mu[f] \in Word
      /\ mu[f].ref \in Nat
  BY Words
<1>3. pc[g] = "idle" /\ f \in 1..opened /\ f <= opened /\ ~mu[f].closed
  BY DEF Incref, CanCall
<1>4. /\ Moves(g) /\ pc'[g] = "set" /\ op'[g].fd = f
      /\ pc'[g] \in RefPoints \ IOPoints
  <2>1. CallType /\ Begin(g, "deadline", f, "set")
    BY TypeParts DEF IInv, Incref
  <2>2. "set" \in Points /\ "set" \in RefPoints \ IOPoints
    BY PointsKnown
  <2>3. /\ CallType' /\ pc'[g] = "set" /\ op'[g].fd = f
        /\ \A h \in Goroutines : h # g => pc'[h] = pc[h] /\ op'[h] = op[h]
    BY <2>1, <2>2, BeginType
  <2>4. QED
    BY <1>3, <2>2, <2>3 DEF Moves, Same, WaitPoints
<1>5. /\ mu' \in [FDs -> Word] /\ \A k \in FDs : k # f => mu'[k] = mu[k]
      /\ mu'[f].closed = mu[f].closed /\ mu'[f].lock = mu[f].lock
      /\ mu'[f].ref = mu[f].ref + 1 /\ mu'[f].wait = mu[f].wait
  <2> DEFINE w == [closed |-> mu[f].closed, lock |-> mu[f].lock, ref |-> mu[f].ref + 1,
                   wait |-> mu[f].wait]
  <2>1. mu' = [mu EXCEPT ![f] = w]
    <3>1. mu' = [mu EXCEPT ![f] = [mu[f] EXCEPT !.ref = mu[f].ref + 1]]
      BY <1>2 DEF Incref
    <3>2. [mu[f] EXCEPT !.ref = mu[f].ref + 1] = w
      BY <1>2, WordRef, Zenon
    <3>3. QED
      BY <3>1, <3>2
  <2>2. w \in Word
    BY Words DEF Word
  <2>3. /\ w.closed = mu[f].closed /\ w.lock = mu[f].lock
        /\ w.ref = mu[f].ref + 1 /\ w.wait = mu[f].wait
    OBVIOUS
  <2> HIDE DEF w
  <2>4. QED
    BY <1>2, <2>1, <2>2, <2>3
<1>6. TypeOK' /\ CallInv' /\ WordInv' /\ WakeInv' /\ TimerInv'
  BY <1>1, <1>2, <1>3, <1>4, <1>5, MoveFrame, PointsKnown
<1>7. OwnerInv' /\ CloseInv'
  <2>1. ~mu'[f].closed /\ mu'[f].closed \in BOOLEAN /\ pc'[g] # "evict"
    BY <1>3, <1>4, <1>5 DEF Word
  <2>2. \A k \in FDs : mu'[k].closed = mu[k].closed \/ k = f
    BY <1>5
  <2>3. QED
    BY <1>1, <1>3, <1>4, <2>1, <2>2, EnterFrame
<1>8. RefsInv'
  BY <1>1, <1>3, <1>4, <1>5, RefTaken
<1>9. QED
  BY <1>6, <1>7, <1>8 DEF IInv

LEMMA IncrefAndCloseInv ==
  ASSUME IInv, NEW g \in Goroutines, NEW f \in FDs, IncrefAndClose(g, f)
  PROVE  IInv'
<1>1. UNCHANGED <<opened, pdVars, rw, kernelVars>> /\ UNCHANGED <<opened, pd>>
  BY DEF IncrefAndClose, pdVars
<1>2. /\ mu \in [FDs -> Word] /\ sema \in [FDs -> [Modes -> Nat]] /\ mu[f] \in Word
      /\ mu[f].ref \in Nat /\ mu[f].wait \in [Modes -> Nat] /\ sema[f] \in [Modes -> Nat]
      /\ mu[f].lock \in SUBSET Modes
  BY Words
<1>3. pc[g] = "idle" /\ f \in 1..opened /\ f <= opened /\ ~mu[f].closed
  BY DEF IncrefAndClose, CanCall
<1>4. /\ Moves(g) /\ pc'[g] = "evict" /\ op'[g].fd = f
      /\ pc'[g] \in RefPoints \ IOPoints
  <2>1. CallType /\ Begin(g, "close", f, "evict")
    BY TypeParts DEF IInv, IncrefAndClose
  <2>2. "evict" \in Points /\ "evict" \in RefPoints \ IOPoints
    BY PointsKnown
  <2>3. /\ CallType' /\ pc'[g] = "evict" /\ op'[g].fd = f
        /\ \A h \in Goroutines : h # g => pc'[h] = pc[h] /\ op'[h] = op[h]
    BY <2>1, <2>2, BeginType
  <2>4. QED
    BY <1>3, <2>2, <2>3 DEF Moves, Same, WaitPoints
<1>5. /\ mu' \in [FDs -> Word] /\ \A k \in FDs : k # f => mu'[k] = mu[k]
      /\ mu'[f].closed = TRUE /\ mu'[f].lock = mu[f].lock
      /\ mu'[f].ref = mu[f].ref + 1 /\ \A k \in Modes : mu'[f].wait[k] = 0
  <2> DEFINE none == [m \in Modes |-> 0]
  <2>1. mu' = [mu EXCEPT ![f] = [closed |-> TRUE, lock |-> mu[f].lock,
                                 ref |-> mu[f].ref + 1, wait |-> none]]
    BY <1>2 DEF Word, IncrefAndClose
  <2>2. none \in [Modes -> Nat] /\ \A k \in Modes : none[k] = 0
    OBVIOUS
  <2> HIDE DEF none
  <2>3. QED
    BY <1>2, <2>1, <2>2 DEF Word
<1>6. /\ sema' \in [FDs -> [Modes -> Nat]] /\ \A k \in FDs : k # f => sema'[k] = sema[k]
      /\ \A k \in Modes : sema'[f][k] = sema[f][k] + mu[f].wait[k]
  <2> DEFINE more == [m \in Modes |-> sema[f][m] + mu[f].wait[m]]
  <2>1. sema' = [sema EXCEPT ![f] = more]
    BY DEF IncrefAndClose
  <2>2. more \in [Modes -> Nat] /\ \A k \in Modes : more[k] = sema[f][k] + mu[f].wait[k]
    BY <1>2
  <2> HIDE DEF more
  <2>3. QED
    BY <1>2, <2>1, <2>2
<1>7. TypeOK' /\ CallInv' /\ WordInv' /\ WakeInv' /\ TimerInv'
  BY <1>1, <1>2, <1>3, <1>4, <1>5, <1>6, MoveFrame, PointsKnown
<1>8. OwnerInv' /\ CloseInv'
  BY <1>1, <1>3, <1>4, <1>5, EnterFrame
<1>9. RefsInv'
  BY <1>3, <1>4, <1>5, <1>6, RefTaken
<1>10. QED
  BY <1>7, <1>8, <1>9 DEF IInv

\* Who holds something is counted.
LEMMA HeldCounted ==
  ASSUME NEW g \in Goroutines, NEW f \in FDs
  PROVE  /\ Holds(g, f) => Refs(f) >= 1
         /\ \A m \in Modes : HoldsLock(g, f, m) => Locks(f, m) >= 1
<1>1. \A S : S \subseteq Goroutines /\ S # {} => Cardinality(S) >= 1
  <2> SUFFICES ASSUME NEW S, S \subseteq Goroutines, S # {} PROVE Cardinality(S) >= 1
    OBVIOUS
  <2>1. IsFiniteSet(S)
    BY NetFDAssumption, FS_Subset
  <2>2. Cardinality(S) \in Nat /\ Cardinality(S) # 0
    BY <2>1, FS_EmptySet, FS_CardinalityType
  <2>3. QED
    BY <2>2
<1>2. Using(f) \subseteq Goroutines /\ (Holds(g, f) => g \in Using(f))
  BY DEF Using, Holds
<1>3. \A m \in Modes :
        Locking(f, m) \subseteq Goroutines /\ (HoldsLock(g, f, m) => g \in Locking(f, m))
  BY PointsKnown DEF Using, Locking, HoldsLock
<1>4. Holds(g, f) => Refs(f) >= 1
  BY <1>1, <1>2 DEF Refs
<1>5. \A m \in Modes : HoldsLock(g, f, m) => Locks(f, m) >= 1
  BY <1>1, <1>3 DEF Locks
<1>6. QED
  BY <1>4, <1>5

\* A goroutine is told that it has let go, and whether it was the last.
LEMMA ReleasedMoves ==
  ASSUME IInv, NEW g \in Goroutines, pc[g] \in {"unlock", "decref"}, NEW w, Released(g, w)
  PROVE  /\ Moves(g) /\ pc'[g] \in {"idle", "destroy"}
         /\ pc'[g] = "destroy" => w.closed /\ w.ref = 0 /\ op'[g] = op[g]
<1>1. CallType
  BY TypeParts DEF IInv
<1>2. CASE w.closed /\ w.ref = 0
  BY <1>1, <1>2, GotoType, PointsKnown DEF Released, Moves, Same, WaitPoints
<1>3. CASE ~(w.closed /\ w.ref = 0)
  BY <1>1, <1>3, ReturnType, PointsKnown DEF Released, Moves, Same, WaitPoints
<1>4. QED
  BY <1>2, <1>3

LEMMA DecrefInv ==
  ASSUME IInv, NEW g \in Goroutines, Decref(g)
  PROVE  IInv'
<1>1. PICK f \in FDs : f = op[g].fd
  BY OwnFD DEF Decref
<1>2. UNCHANGED <<opened, pdVars, rw, kernelVars>> /\ UNCHANGED <<opened, pd, sema>>
  BY DEF Decref, pdVars
<1>3. /\ mu \in [FDs -> Word] /\ sema \in [FDs -> [Modes -> Nat]] /\ mu[f] \in Word
      /\ mu[f].ref \in Nat /\ RefsAt(f)
  BY Words
<1>4. pc[g] = "decref" /\ pc[g] \in RefPoints \ (IOPoints \cup {"evict"})
  BY PointsKnown DEF Decref
<1>5. mu' = [mu EXCEPT ![f].ref = @ - 1] /\ Released(g, mu'[f])
  BY <1>1 DEF Decref
<1>6. /\ Moves(g) /\ pc'[g] \in {"idle", "destroy"}
      /\ pc'[g] = "destroy" => mu'[f].closed /\ mu'[f].ref = 0 /\ op'[g] = op[g]
  BY <1>4, <1>5, ReleasedMoves
<1>7. mu[f].ref = Refs(f) /\ Refs(f) >= 1 /\ Refs(f)' = Refs(f) - 1
  <2>1. Refs(f) >= 1
    BY <1>1, <1>4, HeldCounted DEF Holds
  <2>2. In(Holds(g, f)') = 0 /\ In(Holds(g, f)) = 1
    BY <1>1, <1>4, <1>6, PointsKnown DEF In, Holds
  <2>3. Refs(f) \in Nat /\ Refs(f)' = Refs(f) + In(Holds(g, f)') - In(Holds(g, f))
    BY <1>6, Counts
  <2>4. QED
    BY <1>3, <2>1, <2>2, <2>3 DEF RefsAt
<1>8. /\ mu' \in [FDs -> Word] /\ \A k \in FDs : k # f => mu'[k] = mu[k]
      /\ mu'[f].closed = mu[f].closed /\ mu'[f].lock = mu[f].lock
      /\ mu'[f].ref = mu[f].ref - 1 /\ mu'[f].wait = mu[f].wait
  <2> DEFINE w == [closed |-> mu[f].closed, lock |-> mu[f].lock, ref |-> mu[f].ref - 1,
                   wait |-> mu[f].wait]
  <2>1. mu' = [mu EXCEPT ![f] = w]
    <3>1. mu' = [mu EXCEPT ![f] = [mu[f] EXCEPT !.ref = mu[f].ref - 1]]
      BY <1>3, <1>5
    <3>2. [mu[f] EXCEPT !.ref = mu[f].ref - 1] = w
      BY <1>3, WordRef, Zenon
    <3>3. QED
      BY <3>1, <3>2
  <2>2. mu[f].ref - 1 \in Nat
    BY <1>3, <1>7
  <2>3. w \in Word
    BY <2>2, Words DEF Word
  <2>4. /\ w.closed = mu[f].closed /\ w.lock = mu[f].lock
        /\ w.ref = mu[f].ref - 1 /\ w.wait = mu[f].wait
    OBVIOUS
  <2> HIDE DEF w
  <2>5. QED
    BY <1>3, <2>1, <2>3, <2>4
<1>9. TypeOK' /\ CallInv' /\ WordInv' /\ WakeInv' /\ TimerInv'
  <2>1. pc'[g] # "idle" => op'[g].fd \in 1..opened
    BY <1>4, <1>6, OwnFD
  <2>2. pc'[g] \notin IOPoints \cup {"lock", "sleep"}
    BY <1>6, PointsKnown
  <2>3. QED
    BY <1>2, <1>3, <1>6, <1>8, <2>1, <2>2, MoveFrame
<1>10. OwnerInv' /\ CloseInv'
  <2>1. \A k \in FDs : mu'[k].closed = mu[k].closed
    BY <1>8
  <2>2. \/ pc'[g] = "idle"
        \/ /\ pc'[g] = "destroy" /\ op'[g].fd = f
           /\ mu[f].closed /\ Refs(f)' = 0
    BY <1>1, <1>6, <1>7, <1>8
  <2>3. QED
    BY <1>1, <1>2, <1>4, <1>6, <2>1, <2>2, LeaveFrame
<1>11. ASSUME NEW k \in FDs, k # f PROVE RefsAt(k)'
  BY <1>1, <1>2, <1>6, <1>8, <1>11, OtherFD, PointsKnown
<1>12. RefsAt(f)'
  <2>1. ASSUME NEW k \in Modes
        PROVE  Locks(f, k)' = Locks(f, k) /\ Sleeps(f, k)' = Sleeps(f, k)
    <3>1. /\ In(HoldsLock(g, f, k)') = 0 /\ In(HoldsLock(g, f, k)) = 0
          /\ In(Sleeps1(g, f, k)') = 0 /\ In(Sleeps1(g, f, k)) = 0
      BY <1>4, <1>6, PointsKnown DEF In, HoldsLock, Sleeps1
    <3>2. /\ Locks(f, k) \in Nat /\ Sleeps(f, k) \in Nat
          /\ Locks(f, k)' = Locks(f, k) + In(HoldsLock(g, f, k)') - In(HoldsLock(g, f, k))
          /\ Sleeps(f, k)' = Sleeps(f, k) + In(Sleeps1(g, f, k)') - In(Sleeps1(g, f, k))
      BY <1>6, Counts
    <3>3. QED
      BY <3>1, <3>2
  <2>2. \A k \in Modes :
          (\E h \in Goroutines : Trying(h, f, k)) => \E h \in Goroutines : Trying(h, f, k)'
    <3> SUFFICES ASSUME NEW k \in Modes, NEW h \in Goroutines, Trying(h, f, k)
                 PROVE  Trying(h, f, k)'
      OBVIOUS
    <3>1. h # g
      BY <1>4 DEF Trying
    <3>2. QED
      BY <1>6, <3>1, Counts
  <2>3. mu'[f].ref = Refs(f)'
    BY <1>7, <1>8
  <2>4. QED
    BY <1>2, <1>3, <1>8, <2>1, <2>2, <2>3 DEF RefsAt
<1>13. RefsInv'
  BY <1>11, <1>12, RefsEach
<1>14. QED
  BY <1>9, <1>10, <1>13 DEF IInv

LEMMA RWUnlockInv ==
  ASSUME IInv, NEW g \in Goroutines, RWUnlock(g)
  PROVE  IInv'
<1>1. PICK f \in FDs : f = op[g].fd
  BY OwnFD DEF RWUnlock
<1>2. PICK m \in Modes : m = Mode(g)
  BY PointsKnown DEF RWUnlock, IInv, CallInv
<1> DEFINE n == Waiter(mu[f], m)
<1>3. UNCHANGED <<opened, pdVars, rw, kernelVars>> /\ UNCHANGED <<opened, pd>>
  BY DEF RWUnlock, pdVars
<1>4. /\ mu \in [FDs -> Word] /\ sema \in [FDs -> [Modes -> Nat]] /\ mu[f] \in Word
      /\ mu[f].ref \in Nat /\ RefsAt(f) /\ mu[f].lock \in SUBSET Modes
      /\ mu[f].wait \in [Modes -> Nat] /\ sema[f] \in [Modes -> Nat]
  BY Words
<1>5. pc[g] = "unlock" /\ pc[g] \in IOPoints /\ pc[g] \in RefPoints \ {"evict"}
  BY PointsKnown DEF RWUnlock
<1>6. /\ mu' = [mu EXCEPT ![f] = Unlocked(mu[f], m)]
      /\ sema' = [sema EXCEPT ![f][m] = @ + n]
      /\ Released(g, mu'[f])
  BY <1>1, <1>2 DEF RWUnlock
<1>7. n \in {0, 1} /\ mu[f].wait[m] - n \in Nat /\ (n = 0 <=> mu[f].wait[m] = 0)
  BY <1>4 DEF Waiter
<1> HIDE DEF n
<1>8. /\ Moves(g) /\ pc'[g] \in {"idle", "destroy"}
      /\ pc'[g] = "destroy" => mu'[f].closed /\ mu'[f].ref = 0 /\ op'[g] = op[g]
  BY <1>5, <1>6, ReleasedMoves
<1>9. mu[f].ref = Refs(f) /\ Refs(f) >= 1 /\ Refs(f)' = Refs(f) - 1
  <2>1. Refs(f) >= 1
    BY <1>1, <1>5, HeldCounted DEF Holds
  <2>2. In(Holds(g, f)') = 0 /\ In(Holds(g, f)) = 1
    BY <1>1, <1>5, <1>8, PointsKnown DEF In, Holds
  <2>3. Refs(f) \in Nat /\ Refs(f)' = Refs(f) + In(Holds(g, f)') - In(Holds(g, f))
    BY <1>8, Counts
  <2>4. QED
    BY <1>4, <2>1, <2>2, <2>3 DEF RefsAt
<1>10. /\ mu' \in [FDs -> Word] /\ \A k \in FDs : k # f => mu'[k] = mu[k]
       /\ mu'[f].closed = mu[f].closed /\ mu'[f].lock = mu[f].lock \ {m}
       /\ mu'[f].ref = mu[f].ref - 1
       /\ \A k \in Modes : mu'[f].wait[k] = IF k = m THEN mu[f].wait[k] - n ELSE mu[f].wait[k]
  <2> DEFINE less == [mu[f].wait EXCEPT ![m] = mu[f].wait[m] - n]
             w == [closed |-> mu[f].closed, lock |-> mu[f].lock \ {m}, ref |-> mu[f].ref - 1,
                   wait |-> less]
  <2>1. /\ less \in [Modes -> Nat]
        /\ \A k \in Modes : less[k] = IF k = m THEN mu[f].wait[k] - n ELSE mu[f].wait[k]
    BY <1>4, <1>7
  <2>2. Unlocked(mu[f], m) = w
    BY DEF Unlocked, n
  <2> HIDE DEF less
  <2>3. mu[f].ref - 1 \in Nat
    BY <1>4, <1>9
  <2>4. w \in Word
    BY <2>1, <2>3, Words DEF Word
  <2>5. /\ w.closed = mu[f].closed /\ w.lock = mu[f].lock \ {m}
        /\ w.ref = mu[f].ref - 1 /\ w.wait = less
    OBVIOUS
  <2>6. mu' = [mu EXCEPT ![f] = w]
    BY <1>6, <2>2
  <2> HIDE DEF w
  <2>7. QED
    BY <1>4, <2>1, <2>4, <2>5, <2>6
<1>11. /\ sema' \in [FDs -> [Modes -> Nat]] /\ \A k \in FDs : k # f => sema'[k] = sema[k]
       /\ \A k \in Modes : sema'[f][k] = IF k = m THEN sema[f][k] + n ELSE sema[f][k]
  <2> DEFINE more == [sema[f] EXCEPT ![m] = sema[f][m] + n]
  <2>1. /\ more \in [Modes -> Nat]
        /\ \A k \in Modes : more[k] = IF k = m THEN sema[f][k] + n ELSE sema[f][k]
    BY <1>4, <1>7
  <2>2. sema' = [sema EXCEPT ![f] = more]
    BY <1>4, <1>6
  <2> HIDE DEF more
  <2>3. QED
    BY <1>4, <2>1, <2>2
<1>12. TypeOK' /\ CallInv' /\ WordInv' /\ WakeInv' /\ TimerInv'
  <2>1. pc'[g] # "idle" => op'[g].fd \in 1..opened
    BY <1>5, <1>8, OwnFD
  <2>2. pc'[g] \notin IOPoints \cup {"lock", "sleep"}
    BY <1>8, PointsKnown
  <2>3. QED
    BY <1>3, <1>8, <1>10, <1>11, <2>1, <2>2, MoveFrame
<1>13. OwnerInv' /\ CloseInv'
  <2>1. \A k \in FDs : mu'[k].closed = mu[k].closed
    BY <1>10
  <2>2. \/ pc'[g] = "idle"
        \/ /\ pc'[g] = "destroy" /\ op'[g].fd = f
           /\ mu[f].closed /\ Refs(f)' = 0
    BY <1>1, <1>8, <1>9, <1>10
  <2>3. QED
    BY <1>1, <1>3, <1>5, <1>8, <2>1, <2>2, LeaveFrame
<1>14. ASSUME NEW k \in FDs, k # f PROVE RefsAt(k)'
  BY <1>1, <1>8, <1>10, <1>11, <1>14, OtherFD, PointsKnown
<1>15. RefsAt(f)'
  <2>1. ASSUME NEW k \in Modes
        PROVE  /\ Locks(f, k) \in Nat /\ Sleeps(f, k) \in Nat
               /\ Locks(f, k)' = Locks(f, k) - (IF k = m THEN 1 ELSE 0)
               /\ Sleeps(f, k)' = Sleeps(f, k)
    <3>1. /\ In(HoldsLock(g, f, k)') = 0 /\ In(HoldsLock(g, f, k)) = (IF k = m THEN 1 ELSE 0)
          /\ In(Sleeps1(g, f, k)') = 0 /\ In(Sleeps1(g, f, k)) = 0
      BY <1>1, <1>2, <1>5, <1>8, PointsKnown DEF In, HoldsLock, Sleeps1
    <3>2. /\ Locks(f, k) \in Nat /\ Sleeps(f, k) \in Nat
          /\ Locks(f, k)' = Locks(f, k) + In(HoldsLock(g, f, k)') - In(HoldsLock(g, f, k))
          /\ Sleeps(f, k)' = Sleeps(f, k) + In(Sleeps1(g, f, k)') - In(Sleeps1(g, f, k))
      BY <1>8, Counts
    <3>3. QED
      BY <3>1, <3>2
  <2>2. \A k \in Modes :
          (\E h \in Goroutines : Trying(h, f, k)) => \E h \in Goroutines : Trying(h, f, k)'
    <3> SUFFICES ASSUME NEW k \in Modes, NEW h \in Goroutines, Trying(h, f, k)
                 PROVE  Trying(h, f, k)'
      OBVIOUS
    <3>1. h # g
      BY <1>5 DEF Trying
    <3>2. QED
      BY <1>8, <3>1, Counts
  <2>3. mu'[f].ref = Refs(f)'
    BY <1>9, <1>10
  <2>4. Locks(f, m) = 1
    <3>1. HoldsLock(g, f, m)
      BY <1>1, <1>2, <1>5 DEF HoldsLock
    <3>2. Locks(f, m) >= 1
      BY <3>1, HeldCounted
    <3>3. Locks(f, m) = IF m \in mu[f].lock THEN 1 ELSE 0
      BY <1>4 DEF RefsAt
    <3>4. QED
      BY <3>2, <3>3
  <2>5. \A k \in Modes :
          /\ Locks(f, k) = IF k \in mu[f].lock THEN 1 ELSE 0
          /\ mu[f].wait[k] + sema[f][k] = Sleeps(f, k)
          /\ mu[f].closed => mu[f].wait[k] = 0
          /\ mu[f].wait[k] > 0 =>
               k \in mu[f].lock \/ sema[f][k] > 0 \/ \E h \in Goroutines : Trying(h, f, k)
    BY <1>4 DEF RefsAt
  <2>6. ASSUME NEW k \in Modes
        PROVE  /\ Locks(f, k)' = IF k \in mu'[f].lock THEN 1 ELSE 0
               /\ mu'[f].wait[k] + sema'[f][k] = Sleeps(f, k)'
               /\ mu'[f].closed => mu'[f].wait[k] = 0
               /\ mu'[f].wait[k] > 0 =>
                    k \in mu'[f].lock \/ sema'[f][k] > 0 \/ \E h \in Goroutines : Trying(h, f, k)'
    <3>1. mu[f].wait[k] \in Nat /\ sema[f][k] \in Nat
      BY <1>4
    <3>2. CASE k = m
      <4>1. Locks(f, k)' = 0 /\ k \notin mu'[f].lock
        BY <1>10, <2>1, <2>4, <3>2
      <4>2. /\ mu'[f].wait[k] = mu[f].wait[k] - n /\ sema'[f][k] = sema[f][k] + n
            /\ Sleeps(f, k)' = Sleeps(f, k) /\ mu[f].wait[k] + sema[f][k] = Sleeps(f, k)
        BY <1>10, <1>11, <2>1, <2>5, <3>2
      <4>3. n \in {0, 1} /\ (n = 0 => mu[f].wait[k] = 0)
        BY <1>7, <3>2
      <4>4. mu'[f].wait[k] + sema'[f][k] = Sleeps(f, k)'
        BY <3>1, <4>2, <4>3
      <4>5. mu'[f].closed => mu'[f].wait[k] = 0
        BY <1>7, <1>10, <2>5, <3>2, <4>2
      <4>6. mu'[f].wait[k] > 0 => sema'[f][k] > 0
        BY <3>1, <4>2, <4>3
      <4>7. QED
        BY <4>1, <4>4, <4>5, <4>6
    <3>3. CASE k # m
      BY <1>10, <1>11, <2>1, <2>2, <2>5, <3>1, <3>3
    <3>4. QED
      BY <3>2, <3>3
  <2>7. QED
    BY <2>3, <2>6 DEF RefsAt
<1>16. RefsInv'
  BY <1>14, <1>15, RefsEach
<1>17. QED
  BY <1>12, <1>13, <1>16 DEF IInv
-----------------------------------------------------------------------------
(* The descriptor *)

\* On a descriptor that nobody holds, nobody waits.
LEMMA Deserted ==
  ASSUME IInv, \A g \in Goroutines : pc[g] \notin RefPoints
  PROVE  /\ \A m \in Modes : rw[m] \in {"nil", "ready"}
         /\ cs.woken = {} /\ \A g \in Goroutines : pc[g] \notin WaitPoints
<1>1. WaitPoints \subseteq RefPoints
  BY DEF WaitPoints, IOPoints, RefPoints
<1>2. \A m \in Modes : rw[m] # "wait" /\ rw[m] \notin Goroutines
  BY PointsKnown DEF IInv, WordInv
<1>3. \A m \in Modes : rw[m] \in {"nil", "ready"}
  BY <1>2, TypeParts DEF IInv, RwType
<1>4. cs.woken \subseteq Goroutines
  BY TypeParts DEF IInv, PdType, Sections
<1>5. cs.woken = {}
  BY <1>4, PointsKnown DEF IInv, WordInv
<1>6. QED
  BY <1>1, <1>3, <1>5

LEMMA DestroyInv ==
  ASSUME IInv, NEW g \in Goroutines, Destroy(g)
  PROVE  IInv'
<1>1. /\ UNCHANGED muVars /\ UNCHANGED <<mu, sema, opened>>
      /\ UNCHANGED <<deadline, timer, firing, cs, rw, inflight>>
      /\ avail' = {} /\ edge' = {} /\ Return(g) /\ pc[g] = "destroy"
  BY DEF Destroy, muVars
<1>2. \A h \in Goroutines : pc[h] \notin RefPoints /\ (h # g => pc[h] # "destroy")
  BY <1>1, PointsKnown DEF IInv, OwnerInv
<1>3. PdType /\ CallType
  BY TypeParts DEF IInv
<1>4. /\ pd'.fd = 0 /\ pd'.closing = pd.closing /\ pd'.seq = pd.seq
      /\ pd' \in [fd : 0..MaxFD, closing : BOOLEAN, seq : Nat]
  <2>1. pd' = [pd EXCEPT !.fd = 0] /\ 0 \in 0..MaxFD
    BY NetFDAssumption DEF Destroy
  <2>2. QED
    BY <1>3, <2>1 DEF PdType
<1>5. /\ CallType' /\ pc'[g] = "idle"
      /\ \A h \in Goroutines : h # g => pc'[h] = pc[h] /\ Same(h)
  BY <1>1, <1>3, ReturnType DEF Same
<1>6. \A h \in Goroutines :
        Keeps(h) /\ pc'[h] \notin RefPoints /\ pc'[h] # "destroy" /\ (pc'[h] = "cs" <=> pc[h] = "cs")
  BY <1>1, <1>2, <1>5, PointsKnown DEF Keeps
<1>7. CallInv'
  BY <1>1, <1>6, CallFrame DEF IInv, CallInv
<1>8. RefsInv'
  BY <1>1, <1>6, RefsFrame DEF IInv
<1>9. op[g].fd = pd.fd /\ pd.fd \in FDs /\ mu[pd.fd].closed
  BY <1>1, OwnFD DEF IInv, OwnerInv
<1>10. OwnerInv'
  <2>1. \A f \in FDs : IF f <= opened THEN mu[f].closed ELSE ~mu[f].closed
    BY <1>9 DEF IInv, OwnerInv
  <2>2. QED
    BY <1>1, <1>6, <2>1 DEF OwnerInv
<1>11. pd.closing
  BY <1>2, <1>9, NetFDAssumption, PointsKnown DEF IInv, CloseInv, FDs
<1>12. CloseInv'
  BY <1>4, <1>6, PointsKnown DEF CloseInv
<1>13. cs.woken = {} /\ \A m \in Modes : rw[m] \in {"nil", "ready"}
  BY <1>2, Deserted
<1>14. WordInv'
  <2>1. \A m \in Modes : rw'[m] # "wait" /\ rw'[m] \notin Goroutines
    BY <1>1, <1>13, NetFDAssumption
  <2>2. QED
    BY <1>1, <1>13, <2>1 DEF WordInv
<1>15. WakeInv'
  <2>1. \A h \in Goroutines : pc'[h] \notin WaitPoints
    BY <1>6 DEF WaitPoints, RefPoints, IOPoints
  <2>2. QED
    BY <2>1 DEF WakeInv, WaitPoints
<1>16. TimerInv'
  BY <1>1, <1>4, <1>11 DEF IInv, TimerInv, FiredModes
<1>17. TypeOK'
  BY <1>1, <1>3, <1>4, <1>5, TypeParts, TypePartsNext
     DEF IInv, MuType, PdType, RwType, KernelType
<1>18. QED
  BY <1>7, <1>8, <1>10, <1>12, <1>14, <1>15, <1>16, <1>17 DEF IInv

LEMMA OpenInv ==
  ASSUME IInv, Open
  PROVE  IInv'
<1>1. /\ UNCHANGED <<mu, sema, timer, firing, cs, inflight, pc, op>>
      /\ pd.fd = 0 /\ opened < MaxFD /\ cs.holder = None /\ cs = NoCS
      /\ opened' = opened + 1
      /\ pd' = [fd |-> opened + 1, closing |-> FALSE, seq |-> pd.seq + 1]
      /\ rw' = [m \in Modes |-> "nil"] /\ deadline' = [m \in Modes |-> 0]
      /\ avail' \in SUBSET Directions /\ edge' = avail'
  BY DEF Open, IInv, CallInv
<1>2. MuType /\ PdType /\ RwType /\ KernelType /\ CallType
  BY TypeParts DEF IInv
<1>3. opened \in Nat /\ opened + 1 \in 1..MaxFD /\ pd.seq \in Nat
  BY <1>1, <1>2, NetFDAssumption DEF MuType, PdType
<1>4. \A g \in Goroutines : pc[g] \notin RefPoints \cup {"destroy"}
  <2> SUFFICES ASSUME NEW g \in Goroutines, pc[g] \in RefPoints \cup {"destroy"} PROVE FALSE
    OBVIOUS
  <2>1. op[g].fd = 0 /\ op[g].fd \in 1..opened
    BY <1>1, OwnFD, PointsKnown DEF IInv, OwnerInv
  <2>2. QED
    BY <2>1, <1>3
<1>5. /\ pd'.fd = opened + 1 /\ pd'.closing = FALSE /\ pd'.seq = pd.seq + 1
      /\ pd' \in [fd : 0..MaxFD, closing : BOOLEAN, seq : Nat]
  BY <1>1, <1>3
<1>6. TypeOK'
  BY <1>1, <1>2, <1>3, <1>5, TypePartsNext, NetFDAssumption
     DEF MuType, PdType, RwType, KernelType, CallType
<1>7. CallInv'
  <2>1. \A g \in Goroutines : pc[g] # "idle" => op[g].fd \in 1..(opened + 1)
    BY <1>2, <1>3, OwnFD
  <2>2. QED
    BY <1>1, <2>1 DEF IInv, CallInv, Mode, NoCS
<1>8. RefsInv'
  BY <1>1, RefsFrame DEF IInv, Keeps, Same
<1>9. \A f \in FDs : IF f <= opened THEN mu[f].closed ELSE ~mu[f].closed
  BY <1>1, NetFDAssumption DEF IInv, OwnerInv, FDs
<1>10. OwnerInv'
  <2>1. \A f \in FDs : IF f <= opened + 1 THEN mu[f].closed \/ f = opened + 1 ELSE ~mu[f].closed
    BY <1>3, <1>9, NetFDAssumption DEF FDs
  <2>2. QED
    BY <1>1, <1>4, <1>5, <2>1 DEF OwnerInv
<1>11. CloseInv'
  <2>1. opened + 1 \in FDs /\ ~mu[opened + 1].closed
    BY <1>3, <1>9, NetFDAssumption DEF FDs
  <2>2. \A g \in Goroutines : pc[g] # "evict"
    BY <1>4, PointsKnown
  <2>3. QED
    BY <1>1, <1>5, <2>1, <2>2 DEF CloseInv
<1>12. cs.woken = {} /\ \A g \in Goroutines : pc[g] \notin WaitPoints
  BY <1>4, Deserted
<1>13. WordInv' /\ WakeInv'
  <2>1. \A m \in Modes : rw'[m] = "nil" /\ rw'[m] \notin Goroutines
    BY <1>1, NetFDAssumption
  <2>2. WordInv'
    BY <1>1, <1>12, <2>1 DEF WordInv
  <2>3. WakeInv'
    BY <1>1, <1>12 DEF WakeInv, WaitPoints
  <2>4. QED
    BY <2>2, <2>3
<1>14. TimerInv'
  <2>1. \A m \in Modes :
          /\ timer'[m].armed => timer'[m].f # None
          /\ timer'[m].f # None =>
               /\ timer'[m].seq <= pd.seq /\ timer'[m].when > 0
               /\ timer'[m].f = "both" => m = "r"
    BY <1>1 DEF IInv, TimerInv
  <2>2. \A m \in Modes :
          timer'[m].f # None => timer'[m].seq <= pd'.seq /\ timer'[m].seq # pd'.seq
    <3> SUFFICES ASSUME NEW m \in Modes, timer'[m].f # None
                 PROVE  timer'[m].seq <= pd'.seq /\ timer'[m].seq # pd'.seq
      OBVIOUS
    <3>1. timer'[m].seq \in Nat
      BY <1>1, <1>2 DEF PdType, Timers
    <3>2. QED
      BY <1>3, <1>5, <2>1, <3>1
  <2>3. timer'["r"].f = "both" => timer'["w"].f = None
    BY <1>1 DEF IInv, TimerInv
  <2>4. cs'.holder # Timer /\ cs'.expire = {}
    BY <1>1, NetFDAssumption DEF NoCS, None
  <2>5. QED
    BY <1>1, <1>5, <2>1, <2>2, <2>3, <2>4, NewSeq
<1>15. QED
  BY <1>6, <1>7, <1>8, <1>10, <1>11, <1>13, <1>14 DEF IInv
-----------------------------------------------------------------------------
(* The theorems *)

LEMMA StutterInv == IInv /\ UNCHANGED vars => IInv'
<1> SUFFICES ASSUME IInv, UNCHANGED vars PROVE IInv'
  OBVIOUS
<1>1. /\ UNCHANGED muVars /\ UNCHANGED pdVars
      /\ UNCHANGED <<mu, sema, opened, pd, deadline, timer, firing, cs>>
      /\ UNCHANGED <<rw, avail, edge, inflight, pc, op>>
  BY DEF vars, muVars, pdVars, kernelVars
<1>2. \A g \in Goroutines : Keeps(g)
  BY <1>1 DEF Keeps, Same
<1>3. MuType' /\ CallInv' /\ RefsInv' /\ OwnerInv'
  BY <1>1, <1>2, HeldFrame DEF IInv, CallInv
<1>4. CloseInv' /\ TimerInv'
  BY <1>1, OpenFrame, TimerFrame DEF IInv
<1>5. WordInv' /\ WakeInv'
  BY <1>1 DEF IInv, WordInv, WakeInv, Mode, Failed
<1>6. TypeOK'
  BY <1>1, <1>3, TypeParts, TypePartsNext DEF IInv, PdType, RwType, KernelType, CallType
<1>7. QED
  BY <1>3, <1>4, <1>5, <1>6 DEF IInv

LEMMA NextInv == IInv /\ [Next]_vars => IInv'
<1> SUFFICES ASSUME IInv, [Next]_vars PROVE IInv'
  OBVIOUS
<1>1. ASSUME NEW g \in Goroutines, Call(g) PROVE IInv'
  <2>1. PICK f \in FDs :
          (\E m \in Directions : ReadOrWrite(g, m, f)) \/ Incref(g, f) \/ IncrefAndClose(g, f)
    BY <1>1 DEF Call
  <2>2. ASSUME NEW m \in Directions, ReadOrWrite(g, m, f) PROVE IInv'
    BY <2>2, RWLockInv, NetFDAssumption DEF ReadOrWrite, CanCall
  <2>3. QED
    BY <2>1, <2>2, IncrefInv, IncrefAndCloseInv
<1>2. ASSUME NEW g \in Goroutines, IO(g) PROVE IInv'
  BY <1>2, ResetInv, SyscallInv, PollWaitInv, BlockInv, RecheckInv, ParkInv, UnparkedInv,
     RWUnlockInv DEF IO
<1>3. ASSUME NEW g \in Goroutines, Work(g) PROVE IInv'
  <2>1. ASSUME Retry(g) PROVE IInv'
    <3>1. pc[g] = "lock" /\ Mode(g) \in Modes /\ op[g].fd \in FDs /\ op[g].fd \in 1..opened
      BY <2>1, OwnFD DEF Retry, IInv, CallInv
    <3>2. PICK m \in Modes, f \in FDs : m = Mode(g) /\ f = op[g].fd
      BY <3>1
    <3>3. Trying(g, f, m) /\ RWLock(g, m, f)
      BY <2>1, <3>2 DEF Retry, Trying
    <3>4. QED
      BY <3>1, <3>2, <3>3, RWLockInv
  <2>2. QED
    BY <1>2, <1>3, <2>1, WakeStepInv, SetDeadlineInv, EvictInv, DecrefInv, DestroyInv DEF Work
<1>4. CASE Critical
  BY <1>4, DeadlineImplInv, ExpireInv, UnblockLockedInv, UnlockInv DEF Critical
<1>5. CASE UNCHANGED vars
  BY <1>5, StutterInv
<1>6. QED
  BY <1>1, <1>3, <1>4, <1>5, PollReadyInv, ArriveInv, FireInv, PollInv, OpenInv DEF Next

\* References, locks, wakeups and deadlines agree between any two steps, whatever
\* the goroutines, descriptors and deadlines.
THEOREM Invariant == Spec => []IInv
<1>1. Init => IInv
  BY InitInv
<1>2. IInv /\ [Next]_vars => IInv'
  BY NextInv
<1>3. QED
  BY <1>1, <1>2, PTL DEF Spec

LEMMA InvNoThrow == IInv => NoThrow
<1> SUFFICES ASSUME IInv PROVE NoThrow
  OBVIOUS
<1>1. ASSUME NEW g \in Goroutines, pc[g] = "block" PROVE rw[Mode(g)] \in {"nil", "ready"}
  BY <1>1, OwnWord, PointsKnown
<1>2. ASSUME NEW g \in Goroutines, pc[g] = "xchg" PROVE rw[Mode(g)] \notin Goroutines
  BY <1>2, OwnWord, PointsKnown
<1>3. ASSUME NEW g \in Goroutines, pc[g] = "evict" PROVE ~pd.closing
  BY <1>3 DEF IInv, CloseInv
<1>4. ASSUME NEW g \in Goroutines, pc[g] = "destroy"
      PROVE  pd.closing /\ \A m \in Modes : rw[m] \in {"nil", "ready"}
  <2>1. \A h \in Goroutines : pc[h] \notin RefPoints
    BY <1>4, PointsKnown DEF IInv, OwnerInv
  <2>2. op[g].fd = pd.fd /\ pd.fd \in FDs /\ mu[pd.fd].closed
    BY <1>4, OwnFD DEF IInv, OwnerInv
  <2>3. pd.closing
    BY <2>1, <2>2, NetFDAssumption, PointsKnown DEF IInv, CloseInv, FDs
  <2>4. QED
    BY <2>1, <2>3, Deserted
<1>5. ASSUME pd.fd = 0 PROVE \A m \in Modes : rw[m] \in {"nil", "ready"}
  <2>1. ASSUME NEW g \in Goroutines, pc[g] \in RefPoints PROVE FALSE
    <3>1. op[g].fd = 0 /\ op[g].fd \in FDs
      BY <1>5, <2>1, OwnFD, PointsKnown DEF IInv, OwnerInv
    <3>2. QED
      BY <3>1, NetFDAssumption DEF FDs
  <2>2. QED
    BY <2>1, Deserted
<1>6. ASSUME firing # NoFire, firing.seq = pd.seq, cs.holder # Timer, NEW m \in FiredModes
      PROVE  deadline[m] > 0 /\ (timer[m].f # None \/ (firing.f = "both" /\ m = "w"))
  BY <1>6 DEF IInv, TimerInv, ForDeadline
<1>7. QED
  BY <1>1, <1>2, <1>3, <1>4, <1>5, <1>6 DEF NoThrow

\* The throws of netpoll.go cannot happen, whatever stale timers and events there are.
THEOREM NothingThrows == Spec => []NoThrow
<1>1. IInv => NoThrow
  BY InvNoThrow
<1>2. QED
  BY <1>1, Invariant, PTL

LEMMA InvNoLostWakeup == IInv => NoLostWakeup
<1> SUFFICES ASSUME IInv, NEW g \in Goroutines
             PROVE  /\ pc[g] = "parked" /\ g \notin cs.woken =>
                         /\ rw[Mode(g)] = g
                         /\ Mode(g) \in avail => Mode(g) \in edge \cup inflight
                         /\ Failed(Mode(g)) => Mode(g) \in cs.todo
                    /\ pc[g] = "sleep" =>
                         \/ sema[op[g].fd][Mode(g)] > 0
                         \/ /\ ~mu[op[g].fd].closed
                            /\ \/ Mode(g) \in mu[op[g].fd].lock
                               \/ \E h \in Goroutines : Trying(h, op[g].fd, Mode(g))
  BY DEF NoLostWakeup
<1>1. ASSUME pc[g] = "parked", g \notin cs.woken
      PROVE  /\ rw[Mode(g)] = g
             /\ Mode(g) \in avail => Mode(g) \in edge \cup inflight
             /\ Failed(Mode(g)) => Mode(g) \in cs.todo
  BY <1>1, NetFDAssumption DEF IInv, WakeInv
<1>2. ASSUME pc[g] = "sleep"
      PROVE  \/ sema[op[g].fd][Mode(g)] > 0
             \/ /\ ~mu[op[g].fd].closed
                /\ \/ Mode(g) \in mu[op[g].fd].lock
                   \/ \E h \in Goroutines : Trying(h, op[g].fd, Mode(g))
  <2>1. PICK f \in FDs : f = op[g].fd
    BY <1>2, OwnFD
  <2>2. PICK m \in Modes : m = Mode(g)
    BY <1>2 DEF IInv, CallInv
  <2>3. Sleeping(f, m) \subseteq Goroutines /\ g \in Sleeping(f, m)
    BY <1>2, <2>1, <2>2 DEF Sleeping
  <2>4. Sleeps(f, m) \in Nat /\ Sleeps(f, m) # 0
    <3>1. IsFiniteSet(Sleeping(f, m))
      BY <2>3, NetFDAssumption, FS_Subset
    <3>2. QED
      BY <2>3, <3>1, FS_EmptySet, FS_CardinalityType DEF Sleeps
  <2>5. mu[f].wait \in [Modes -> Nat] /\ sema[f] \in [Modes -> Nat] /\ RefsAt(f)
    BY Words
  <2>6. /\ mu[f].wait[m] + sema[f][m] = Sleeps(f, m)
        /\ mu[f].closed => mu[f].wait[m] = 0
        /\ mu[f].wait[m] > 0 =>
             m \in mu[f].lock \/ sema[f][m] > 0 \/ \E h \in Goroutines : Trying(h, f, m)
    BY <2>5 DEF RefsAt
  <2>7. sema[f][m] > 0 \/ mu[f].wait[m] > 0
    BY <2>4, <2>5, <2>6
  <2>8. QED
    BY <2>1, <2>2, <2>6, <2>7
<1>3. QED
  BY <1>1, <1>2

\* Nobody sleeps on although it could go on and nobody will wake it.
THEOREM WakeupsAreKept == Spec => []NoLostWakeup
<1>1. IInv => NoLostWakeup
  BY InvNoLostWakeup
<1>2. QED
  BY <1>1, Invariant, PTL

\* Nobody but the holder of pd.lock touches the deadlines.
LEMMA OnlyExpire ==
  ASSUME Next, cs.holder = Timer, deadline' # deadline
  PROVE  Expire
<1>1. Timer # None
  BY NetFDAssumption DEF None
<1>2. ASSUME NEW g \in Goroutines, Call(g)
      PROVE  FALSE
  <2>1. ASSUME NEW f \in FDs, NEW m \in Directions, ReadOrWrite(g, m, f)
        PROVE  FALSE
    BY <2>1 DEF ReadOrWrite, RWLock, pdVars
  <2>2. ASSUME NEW f \in FDs, Incref(g, f)
        PROVE  FALSE
    BY <2>2 DEF Incref, pdVars
  <2>3. ASSUME NEW f \in FDs, IncrefAndClose(g, f)
        PROVE  FALSE
    BY <2>3 DEF IncrefAndClose, pdVars
  <2>4. QED
    BY <1>2, <2>1, <2>2, <2>3 DEF Call
<1>3. ASSUME NEW g \in Goroutines, IO(g)
      PROVE  FALSE
  <2>1. CASE Reset(g)
    BY <2>1 DEF Reset, pdVars
  <2>2. CASE Syscall(g)
    BY <2>2 DEF Syscall, pdVars
  <2>3. CASE PollWait(g)
    BY <2>3 DEF PollWait, pdVars
  <2>4. CASE Block(g)
    BY <2>4 DEF Block, pdVars
  <2>5. CASE Recheck(g)
    BY <2>5 DEF Recheck, pdVars
  <2>6. CASE Park(g)
    BY <2>6 DEF Park, pdVars
  <2>7. CASE Unparked(g)
    BY <2>7 DEF Unparked, pdVars
  <2>8. CASE RWUnlock(g)
    BY <2>8 DEF RWUnlock, pdVars
  <2>9. QED
    BY <1>3, <2>1, <2>2, <2>3, <2>4, <2>5, <2>6, <2>7, <2>8 DEF IO
<1>4. ASSUME NEW g \in Goroutines, Work(g)
      PROVE  FALSE
  <2>1. CASE Wake(g)
    BY <2>1 DEF Wake, pdVars
  <2>2. CASE Retry(g)
    BY <2>2 DEF Retry, RWLock, pdVars
  <2>3. CASE SetDeadline(g)
    BY <2>3, <1>1 DEF SetDeadline
  <2>4. CASE Evict(g)
    BY <2>4 DEF Evict
  <2>5. CASE Decref(g)
    BY <2>5 DEF Decref, pdVars
  <2>6. CASE Destroy(g)
    BY <2>6 DEF Destroy
  <2>7. QED
    BY <1>3, <1>4, <2>1, <2>2, <2>3, <2>4, <2>5, <2>6 DEF Work
<1>5. ASSUME NEW m \in Modes, PollReady(m) \/ Arrive(m) \/ Fire(m)
      PROVE  FALSE
  BY <1>5 DEF PollReady, Arrive, Fire, pdVars
<1>6. ASSUME Poll \/ Open
      PROVE  FALSE
  BY <1>1, <1>6 DEF Poll, Open, pdVars
<1>7. CASE Critical
  BY <1>7 DEF Critical, DeadlineImpl, UnblockLocked, Unlock
<1>8. QED
  BY <1>2, <1>4, <1>5, <1>6, <1>7 DEF Next

\* A timer makes only that deadline pass for which it was started, on the
\* descriptor it was started for.
THEOREM TimersKeepToTheirDeadlines == Spec => OwnDeadlines
<1>1. ASSUME IInv, [Next]_vars
      PROVE  [\A m \in Modes : cs.holder = Timer /\ deadline'[m] # deadline[m] =>
                deadline[m] = firing.when /\ pd.fd = firing.fd]_vars
  <2> SUFFICES ASSUME NEW m \in Modes, cs.holder = Timer, deadline'[m] # deadline[m]
               PROVE  deadline[m] = firing.when /\ pd.fd = firing.fd
    OBVIOUS
  <2>1. Expire
    <3>1. deadline' # deadline
      OBVIOUS
    <3>2. Next
      BY <1>1, <3>1 DEF vars, pdVars
    <3>3. QED
      BY <3>1, <3>2, OnlyExpire
  <2>2. cs \in Sections /\ deadline \in [Modes -> {-1, 0} \cup Times]
    BY <1>1, TypeParts DEF IInv, PdType
  <2>3. m = First(cs.expire) /\ m \in cs.expire
    <3>1. First(cs.expire) \in cs.expire
      BY <2>1, <2>2 DEF First, Expire, Sections, Modes
    <3>2. deadline' = [deadline EXCEPT ![First(cs.expire)] = -1]
      BY <2>1 DEF Expire
    <3>3. QED
      BY <2>2, <3>1, <3>2
  <2>4. QED
    BY <1>1, <2>3 DEF IInv, TimerInv, ForDeadline
<1>2. QED
  BY <1>1, Invariant, PTL DEF Spec, OwnDeadlines
=============================================================================
