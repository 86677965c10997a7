--------------------------------- MODULE NetFD ---------------------------------
(***************************************************************************)
(* A network descriptor: the fdMutex of package net, which serialises      *)
(* reads and writes and counts references (net/fd_mutex.go, fd_unix.go),   *)
(* over a descriptor of the runtime's poller (runtime/netpoll.go) on       *)
(* edge-triggered epoll, with its deadline timers and timerproc.           *)
(*                                                                         *)
(* A step is one access to a word that is shared without the pd.lock; the  *)
(* release of a semaphore belongs to the step that decides on it.  The     *)
(* descriptors 1, 2, ... are opened one after the other and all get the    *)
(* same pollDesc from pollcache.                                           *)
(***************************************************************************)
EXTENDS Integers, FiniteSets

CONSTANTS
  Users, Closers, Setters,  \* goroutines: who reads and writes, closes, sets deadlines
  Directions,   \* of input and output: "r", "w" or both
  Times,        \* to which deadlines are set
  Timer,        \* timerproc, where it holds the pd.lock
  MaxFD,        \* bound: descriptors opened
  MaxSets       \* bound: calls that set deadlines; pd.seq tells their number

Goroutines == Users \cup Closers \cup Setters
Modes == {"r", "w"}

ASSUME NetFDAssumption ==
  /\ MaxFD \in Nat /\ MaxSets \in Nat
  /\ Directions \subseteq Modes /\ Times \subseteq Nat \ {0}
  /\ IsFiniteSet(Goroutines)
  /\ Timer \notin Goroutines \cup {"none"}
  /\ {"nil", "ready", "wait", "none"} \cap Goroutines = {}

VARIABLES
  mu,        \* the word of each fdMutex
  sema,      \* rsema and wsema of each
  opened,    \* how many descriptors have been opened
  pd,        \* fd, closing and seq of the pollDesc; fd = 0 while it is free
  rw,        \* its rg and wg
  deadline,  \* its rd and wd: 0 none, -1 passed, or a time to come
  timer,     \* its rt and wt: f, seq, when; armed while in the heap of timers
  firing,    \* what timerproc has taken off the heap
  cs,        \* the critical section of pd.lock: its holder, the deadlines it has
             \* still to expire, the words it has to unblock and the goroutines
             \* it will make ready
  avail,     \* the directions in which the kernel would not say EAGAIN
  edge,      \* those with an event that epoll has not reported
  inflight,  \* those with an event that netpoll has and has not acted on
  pc, op     \* of each goroutine: its point and the call it is in

muVars == <<mu, sema, opened>>
pdVars == <<pd, deadline, timer, firing, cs>>
kernelVars == <<avail, edge, inflight>>
vars == <<muVars, pdVars, rw, kernelVars, pc, op>>

FDs  == 1..MaxFD
None == "none"

NoTimer == [f |-> None, seq |-> 0, when |-> 0, armed |-> FALSE]
NoFire  == [f |-> None, seq |-> 0, when |-> 0, fd |-> 0, mode |-> "r"]
NoCS    == [holder |-> None, expire |-> {}, todo |-> {}, woken |-> {}]
NoOp    == [call |-> None, fd |-> 0, left |-> 0]

IOPoints == {"reset", "sys", "wait", "block", "recheck", "commit", "parked", "xchg", "unlock"}
RefPoints == IOPoints \cup {"set", "evict", "cs", "decref"}
Points == RefPoints \cup {"idle", "lock", "sleep", "destroy"}

TypeOK ==
  /\ mu \in [FDs -> [closed : BOOLEAN, lock : SUBSET Modes, ref : Nat, wait : [Modes -> Nat]]]
  /\ sema \in [FDs -> [Modes -> Nat]] /\ opened \in 0..MaxFD
  /\ pd \in [fd : 0..MaxFD, closing : BOOLEAN, seq : Nat]
  /\ rw \in [Modes -> {"nil", "ready", "wait"} \cup Goroutines]
  /\ deadline \in [Modes -> {-1, 0} \cup Times]
  /\ timer \in [Modes -> [f : {None, "one", "both"}, seq : Nat, when : {0} \cup Times,
                          armed : BOOLEAN]]
  /\ firing \in [f : {None, "one", "both"}, seq : Nat, when : {0} \cup Times, fd : 0..MaxFD,
                 mode : Modes]
  /\ cs \in [holder : Goroutines \cup {Timer, None}, expire : SUBSET Modes,
             todo : SUBSET Modes, woken : SUBSET Goroutines]
  /\ avail \in SUBSET Modes /\ edge \in SUBSET Modes /\ inflight \in SUBSET Modes
  /\ pc \in [Goroutines -> Points]
  /\ op \in [Goroutines -> [call : Modes \cup {None, "close", "deadline"},
                            fd : 0..MaxFD, left : 0..2]]

Init ==
  /\ mu = [f \in FDs |-> [closed |-> FALSE, lock |-> {}, ref |-> 0,
                          wait |-> [m \in Modes |-> 0]]]
  /\ sema = [f \in FDs |-> [m \in Modes |-> 0]] /\ opened = 0
  /\ pd = [fd |-> 0, closing |-> FALSE, seq |-> 0]
  /\ rw = [m \in Modes |-> "nil"] /\ deadline = [m \in Modes |-> 0]
  /\ timer = [m \in Modes |-> NoTimer] /\ firing = NoFire /\ cs = NoCS
  /\ avail = {} /\ edge = {} /\ inflight = {}
  /\ pc = [g \in Goroutines |-> "idle"] /\ op = [g \in Goroutines |-> NoOp]

Goto(g, p) == pc' = [pc EXCEPT ![g] = p] /\ UNCHANGED op

Return(g) == pc' = [pc EXCEPT ![g] = "idle"] /\ op' = [op EXCEPT ![g] = NoOp]

Mode(g) == op[g].call

\* A goroutine may make a call on any descriptor there has been.
Begin(g, c, f, p) ==
  /\ pc' = [pc EXCEPT ![g] = p]
  /\ op' = [op EXCEPT ![g] = [call |-> c, fd |-> f, left |-> IF c = "w" THEN 2 ELSE 1]]

CanCall(g, f) == pc[g] = "idle" /\ f \in 1..opened
-----------------------------------------------------------------------------
(* fdMutex *)

\* RWLock, in Read and Write: one lock per direction; who finds it taken counts
\* itself in and sleeps.
RWLock(g, m, f) ==
  /\ \/ mu[f].closed /\ Return(g) /\ UNCHANGED mu
     \/ /\ ~mu[f].closed /\ m \notin mu[f].lock
        /\ mu' = [mu EXCEPT ![f].lock = @ \cup {m}, ![f].ref = @ + 1]
        /\ Begin(g, m, f, "reset")
     \/ /\ ~mu[f].closed /\ m \in mu[f].lock
        /\ mu' = [mu EXCEPT ![f].wait[m] = @ + 1]
        /\ Begin(g, m, f, "sleep")
  /\ UNCHANGED <<sema, opened, pdVars, rw, kernelVars>>

ReadOrWrite(g, m, f) == g \in Users /\ CanCall(g, f) /\ RWLock(g, m, f)

Retry(g) == pc[g] = "lock" /\ RWLock(g, Mode(g), op[g].fd)

\* runtime_Semacquire, after which the lock is tried again.
Wake(g) ==
  /\ pc[g] = "sleep" /\ sema[op[g].fd][Mode(g)] > 0
  /\ sema' = [sema EXCEPT ![op[g].fd][Mode(g)] = @ - 1]
  /\ Goto(g, "lock")
  /\ UNCHANGED <<mu, opened, pdVars, rw, kernelVars>>

\* What RWUnlock and Decref tell their caller: the last one destroys a closed fd.
Released(g, word) ==
  IF word.closed /\ word.ref = 0 THEN Goto(g, "destroy") ELSE Return(g)

\* RWUnlock: a waiter, if there is one, is counted out and woken.
Waiter(word, m) == IF word.wait[m] > 0 THEN 1 ELSE 0

Unlocked(word, m) ==
  [closed |-> word.closed, lock |-> word.lock \ {m}, ref |-> word.ref - 1,
   wait |-> [word.wait EXCEPT ![m] = @ - Waiter(word, m)]]

RWUnlock(g) ==
  /\ pc[g] = "unlock"
  /\ LET f == op[g].fd
         m == Mode(g)
     IN /\ mu' = [mu EXCEPT ![f] = Unlocked(@, m)]
        /\ sema' = [sema EXCEPT ![f][m] = @ + Waiter(mu[f], m)]
        /\ Released(g, mu'[f])
  /\ UNCHANGED <<opened, pdVars, rw, kernelVars>>

\* Incref, for a call that sets deadlines.
Incref(g, f) ==
  /\ g \in Setters /\ CanCall(g, f) /\ pd.seq < MaxSets + 2 * opened - 1
  /\ ~mu[f].closed
  /\ mu' = [mu EXCEPT ![f].ref = @ + 1]
  /\ Begin(g, "deadline", f, "set")
  /\ UNCHANGED <<sema, opened, pdVars, rw, kernelVars>>

Decref(g) ==
  /\ pc[g] = "decref"
  /\ mu' = [mu EXCEPT ![op[g].fd].ref = @ - 1]
  /\ Released(g, mu'[op[g].fd])
  /\ UNCHANGED <<sema, opened, pdVars, rw, kernelVars>>

\* Faulty variant: the waiters stay counted in.
IncrefAndCloseKeepsWaiters(g, f) ==
  /\ g \in Closers /\ CanCall(g, f)
  /\ ~mu[f].closed
  /\ mu' = [mu EXCEPT ![f].closed = TRUE, ![f].ref = @ + 1]
  /\ sema' = [sema EXCEPT ![f] = [m \in Modes |-> @[m] + mu[f].wait[m]]]
  /\ Begin(g, "close", f, "evict")
  /\ UNCHANGED <<opened, pdVars, rw, kernelVars>>

\* IncrefAndClose, in Close: the waiters of both locks are counted out, all of
\* them, and then woken.
IncrefAndClose(g, f) ==
  /\ g \in Closers /\ CanCall(g, f)
  /\ ~mu[f].closed
  /\ mu' = [mu EXCEPT ![f].closed = TRUE, ![f].ref = @ + 1, ![f].wait = [m \in Modes |-> 0]]
  /\ sema' = [sema EXCEPT ![f] = [m \in Modes |-> @[m] + mu[f].wait[m]]]
  /\ Begin(g, "close", f, "evict")
  /\ UNCHANGED <<opened, pdVars, rw, kernelVars>>
-----------------------------------------------------------------------------
(* The goroutine that does input or output *)

\* netpollcheckerr
Failed(m) == pd.closing \/ deadline[m] < 0

\* pollReset
Reset(g) ==
  /\ pc[g] = "reset"
  /\ IF Failed(Mode(g))
     THEN Goto(g, "unlock") /\ UNCHANGED rw
     ELSE rw' = [rw EXCEPT ![Mode(g)] = "nil"] /\ Goto(g, "sys")
  /\ UNCHANGED <<muVars, pdVars, kernelVars>>

\* The system call takes some or all of what there is; a Write may have to go on.
Syscall(g) ==
  /\ pc[g] = "sys"
  /\ IF Mode(g) \in avail
     THEN /\ \/ avail' = avail \ {Mode(g)} \/ UNCHANGED avail
          /\ \/ Goto(g, "unlock")
             \/ /\ op[g].left > 1
                /\ op' = [op EXCEPT ![g].left = @ - 1] /\ UNCHANGED pc
     ELSE Goto(g, "wait") /\ UNCHANGED avail
  /\ UNCHANGED <<muVars, pdVars, rw, edge, inflight>>

\* pollWait: the test of errors, before the first netpollblock and after each
\* that was in vain.
PollWait(g) ==
  /\ pc[g] = "wait"
  /\ Goto(g, IF Failed(Mode(g)) THEN "unlock" ELSE "block")
  /\ UNCHANGED <<muVars, pdVars, rw, kernelVars>>

\* netpollblock: a notification that is there already is taken; else it will be
\* noticed from now on.
Block(g) ==
  /\ pc[g] = "block"
  /\ rw[Mode(g)] \in {"nil", "ready"}
  /\ LET ready == rw[Mode(g)] = "ready"
     IN /\ rw' = [rw EXCEPT ![Mode(g)] = IF ready THEN "nil" ELSE "wait"]
        /\ Goto(g, IF ready THEN "sys" ELSE "recheck")
  /\ UNCHANGED <<muVars, pdVars, kernelVars>>

\* Faulty variant: errors are not looked at again.
RecheckNothing(g) ==
  /\ pc[g] = "recheck"
  /\ Goto(g, "commit")
  /\ UNCHANGED <<muVars, pdVars, rw, kernelVars>>

\* Errors are looked at again now that who makes one looks at the word.
Recheck(g) ==
  /\ pc[g] = "recheck"
  /\ Goto(g, IF Failed(Mode(g)) THEN "xchg" ELSE "commit")
  /\ UNCHANGED <<muVars, pdVars, rw, kernelVars>>

\* netpollblockcommit: it sleeps unless something has come since.
Park(g) ==
  /\ pc[g] = "commit"
  /\ IF rw[Mode(g)] = "wait"
     THEN rw' = [rw EXCEPT ![Mode(g)] = g] /\ Goto(g, "parked")
     ELSE Goto(g, "xchg") /\ UNCHANGED rw
  /\ UNCHANGED <<muVars, pdVars, kernelVars>>

\* The end of netpollblock.
Unparked(g) ==
  /\ pc[g] = "xchg"
  /\ rw' = [rw EXCEPT ![Mode(g)] = "nil"]
  /\ Goto(g, IF rw[Mode(g)] = "ready" THEN "sys" ELSE "wait")
  /\ UNCHANGED <<muVars, pdVars, kernelVars>>
-----------------------------------------------------------------------------
(* Who wakes it: the poller, deadlines and Close *)

\* netpollunblock: what becomes of the word, and the goroutine to make ready.
Unblock(m, ioready) ==
  IF rw[m] = "ready" \/ (rw[m] = "nil" /\ ~ioready) THEN UNCHANGED rw
  ELSE rw' = [rw EXCEPT ![m] = IF ioready THEN "ready" ELSE "nil"]

Blocked(m) == {rw[m]} \cap Goroutines

\* goready: the goroutines go on where they parked.
Unpark(gs) == [g \in Goroutines |-> IF g \in gs THEN "xchg" ELSE pc[g]]

\* epoll_wait reports the events of the descriptor,
Poll ==
  /\ edge # {}
  /\ inflight' = inflight \cup edge /\ edge' = {}
  /\ UNCHANGED <<muVars, pdVars, rw, avail, pc, op>>

\* and netpollready acts on them, be it for the next one that has the pollDesc.
PollReady(m) ==
  /\ m \in inflight
  /\ inflight' = inflight \ {m}
  /\ Unblock(m, TRUE)
  /\ pc' = Unpark(Blocked(m))
  /\ UNCHANGED <<muVars, pdVars, avail, edge, op>>

\* The peer sends data, or makes room for ours: an event, each time.
Arrive(m) ==
  /\ pd.fd # 0 /\ m \in Directions
  /\ avail' = avail \cup {m} /\ edge' = edge \cup {m}
  /\ UNCHANGED <<muVars, pdVars, rw, inflight, pc, op>>

\* timerproc takes a timer off the heap when its time has come.
Fire(m) ==
  /\ firing = NoFire /\ timer[m].armed
  /\ firing' = [f |-> timer[m].f, seq |-> timer[m].seq, when |-> timer[m].when,
                fd |-> pd.fd, mode |-> m]
  /\ timer' = [timer EXCEPT ![m].armed = FALSE]
  /\ UNCHANGED <<muVars, pd, deadline, cs, rw, kernelVars, pc, op>>

FiredModes == IF firing.f = "both" THEN Modes ELSE {firing.mode}

\* Faulty variant: a timer that was replaced or is of a closed descriptor counts.
DeadlineImplAnySeq ==
  /\ firing # NoFire /\ cs.holder = None
  /\ cs' = [NoCS EXCEPT !.holder = Timer, !.expire = FiredModes]
  /\ UNCHANGED <<muVars, pd, deadline, timer, firing, rw, kernelVars, pc, op>>

\* netpolldeadlineimpl, which it calls then, does nothing if the deadlines are
\* others by now.
DeadlineImpl ==
  /\ firing # NoFire /\ cs.holder = None
  /\ IF firing.seq # pd.seq
     THEN firing' = NoFire /\ UNCHANGED cs
     ELSE cs' = [NoCS EXCEPT !.holder = Timer, !.expire = FiredModes] /\ UNCHANGED firing
  /\ UNCHANGED <<muVars, pd, deadline, timer, rw, kernelVars, pc, op>>

First(ms) == IF "r" \in ms THEN "r" ELSE "w"

\* A deadline passes; who sleeps is unblocked before the other one does.
Expire ==
  /\ cs.expire # {} /\ cs.todo = {}
  /\ LET m == First(cs.expire)
     IN /\ deadline' = [deadline EXCEPT ![m] = -1]
        /\ timer' = [timer EXCEPT ![m].f = None]
        /\ cs' = [cs EXCEPT !.expire = @ \ {m}, !.todo = {m}]
  /\ UNCHANGED <<muVars, pd, firing, rw, kernelVars, pc, op>>

\* The timers for deadlines d: a single one for two that are the same.
TimersFor(d, seq) ==
  LET New(f, m) == [f |-> f, seq |-> seq, when |-> d[m], armed |-> TRUE]
  IN IF d["r"] > 0 /\ d["r"] = d["w"]
     THEN [m \in Modes |-> IF m = "r" THEN New("both", "r") ELSE NoTimer]
     ELSE [m \in Modes |-> IF d[m] > 0 THEN New("one", m) ELSE NoTimer]

\* Faulty variant: the timers that are replaced stay valid.
SetDeadlineSameSeq(g) ==
  /\ pc[g] = "set" /\ cs.holder = None
  /\ IF pd.closing
     THEN Goto(g, "decref") /\ UNCHANGED <<pd, deadline, timer, cs>>
     ELSE /\ \E ms \in SUBSET Modes \ {{}}, t \in {-1, 0} \cup Times :
               deadline' = [m \in Modes |-> IF m \in ms THEN t ELSE deadline[m]]
          /\ timer' = TimersFor(deadline', pd.seq)
          /\ cs' = [NoCS EXCEPT !.holder = g, !.todo = {m \in Modes : deadline'[m] < 0}]
          /\ Goto(g, "cs") /\ UNCHANGED pd
  /\ UNCHANGED <<muVars, firing, rw, kernelVars>>

\* pollSetDeadline, for one direction or both; t = -1 is a time that has passed.
SetDeadline(g) ==
  /\ pc[g] = "set" /\ cs.holder = None
  /\ IF pd.closing
     THEN Goto(g, "decref") /\ UNCHANGED <<pd, deadline, timer, cs>>
     ELSE /\ pd' = [pd EXCEPT !.seq = @ + 1]
          /\ \E ms \in SUBSET Modes \ {{}}, t \in {-1, 0} \cup Times :
               deadline' = [m \in Modes |-> IF m \in ms THEN t ELSE deadline[m]]
          /\ timer' = TimersFor(deadline', pd.seq + 1)
          /\ cs' = [NoCS EXCEPT !.holder = g, !.todo = {m \in Modes : deadline'[m] < 0}]
          /\ Goto(g, "cs")
  /\ UNCHANGED <<muVars, firing, rw, kernelVars>>

\* pollUnblock, for Close.
Evict(g) ==
  /\ pc[g] = "evict" /\ cs.holder = None
  /\ pd' = [pd EXCEPT !.closing = TRUE, !.seq = @ + 1]
  /\ cs' = [NoCS EXCEPT !.holder = g, !.todo = Modes]
  /\ Goto(g, "cs")
  /\ UNCHANGED <<muVars, deadline, timer, firing, rw, kernelVars>>

\* In the critical section, after the store of what has changed: the words are
\* unblocked, first rg.
UnblockLocked ==
  /\ cs.todo # {}
  /\ LET m == First(cs.todo)
     IN /\ Unblock(m, FALSE)
        /\ cs' = [cs EXCEPT !.todo = @ \ {m}, !.woken = @ \cup Blocked(m)]
  /\ UNCHANGED <<muVars, pd, deadline, timer, firing, kernelVars, pc, op>>

\* It ends, after a Close has stopped the timers, and the goroutines are made ready.
Unlock ==
  /\ cs.holder # None /\ cs.todo = {} /\ cs.expire = {}
  /\ cs' = NoCS
  /\ timer' = [m \in Modes |-> IF pd.closing /\ cs.holder # Timer THEN NoTimer ELSE timer[m]]
  /\ IF cs.holder = Timer
     THEN firing' = NoFire /\ pc' = Unpark(cs.woken)
     ELSE pc' = [Unpark(cs.woken) EXCEPT ![cs.holder] = "decref"] /\ UNCHANGED firing
  /\ UNCHANGED <<muVars, pd, deadline, rw, kernelVars, op>>
-----------------------------------------------------------------------------
\* destroy: pollClose takes the descriptor out of epoll and frees the pollDesc.
Destroy(g) ==
  /\ pc[g] = "destroy"
  /\ pd' = [pd EXCEPT !.fd = 0]
  /\ avail' = {} /\ edge' = {}
  /\ Return(g)
  /\ UNCHANGED <<muVars, deadline, timer, firing, cs, rw, inflight>>

\* pollOpen of the next descriptor; what is ready at once is an event.
Open ==
  /\ pd.fd = 0 /\ opened < MaxFD /\ cs.holder = None
  /\ opened' = opened + 1
  /\ pd' = [fd |-> opened + 1, closing |-> FALSE, seq |-> pd.seq + 1]
  /\ rw' = [m \in Modes |-> "nil"] /\ deadline' = [m \in Modes |-> 0]
  /\ avail' \in SUBSET Directions /\ edge' = avail'
  /\ UNCHANGED <<mu, sema, timer, firing, cs, inflight, pc, op>>

IO(g) ==
  \/ Reset(g) \/ Syscall(g) \/ PollWait(g) \/ Block(g) \/ Recheck(g) \/ Park(g)
  \/ Unparked(g) \/ RWUnlock(g)

Call(g) ==
  \E f \in FDs : (\E m \in Directions : ReadOrWrite(g, m, f)) \/ Incref(g, f) \/ IncrefAndClose(g, f)

Work(g) ==
  IO(g) \/ Wake(g) \/ Retry(g) \/ SetDeadline(g) \/ Evict(g) \/ Decref(g) \/ Destroy(g)

Critical == DeadlineImpl \/ Expire \/ UnblockLocked \/ Unlock

Next ==
  \/ \E g \in Goroutines : Call(g) \/ Work(g)
  \/ \E m \in Modes : PollReady(m) \/ Arrive(m) \/ Fire(m)
  \/ Poll \/ Critical \/ Open

Spec == Init /\ [][Next]_vars
-----------------------------------------------------------------------------
Using(f)     == {g \in Goroutines : op[g].fd = f /\ pc[g] \in RefPoints}
Locking(f, m) == {g \in Using(f) : pc[g] \in IOPoints /\ Mode(g) = m}
Sleeping(f, m) == {g \in Goroutines : op[g].fd = f /\ pc[g] = "sleep" /\ Mode(g) = m}

\* Woken by a semaphore, g is about to try the lock again.
Trying(g, f, m) == pc[g] = "lock" /\ op[g].fd = f /\ Mode(g) = m

\* Where a call is, and who holds pd.lock.
CallInv ==
  /\ \A g \in Goroutines :
       /\ pc[g] # "idle" => op[g].fd \in 1..opened
       /\ pc[g] \in IOPoints \cup {"lock", "sleep"} => Mode(g) \in Modes
       /\ pc[g] = "cs" <=> cs.holder = g
  /\ cs.holder = None => cs = NoCS

\* The word of an fdMutex counts exactly: references and locks are those that
\* goroutines hold, waiters those that sleep and nobody has yet woken.  There are
\* waiters only beside somebody who will wake one.
RefsInv ==
  \A f \in FDs :
    /\ mu[f].ref = Cardinality(Using(f))
    /\ \A m \in Modes :
         /\ Cardinality(Locking(f, m)) = IF m \in mu[f].lock THEN 1 ELSE 0
         /\ mu[f].wait[m] + sema[f][m] = Cardinality(Sleeping(f, m))
         /\ mu[f].closed => mu[f].wait[m] = 0
         /\ mu[f].wait[m] > 0 =>
              \/ m \in mu[f].lock \/ sema[f][m] > 0
              \/ \E g \in Goroutines : Trying(g, f, m)

\* Whoever holds a reference, or destroys the descriptor, finds it open still, in
\* the pollDesc it has always had; one goroutine destroys it, the last.
OwnerInv ==
  /\ \A g \in Goroutines :
       /\ pc[g] \in RefPoints \cup {"destroy"} => op[g].fd = pd.fd
       /\ pc[g] = "destroy" => mu[op[g].fd].closed
  /\ \A g, h \in Goroutines : pc[g] = "destroy" /\ h # g => pc[h] \notin RefPoints \cup {"destroy"}
  /\ \A f \in FDs : IF f <= opened THEN mu[f].closed \/ f = pd.fd ELSE ~mu[f].closed

\* A closed descriptor has been evicted from its pollDesc, or one call is about to.
CloseInv ==
  /\ pd.fd # 0 =>
       (mu[pd.fd].closed <=> pd.closing \/ \E g \in Goroutines : pc[g] = "evict")
  /\ \A g, h \in Goroutines :
       pc[g] = "evict" => ~pd.closing /\ (pc[h] = "evict" => g = h)

\* What the words rg and wg say is so, and who is to be made ready is parked.
WordInv ==
  /\ \A m \in Modes :
       /\ rw[m] = "wait" =>
            \E g \in Goroutines : Mode(g) = m /\ pc[g] \in {"recheck", "commit", "xchg"}
       /\ rw[m] \in Goroutines => pc[rw[m]] = "parked" /\ Mode(rw[m]) = m
  /\ \A g \in cs.woken : pc[g] = "parked" /\ rw[Mode(g)] # g

\* A goroutine that has looked for data, or at the errors, in vain has been, or
\* will be, told of what has come since.
WakeInv ==
  \A g \in Goroutines :
    /\ pc[g] \in {"wait", "block", "recheck", "commit", "parked", "xchg"} /\ Mode(g) \in avail =>
         Mode(g) \in edge \cup inflight \/ rw[Mode(g)] = "ready"
    /\ \/ pc[g] = "commit" /\ rw[Mode(g)] = "wait"
       \/ pc[g] = "parked" /\ g \notin cs.woken
       => (Failed(Mode(g)) => Mode(g) \in cs.todo)
    /\ pc[g] = "parked" /\ g \notin cs.woken => rw[Mode(g)] = g

\* The deadlines that a timer of the present seq is for.
ForDeadline(f, when, ms) ==
  \A m \in ms : deadline[m] = when /\ (timer[m].f # None \/ (f = "both" /\ m = "w"))

\* What has the present seq, in the heap or taken off it, is for the deadlines
\* that are set, of the present descriptor.
TimerInv ==
  /\ \A m \in Modes :
       /\ timer[m].armed => timer[m].f # None
       /\ timer[m].f # None =>
            /\ timer[m].seq <= pd.seq /\ timer[m].when > 0 /\ (timer[m].f = "both" => m = "r")
            /\ timer[m].seq = pd.seq =>
                 /\ ~pd.closing /\ pd.fd # 0
                 /\ ForDeadline(timer[m].f, timer[m].when,
                                IF timer[m].f = "both" THEN Modes ELSE {m})
  /\ timer["r"].f = "both" => timer["w"].f = None
  /\ firing # NoFire => firing.f # None /\ firing.seq <= pd.seq /\ firing.when > 0
  /\ firing # NoFire /\ firing.seq = pd.seq =>
       /\ ~pd.closing /\ pd.fd = firing.fd
       /\ \A m \in FiredModes : ~timer[m].armed
       /\ ForDeadline(firing.f, firing.when,
                      IF cs.holder = Timer THEN cs.expire ELSE FiredModes)
  /\ cs.holder = Timer =>
       /\ firing # NoFire /\ firing.seq = pd.seq /\ cs.expire \subseteq FiredModes
       /\ \A m \in FiredModes \ cs.expire : timer[m].f = None
  /\ cs.expire # {} => cs.holder = Timer

\* References, locks, wakeups and deadlines agree between any two steps.
IInv ==
  /\ TypeOK
  /\ CallInv
  /\ RefsInv
  /\ OwnerInv
  /\ CloseInv
  /\ WordInv
  /\ WakeInv
  /\ TimerInv

\* The throws and panics of the two files cannot happen: no second wait on a
\* word and no goroutine left in it, no second eviction, no close without one,
\* and a deadline that passes has been set, with a timer.
NoThrow ==
  /\ \A g \in Goroutines :
       /\ pc[g] = "block" => rw[Mode(g)] \in {"nil", "ready"}
       /\ pc[g] = "xchg" => rw[Mode(g)] \notin Goroutines
       /\ pc[g] = "evict" => ~pd.closing
       /\ pc[g] = "destroy" => pd.closing /\ \A m \in Modes : rw[m] \in {"nil", "ready"}
  /\ pd.fd = 0 => \A m \in Modes : rw[m] \in {"nil", "ready"}
  /\ firing # NoFire /\ firing.seq = pd.seq /\ cs.holder # Timer =>
       \A m \in FiredModes :
         deadline[m] > 0 /\ (timer[m].f # None \/ (firing.f = "both" /\ m = "w"))

\* A goroutine does not sleep on a descriptor on which it could go on, or would
\* get an error, unless who will wake it is on the way; and not for a lock unless
\* it has been woken or somebody holds that lock, or is about to try it.
NoLostWakeup ==
  \A g \in Goroutines :
    /\ pc[g] = "parked" /\ g \notin cs.woken =>
         /\ rw[Mode(g)] = g
         /\ Mode(g) \in avail => Mode(g) \in edge \cup inflight
         /\ Failed(Mode(g)) => Mode(g) \in cs.todo
    /\ pc[g] = "sleep" =>
         \/ sema[op[g].fd][Mode(g)] > 0
         \/ /\ ~mu[op[g].fd].closed
            /\ \/ Mode(g) \in mu[op[g].fd].lock
               \/ \E h \in Goroutines : Trying(h, op[g].fd, Mode(g))

\* A timer makes only that deadline pass for which it was started, on the
\* descriptor it was started for.
OwnDeadlines ==
  [][\A m \in Modes : cs.holder = Timer /\ deadline'[m] # deadline[m] =>
       deadline[m] = firing.when /\ pd.fd = firing.fd]_vars
=============================================================================
