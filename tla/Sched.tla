--------------------------------- MODULE Sched ---------------------------------
(***************************************************************************)
(* Threads (Ms) and processors (Ps) of the scheduler, runtime/proc1.go: an *)
(* M needs a P to run goroutines; idle Ms park, some look for work (they   *)
(* spin) before they do; the P of an M in a system call can be taken by    *)
(* sysmon; and the world can be stopped.                                   *)
(*                                                                         *)
(* A step is one access to a word that is shared without sched.lock, or a  *)
(* critical section of it.  Goroutines are only counted.  A run queue is   *)
(* its length: RunQueue has the detail.  Reads whose order nobody can      *)
(* observe share a step: findrunnable's of gcwaiting, of its own queue,    *)
(* which only others shorten, and of the global queue.  The network poller *)
(* is left out, as in a program that never uses it, and so are threads     *)
(* locked to a goroutine.                                                  *)
(***************************************************************************)
EXTENDS Integers, FiniteSets, FiniteSetsExt

CONSTANTS
  Ms,       \* bound: the threads there can be
  Ps,
  Sysmon,   \* the thread that runs sysmon
  None,
  NG        \* how many goroutines there are

ASSUME SchedAssumption ==
  /\ IsFiniteSet(Ms) /\ IsFiniteSet(Ps) /\ Ps # {} /\ NG \in Nat \ {0}
  /\ Sysmon \notin Ms /\ None \notin Ms \cup Ps

VARIABLES
  pc,          \* of each M and sysmon
  ret,         \* where an M goes on after stopm
  mp,          \* m.p
  nextp,       \* m.nextp
  spinning,    \* m.spinning
  hand,        \* the P that is the argument of handoffp and startm
  todo,        \* the Ps whose queues findrunnable has still to look at again
  pm,          \* p.m
  status,      \* p.status
  q,           \* the length of p's run queue
  pidle,       \* sched.pidle; npidle is its size
  global,      \* sched.runqsize
  nmspinning,  \* sched.nmspinning
  nmidlelocked,
  gcwaiting, stopwait,
  waiting,     \* how many goroutines are in _Gwaiting
  dead,        \* what checkdead has reported: "no", "deadlock" or "throw"
  missed       \* history: whether a P was left idle although goroutines were queued

mVars == <<pc, ret, mp, nextp, spinning, hand, todo>>
pVars == <<pm, status, q, pidle>>
restVars == <<nmidlelocked, gcwaiting, stopwait, waiting, dead, missed>>
schedVars == <<global, nmspinning, restVars>>
vars == <<mVars, pVars, schedVars>>

Actors == Ms \cup {Sysmon}

\* Where a thread has a P of its own, where it has one to give away, and where it
\* is about to get one.
Wakeup   == {"npidle", "nspin", "reset", "found", "cas", "startidle", "undo"}
Working  == Wakeup \cup {"run", "sched", "find", "decide", "spin", "steal", "stop",
                        "gcstop", "stopping"}
Handoff  == {"hand", "handspin", "handidle", "handcas", "handlock", "start", "startspin"}
Starting == {"new", "woken"}
Calling  == {"entered", "insys"}
Points   == Working \cup Handoff \cup Starting \cup Calling \cup
  {"none", "parked", "released", "recheck", "again", "stopm", "exit", "idle", "retake", "inc"}

TypeOK ==
  /\ pc \in [Actors -> Points]
  /\ ret \in [Ms -> {"sched", "find"}]
  /\ mp \in [Ms -> Ps \cup {None}] /\ nextp \in [Ms -> Ps \cup {None}]
  /\ spinning \in [Ms -> BOOLEAN] /\ hand \in [Actors -> Ps \cup {None}]
  /\ todo \in [Ms -> SUBSET Ps]
  /\ pm \in [Ps -> Ms \cup {None}]
  /\ status \in [Ps -> {"idle", "running", "syscall", "gcstop"}]
  /\ q \in [Ps -> 0..NG] /\ pidle \in SUBSET Ps
  /\ global \in Nat /\ nmspinning \in Nat /\ nmidlelocked \in {-1, 0}
  /\ gcwaiting \in BOOLEAN /\ stopwait \in Nat
  /\ waiting \in Nat /\ dead \in {"no", "deadlock", "throw"} /\ missed \in BOOLEAN

\* One M runs the main goroutine; the others do not exist yet.
Init ==
  \E m0 \in Ms, p0 \in Ps :
    /\ pc = [a \in Actors |-> IF a = m0 THEN "run" ELSE IF a = Sysmon THEN "idle" ELSE "none"]
    /\ ret = [m \in Ms |-> "sched"]
    /\ mp = [m \in Ms |-> IF m = m0 THEN p0 ELSE None] /\ nextp = [m \in Ms |-> None]
    /\ spinning = [m \in Ms |-> FALSE] /\ hand = [a \in Actors |-> None]
    /\ todo = [m \in Ms |-> {}]
    /\ pm = [p \in Ps |-> IF p = p0 THEN m0 ELSE None]
    /\ status = [p \in Ps |-> IF p = p0 THEN "running" ELSE "idle"]
    /\ q = [p \in Ps |-> 0] /\ pidle = Ps \ {p0}
    /\ global = 0 /\ nmspinning = 0 /\ nmidlelocked = 0
    /\ gcwaiting = FALSE /\ stopwait = 0 /\ waiting = NG - 1 /\ dead = "no"
    /\ missed = FALSE

npidle == Cardinality(pidle)

Goto(a, p) == pc' = [pc EXCEPT ![a] = p]

\* Only a's point and those of some Ms it wakes change.
GotoAnd(a, p, ms, r) ==
  pc' = [b \in Actors |-> IF b = a THEN p ELSE IF b \in ms THEN r ELSE pc[b]]

\* acquirep and releasep.
Acquire(m, p) ==
  /\ mp' = [mp EXCEPT ![m] = p]
  /\ pm' = [pm EXCEPT ![p] = m]
  /\ status' = [status EXCEPT ![p] = "running"]

Release(m, s) ==
  /\ mp' = [mp EXCEPT ![m] = None]
  /\ pm' = [pm EXCEPT ![mp[m]] = None]
  /\ status' = [status EXCEPT ![mp[m]] = s]

\* checkdead, when the counts of idle threads have become these.
Checkdead(idle, locked) ==
  LET threads == Cardinality({m \in Ms : pc[m] # "none"})
      run == threads - idle - locked
  IN dead' = IF run > 0 THEN dead
             ELSE IF run < 0 \/ waiting < NG THEN "throw" ELSE "deadlock"

nmidle == Cardinality({m \in Ms : pc[m] = "parked"})

\* Goroutines wait in the queue of a P.
Queued == \E p \in Ps : q[p] > 0
-----------------------------------------------------------------------------
(* startm, wakep, handoffp *)

\* Where a goes on after startm: sysmon in retake, an M in its system call, or
\* with its goroutine.
After(a) == IF a = Sysmon THEN "inc" ELSE IF mp[a] = None THEN "insys" ELSE "run"

\* An idle M gets p, or a new one does.  What startm does after it has unlocked
\* only concerns what it has taken.
Give(a, p, spin) ==
  LET idle == {m \in Ms : pc[m] = "parked"}
      new  == {m \in Ms : pc[m] = "none"}
  IN /\ \E m \in IF idle # {} THEN idle ELSE new :
          /\ nextp' = [nextp EXCEPT ![m] = p]
          /\ GotoAnd(a, After(a), {m}, IF idle = {} /\ spin THEN "new" ELSE "woken")
          /\ spinning' = [spinning EXCEPT ![m] = idle # {} /\ spin]
     /\ hand' = [hand EXCEPT ![a] = None]

\* startm(p, false)
Start(a) ==
  /\ pc[a] = "start"
  /\ Give(a, hand[a], FALSE)
  /\ UNCHANGED <<ret, mp, todo, pVars, schedVars>>

\* startm(p, true), by handoffp,
StartSpinning(a) ==
  /\ pc[a] = "startspin"
  /\ Give(a, hand[a], TRUE)
  /\ UNCHANGED <<ret, mp, todo, pVars, schedVars>>

\* and startm(nil, true), by wakep.
StartIdle(m) ==
  /\ pc[m] = "startidle"
  /\ IF pidle = {}
     THEN Goto(m, "undo") /\ UNCHANGED <<nextp, spinning, hand, pidle>>
     ELSE \E p \in pidle : Give(m, p, TRUE) /\ pidle' = pidle \ {p}
  /\ UNCHANGED <<ret, mp, todo, pm, status, q, schedVars>>

\* There was no idle P; there may be by now.
Undo(m) ==
  /\ pc[m] = "undo"
  /\ missed' = (missed \/ (pidle # {} /\ Queued))
  /\ nmspinning' = nmspinning - 1
  /\ Goto(m, "run")
  /\ UNCHANGED <<ret, mp, nextp, spinning, hand, todo, pVars, global, nmidlelocked,
                gcwaiting, stopwait, waiting, dead>>

\* The two looks before wakep, in ready and startTheWorld; resetspinning has had
\* the second one first.
LookIdle(m) ==
  /\ pc[m] \in {"npidle", "found"}
  /\ Goto(m, IF pidle = {} THEN "run" ELSE IF pc[m] = "npidle" THEN "nspin" ELSE "cas")
  /\ UNCHANGED <<ret, mp, nextp, spinning, hand, todo, pVars, schedVars>>

LookSpinning(m) ==
  /\ pc[m] = "nspin"
  /\ Goto(m, IF nmspinning = 0 THEN "cas" ELSE "run")
  /\ UNCHANGED <<ret, mp, nextp, spinning, hand, todo, pVars, schedVars>>

\* resetspinning: an M that has found work is no longer spinning.
ResetSpinning(m) ==
  /\ pc[m] = "reset"
  /\ spinning' = [spinning EXCEPT ![m] = FALSE]
  /\ nmspinning' = IF spinning[m] THEN nmspinning - 1 ELSE nmspinning
  /\ Goto(m, IF nmspinning' = 0 THEN "found" ELSE "run")
  /\ UNCHANGED <<ret, mp, nextp, hand, todo, pVars, global, restVars>>

\* wakep: only one M at a time is made to spin this way.
Wakep(m) ==
  /\ pc[m] = "cas"
  /\ nmspinning' = IF nmspinning = 0 THEN 1 ELSE nmspinning
  /\ Goto(m, IF nmspinning = 0 THEN "startidle" ELSE "run")
  /\ UNCHANGED <<ret, mp, nextp, spinning, hand, todo, pVars, global, restVars>>

\* handoffp: a P with work gets an M; so does one that would be the only to look
\* for work;
HandLook(a) ==
  /\ pc[a] = "hand"
  /\ Goto(a, IF q[hand[a]] > 0 \/ global > 0 THEN "start" ELSE "handspin")
  /\ UNCHANGED <<ret, mp, nextp, spinning, hand, todo, pVars, schedVars>>

HandSpin(a) ==
  /\ pc[a] = "handspin"
  /\ Goto(a, IF nmspinning = 0 THEN "handidle" ELSE "handlock")
  /\ UNCHANGED <<ret, mp, nextp, spinning, hand, todo, pVars, schedVars>>

HandIdle(a) ==
  /\ pc[a] = "handidle"
  /\ Goto(a, IF npidle = 0 THEN "handcas" ELSE "handlock")
  /\ UNCHANGED <<ret, mp, nextp, spinning, hand, todo, pVars, schedVars>>

HandCas(a) ==
  /\ pc[a] = "handcas"
  /\ nmspinning' = IF nmspinning = 0 THEN 1 ELSE nmspinning
  /\ Goto(a, IF nmspinning = 0 THEN "startspin" ELSE "handlock")
  /\ UNCHANGED <<ret, mp, nextp, spinning, hand, todo, pVars, global, restVars>>

\* else, with the lock, it stops for stopTheWorld or becomes idle, unless work
\* has come.
HandLocked(a) ==
  /\ pc[a] = "handlock"
  /\ IF ~gcwaiting /\ global > 0
     THEN Goto(a, "start") /\ UNCHANGED <<hand, status, pidle, stopwait>>
     ELSE /\ Goto(a, After(a))
          /\ hand' = [hand EXCEPT ![a] = None]
          /\ IF gcwaiting
             THEN /\ status' = [status EXCEPT ![hand[a]] = "gcstop"]
                  /\ stopwait' = stopwait - 1
                  /\ UNCHANGED pidle
             ELSE pidle' = pidle \cup {hand[a]} /\ UNCHANGED <<status, stopwait>>
  /\ missed' = (missed \/ (pidle' # pidle /\ Queued))
  /\ UNCHANGED <<ret, mp, nextp, spinning, todo, pm, q, global, nmspinning, nmidlelocked,
                gcwaiting, waiting, dead>>
-----------------------------------------------------------------------------
(* schedule and findrunnable *)

\* globrunqget: one to run, and a share for p's queue.
Share(max) ==
  IF max > 0 THEN Min({max, global}) ELSE Min({global \div Cardinality(Ps) + 1, global})

TakeGlobal(p, max) ==
  /\ global' = global - Share(max)
  /\ q' = [q EXCEPT ![p] = @ + Share(max) - 1]

\* schedule: the global queue first, now and then; else the local one.
Schedule(m) ==
  /\ pc[m] = "sched"
  /\ \/ gcwaiting /\ Goto(m, "gcstop") /\ UNCHANGED <<q, global>>
     \/ ~gcwaiting /\ global > 0 /\ TakeGlobal(mp[m], 1) /\ Goto(m, "reset")
     \/ /\ ~gcwaiting /\ UNCHANGED global
        /\ IF q[mp[m]] > 0
           THEN q' = [q EXCEPT ![mp[m]] = @ - 1] /\ Goto(m, "run")
           ELSE Goto(m, "find") /\ UNCHANGED q
  /\ UNCHANGED <<ret, mp, nextp, spinning, hand, todo, pm, status, pidle, nmspinning,
                restVars>>

\* findrunnable: the same, and then whether to spin.
FindRunnable(m) ==
  /\ pc[m] = "find"
  /\ ret' = [ret EXCEPT ![m] = IF gcwaiting THEN "find" ELSE @]
  /\ IF gcwaiting THEN Goto(m, "gcstop") /\ UNCHANGED <<q, global>>
     ELSE IF q[mp[m]] > 0
     THEN q' = [q EXCEPT ![mp[m]] = @ - 1] /\ Goto(m, "reset") /\ UNCHANGED global
     ELSE IF global > 0 THEN TakeGlobal(mp[m], 0) /\ Goto(m, "reset")
     ELSE Goto(m, IF spinning[m] THEN "steal" ELSE "decide") /\ UNCHANGED <<q, global>>
  /\ UNCHANGED <<mp, nextp, spinning, hand, todo, pm, status, pidle, nmspinning, restVars>>

\* Not if half as many spin as are busy.
Decide(m) ==
  /\ pc[m] = "decide"
  /\ Goto(m, IF 2 * nmspinning >= Cardinality(Ps) - npidle THEN "stop" ELSE "spin")
  /\ UNCHANGED <<ret, mp, nextp, spinning, hand, todo, pVars, schedVars>>

Spin(m) ==
  /\ pc[m] = "spin"
  /\ spinning' = [spinning EXCEPT ![m] = TRUE]
  /\ nmspinning' = nmspinning + 1
  /\ Goto(m, "steal")
  /\ UNCHANGED <<ret, mp, nextp, hand, todo, pVars, global, restVars>>

\* Half of another P's queue, one of them to run; or nothing: the choice of the
\* others is random, and may miss the one that has work.
Steal(m) ==
  /\ pc[m] = "steal"
  /\ \/ gcwaiting /\ Goto(m, "find") /\ UNCHANGED q
     \/ /\ ~gcwaiting
        /\ \E p \in Ps \ {mp[m]} :
             /\ q[p] > 0
             /\ q' = [q EXCEPT ![p] = @ \div 2, ![mp[m]] = @ + q[p] - (q[p] \div 2) - 1]
        /\ Goto(m, "reset")
     \/ Goto(m, "stop") /\ UNCHANGED q
  /\ UNCHANGED <<ret, mp, nextp, spinning, hand, todo, pm, status, pidle, schedVars>>

\* Before the P is given up the global queue is looked at with the lock.
StopLocked(m) ==
  /\ pc[m] = "stop"
  /\ IF gcwaiting
     THEN Goto(m, "find") /\ UNCHANGED <<mp, pm, status, pidle, q, global>>
     ELSE IF global > 0
     THEN TakeGlobal(mp[m], 0) /\ Goto(m, "reset") /\ UNCHANGED <<mp, pm, status, pidle>>
     ELSE /\ Release(m, "idle")
          /\ pidle' = pidle \cup {mp[m]}
          /\ Goto(m, "released") /\ UNCHANGED <<q, global>>
  /\ UNCHANGED <<ret, nextp, spinning, hand, todo, nmspinning, restVars>>

\* It no longer spins, and only then
Released(m) ==
  /\ pc[m] = "released"
  /\ spinning' = [spinning EXCEPT ![m] = FALSE]
  /\ nmspinning' = IF spinning[m] THEN nmspinning - 1 ELSE nmspinning
  /\ todo' = [todo EXCEPT ![m] = Ps]
  /\ Goto(m, "recheck")
  /\ UNCHANGED <<ret, mp, nextp, hand, pVars, global, restVars>>

\* Faulty variant: no queue is looked at again.
RecheckNothing(m) ==
  /\ pc[m] = "recheck"
  /\ todo' = [todo EXCEPT ![m] = {}]
  /\ ret' = [ret EXCEPT ![m] = "find"]
  /\ Goto(m, "stopm")
  /\ UNCHANGED <<mp, nextp, spinning, hand, pVars, schedVars>>

\* looks at all queues again, one after the other.
Recheck(m) ==
  /\ pc[m] = "recheck"
  /\ \E p \in todo[m] :
       IF q[p] > 0
       THEN Goto(m, "again") /\ todo' = [todo EXCEPT ![m] = {}]
       ELSE /\ todo' = [todo EXCEPT ![m] = @ \ {p}]
            /\ Goto(m, IF todo[m] = {p} THEN "stopm" ELSE "recheck")
  /\ ret' = [ret EXCEPT ![m] = IF pc'[m] = "stopm" THEN "find" ELSE @]
  /\ UNCHANGED <<mp, nextp, spinning, hand, pVars, schedVars>>

\* With work in sight it starts over, if there is a P.
Again(m) ==
  /\ pc[m] = "again"
  /\ IF pidle = {}
     THEN Goto(m, "stopm") /\ UNCHANGED <<mp, pm, status, pidle>>
     ELSE /\ \E p \in pidle : Acquire(m, p) /\ pidle' = pidle \ {p}
          /\ Goto(m, "find")
  /\ ret' = [ret EXCEPT ![m] = IF pidle = {} THEN "find" ELSE @]
  /\ UNCHANGED <<nextp, spinning, hand, todo, q, schedVars>>
-----------------------------------------------------------------------------
(* stopm and the threads that start *)

Stopm(m) ==
  /\ pc[m] = "stopm"
  /\ Goto(m, "parked")
  /\ Checkdead(nmidle + 1, nmidlelocked)
  /\ UNCHANGED <<ret, mp, nextp, spinning, hand, todo, pVars, global, nmspinning,
                nmidlelocked, gcwaiting, stopwait, waiting, missed>>

\* mspinning, in a new thread.
Mspinning(m) ==
  /\ pc[m] = "new"
  /\ IF q[nextp[m]] > 0
     THEN nmspinning' = nmspinning - 1 /\ UNCHANGED spinning
     ELSE spinning' = [spinning EXCEPT ![m] = TRUE] /\ UNCHANGED nmspinning
  /\ Goto(m, "woken")
  /\ UNCHANGED <<ret, mp, nextp, hand, todo, pVars, global, restVars>>

\* The end of stopm, and the start of a thread.
Woken(m) ==
  /\ pc[m] = "woken"
  /\ Acquire(m, nextp[m])
  /\ nextp' = [nextp EXCEPT ![m] = None]
  /\ Goto(m, ret[m])
  /\ ret' = [ret EXCEPT ![m] = "sched"]
  /\ UNCHANGED <<spinning, hand, todo, q, pidle, schedVars>>

\* gcstopm: the M has stopped spinning,
GcStopSpinning(m) ==
  /\ pc[m] = "gcstop" /\ spinning[m]
  /\ spinning' = [spinning EXCEPT ![m] = FALSE]
  /\ nmspinning' = nmspinning - 1
  /\ UNCHANGED <<pc, ret, mp, nextp, hand, todo, pVars, global, restVars>>

\* then it gives its P up.
Gcstopm(m) ==
  /\ pc[m] = "gcstop" /\ ~spinning[m]
  /\ Release(m, "gcstop")
  /\ stopwait' = stopwait - 1
  /\ Goto(m, "stopm")
  /\ UNCHANGED <<ret, nextp, spinning, hand, todo, q, pidle, global, nmspinning,
                nmidlelocked, gcwaiting, waiting, dead, missed>>
-----------------------------------------------------------------------------
(* What the goroutine does that an M runs *)

\* It makes another one runnable (ready),
Ready(m) ==
  /\ pc[m] = "run" /\ waiting > 0
  /\ waiting' = waiting - 1
  /\ q' = [q EXCEPT ![mp[m]] = @ + 1]
  /\ Goto(m, "npidle")
  /\ UNCHANGED <<ret, mp, nextp, spinning, hand, todo, pm, status, pidle, global,
                nmspinning, nmidlelocked, gcwaiting, stopwait, dead, missed>>

\* blocks (park_m),
Block(m) ==
  /\ pc[m] = "run"
  /\ waiting' = waiting + 1
  /\ Goto(m, "sched")
  /\ UNCHANGED <<ret, mp, nextp, spinning, hand, todo, pVars, global, nmspinning,
                nmidlelocked, gcwaiting, stopwait, dead, missed>>

\* or yields or is preempted (goschedImpl).
Gosched(m) ==
  /\ pc[m] = "run"
  /\ global' = global + 1
  /\ Goto(m, "sched")
  /\ UNCHANGED <<ret, mp, nextp, spinning, hand, todo, pVars, nmspinning, restVars>>

\* entersyscall keeps the P, as long as nobody takes it,
Entersyscall(m) ==
  /\ pc[m] = "run"
  /\ pm' = [pm EXCEPT ![mp[m]] = None]
  /\ status' = [status EXCEPT ![mp[m]] = "syscall"]
  /\ Goto(m, "entered")
  /\ UNCHANGED <<ret, mp, nextp, spinning, hand, todo, q, pidle, schedVars>>

\* which it does itself if the world is to stop (entersyscall_gcwait);
EntersyscallGcwait(m) ==
  /\ pc[m] = "entered"
  /\ IF gcwaiting /\ stopwait > 0 /\ status[mp[m]] = "syscall"
     THEN status' = [status EXCEPT ![mp[m]] = "gcstop"] /\ stopwait' = stopwait - 1
     ELSE UNCHANGED <<status, stopwait>>
  /\ Goto(m, "insys")
  /\ UNCHANGED <<ret, mp, nextp, spinning, hand, todo, pm, q, pidle, global, nmspinning,
                nmidlelocked, gcwaiting, waiting, dead, missed>>

\* entersyscallblock hands it off at once.
Entersyscallblock(m) ==
  /\ pc[m] = "run"
  /\ Release(m, "idle")
  /\ hand' = [hand EXCEPT ![m] = mp[m]]
  /\ Goto(m, "hand")
  /\ UNCHANGED <<ret, nextp, spinning, todo, q, pidle, schedVars>>

\* Faulty variant: the P is taken back as it was left.
ExitsyscallfastUnchecked(m) ==
  /\ pc[m] = "insys"
  /\ IF mp[m] # None
     THEN /\ Acquire(m, mp[m])
          /\ Goto(m, "run")
     ELSE Goto(m, "exit") /\ UNCHANGED <<mp, pm, status>>
  /\ UNCHANGED <<ret, nextp, spinning, hand, todo, q, pidle, schedVars>>

\* exitsyscallfast: the P it had, if that is still, or again, in a system call.
Exitsyscallfast(m) ==
  /\ pc[m] = "insys"
  /\ IF mp[m] # None /\ status[mp[m]] = "syscall"
     THEN Acquire(m, mp[m]) /\ Goto(m, "run")
     ELSE mp' = [mp EXCEPT ![m] = None] /\ Goto(m, "exit") /\ UNCHANGED <<pm, status>>
  /\ UNCHANGED <<ret, nextp, spinning, hand, todo, q, pidle, schedVars>>

\* Any idle P (exitsyscallfast_pidle, exitsyscall0), or the goroutine queues up
\* and the M stops.
Exitsyscall0(m) ==
  /\ pc[m] = "exit"
  /\ IF pidle # {}
     THEN /\ \E p \in pidle : Acquire(m, p) /\ pidle' = pidle \ {p}
          /\ Goto(m, "run") /\ UNCHANGED global
     ELSE /\ global' = global + 1
          /\ Goto(m, "stopm") /\ UNCHANGED <<mp, pm, status, pidle>>
  /\ UNCHANGED <<ret, nextp, spinning, hand, todo, q, nmspinning, restVars>>

\* stopTheWorldWithSema: the Ps of system calls and the idle ones stop at once.
\* worldsema, which startTheWorld's caller keeps a little longer, lets one at a
\* time come here.
StopTheWorld(m) ==
  /\ pc[m] = "run" /\ ~gcwaiting
  /\ gcwaiting' = TRUE
  /\ status' = [p \in Ps |-> IF p = mp[m] \/ p \in pidle \/ status[p] = "syscall"
                             THEN "gcstop" ELSE status[p]]
  /\ stopwait' = Cardinality({p \in Ps : status'[p] # "gcstop"})
  /\ pidle' = {}
  /\ Goto(m, "stopping")
  /\ UNCHANGED <<ret, mp, nextp, spinning, hand, todo, pm, q, global, nmspinning,
                nmidlelocked, waiting, dead, missed>>

\* startTheWorldWithSema, when all have stopped: the idle Ps go to the list, the
\* others get a thread.
StartTheWorld(m) ==
  /\ pc[m] = "stopping" /\ stopwait = 0
  /\ gcwaiting' = FALSE
  /\ status' = [p \in Ps |-> IF p = mp[m] THEN "running" ELSE "idle"]
  /\ LET work == {p \in Ps \ {mp[m]} : q[p] > 0}
         idle == {t \in Ms : pc[t] = "parked"}
         new  == {t \in Ms : pc[t] = "none"}
     IN /\ pidle' = (Ps \ {mp[m]}) \ work
        /\ \E f \in [work -> idle \cup new] :
             /\ \A p, r \in work : f[p] = f[r] => p = r
             /\ (\E p \in work : f[p] \in new) => \A t \in idle : \E p \in work : f[p] = t
             /\ nextp' = [t \in Ms |-> IF \E p \in work : f[p] = t
                                      THEN CHOOSE p \in work : f[p] = t ELSE nextp[t]]
             /\ GotoAnd(m, "npidle", {f[p] : p \in work}, "woken")
  /\ UNCHANGED <<ret, mp, spinning, hand, todo, pm, q, global, nmspinning, nmidlelocked,
                stopwait, waiting, dead, missed>>
-----------------------------------------------------------------------------
(* retake, by sysmon *)

\* Faulty variant: nobody pretends to run.
RetakeUncounted ==
  /\ pc[Sysmon] = "idle"
  /\ \E p \in Ps : status[p] = "syscall" /\ hand' = [hand EXCEPT ![Sysmon] = p]
  /\ Goto(Sysmon, "retake")
  /\ UNCHANGED <<ret, mp, nextp, spinning, todo, pVars, schedVars>>

\* A P that has been in a system call for a while, be there other work or not; one
\* thread more pretends to run, lest the M of that call reports a deadlock.
Retake ==
  /\ pc[Sysmon] = "idle"
  /\ \E p \in Ps : status[p] = "syscall" /\ hand' = [hand EXCEPT ![Sysmon] = p]
  /\ nmidlelocked' = nmidlelocked - 1
  /\ Goto(Sysmon, "retake")
  /\ UNCHANGED <<ret, mp, nextp, spinning, todo, pVars, global, nmspinning, gcwaiting,
                stopwait, waiting, dead, missed>>

\* The P is taken unless the call has returned, and handed off.
RetakeCas ==
  /\ pc[Sysmon] = "retake"
  /\ IF status[hand[Sysmon]] = "syscall"
     THEN /\ status' = [status EXCEPT ![hand[Sysmon]] = "idle"]
          /\ Goto(Sysmon, "hand") /\ UNCHANGED hand
     ELSE /\ hand' = [hand EXCEPT ![Sysmon] = None]
          /\ Goto(Sysmon, "inc") /\ UNCHANGED status
  /\ UNCHANGED <<ret, mp, nextp, spinning, todo, pm, q, pidle, schedVars>>

RetakeEnd ==
  /\ pc[Sysmon] = "inc"
  /\ nmidlelocked' = nmidlelocked + 1
  /\ Checkdead(nmidle, nmidlelocked + 1)
  /\ Goto(Sysmon, "idle")
  /\ UNCHANGED <<ret, mp, nextp, spinning, hand, todo, pVars, global, nmspinning,
                gcwaiting, stopwait, waiting, missed>>
-----------------------------------------------------------------------------
Startm(a) == Start(a) \/ StartSpinning(a)
Handoffp(a) == HandLook(a) \/ HandSpin(a) \/ HandIdle(a) \/ HandCas(a) \/ HandLocked(a)
Wake(m) ==
  \/ LookIdle(m) \/ LookSpinning(m) \/ ResetSpinning(m) \/ Wakep(m) \/ StartIdle(m) \/ Undo(m)

Find(m) ==
  \/ Schedule(m) \/ FindRunnable(m) \/ Decide(m) \/ Spin(m) \/ Steal(m) \/ StopLocked(m)
  \/ Released(m) \/ Recheck(m) \/ Again(m)

Stop(m) == Stopm(m) \/ Mspinning(m) \/ Woken(m) \/ GcStopSpinning(m) \/ Gcstopm(m)

Goroutine(m) ==
  \/ Ready(m) \/ Block(m) \/ Gosched(m) \/ Entersyscall(m) \/ EntersyscallGcwait(m)
  \/ Entersyscallblock(m) \/ Exitsyscallfast(m) \/ Exitsyscall0(m)
  \/ StopTheWorld(m) \/ StartTheWorld(m)

Next ==
  /\ dead = "no"
  /\ \/ \E a \in Actors : Startm(a) \/ Handoffp(a)
     \/ \E m \in Ms : Wake(m) \/ Find(m) \/ Stop(m) \/ Goroutine(m)
     \/ Retake \/ RetakeCas \/ RetakeEnd

Spec == Init /\ [][Next]_vars
-----------------------------------------------------------------------------
\* The P without an M that a has, to give away or to start with.
Held(a) ==
  IF pc[a] \in Handoff THEN hand[a] ELSE IF pc[a] \in Starting THEN nextp[a] ELSE None

\* What nmspinning counts: the threads that spin, and those to be.
Spins(a) ==
  (a \in Ms /\ spinning[a]) \/ pc[a] \in {"new", "startspin", "startidle", "undo"}
Spinners == {a \in Actors : Spins(a)}

\* The threads that have a goroutine in their hands,
Carry == {"run", "stopping", "exit"} \cup Calling \cup Wakeup \cup Handoff
Carrying == {m \in Ms : pc[m] \in Carry}

\* and the places in the queues of the Ps, as long as they are, that have one.
Places(len) == {s \in Ps \X (1..NG) : s[2] <= len[s[1]]}

\* A thread that will find the goroutine in the queue of p or get a spinning
\* thread to do so.
Help == {"npidle", "nspin", "reset", "found", "cas", "find", "decide", "spin", "steal",
         "stop", "released", "again"}
Helps(m, p) == pc[m] \in Help \/ (pc[m] = "recheck" /\ p \in todo[m])

\* What a thread has, by where it is.
ThreadInv(m) ==
  /\ pc[m] \notin {"idle", "retake", "inc"}
  /\ pc[m] \in Working \cup {"entered"} => mp[m] # None
  /\ mp[m] # None => pc[m] \in Working \cup Calling
  /\ nextp[m] # None <=> pc[m] \in Starting
  /\ spinning[m] => pc[m] \in {"woken", "sched", "find", "steal", "stop", "released",
                              "reset", "gcstop"}

PointInv ==
  /\ \A m \in Ms : ThreadInv(m)
  /\ \A a \in Actors : hand[a] # None <=> pc[a] \in Handoff \cup {"retake"}
  /\ pc[Sysmon] \in Handoff \cup {"idle", "retake", "inc"}
  /\ nmidlelocked = IF pc[Sysmon] = "idle" THEN 0 ELSE -1

\* A P is in one place: with an M, which it is the only one to have, stopped, left
\* by an M for a system call,
LinkInv ==
  /\ \A m \in Ms : pc[m] \in Working =>
       pm[mp[m]] = m /\ status[mp[m]] = IF pc[m] = "stopping" THEN "gcstop" ELSE "running"
  /\ \A p \in Ps :
       /\ pm[p] # None => mp[pm[p]] = p /\ pc[pm[p]] \in Working
       /\ status[p] = "running" => pm[p] # None
       /\ status[p] = "syscall" => \E m \in Ms : mp[m] = p /\ pc[m] \in Calling

\* on the idle list, or on its way to an M.
HeldInv ==
  /\ \A p \in Ps : status[p] = "idle" <=> p \in pidle \/ \E a \in Actors : Held(a) = p
  /\ \A a, b \in Actors : Held(a) = Held(b) => a = b \/ Held(a) = None
  /\ \A a \in Actors : Held(a) \notin pidle

\* One thread at a time stops the world, and stopwait is the number of Ps that
\* have still to stop.
StopInv ==
  /\ \A m \in Ms : pc[m] \in {"stopping", "gcstop"} => gcwaiting
  /\ \A m, n \in Ms : pc[m] = "stopping" /\ pc[n] = "stopping" => m = n
  /\ \A p \in Ps : status[p] = "gcstop" => gcwaiting
  /\ gcwaiting =>
       /\ pidle = {}
       /\ \E m \in Ms : pc[m] = "stopping"
       /\ stopwait = Cardinality({p \in Ps : status[p] # "gcstop"})

\* The queues that are empty: those of idle Ps, of Ps that are about to become
\* idle, and of those that a spinning thread gets.
QueueInv ==
  /\ \A p \in pidle : q[p] = 0
  /\ \A a \in Actors :
       pc[a] \in {"handspin", "handidle", "handcas", "handlock", "startspin"} => q[hand[a]] = 0
  /\ \A m \in Ms :
       /\ pc[m] \in {"decide", "spin", "steal", "stop"} => q[mp[m]] = 0
       /\ pc[m] = "sched" /\ spinning[m] => q[mp[m]] = 0
       /\ pc[m] = "new" => q[nextp[m]] = 0
       /\ pc[m] = "woken" /\ spinning[m] => q[nextp[m]] = 0

\* nmspinning, which many keep, is exact, and no goroutine is lost or run twice.
SpinnersInv == nmspinning = Cardinality(Spinners)
GoroutinesInv ==
  waiting + global + Cardinality(Places(q)) + Cardinality(Carrying) = NG

\* Work is not left behind: while there is an idle P, somebody spins or is about to
\* look at every queue that is not empty; and not all Ps are idle while the global
\* queue is not empty.
WorkInv ==
  pidle # {} /\ ~missed =>
    \A p \in Ps : q[p] > 0 => Spinners # {} \/ \E m \in Ms : Helps(m, p)
GlobalInv == pidle = Ps => global = 0

\* The invariants together.  They bear on each other: that checkdead is right rests
\* on the places of the Ps, the counts and the global queue at once.
IInv ==
  /\ TypeOK /\ PointInv /\ LinkInv /\ HeldInv /\ StopInv /\ QueueInv
  /\ SpinnersInv /\ GoroutinesInv /\ WorkInv /\ GlobalInv /\ dead # "throw"

\* None of the runtime's own checks fails: acquirep and releasep find the P in the
\* state they expect, an idle P has no goroutines, a thread that has been counted
\* as spinning has no work of its own, the world is stopped when stopTheWorld goes
\* on, and checkdead never takes a program for dead that has a goroutine to run.
NoThrow ==
  /\ dead # "throw"
  /\ \A m \in Ms :
       /\ pc[m] = "woken" => mp[m] = None /\ pm[nextp[m]] = None /\ status[nextp[m]] = "idle"
       /\ pc[m] \in {"run", "stop", "gcstop"} =>
            pm[mp[m]] = m /\ status[mp[m]] = "running"
       /\ pc[m] = "sched" /\ spinning[m] => q[mp[m]] = 0
       /\ pc[m] = "stopping" /\ stopwait = 0 => \A p \in Ps : status[p] = "gcstop"
  /\ \A p \in pidle : pm[p] = None /\ q[p] = 0
  /\ \A a \in Actors :
       pc[a] = "startspin" /\ hand[a] # None => q[hand[a]] = 0

\* When all threads run goroutines, are in system calls or are parked, no goroutine
\* waits in the queue of a P while another P is idle: what ready and resetspinning
\* wake no thread for, a spinning one finds, before it stops or when it looks again.
\* Two steps are not covered by that, and only they leave a P idle beside a queue:
\* a handoffp that has seen a spinning thread or another idle P, and a wakep that found
\* no idle P.  Nothing is claimed of what comes after such a step: missed stays set.
\* The global queue waits for the next turn of a P, so there is one that has a thread.
WorkConserved ==
  /\ \A m \in Ms : pc[m] \in {"none", "parked", "run", "insys"}
  /\ pc[Sysmon] = "idle" /\ dead = "no"
  => /\ pidle # {} /\ Queued => missed
     /\ pidle = Ps => global = 0
=============================================================================
