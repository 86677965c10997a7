------------------------------- MODULE RWMutex -------------------------------
(***************************************************************************)
(* sync.RWMutex (sync/rwmutex.go): many readers or one writer.  Readers    *)
(* count themselves in readerCount; a writer holds the mutex w and takes   *)
(* rwmutexMaxReaders from the count, which sends new readers to sleep.     *)
(*                                                                         *)
(* The mutex w is AbstractLock and the semaphores are Semaphore: Mutex.tla *)
(* and SemaRoot.tla show that the code implements them.                    *)
(***************************************************************************)
EXTENDS Counting, Integers

CONSTANTS
  Goroutines,
  MaxReaders    \* rwmutexMaxReaders

ASSUME RWMutexAssumption ==
  /\ IsFiniteSet(Goroutines)
  /\ MaxReaders \in Nat
  /\ Cardinality(Goroutines) < MaxReaders

VARIABLES
  w,            \* rw.w is locked
  readerCount,
  readerWait,
  readerSem,
  writerSem,
  pc,
  r             \* the local r of Lock and of Unlock (how many are left to wake)

vars == <<w, readerCount, readerWait, readerSem, writerSem, pc, r>>

ReadPoints  == {"rsleep", "reading", "rleave", "rsignal"}
WritePoints == {"announce", "wcount", "wsleep", "writing", "wwake", "wunlock"}
Points      == {"idle", "panic", "wlock"} \cup ReadPoints \cup WritePoints

TypeOK ==
  /\ w \in BOOLEAN
  /\ readerCount \in Int
  /\ readerWait \in Int
  /\ readerSem \in Nat
  /\ writerSem \in Nat
  /\ pc \in [Goroutines -> Points]
  /\ r \in [Goroutines -> Nat]

Init ==
  /\ w = FALSE
  /\ readerCount = 0
  /\ readerWait = 0
  /\ readerSem = 0
  /\ writerSem = 0
  /\ pc = [g \in Goroutines |-> "idle"]
  /\ r = [g \in Goroutines |-> 0]

Goto(g, p) == pc' = [pc EXCEPT ![g] = p]
-----------------------------------------------------------------------------
(* Readers *)

\* atomic.AddInt32(&rw.readerCount, 1): negative when a writer is pending.
RLockAdd(g) ==
  /\ pc[g] = "idle"
  /\ readerCount' = readerCount + 1
  /\ Goto(g, IF readerCount' < 0 THEN "rsleep" ELSE "reading")
  /\ UNCHANGED <<w, readerWait, readerSem, writerSem, r>>

\* runtime_Semacquire(&rw.readerSem)
RLockSleep(g) ==
  /\ pc[g] = "rsleep"
  /\ readerSem > 0
  /\ readerSem' = readerSem - 1
  /\ Goto(g, "reading")
  /\ UNCHANGED <<w, readerCount, readerWait, writerSem, r>>

\* Faulty variant: the last reader in front of a writer is taken for nobody.
NobodyReadingOffByOne(n) == n = 0 \/ n = -MaxReaders

\* The word says that nobody was reading: "sync: RUnlock of unlocked RWMutex".
NobodyReading(n) == n + 1 = 0 \/ n + 1 = -MaxReaders

RUnlockAdd(g) ==
  /\ pc[g] = "reading"
  /\ readerCount' = readerCount - 1
  /\ Goto(g, IF readerCount' >= 0 THEN "idle"
             ELSE IF NobodyReading(readerCount') THEN "panic" ELSE "rleave")
  /\ UNCHANGED <<w, readerWait, readerSem, writerSem, r>>

\* Faulty variant: the writer is woken for the last but one reader.
RUnlockLeaveEarly(g) ==
  /\ pc[g] = "rleave"
  /\ readerWait' = readerWait - 1
  /\ Goto(g, IF readerWait' = 1 THEN "rsignal" ELSE "idle")
  /\ UNCHANGED <<w, readerCount, readerSem, writerSem, r>>

\* A writer is pending: atomic.AddInt32(&rw.readerWait, -1).
RUnlockLeave(g) ==
  /\ pc[g] = "rleave"
  /\ readerWait' = readerWait - 1
  /\ Goto(g, IF readerWait' = 0 THEN "rsignal" ELSE "idle")
  /\ UNCHANGED <<w, readerCount, readerSem, writerSem, r>>

\* The last reader unblocks the writer.
RUnlockSignal(g) ==
  /\ pc[g] = "rsignal"
  /\ writerSem' = writerSem + 1
  /\ Goto(g, "idle")
  /\ UNCHANGED <<w, readerCount, readerWait, readerSem, r>>
-----------------------------------------------------------------------------
(* Writers *)

\* rw.w.Lock() is called ...
LockCall(g) ==
  /\ pc[g] = "idle"
  /\ Goto(g, "wlock")
  /\ UNCHANGED <<w, readerCount, readerWait, readerSem, writerSem, r>>

\* ... and returns.
LockMutex(g) ==
  /\ pc[g] = "wlock"
  /\ ~w
  /\ w' = TRUE
  /\ Goto(g, "announce")
  /\ UNCHANGED <<readerCount, readerWait, readerSem, writerSem, r>>

\* Faulty variant: the writer announces itself only when it has to wait.
LockAnnounceLazily(g) ==
  /\ pc[g] = "announce"
  /\ readerCount' = IF readerCount = 0 THEN 0 ELSE readerCount - MaxReaders
  /\ r' = [r EXCEPT ![g] = readerCount]
  /\ Goto(g, IF readerCount = 0 THEN "writing" ELSE "wcount")
  /\ UNCHANGED <<w, readerWait, readerSem, writerSem>>

\* Announce to readers there is a pending writer.
LockAnnounce(g) ==
  /\ pc[g] = "announce"
  /\ readerCount' = readerCount - MaxReaders
  /\ r' = [r EXCEPT ![g] = readerCount]
  /\ Goto(g, IF readerCount = 0 THEN "writing" ELSE "wcount")
  /\ UNCHANGED <<w, readerWait, readerSem, writerSem>>

\* Faulty variant: a store where readers may have counted themselves off.
LockCountStores(g) ==
  /\ pc[g] = "wcount"
  /\ readerWait' = r[g]
  /\ r' = [r EXCEPT ![g] = 0]
  /\ Goto(g, IF readerWait' = 0 THEN "writing" ELSE "wsleep")
  /\ UNCHANGED <<w, readerCount, readerSem, writerSem>>

\* atomic.AddInt32(&rw.readerWait, r): the readers may all have left by now.
LockCount(g) ==
  /\ pc[g] = "wcount"
  /\ readerWait' = readerWait + r[g]
  /\ r' = [r EXCEPT ![g] = 0]
  /\ Goto(g, IF readerWait' = 0 THEN "writing" ELSE "wsleep")
  /\ UNCHANGED <<w, readerCount, readerSem, writerSem>>

\* runtime_Semacquire(&rw.writerSem)
LockSleep(g) ==
  /\ pc[g] = "wsleep"
  /\ writerSem > 0
  /\ writerSem' = writerSem - 1
  /\ Goto(g, "writing")
  /\ UNCHANGED <<w, readerCount, readerWait, readerSem, r>>

\* Announce to readers there is no active writer.
UnlockAnnounce(g) ==
  /\ pc[g] = "writing"
  /\ readerCount' = readerCount + MaxReaders
  /\ IF readerCount' >= MaxReaders
     THEN Goto(g, "panic") /\ UNCHANGED r
     ELSE /\ r' = [r EXCEPT ![g] = readerCount']
          /\ Goto(g, "wwake")
  /\ UNCHANGED <<w, readerWait, readerSem, writerSem>>

\* Faulty variant: one turn of the loop too few.
UnlockWakeOneLess(g) ==
  /\ pc[g] = "wwake"
  /\ \/ /\ r[g] > 1
        /\ readerSem' = readerSem + 1
        /\ r' = [r EXCEPT ![g] = @ - 1]
        /\ UNCHANGED pc
     \/ /\ r[g] <= 1
        /\ Goto(g, "wunlock")
        /\ r' = [r EXCEPT ![g] = 0]
        /\ UNCHANGED readerSem
  /\ UNCHANGED <<w, readerCount, readerWait, writerSem>>

\* Unblock blocked readers: one turn of the loop, or its end.
UnlockWake(g) ==
  /\ pc[g] = "wwake"
  /\ \/ /\ r[g] > 0
        /\ readerSem' = readerSem + 1
        /\ r' = [r EXCEPT ![g] = @ - 1]
        /\ UNCHANGED pc
     \/ /\ r[g] = 0
        /\ Goto(g, "wunlock")
        /\ UNCHANGED <<readerSem, r>>
  /\ UNCHANGED <<w, readerCount, readerWait, writerSem>>

\* Allow other writers to proceed.
UnlockMutex(g) ==
  /\ pc[g] = "wunlock"
  /\ w' = FALSE
  /\ Goto(g, "idle")
  /\ UNCHANGED <<readerCount, readerWait, readerSem, writerSem, r>>

\* "One goroutine may RLock (Lock) an RWMutex and then arrange for another
\* goroutine to RUnlock (Unlock) it."  (rwmutex.go:99-101)
HandOff(g, h) ==
  /\ pc[g] \in {"reading", "writing"} /\ pc[h] = "idle"
  /\ pc' = [pc EXCEPT ![g] = "idle", ![h] = pc[g]]
  /\ UNCHANGED <<w, readerCount, readerWait, readerSem, writerSem, r>>
-----------------------------------------------------------------------------
Begin(g) == RLockAdd(g) \/ LockCall(g)

\* Steps of a call that has not to wait for anybody.
Continue(g) ==
  \/ RUnlockLeave(g) \/ RUnlockSignal(g)
  \/ LockAnnounce(g) \/ LockCount(g) \/ UnlockWake(g) \/ UnlockMutex(g)

Next ==
  \E g \in Goroutines :
    \/ Begin(g) \/ Continue(g)
    \/ RUnlockAdd(g) \/ UnlockAnnounce(g)
    \/ RLockSleep(g) \/ LockMutex(g) \/ LockSleep(g)
    \/ \E h \in Goroutines : HandOff(g, h)

Spec == Init /\ [][Next]_vars

\* Goroutines keep running; a writer, and one reader after the other, unlocks in
\* the end (not a chosen one: it may hand over); and the mutex and the readers'
\* semaphore go to somebody who waits for them, not to a chosen one.
Fairness ==
  /\ \A g \in Goroutines : WF_vars(Continue(g)) /\ WF_vars(LockSleep(g))
  /\ WF_vars(\E g \in Goroutines : RUnlockAdd(g))
  /\ WF_vars(\E g \in Goroutines : UnlockAnnounce(g))
  /\ WF_vars(\E g \in Goroutines : RLockSleep(g))
  /\ WF_vars(\E g \in Goroutines : LockMutex(g))

FairSpec == Spec /\ Fairness
-----------------------------------------------------------------------------
(* Properties *)

\* One writer and nobody else, or any number of readers.
Exclusion ==
  \A g, h \in Goroutines :
    pc[g] = "writing" /\ pc[h] \in {"reading", "writing"} => g = h

\* Legal use never reaches one of the panics on an unlocked RWMutex.
NoFalsePanic == \A g \in Goroutines : pc[g] # "panic"

\* A writer has announced itself and not yet taken the announcement back.
Announced == \E g \in Goroutines : pc[g] \in {"wcount", "wsleep", "writing"}

\* readerCount counts the readers between RLock and RUnlock, asleep or not, less
\* rwmutexMaxReaders when a writer is pending.
ReadersCounted ==
  readerCount = Count(pc, {"rsleep", "reading"})
                  - IF Announced THEN MaxReaders ELSE 0

\* What a writer that waits still has to add to readerWait.
Uncounted(g) == IF pc[g] = "wcount" THEN r[g] ELSE 0

\* The number a pending writer waits for: the readers that were there when it
\* announced itself, of which some may still be asleep with a permit given to
\* them by the writer before.
WriterWaitsForReaders ==
  IF Announced
  THEN \A g \in Goroutines :
         pc[g] \in {"wcount", "wsleep", "writing"}
           => readerWait + Uncounted(g)
                = Count(pc, {"reading", "rleave"}) + readerSem
  ELSE readerWait = 0 /\ Count(pc, {"rleave"}) = 0

\* Readers that leave before the writer has counted them make readerWait
\* negative, and nobody is counted when it writes.
ReadersLeft ==
  \A g \in Goroutines :
    /\ pc[g] = "wcount" => readerWait <= 0
    /\ pc[g] = "writing" => readerWait = 0

\* The writer's one wakeup is sent when, and only when, it sleeps and the last
\* reader is gone.
WriterWakeup ==
  writerSem + Count(pc, {"rsignal"}) =
    IF readerWait = 0 THEN Count(pc, {"wsleep"}) ELSE 0

\* No reader is left asleep: without a pending writer each sleeping reader has
\* its permit, or gets it from the Unlock that is still in its loop.
Unlocking == {g \in Goroutines : pc[g] = "wwake"}

NoReaderLeftAsleep ==
  /\ readerSem <= Count(pc, {"rsleep"})
  /\ ~Announced /\ Unlocking = {} => Count(pc, {"rsleep"}) = readerSem
  /\ \A g \in Unlocking : Count(pc, {"rsleep"}) = readerSem + r[g]

\* The writers are those of w.
WriterHoldsMutex ==
  Count(pc, WritePoints) = IF w THEN 1 ELSE 0

\* The counters, the permits and where the goroutines are agree.
IInv ==
  /\ TypeOK
  /\ NoFalsePanic
  /\ WriterHoldsMutex
  /\ ReadersCounted
  /\ WriterWaitsForReaders
  /\ ReadersLeft
  /\ WriterWakeup
  /\ NoReaderLeftAsleep

\* A pending writer gets in though readers keep coming: new ones are kept out.
WriterGetsIn ==
  \A g \in Goroutines : pc[g] \in {"wcount", "wsleep"} ~> pc[g] = "writing"

\* Once no new call starts, every RLock and every Lock under way returns.
PendingCallsReturn ==
  <>[][\A g \in Goroutines : ~Begin(g)]_vars
    => \A g \in Goroutines :
         /\ pc[g] = "rsleep" ~> pc[g] = "reading"
         /\ pc[g] = "wlock" ~> pc[g] = "writing"
=============================================================================
