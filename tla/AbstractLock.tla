----------------------------- MODULE AbstractLock -----------------------------
(***************************************************************************)
(* What sync.Locker (sync/mutex.go) promises its callers: Lock returns to  *)
(* one goroutine at a time, and Unlock lets another Lock return.  A lock   *)
(* is not associated with a goroutine, so the right to unlock may be       *)
(* handed from one goroutine to another.                                   *)
(***************************************************************************)

CONSTANT Goroutines

VARIABLE phase      \* phase[g]: "out", "locking" (Lock called) or "in"

TypeOK == phase \in [Goroutines -> {"out", "locking", "in"}]

Init == phase = [g \in Goroutines |-> "out"]

Free == \A g \in Goroutines : phase[g] # "in"

\* Lock is called and does not return at once.
Call(g) ==
  /\ phase[g] = "out"
  /\ phase' = [phase EXCEPT ![g] = "locking"]

\* Lock returns: a call in progress, or one that finds the lock free.
Acquire(g) ==
  /\ phase[g] \in {"out", "locking"}
  /\ Free
  /\ phase' = [phase EXCEPT ![g] = "in"]

Release(g) ==
  /\ phase[g] = "in"
  /\ phase' = [phase EXCEPT ![g] = "out"]

HandOff(g, h) ==
  /\ phase[g] = "in" /\ phase[h] = "out"
  /\ phase' = [phase EXCEPT ![g] = "out", ![h] = "in"]

Next ==
  \E g \in Goroutines :
    \/ Call(g)
    \/ Acquire(g)
    \/ Release(g)
    \/ \E h \in Goroutines : HandOff(g, h)

\* A free lock with callers waiting does not stay free: some call returns.
\* (Nothing says which: neither sync.Mutex nor its semaphore is fair.)
Progress == WF_phase(\E g \in Goroutines : phase[g] = "locking" /\ Acquire(g))

Spec == Init /\ [][Next]_phase
LiveSpec == Spec /\ Progress
=============================================================================
