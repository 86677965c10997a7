------------------------------ MODULE Semaphore ------------------------------
(***************************************************************************)
(* What the asynchronous semaphores of the runtime promise to sync and net *)
(* (runtime_Semacquire, runtime_Semrelease): a release adds a permit, and  *)
(* an acquire returns by taking one of the semaphore it was called on.     *)
(***************************************************************************)
EXTENDS Naturals

CONSTANTS Goroutines, Addrs, NoAddr

VARIABLES
  permits,    \* the value of each semaphore
  waiting     \* the semaphore each goroutine is blocked on, or NoAddr

Init ==
  /\ permits = [a \in Addrs |-> 0]
  /\ waiting = [g \in Goroutines |-> NoAddr]

\* Semacquire is called and does not return at once.
Wait(g, a) ==
  /\ waiting[g] = NoAddr
  /\ waiting' = [waiting EXCEPT ![g] = a]
  /\ UNCHANGED permits

\* Semacquire returns, with a permit.
Acquire(g, a) ==
  /\ waiting[g] \in {NoAddr, a}
  /\ permits[a] > 0
  /\ permits' = [permits EXCEPT ![a] = @ - 1]
  /\ waiting' = [waiting EXCEPT ![g] = NoAddr]

Release(a) ==
  /\ permits' = [permits EXCEPT ![a] = @ + 1]
  /\ UNCHANGED waiting

Next ==
  \E a \in Addrs :
    \/ Release(a)
    \/ \E g \in Goroutines : Wait(g, a) \/ Acquire(g, a)

Spec == Init /\ [][Next]_<<permits, waiting>>
=============================================================================
