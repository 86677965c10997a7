------------------------------ MODULE RunQueues ------------------------------
(***************************************************************************)
(* What the run queues of the scheduler promise: a bounded queue per P, a  *)
(* slot for the goroutine to run next and one global queue.  A goroutine   *)
(* is in one of them, in the hands of one P, or blocked; it enters queues  *)
(* at the end and leaves them at the front, alone or in a batch.           *)
(***************************************************************************)
EXTENDS Naturals, Sequences, SequencesExt

CONSTANTS Procs, Goroutines, Size, None

VARIABLES
  queue,     \* the local queue of each P, a sequence
  next,      \* the goroutine it runs next, or None
  global,    \* the global queue
  hand,      \* the goroutines in the hands of each P
  blocked    \* those that wait for something

vars == <<queue, next, global, hand, blocked>>

Init ==
  /\ queue = [p \in Procs |-> <<>>]
  /\ next = [p \in Procs |-> None]
  /\ global = <<>>
  /\ \E running \in SUBSET Goroutines :
       /\ blocked = Goroutines \ running
       /\ \E holder \in [running -> Procs] :
            hand = [p \in Procs |-> {g \in running : holder[g] = p}]

\* The ways to line up some of the goroutines in p's hands.
Batches(p) == {s \in SeqOf(hand[p], Size) : s # <<>> /\ IsInjective(s)}

Ready(p, g) ==
  /\ g \in blocked
  /\ blocked' = blocked \ {g}
  /\ hand' = [hand EXCEPT ![p] = @ \cup {g}]
  /\ UNCHANGED <<queue, next, global>>

Block(p, g) ==
  /\ g \in hand[p]
  /\ blocked' = blocked \cup {g}
  /\ hand' = [hand EXCEPT ![p] = @ \ {g}]
  /\ UNCHANGED <<queue, next, global>>

\* g is to run next on p, and the one it displaces is in p's hands instead.
SetNext(p, g) ==
  /\ g \in hand[p]
  /\ next' = [next EXCEPT ![p] = g]
  /\ hand' = [hand EXCEPT ![p] = (@ \ {g}) \cup ({next[p]} \ {None})]
  /\ UNCHANGED <<queue, global, blocked>>

\* q takes the goroutine that p would run next,
TakeNext(p, q) ==
  /\ next[p] # None
  /\ next' = [next EXCEPT ![p] = None]
  /\ hand' = [hand EXCEPT ![q] = @ \cup {next[p]}]
  /\ UNCHANGED <<queue, global, blocked>>

\* or the first k of p's queue.
Take(p, q, k) ==
  /\ queue' = [queue EXCEPT ![p] = SubSeq(@, k + 1, Len(@))]
  /\ hand' = [hand EXCEPT ![q] = @ \cup ToSet(SubSeq(queue[p], 1, k))]
  /\ UNCHANGED <<next, global, blocked>>

Put(p, s) ==
  /\ Len(queue[p]) + Len(s) <= Size
  /\ queue' = [queue EXCEPT ![p] = @ \o s]
  /\ hand' = [hand EXCEPT ![p] = @ \ ToSet(s)]
  /\ UNCHANGED <<next, global, blocked>>

PutGlobal(p, s) ==
  /\ global' = global \o s
  /\ hand' = [hand EXCEPT ![p] = @ \ ToSet(s)]
  /\ UNCHANGED <<queue, next, blocked>>

TakeGlobal(p, k) ==
  /\ global' = SubSeq(global, k + 1, Len(global))
  /\ hand' = [hand EXCEPT ![p] = @ \cup ToSet(SubSeq(global, 1, k))]
  /\ UNCHANGED <<queue, next, blocked>>

Next ==
  \/ \E p \in Procs, g \in Goroutines : Ready(p, g) \/ Block(p, g) \/ SetNext(p, g)
  \/ \E p, q \in Procs :
       \/ TakeNext(p, q)
       \/ \E k \in 1..Len(queue[p]) : Take(p, q, k)
  \/ \E p \in Procs :
       \/ \E s \in Batches(p) : Put(p, s) \/ PutGlobal(p, s)
       \/ \E k \in 1..Len(global) : TakeGlobal(p, k)

Spec == Init /\ [][Next]_vars
=============================================================================
