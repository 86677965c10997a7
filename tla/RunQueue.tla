------------------------------- MODULE RunQueue -------------------------------
(***************************************************************************)
(* The run queues of the scheduler (runtime/proc1.go, runqput to           *)
(* runqsteal and globrunqget): each P has a ring of Size slots that only   *)
(* its owner fills, and that the owner and any number of thieves empty by  *)
(* a compare-and-swap of its head; a slot runnext beside it; and one       *)
(* global queue under sched.lock.                                          *)
(*                                                                         *)
(* A step of a P is one access to a word that other Ps write.  The two     *)
(* counters of a ring are numbers modulo W (2^32 in the code).  A slot that*)
(* leaves the ring is cleared here: whoever reads it fails to claim it.    *)
(* Goroutines are numbered as they become runnable: one that has blocked   *)
(* and is readied again is a new one.                                      *)
(***************************************************************************)
EXTENDS Integers, Sequences, SequencesExt, FiniteSets

CONSTANTS
  Procs,
  MaxG,      \* bound: how many goroutines become runnable
  Yielding,  \* those that yield; the others run until they block
  None,
  Size,      \* len(p.runq)
  W,         \* the modulus of runqhead and runqtail
  Start,     \* the value both have reached at the beginning
  Busy       \* the P that has a goroutine at the beginning

Goroutines == 1..MaxG

ASSUME RunQueueAssumption ==
  /\ IsFiniteSet(Procs)
  /\ Size \in Nat \ {0} /\ Size % 2 = 0
  /\ W \in Nat /\ W % Size = 0 /\ W >= 2 * Size
  /\ Start \in 0..(W - 1)
  /\ MaxG \in Nat \ {0} /\ Yielding \subseteq Goroutines
  /\ None \notin Goroutines \cup Procs /\ Busy \in Procs

VARIABLES
  head, tail,  \* runqhead and runqtail of each P
  runq,        \* its ring
  runnext,     \* its runnext
  global,      \* sched.runq, a sequence
  lock,        \* the P that keeps sched.lock over several steps, or None
  made,        \* how many goroutines have become runnable
  pc,          \* what each P does
  curg,        \* the goroutine it runs, or None
  gp,          \* the goroutine it is putting, or None
  batch,       \* those it is moving between its queue and the global one
  h,           \* the head it has read
  grab         \* the other local variables of a thief

vars == <<head, tail, runq, runnext, global, lock, made, pc, curg, gp, batch, h, grab>>

Slots == 0..(Size - 1)
NoGrab == [victim |-> None, nextG |-> FALSE, n |-> 0, i |-> 0, next |-> None]

Points == {"run", "next", "put", "write", "publish", "slow", "spill", "get", "look",
           "take", "find", "grab", "tail", "copy", "claim", "commit", "runnext", "cas"}

TypeOK ==
  /\ head \in [Procs -> 0..(W - 1)] /\ tail \in [Procs -> 0..(W - 1)]
  /\ runq \in [Procs -> [Slots -> Goroutines \cup {None}]]
  /\ runnext \in [Procs -> Goroutines \cup {None}]
  /\ global \in Seq(Goroutines) /\ lock \in Procs \cup {None} /\ made \in Goroutines
  /\ pc \in [Procs -> Points]
  /\ curg \in [Procs -> Goroutines \cup {None}] /\ gp \in [Procs -> Goroutines \cup {None}]
  /\ batch \in [Procs -> Seq(Goroutines)] /\ h \in [Procs -> 0..(W - 1)]
  /\ grab \in [Procs -> [victim : Procs \cup {None}, nextG : BOOLEAN, n : 0..Size,
                         i : 0..Size, next : Goroutines \cup {None}]]

\* One goroutine runs, and the rings have been in use.
Init ==
  /\ head = [p \in Procs |-> Start] /\ tail = [p \in Procs |-> Start]
  /\ runq = [p \in Procs |-> [s \in Slots |-> None]]
  /\ runnext = [p \in Procs |-> None]
  /\ global = <<>> /\ lock = None
  /\ pc = [p \in Procs |-> IF p = Busy THEN "run" ELSE "find"]
  /\ curg = [p \in Procs |-> IF p = Busy THEN 1 ELSE None] /\ made = 1
  /\ gp = [p \in Procs |-> None] /\ batch = [p \in Procs |-> <<>>]
  /\ h = [p \in Procs |-> 0] /\ grab = [p \in Procs |-> NoGrab]

Goto(p, point) == pc' = [pc EXCEPT ![p] = point]

\* The slot of a position, and the distance between two positions.
Slot(k) == k % Size
Dist(a, b) == (a - b) % W

\* The n goroutines of p's ring from a position on, and the ring without them.
Batch(p, from, n) == [k \in 1..n |-> runq[p][Slot(from + k - 1)]]

Without(p, from, n) ==
  [s \in Slots |-> IF \E k \in 0..(n - 1) : s = Slot(from + k) THEN None ELSE runq[p][s]]

\* The counters do not turn a full round while somebody holds an old value of
\* them: that takes 2^32 goroutines in one pass of a loop.
Reading(q, p) == grab[q].victim = p /\ pc[q] \in {"tail", "copy", "claim"}
NotLapped(p, t) ==
  \A q \in Procs : Reading(q, p) => \A k \in 1..Dist(t, tail[p]) : Dist(tail[p] + k, h[q]) # 0
-----------------------------------------------------------------------------
(* runqput, by the owner *)

\* The running goroutine makes another one runnable (ready, newproc).
Ready(p) ==
  /\ pc[p] = "run" /\ curg[p] # None /\ made < MaxG
  /\ made' = made + 1
  /\ gp' = [gp EXCEPT ![p] = made + 1]
  /\ Goto(p, "next")
  /\ UNCHANGED <<head, tail, runq, runnext, global, lock, curg, batch, h, grab>>

\* It takes the place of the one in runnext, which is kicked out to the ring.
PutNext(p) ==
  /\ pc[p] = "next"
  /\ runnext' = [runnext EXCEPT ![p] = gp[p]]
  /\ gp' = [gp EXCEPT ![p] = runnext[p]]
  /\ Goto(p, IF runnext[p] = None THEN "run" ELSE "put")
  /\ UNCHANGED <<head, tail, runq, global, lock, made, curg, batch, h, grab>>

\* Faulty variant: a full ring takes one more.
PutLookOffByOne(p) ==
  /\ pc[p] = "put"
  /\ h' = [h EXCEPT ![p] = head[p]]
  /\ Goto(p, IF Dist(tail[p], head[p]) <= Size THEN "write" ELSE "slow")
  /\ UNCHANGED <<head, tail, runq, runnext, global, lock, made, curg, gp, batch, grab>>

\* The head is read; it may move on, so the ring may have more room than that.
PutLook(p) ==
  /\ pc[p] = "put"
  /\ h' = [h EXCEPT ![p] = head[p]]
  /\ Goto(p, IF Dist(tail[p], head[p]) < Size THEN "write" ELSE "slow")
  /\ UNCHANGED <<head, tail, runq, runnext, global, lock, made, curg, gp, batch, grab>>

PutWrite(p) ==
  /\ pc[p] = "write"
  /\ runq' = [runq EXCEPT ![p][Slot(tail[p])] = gp[p]]
  /\ Goto(p, "publish")
  /\ UNCHANGED <<head, tail, runnext, global, lock, made, curg, gp, batch, h, grab>>

\* The store of the tail; globrunqget, under sched.lock, has more to put.
PutPublish(p) ==
  /\ pc[p] = "publish"
  /\ NotLapped(p, (tail[p] + 1) % W)
  /\ tail' = [tail EXCEPT ![p] = (@ + 1) % W]
  /\ IF batch[p] = <<>>
     THEN /\ gp' = [gp EXCEPT ![p] = None]
          /\ Goto(p, "run")
          /\ lock' = IF lock = p THEN None ELSE lock
          /\ UNCHANGED batch
     ELSE /\ gp' = [gp EXCEPT ![p] = Head(batch[p])]
          /\ batch' = [batch EXCEPT ![p] = Tail(@)]
          /\ Goto(p, "put")
          /\ UNCHANGED lock
  /\ h' = [h EXCEPT ![p] = 0]
  /\ UNCHANGED <<head, runq, runnext, global, made, curg, grab>>

\* runqputslow: half of a full ring leaves it with the new one, unless a thief
\* has made room.
PutSlow(p) ==
  /\ pc[p] = "slow"
  /\ IF head[p] = h[p]
     THEN /\ head' = [head EXCEPT ![p] = (@ + Size \div 2) % W]
          /\ runq' = [runq EXCEPT ![p] = Without(p, h[p], Size \div 2)]
          /\ batch' = [batch EXCEPT ![p] = Append(Batch(p, h[p], Size \div 2), gp[p])]
          /\ gp' = [gp EXCEPT ![p] = None] /\ h' = [h EXCEPT ![p] = 0]
          /\ Goto(p, "spill")
     ELSE Goto(p, "put") /\ UNCHANGED <<head, runq, batch, gp, h>>
  /\ UNCHANGED <<tail, runnext, global, lock, made, curg, grab>>

Spill(p) ==
  /\ pc[p] = "spill" /\ lock = None
  /\ global' = global \o batch[p]
  /\ batch' = [batch EXCEPT ![p] = <<>>]
  /\ Goto(p, "run")
  /\ UNCHANGED <<head, tail, runq, runnext, lock, made, curg, gp, h, grab>>
-----------------------------------------------------------------------------
(* runqget and globrunqget, by the owner *)

Run(p, g) == curg' = [curg EXCEPT ![p] = g] /\ Goto(p, "run")

\* The running goroutine blocks, or yields to the global queue.
Block(p) ==
  /\ pc[p] = "run" /\ curg[p] # None
  /\ curg' = [curg EXCEPT ![p] = None]
  /\ Goto(p, "get")
  /\ UNCHANGED <<head, tail, runq, runnext, global, lock, made, gp, batch, h, grab>>

Yield(p) ==
  /\ pc[p] = "run" /\ curg[p] \in Yielding /\ lock = None
  /\ global' = Append(global, curg[p])
  /\ curg' = [curg EXCEPT ![p] = None]
  /\ Goto(p, "get")
  /\ UNCHANGED <<head, tail, runq, runnext, lock, made, gp, batch, h, grab>>

\* Once in a while the global queue comes first.
GetGlobal(p) ==
  /\ pc[p] = "get" /\ global # <<>> /\ lock = None
  /\ Run(p, Head(global))
  /\ global' = Tail(global)
  /\ UNCHANGED <<head, tail, runq, runnext, lock, made, gp, batch, h, grab>>

\* runqget: runnext,
GetNext(p) ==
  /\ pc[p] = "get"
  /\ IF runnext[p] # None
     THEN Run(p, runnext[p]) /\ runnext' = [runnext EXCEPT ![p] = None]
     ELSE Goto(p, "look") /\ UNCHANGED <<curg, runnext>>
  /\ UNCHANGED <<head, tail, runq, global, lock, made, gp, batch, h, grab>>

\* else the first of the ring.
GetLook(p) ==
  /\ pc[p] = "look"
  /\ IF head[p] = tail[p]
     THEN Goto(p, "find") /\ UNCHANGED h
     ELSE Goto(p, "take") /\ h' = [h EXCEPT ![p] = head[p]]
  /\ UNCHANGED <<head, tail, runq, runnext, global, lock, made, curg, gp, batch, grab>>

GetTake(p) ==
  /\ pc[p] = "take"
  /\ IF head[p] = h[p]
     THEN /\ Run(p, runq[p][Slot(h[p])])
          /\ head' = [head EXCEPT ![p] = (@ + 1) % W]
          /\ runq' = [runq EXCEPT ![p] = Without(p, h[p], 1)]
     ELSE Goto(p, "look") /\ UNCHANGED <<curg, head, runq>>
  /\ h' = [h EXCEPT ![p] = 0]
  /\ UNCHANGED <<tail, runnext, global, lock, made, gp, batch, grab>>

\* globrunqget: its share of n goroutines, at most half a ring.
GlobalShare(n) ==
  LET share == n \div Cardinality(Procs) + 1
  IN IF share > Size \div 2 THEN Size \div 2 ELSE IF share > n THEN n ELSE share

\* With nothing in the ring, a P runs the first and keeps sched.lock to put the
\* others.
TakeGlobal(p) ==
  /\ pc[p] = "find" /\ global # <<>> /\ lock = None
  /\ LET n == GlobalShare(Len(global))
         rest == SubSeq(global, 2, n)
     IN /\ curg' = [curg EXCEPT ![p] = Head(global)]
        /\ global' = SubSeq(global, n + 1, Len(global))
        /\ IF rest = <<>>
           THEN Goto(p, "run") /\ UNCHANGED <<gp, batch, lock>>
           ELSE /\ gp' = [gp EXCEPT ![p] = Head(rest)]
                /\ batch' = [batch EXCEPT ![p] = Tail(rest)]
                /\ lock' = p
                /\ Goto(p, "put")
  /\ UNCHANGED <<head, tail, runq, runnext, made, h, grab>>
-----------------------------------------------------------------------------
(* runqsteal and runqgrab, by a thief *)

EndGrab(p) == grab' = [grab EXCEPT ![p] = NoGrab] /\ h' = [h EXCEPT ![p] = 0]

\* A P without a goroutine picks a victim.
Steal(p) ==
  /\ pc[p] = "find"
  /\ \E v \in Procs \ {p}, stealRunNextG \in BOOLEAN :
       grab' = [grab EXCEPT ![p].victim = v, ![p].nextG = stealRunNextG]
  /\ Goto(p, "grab")
  /\ UNCHANGED <<head, tail, runq, runnext, global, lock, made, curg, gp, batch, h>>

GrabHead(p) ==
  /\ pc[p] = "grab"
  /\ h' = [h EXCEPT ![p] = head[grab[p].victim]]
  /\ Goto(p, "tail")
  /\ UNCHANGED <<head, tail, runq, runnext, global, lock, made, curg, gp, batch, grab>>

\* Half of what seems to be there; nothing, or more than can be.
GrabTail(p) ==
  /\ pc[p] = "tail"
  /\ LET there == Dist(tail[grab[p].victim], h[p])
         n == there - there \div 2
     IN IF n = 0
        THEN IF grab[p].nextG
             THEN Goto(p, "runnext") /\ h' = [h EXCEPT ![p] = 0] /\ UNCHANGED grab
             ELSE Goto(p, "find") /\ EndGrab(p)
        ELSE IF n > Size \div 2
             THEN Goto(p, "grab") /\ h' = [h EXCEPT ![p] = 0] /\ UNCHANGED grab
             ELSE /\ Goto(p, "copy")
                  /\ grab' = [grab EXCEPT ![p].n = n, ![p].i = 0]
                  /\ UNCHANGED h
  /\ UNCHANGED <<head, tail, runq, runnext, global, lock, made, curg, gp, batch>>

\* One after the other is copied behind the tail of the thief's own ring.
GrabCopy(p) ==
  /\ pc[p] = "copy"
  /\ LET i == grab[p].i
     IN /\ runq' = [runq EXCEPT ![p][Slot(tail[p] + i)] = runq[grab[p].victim][Slot(h[p] + i)]]
        /\ grab' = [grab EXCEPT ![p].i = i + 1]
        /\ Goto(p, IF i + 1 = grab[p].n THEN "claim" ELSE "copy")
  /\ UNCHANGED <<head, tail, runnext, global, lock, made, curg, gp, batch, h>>

\* Faulty variant: the thief does not look whether somebody came before it.
GrabUnclaimed(p) ==
  /\ pc[p] = "claim"
  /\ head' = [head EXCEPT ![grab[p].victim] = (h[p] + grab[p].n) % W]
  /\ Goto(p, "commit")
  /\ UNCHANGED <<tail, runq, runnext, global, lock, made, curg, gp, batch, h, grab>>

\* They are its own once the head moves past them, if nobody else moved it.
GrabClaim(p) ==
  /\ pc[p] = "claim"
  /\ IF head[grab[p].victim] = h[p]
     THEN /\ head' = [head EXCEPT ![grab[p].victim] = (@ + grab[p].n) % W]
          /\ runq' = [runq EXCEPT ![grab[p].victim] = Without(grab[p].victim, h[p], grab[p].n)]
          /\ Goto(p, "commit") /\ UNCHANGED h
     ELSE /\ runq' = [runq EXCEPT ![p] = Without(p, tail[p], grab[p].n)]
          /\ Goto(p, "grab") /\ h' = [h EXCEPT ![p] = 0] /\ UNCHANGED head
  /\ UNCHANGED <<tail, runnext, global, lock, made, curg, gp, batch, grab>>

\* The last one runs, the others join its ring.
Commit(p) ==
  /\ pc[p] = "commit"
  /\ LET t == (tail[p] + grab[p].n - 1) % W
     IN /\ NotLapped(p, t)
        /\ Run(p, runq[p][Slot(t)])
        /\ runq' = [runq EXCEPT ![p] = Without(p, t, 1)]
        /\ tail' = [tail EXCEPT ![p] = t]
  /\ EndGrab(p)
  /\ UNCHANGED <<head, runnext, global, lock, made, gp, batch>>

\* The ring was empty: what the victim would run next is stolen, after a while
\* in which it may well run it.
StealNextLook(p) ==
  /\ pc[p] = "runnext"
  /\ IF runnext[grab[p].victim] = None
     THEN Goto(p, "find") /\ EndGrab(p)
     ELSE /\ Goto(p, "cas")
          /\ grab' = [grab EXCEPT ![p].next = runnext[grab[p].victim]]
          /\ UNCHANGED h
  /\ UNCHANGED <<head, tail, runq, runnext, global, lock, made, curg, gp, batch>>

StealNext(p) ==
  /\ pc[p] = "cas"
  /\ IF runnext[grab[p].victim] = grab[p].next
     THEN /\ runnext' = [runnext EXCEPT ![grab[p].victim] = None]
          /\ Run(p, grab[p].next) /\ EndGrab(p)
     ELSE /\ Goto(p, "grab")
          /\ grab' = [grab EXCEPT ![p].next = None]
          /\ UNCHANGED <<runnext, curg, h>>
  /\ UNCHANGED <<head, tail, runq, global, lock, made, gp, batch>>
-----------------------------------------------------------------------------
Put(p) == PutNext(p) \/ PutLook(p) \/ PutWrite(p) \/ PutPublish(p) \/ PutSlow(p) \/ Spill(p)

Get(p) == GetGlobal(p) \/ GetNext(p) \/ GetLook(p) \/ GetTake(p) \/ TakeGlobal(p)

Grab(p) ==
  \/ Steal(p) \/ GrabHead(p) \/ GrabTail(p) \/ GrabCopy(p) \/ GrabClaim(p) \/ Commit(p)
  \/ StealNextLook(p) \/ StealNext(p)

Next ==
  \E p \in Procs : Ready(p) \/ Block(p) \/ Yield(p) \/ Put(p) \/ Get(p) \/ Grab(p)

Spec == Init /\ [][Next]_vars
-----------------------------------------------------------------------------
\* The goroutines between head and tail, and those a thief has claimed.
Queue(p) == Batch(p, head[p], Dist(tail[p], head[p]))
Claimed(p) ==
  IF pc[p] = "commit" THEN ToSet(Batch(p, tail[p], grab[p].n)) ELSE {}

Hand(p) == ({curg[p], gp[p]} \ {None}) \cup ToSet(batch[p]) \cup Claimed(p)

queues == [p \in Procs |-> Queue(p)]
hands == [p \in Procs |-> Hand(p)]

\* The places where goroutines are, and those that are somewhere.
Places == ({"queue", "next", "hand"} \X Procs) \cup {<<"global", None>>}

At(x) ==
  IF x[1] = "queue" THEN ToSet(Queue(x[2]))
  ELSE IF x[1] = "next" THEN {runnext[x[2]]} \ {None}
  ELSE IF x[1] = "hand" THEN Hand(x[2])
  ELSE ToSet(global)

Placed ==
  ToSet(global)
    \cup UNION {ToSet(Queue(p)) \cup Hand(p) \cup ({runnext[p]} \ {None}) : p \in Procs}
idle == Goroutines \ Placed

\* Every step of rings, counters and batches is a step of queues: nothing is
\* lost or run by two Ps, and queues stay first in, first out but for the order within
\* a batch, whoever steals from whom.
Queues == INSTANCE RunQueues WITH
  queue <- queues, next <- runnext, hand <- hands, blocked <- idle

ImplementsRunQueues == Queues!Spec

-----------------------------------------------------------------------------
(* Properties *)

InRing(p) == Dist(tail[p], head[p])

\* x is a value that the head of p had, and the tail has not come round to it.
Behind(x, p) == Dist(head[p], x) <= Dist(tail[p], x)

Seeking == {"find", "grab", "tail", "copy", "claim", "commit", "runnext", "cas"}

\* What a P has in hand by the point it has reached.  It steals with an empty
\* ring of its own.
PointsAgree ==
  \A p \in Procs :
    /\ curg[p] # None
         <=> pc[p] \in {"run", "next", "put", "write", "publish", "slow", "spill"}
    /\ gp[p] # None <=> pc[p] \in {"next", "put", "write", "publish", "slow"}
    /\ pc[p] = "spill" => batch[p] # <<>>
    /\ pc[p] \in Seeking => head[p] = tail[p]
    /\ pc[p] \in Seeking \ {"find"} => grab[p].victim \in Procs \ {p}
    /\ pc[p] = "cas" => grab[p].next # None

\* sched.lock is kept by a P that puts what it took from the global queue, for
\* which its ring has room.
LockKept ==
  /\ \A p \in Procs :
       lock = p => /\ pc[p] \in {"put", "write", "publish"}
                   /\ InRing(p) + Len(batch[p]) + 1 <= Size \div 2
  /\ \A p \in Procs : batch[p] # <<>> => pc[p] = "spill" \/ lock = p

\* A head that was read may be old, but the counters have not come round to it,
\* and what was seen behind it fits the ring of the thief.
HeadsAreOld ==
  \A p \in Procs :
    /\ pc[p] \in {"take", "slow"} => Behind(h[p], p) /\ h[p] # tail[p]
    /\ pc[p] \in {"tail", "copy", "claim"} => Behind(h[p], grab[p].victim)
    /\ pc[p] \in {"copy", "claim", "commit"} => grab[p].n \in 1..(Size \div 2)
    /\ pc[p] \in {"copy", "claim"} => grab[p].n <= Dist(tail[grab[p].victim], h[p])
    /\ pc[p] = "copy" => grab[p].i < grab[p].n
    /\ pc[p] = "claim" => grab[p].i = grab[p].n

\* There is a goroutine in each slot from head to tail, and in those a thief has
\* claimed.  Until it claims them, its copies are right if the head has not moved.
SlotsFilled ==
  \A p \in Procs :
    /\ \A k \in 0..(InRing(p) - 1) : runq[p][Slot(head[p] + k)] # None
    /\ pc[p] = "publish" => runq[p][Slot(tail[p])] = gp[p]
    /\ pc[p] = "commit" =>
         \A k \in 0..(grab[p].n - 1) : runq[p][Slot(tail[p] + k)] # None
    /\ pc[p] \in {"copy", "claim"} /\ head[grab[p].victim] = h[p] =>
         \A k \in 0..(grab[p].i - 1) :
           runq[p][Slot(tail[p] + k)] = runq[grab[p].victim][Slot(h[p] + k)]

\* The throws of the code ("runq overflow", "queue is not full", "pidleput: P has
\* non-empty run queue") are out of reach, and a P that keeps sched.lock while it
\* puts goroutines never gets to the slow path, which would lock it again.
NoThrow ==
  \A p \in Procs :
    /\ InRing(p) <= Size
    /\ pc[p] \in {"write", "publish"} => InRing(p) < Size
    /\ pc[p] = "commit" => InRing(p) + grab[p].n - 1 < Size
    /\ pc[p] = "slow" => Dist(tail[p], h[p]) = Size
    /\ pc[p] \in {"slow", "spill"} => lock # p
    /\ pc[p] = "find" => head[p] = tail[p]

\* Counters, rings, copies and hands agree between any two accesses, and the
\* checks of the scheduler do not fail.
RingInv ==
  /\ TypeOK
  /\ PointsAgree
  /\ LockKept
  /\ HeadsAreOld
  /\ SlotsFilled
  /\ NoThrow

\* No goroutine is in two places, nor twice in the same queue,
Alone == \A x \in Places : \A g \in At(x) : \A y \in Places : g \in At(y) => x = y
Lined == IsInjective(global) /\ \A p \in Procs : IsInjective(Queue(p))

\* or twice in the hands of one P, whose batches are no longer than a queue.
HandsApart ==
  \A p \in Procs :
    /\ curg[p] # None => curg[p] # gp[p]
    /\ {curg[p], gp[p]} \cap ToSet(batch[p]) = {} /\ IsInjective(batch[p])
    /\ pc[p] = "spill" => Len(batch[p]) <= Size
    /\ pc[p] = "commit" => IsInjective(Batch(p, tail[p], grab[p].n))

\* Only those that have become runnable are anywhere.
Numbered == \A g \in Placed : g <= made

\* The rings are sound, and each goroutine is in at most one place.
IInv == RingInv /\ Alone /\ Lined /\ HandsApart /\ Numbered
=============================================================================
