--------------------------------- MODULE Chan ---------------------------------
(***************************************************************************)
(* Channels and select (runtime/chan.go, runtime/select.go).  One action   *)
(* is one critical section under the lock of the channel, or under the     *)
(* locks of all channels of a select, or one step outside of them: the     *)
(* two reads of the non-blocking fast path, and the delivery to a dequeued *)
(* goroutine after the unlock.  A value is named by its sender.            *)
(***************************************************************************)
EXTENDS Integers, FiniteSets, SequencesExt

CONSTANTS
  Goroutines, Chans,
  Cap,       \* c.dataqsiz of each channel
  Offers,    \* the operations that the goroutines make
  Closable   \* the channels that they close

Dirs == {"send", "recv"}
Case == [c : Chans, dir : Dirs]

\* block is the parameter of chansend and chanrecv, or "no default" of a select.
Operation == [cases : SUBSET Case, block : BOOLEAN, select : BOOLEAN]

NoOp == [cases |-> {}, block |-> TRUE, select |-> FALSE]

ASSUME ChanAssumption ==
  /\ IsFiniteSet(Goroutines)
  /\ Cap \in [Chans -> Nat] /\ Closable \subseteq Chans
  /\ Offers \subseteq Operation
  /\ \A o \in Offers :
       /\ IsFiniteSet(o.cases) /\ o.cases # {}
       /\ o.select \/ Cardinality(o.cases) = 1

VARIABLES
  buf,       \* the buffer of each channel
  closed,
  waitq,     \* c.sendq and c.recvq: a sudog is named by its goroutine
  op,        \* the operation a goroutine is in, or NoOp
  pc,
  done,      \* the goroutine has been dequeued (selectdone of a select)
  hand,      \* whom to wake after the unlock, and the outcome to hand over:
             \* <<>> is a nil gp.param
  out        \* the outcome of an operation; of a parked one, gp.param and elem

vars == <<buf, closed, waitq, op, pc, done, hand, out>>

Points ==
  {"idle", "second", "try", "parked", "woken", "waking", "return", "throw"}

Outcomes ==
  {<<>>, <<"panic">>, <<"default">>, <<"close">>}
    \cup ({"sent", "closed"} \X Chans) \cup ({"received"} \X Chans \X Goroutines)

TypeOK ==
  /\ buf \in [Chans -> Seq(Goroutines)]
  /\ closed \in [Chans -> BOOLEAN]
  /\ waitq \in [Chans -> [Dirs -> Seq(Goroutines)]]
  /\ op \in [Goroutines -> Offers \cup {NoOp}]
  /\ pc \in [Goroutines -> Points]
  /\ done \in [Goroutines -> BOOLEAN]
  /\ hand \in [Goroutines -> {<<>>} \cup (Goroutines \X Outcomes)]
  /\ out \in [Goroutines -> Outcomes]

Init ==
  /\ buf = [c \in Chans |-> <<>>]
  /\ closed = [c \in Chans |-> FALSE]
  /\ waitq = [c \in Chans |-> [d \in Dirs |-> <<>>]]
  /\ op = [g \in Goroutines |-> NoOp]
  /\ pc = [g \in Goroutines |-> "idle"]
  /\ done = [g \in Goroutines |-> FALSE]
  /\ hand = [g \in Goroutines |-> <<>>]
  /\ out = [g \in Goroutines |-> <<>>]

Goto(g, p) == pc' = [pc EXCEPT ![g] = p]

\* The operation of g has its outcome and returns.
Finish(g, o) ==
  /\ out' = [out EXCEPT ![g] = o]
  /\ Goto(g, "return")
  /\ UNCHANGED <<done, hand>>
-----------------------------------------------------------------------------
(* Queues of waiters.  wq stands for waitq, less what the operation under   *)
(* way has already taken out of it.                                         *)

Other(d) == IF d = "send" THEN "recv" ELSE "send"

\* The place in a queue of the first waiter that nobody has claimed, or 0.
FirstLive(q) == SelectInSeq(q, LAMBDA h : ~done[h])

\* Those who wait to be met by case k.
Partners(wq, k) == wq[k.c][Other(k.dir)]

\* q.dequeue() for case k finds somebody.
HasPartner(wq, k) == FirstLive(Partners(wq, k)) # 0

\* q.dequeue() that finds nobody has dropped what was left of selects.
Drop(wq, k) == [wq EXCEPT ![k.c][Other(k.dir)] = <<>>]

\* dequeueSudoG of all cases of g.
Without(wq, g) ==
  [c \in Chans |-> [d \in Dirs |-> RemoveFirst(wq[c][d], g)]]

\* Faulty variant: the waiter that is woken is not claimed.
DequeueUnclaimed(g, wq, k, o) ==
  LET q == Partners(wq, k)
      h == q[FirstLive(q)]
  IN /\ waitq' = [wq EXCEPT ![k.c][Other(k.dir)] =
                    SubSeq(q, FirstLive(q) + 1, Len(q))]
     /\ done' = done
     /\ hand' = [hand EXCEPT ![g] = <<h, o>>]
     /\ Goto(g, "waking")

\* q.dequeue() claims the right to signal the first live waiter; g will ready
\* it, with the outcome o, after the unlock.
Dequeue(g, wq, k, o) ==
  LET q == Partners(wq, k)
      h == q[FirstLive(q)]
  IN /\ waitq' = [wq EXCEPT ![k.c][Other(k.dir)] =
                    SubSeq(q, FirstLive(q) + 1, Len(q))]
     /\ done' = [done EXCEPT ![h] = TRUE]
     /\ hand' = [hand EXCEPT ![g] = <<h, o>>]
     /\ Goto(g, "waking")

\* Faulty variant: the buffer is changed and nobody is told.
PingNobody(g, wq, k) ==
  waitq' = wq /\ Goto(g, "return") /\ UNCHANGED <<done, hand>>

\* After a change of the buffer: wake up a waiting receiver or sender.
Ping(g, wq, k) ==
  IF HasPartner(wq, k)
  THEN Dequeue(g, wq, k, <<>>)
  ELSE waitq' = Drop(wq, k) /\ Goto(g, "return") /\ UNCHANGED <<done, hand>>
-----------------------------------------------------------------------------
(* The critical section of chansend, chanrecv and selectgo *)

\* Faulty variant: nobody looks for a partner on an unbuffered channel.
ReadyAlone(wq, k) ==
  \/ closed[k.c]
  \/ IF k.dir = "send" THEN Len(buf[k.c]) < Cap[k.c] ELSE buf[k.c] # <<>>

\* Case k can proceed.
Ready(wq, k) ==
  \/ closed[k.c]
  \/ Cap[k.c] = 0 /\ HasPartner(wq, k)
  \/ Cap[k.c] > 0 /\ IF k.dir = "send" THEN Len(buf[k.c]) < Cap[k.c]
                                      ELSE buf[k.c] # <<>>

ProceedSend(g, wq, c) ==
  LET k == [c |-> c, dir |-> "send"]
  IN \/ /\ closed[c]
        /\ Finish(g, <<"panic">>)
        /\ waitq' = wq /\ UNCHANGED buf
     \/ /\ ~closed[c]
        /\ out' = [out EXCEPT ![g] = <<"sent", c>>]
        /\ IF Cap[c] > 0
           THEN buf' = [buf EXCEPT ![c] = Append(@, g)] /\ Ping(g, wq, k)
           ELSE UNCHANGED buf /\ Dequeue(g, wq, k, <<"received", c, g>>)

\* Faulty variant: the closed channel is noticed before its buffer is empty.
ProceedRecvClosedFirst(g, wq, c) ==
  LET k == [c |-> c, dir |-> "recv"]
  IN \/ /\ closed[c]
        /\ Finish(g, <<"closed", c>>)
        /\ waitq' = wq /\ UNCHANGED buf
     \/ /\ ~closed[c] /\ buf[c] # <<>>
        /\ out' = [out EXCEPT ![g] = <<"received", c, Head(buf[c])>>]
        /\ buf' = [buf EXCEPT ![c] = Tail(@)]
        /\ Ping(g, wq, k)
     \/ /\ Cap[c] = 0 /\ ~closed[c]
        /\ LET q == Partners(wq, k)
           IN out' = [out EXCEPT ![g] = <<"received", c, q[FirstLive(q)]>>]
        /\ Dequeue(g, wq, k, <<"sent", c>>)
        /\ UNCHANGED buf

ProceedRecv(g, wq, c) ==
  LET k == [c |-> c, dir |-> "recv"]
  IN \/ /\ buf[c] # <<>>
        /\ out' = [out EXCEPT ![g] = <<"received", c, Head(buf[c])>>]
        /\ buf' = [buf EXCEPT ![c] = Tail(@)]
        /\ Ping(g, wq, k)
     \/ /\ buf[c] = <<>> /\ closed[c]
        /\ Finish(g, <<"closed", c>>)
        /\ waitq' = wq /\ UNCHANGED buf
     \/ /\ Cap[c] = 0 /\ ~closed[c]
        /\ LET q == Partners(wq, k)
           IN out' = [out EXCEPT ![g] = <<"received", c, q[FirstLive(q)]>>]
        /\ Dequeue(g, wq, k, <<"sent", c>>)
        /\ UNCHANGED buf

Proceed(g, wq, k) ==
  IF k.dir = "send" THEN ProceedSend(g, wq, k.c) ELSE ProceedRecv(g, wq, k.c)

\* Looking at the unbuffered channels of the cases ks has emptied their queues
\* of claimed waiters.
Looked(wq, ks) ==
  [c \in Chans |-> [d \in Dirs |->
    IF Cap[c] = 0 /\ [c |-> c, dir |-> Other(d)] \in ks THEN <<>> ELSE wq[c][d]]]

\* Pass 2: enqueue on all channels and park.
Park(g, wq) ==
  /\ waitq' = [c \in Chans |-> [d \in Dirs |->
                 IF [c |-> c, dir |-> d] \in op[g].cases
                 THEN Append(wq[c][d], g) ELSE wq[c][d]]]
  /\ done' = [done EXCEPT ![g] = FALSE]
  /\ Goto(g, "parked")
  /\ UNCHANGED <<buf, hand, out>>

\* Pass 1 in any order: the first case that is ready, after some that were not.
Attempt(g, wq) ==
  LET ready == {k \in op[g].cases : Ready(wq, k)}
      none  == Looked(wq, op[g].cases)
  IN /\ \/ \E k \in ready, ks \in SUBSET (op[g].cases \ ready) :
             Proceed(g, Looked(wq, ks), k)
        \/ ready = {} /\ op[g].block /\ Park(g, none)
        \/ /\ ready = {} /\ ~op[g].block
           /\ Finish(g, <<"default">>)
           /\ waitq' = none /\ UNCHANGED buf
     /\ UNCHANGED <<closed, op>>
-----------------------------------------------------------------------------
(* Operations *)

\* The fast path of a non-blocking operation: the channel is not ready, as far
\* as one word tells.
LooksNotReady(k) ==
  IF Cap[k.c] = 0 THEN waitq[k.c][Other(k.dir)] = <<>>
  ELSE IF k.dir = "send" THEN Len(buf[k.c]) = Cap[k.c] ELSE buf[k.c] = <<>>

\* A call.  The fast path reads c.closed first for a send, and last for a
\* receive.
Call(g, o) ==
  /\ pc[g] = "idle"
  /\ op' = [op EXCEPT ![g] = o]
  /\ \E k \in o.cases :
       LET fast == ~o.block /\ ~o.select
                     /\ IF k.dir = "send" THEN ~closed[k.c] ELSE LooksNotReady(k)
       IN Goto(g, IF fast THEN "second" ELSE "try")
  /\ UNCHANGED <<buf, closed, waitq, done, hand, out>>

\* The second read of the fast path.
Second(g) ==
  /\ pc[g] = "second"
  /\ \E k \in op[g].cases :
       IF IF k.dir = "send" THEN LooksNotReady(k) ELSE ~closed[k.c]
       THEN Finish(g, <<"default">>)
       ELSE Goto(g, "try") /\ UNCHANGED <<done, hand, out>>
  /\ UNCHANGED <<buf, closed, waitq, op>>

Try(g) == pc[g] = "try" /\ Attempt(g, waitq)

\* The runtime throws: an unbuffered operation woken without an outcome by
\* anything but a close, or a select with one on a buffered channel.
Spurious(g) ==
  IF out[g] = <<>>
  THEN ~op[g].select /\ \E k \in op[g].cases : Cap[k.c] = 0 /\ ~closed[k.c]
  ELSE op[g].select /\ Cap[out[g][2]] > 0

\* Running again: pass 3 of a select; with an outcome the operation is done,
\* otherwise it starts over.
Woken(g) ==
  /\ pc[g] = "woken"
  /\ IF Spurious(g)
     THEN Goto(g, "throw") /\ UNCHANGED <<buf, closed, waitq, op, done, hand, out>>
     ELSE \/ /\ out[g] # <<>>
             /\ waitq' = Without(waitq, g)
             /\ Goto(g, "return")
             /\ UNCHANGED <<buf, closed, op, done, hand, out>>
          \/ out[g] = <<>> /\ Attempt(g, Without(waitq, g))

\* After the unlock: set param, copy the value, goready.
Deliver(g) ==
  /\ pc[g] = "waking"
  /\ LET h == hand[g][1]
     IN /\ out' = [out EXCEPT ![h] = hand[g][2]]
        /\ pc' = [pc EXCEPT ![g] = "return", ![h] = "woken"]
  /\ hand' = [hand EXCEPT ![g] = <<>>]
  /\ UNCHANGED <<buf, closed, waitq, op, done>>

\* closechan: all waiters that nobody else has claimed become runnable.
Close(g, c) ==
  /\ pc[g] = "idle"
  /\ LET live == {h \in ToSet(waitq[c]["recv"]) \cup ToSet(waitq[c]["send"]) :
                    ~done[h]}
     IN \/ /\ closed[c]
           /\ Finish(g, <<"panic">>)
           /\ UNCHANGED <<closed, waitq>>
        \/ /\ ~closed[c]
           /\ out' = [out EXCEPT ![g] = <<"close">>]
           /\ pc' = [h \in Goroutines |-> IF h = g THEN "return"
                                          ELSE IF h \in live THEN "woken" ELSE pc[h]]
           /\ done' = [h \in Goroutines |-> done[h] \/ h \in live]
           /\ closed' = [closed EXCEPT ![c] = TRUE]
           /\ waitq' = [waitq EXCEPT ![c] = [d \in Dirs |-> <<>>]]
           /\ UNCHANGED hand
  /\ UNCHANGED <<buf, op>>

\* The caller has its outcome.
Return(g) ==
  /\ pc[g] = "return"
  /\ Goto(g, "idle")
  /\ op' = [op EXCEPT ![g] = NoOp]
  /\ out' = [out EXCEPT ![g] = <<>>]
  /\ done' = [done EXCEPT ![g] = FALSE]
  /\ UNCHANGED <<buf, closed, waitq, hand>>
-----------------------------------------------------------------------------
Begin(g) == (\E o \in Offers : Call(g, o)) \/ (\E c \in Closable : Close(g, c))

\* The steps of an operation that is not parked.
Continue(g) == Second(g) \/ Try(g) \/ Woken(g) \/ Deliver(g) \/ Return(g)

Next == \E g \in Goroutines : Begin(g) \/ Continue(g)

Spec == Init /\ [][Next]_vars
-----------------------------------------------------------------------------
(* Properties *)

\* Parked on c in direction d, and not yet claimed by anybody.
Sleeping(c, d) ==
  {g \in Goroutines :
    pc[g] = "parked" /\ ~done[g] /\ [c |-> c, dir |-> d] \in op[g].cases}

\* Claimed, or running again, with nothing handed over: it will look again.
Coming(c, d) ==
  {g \in Goroutines :
    /\ pc[g] \in {"parked", "woken"} /\ done[g] /\ out[g] = <<>>
    /\ [c |-> c, dir |-> d] \in op[g].cases}

\* The sleeping goroutines are in the queues of their cases, once; what is left
\* besides them are claimed selects.  The queues of a closed channel are empty.
QueuesAreSleepers ==
  \A c \in Chans, d \in Dirs :
    LET q == waitq[c][d]
    IN /\ IsInjective(q)
       /\ {g \in ToSet(q) : ~done[g]} = Sleeping(c, d)
       /\ \A g \in ToSet(q) :
            done[g] => op[g].select /\ pc[g] \in {"parked", "woken"}
       /\ closed[c] => q = <<>>

\* Whoever has been claimed and not readied is in the hand of exactly one other:
\* it is neither forgotten nor made runnable twice.
ClaimedOnce ==
  /\ \A g \in Goroutines : pc[g] = "waking" <=> hand[g] # <<>>
  /\ \A h \in Goroutines :
       pc[h] = "parked" /\ done[h]
         <=> \E g \in Goroutines : hand[g] # <<>> /\ hand[g][1] = h
  /\ \A g, h \in Goroutines :
       hand[g] # <<>> /\ hand[h] # <<>> /\ hand[g][1] = hand[h][1] => g = h

\* A goroutine is in an operation, has its outcome and is claimed by the point
\* it has reached.
PointsAgree ==
  \A g \in Goroutines :
    /\ pc[g] = "idle" => op[g] = NoOp
    /\ pc[g] \in {"second", "try", "parked", "woken", "waking"} => op[g] \in Offers
    /\ pc[g] = "second" => ~op[g].block /\ ~op[g].select
    /\ pc[g] \in {"parked", "woken"} => op[g].block
    /\ pc[g] \in {"idle", "second", "try", "parked"} => out[g] = <<>>
    /\ pc[g] \in {"waking", "return"} => out[g] # <<>>
    /\ pc[g] \in {"idle", "second", "try"} => ~done[g]
    /\ pc[g] = "woken" => done[g]

\* What a waiter h may be woken with: the outcome of a case on an unbuffered
\* channel, or nothing by a buffered or closed one.
Fits(h, o) ==
  \/ /\ o = <<>>
     /\ op[h].select \/ \A k \in op[h].cases : Cap[k.c] > 0 \/ closed[k.c]
  \/ \E k \in op[h].cases :
       /\ Cap[k.c] = 0
       /\ IF k.dir = "send" THEN o = <<"sent", k.c>>
          ELSE \E g \in Goroutines : o = <<"received", k.c, g>>

\* Every outcome that is handed over is one for an operation of the waiter.
OutcomesFit ==
  \A g \in Goroutines :
    /\ hand[g] # <<>> => Fits(hand[g][1], hand[g][2])
    /\ pc[g] = "woken" => Fits(g, out[g])

\* Buffers keep their bounds, whatever the order of wakeups and retries.
BufferBounded == \A c \in Chans : Len(buf[c]) <= Cap[c]

\* "spurious wakeup" and "shouldn't happen" do not.
NoThrow == \A g \in Goroutines : pc[g] # "throw"

\* Points, queues, claims, outcomes and buffers agree between any two critical
\* sections, and the runtime does not throw.
IInv ==
  /\ TypeOK
  /\ PointsAgree
  /\ QueuesAreSleepers
  /\ ClaimedOnce
  /\ OutcomesFit
  /\ BufferBounded
  /\ NoThrow

\* Nobody sleeps on an unbuffered channel beside a goroutine it could meet.
NoMatchAsleep ==
  \A c \in Chans :
    Cap[c] = 0 => \A g \in Sleeping(c, "send"), h \in Sleeping(c, "recv") : g = h

\* c is not one of several channels that a select waits for.
Unshared(c) ==
  \A o \in Offers :
    o.block /\ (\E k \in o.cases : k.c = c) => Cardinality(o.cases) = 1

\* No lost wakeup: while a receiver sleeps, each value in the buffer has a
\* receiver that is on its way; while a sender sleeps, so has each free slot.
NoLostWakeup ==
  \A c \in Chans :
    Unshared(c) =>
      /\ Sleeping(c, "recv") # {} => Len(buf[c]) <= Cardinality(Coming(c, "recv"))
      /\ Sleeping(c, "send") # {}
           => Cap[c] - Len(buf[c]) <= Cardinality(Coming(c, "send"))

\* What callers see: a goroutine has its outcome once another holds it for it.
outcome ==
  [h \in Goroutines |->
    IF pc[h] = "parked" /\ done[h]
    THEN hand[CHOOSE g \in Goroutines : hand[g] # <<>> /\ hand[g][1] = h][2]
    ELSE out[h]]

Abstract == INSTANCE Channels WITH out <- outcome

\* Values are neither lost, made up, duplicated nor reordered; a send returns
\* only with its value taken or buffered; a select takes exactly one case.
ImplementsChannels == Abstract!Spec
=============================================================================
