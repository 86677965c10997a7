------------------------------- MODULE Channels -------------------------------
(***************************************************************************)
(* What channels promise to a program: a buffered channel is a bounded     *)
(* queue, an unbuffered one joins a sender and a receiver in one step, a   *)
(* select takes exactly one of its cases, and a closed channel panics on   *)
(* a send and, once drained, returns nothing on a receive.  A value is     *)
(* named by the goroutine that sends it.                                   *)
(***************************************************************************)
EXTENDS Naturals, Sequences

CONSTANTS Goroutines, Chans, Cap, Offers, NoOp

VARIABLES
  buf,       \* the buffer of each channel
  closed,
  op,        \* the operation each goroutine is in, or NoOp
  out        \* its outcome, <<>> until it has one

vars == <<buf, closed, op, out>>

Init ==
  /\ buf = [c \in Chans |-> <<>>]
  /\ closed = [c \in Chans |-> FALSE]
  /\ op = [g \in Goroutines |-> NoOp]
  /\ out = [g \in Goroutines |-> <<>>]

\* g is in an operation without outcome that has the case of dir on c.
Offering(g, c, dir) == out[g] = <<>> /\ [c |-> c, dir |-> dir] \in op[g].cases

Outcome(g, o) == out' = [out EXCEPT ![g] = o]

Call(g) ==
  /\ op[g] = NoOp /\ out[g] = <<>>
  /\ \E o \in Offers : op' = [op EXCEPT ![g] = o]
  /\ UNCHANGED <<buf, closed, out>>

Send(g, c) ==
  /\ Offering(g, c, "send") /\ ~closed[c]
  /\ Len(buf[c]) < Cap[c]
  /\ buf' = [buf EXCEPT ![c] = Append(@, g)]
  /\ Outcome(g, <<"sent", c>>)
  /\ UNCHANGED <<closed, op>>

Receive(g, c) ==
  /\ Offering(g, c, "recv")
  /\ buf[c] # <<>>
  /\ buf' = [buf EXCEPT ![c] = Tail(@)]
  /\ Outcome(g, <<"received", c, Head(buf[c])>>)
  /\ UNCHANGED <<closed, op>>

\* An unbuffered channel: both operations have their outcome at once.
Meet(g, h, c) ==
  /\ g # h
  /\ Cap[c] = 0 /\ ~closed[c]
  /\ Offering(g, c, "send") /\ Offering(h, c, "recv")
  /\ out' = [out EXCEPT ![g] = <<"sent", c>>, ![h] = <<"received", c, g>>]
  /\ UNCHANGED <<buf, closed, op>>

ReceiveClosed(g, c) ==
  /\ Offering(g, c, "recv")
  /\ closed[c] /\ buf[c] = <<>>
  /\ Outcome(g, <<"closed", c>>)
  /\ UNCHANGED <<buf, closed, op>>

SendPanics(g, c) ==
  /\ Offering(g, c, "send") /\ closed[c]
  /\ Outcome(g, <<"panic">>)
  /\ UNCHANGED <<buf, closed, op>>

\* An operation that may not block takes its default.
Default(g) ==
  /\ ~op[g].block /\ out[g] = <<>>
  /\ Outcome(g, <<"default">>)
  /\ UNCHANGED <<buf, closed, op>>

Close(g, c) ==
  /\ op[g] = NoOp /\ out[g] = <<>>
  /\ Outcome(g, IF closed[c] THEN <<"panic">> ELSE <<"close">>)
  /\ closed' = [closed EXCEPT ![c] = TRUE]
  /\ UNCHANGED <<buf, op>>

Return(g) ==
  /\ out[g] # <<>>
  /\ Outcome(g, <<>>)
  /\ op' = [op EXCEPT ![g] = NoOp]
  /\ UNCHANGED <<buf, closed>>

Next ==
  \E g \in Goroutines :
    \/ Call(g) \/ Default(g) \/ Return(g)
    \/ \E c \in Chans :
         \/ Send(g, c) \/ Receive(g, c)
         \/ ReceiveClosed(g, c) \/ SendPanics(g, c) \/ Close(g, c)
         \/ \E h \in Goroutines : Meet(g, h, c)

Spec == Init /\ [][Next]_vars
=============================================================================
