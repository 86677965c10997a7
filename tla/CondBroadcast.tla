----------------------------- MODULE CondBroadcast -----------------------------
(***************************************************************************)
(* sync.Cond with a history variable: the goroutines that were waiting     *)
(* when a Broadcast call took its count, and have not been woken since.    *)
(***************************************************************************)
EXTENDS Cond

VARIABLE due

Waiting == {g \in Users : at[g] \in Waits}

\* The Broadcast call of g has just taken its count.
Counts(g) == at[g] = "broadcast" /\ at'[g] = "release"

BroadcastInit == CondInit /\ due = [g \in Users |-> {}]

BroadcastNext ==
  /\ CondNext
  /\ due' = [g \in Users |->
              IF Counts(g) THEN Waiting' ELSE due[g] \cap Waiting']

BroadcastSpec == BroadcastInit /\ [][BroadcastNext]_<<condVars, due>>

\* "Broadcast wakes all goroutines waiting on c" (cond.go:76): when the call has
\* returned, none of the goroutines that were waiting is asleep as before.
BroadcastWakesAll ==
  \A g, h \in Users :
    at[g] = "running" /\ h \in due[g] => at[h] # "asleep"
=============================================================================
