--------------------------------- MODULE Once ---------------------------------
(***************************************************************************)
(* sync.Once (sync/once.go) over the abstract lock: the flag done is read  *)
(* first without the mutex, and set after f has run, also when f panics.   *)
(***************************************************************************)
EXTENDS Counting

CONSTANT Callers

ASSUME OnceAssumption == IsFiniteSet(Callers)

VARIABLES
  done,     \* o.done = 1
  mutex,    \* o.m is locked
  ran,      \* history: how many runs of f have begun
  ended,    \* history: how many have ended
  step      \* where each call of Do is

onceVars == <<done, mutex, ran, ended, step>>

Inside == {"check", "call", "store", "unlock"}
DoPoints == {"idle", "lock", "returned"} \cup Inside

OnceTypeOK ==
  /\ done \in BOOLEAN /\ mutex \in BOOLEAN
  /\ ran \in Nat /\ ended \in Nat
  /\ step \in [Callers -> DoPoints]

OnceInit ==
  /\ done = FALSE /\ mutex = FALSE
  /\ ran = 0 /\ ended = 0
  /\ step = [g \in Callers |-> "idle"]

DoGoto(g, p) == step' = [step EXCEPT ![g] = p]

\* if atomic.LoadUint32(&o.done) == 1 { return }
DoLoad(g) ==
  /\ step[g] = "idle"
  /\ DoGoto(g, IF done THEN "returned" ELSE "lock")
  /\ UNCHANGED <<done, mutex, ran, ended>>

DoLock(g) ==
  /\ step[g] = "lock"
  /\ ~mutex
  /\ mutex' = TRUE
  /\ DoGoto(g, "check")
  /\ UNCHANGED <<done, ran, ended>>

\* Faulty variant: done is set before f is called.
DoStoreFirst(g) ==
  /\ step[g] = "check"
  /\ done' = TRUE
  /\ IF done THEN DoGoto(g, "unlock") /\ UNCHANGED ran
             ELSE DoGoto(g, "call") /\ ran' = ran + 1
  /\ UNCHANGED <<mutex, ended>>

\* if o.done == 0 { ... f() }
DoCheck(g) ==
  /\ step[g] = "check"
  /\ IF done THEN DoGoto(g, "unlock") /\ UNCHANGED ran
             ELSE DoGoto(g, "call") /\ ran' = ran + 1
  /\ UNCHANGED <<done, mutex, ended>>

\* Faulty variant: f ends the call of Do with its panic, and done stays unset.
DoCallPanics(g) ==
  /\ step[g] = "call"
  /\ ended' = ended + 1
  /\ \E p \in {"store", "unlock"} : DoGoto(g, p)
  /\ UNCHANGED <<done, mutex, ran>>

\* f returns or panics: the deferred calls run either way, the store first.
DoCall(g) ==
  /\ step[g] = "call"
  /\ ended' = ended + 1
  /\ DoGoto(g, "store")
  /\ UNCHANGED <<done, mutex, ran>>

DoStore(g) ==
  /\ step[g] = "store"
  /\ done' = TRUE
  /\ DoGoto(g, "unlock")
  /\ UNCHANGED <<mutex, ran, ended>>

DoUnlock(g) ==
  /\ step[g] = "unlock"
  /\ mutex' = FALSE
  /\ DoGoto(g, "returned")
  /\ UNCHANGED <<done, ran, ended>>

DoContinue(g) == DoCheck(g) \/ DoCall(g) \/ DoStore(g) \/ DoUnlock(g)

OnceNext ==
  \E g \in Callers : DoLoad(g) \/ DoLock(g) \/ DoContinue(g)

OnceSpec == OnceInit /\ [][OnceNext]_onceVars
-----------------------------------------------------------------------------
\* "Exactly one action": f is called once, however many Do calls race.
OneRun == ran <= 1

\* "No call to Do returns until the one call to f returns", the calls of the
\* fast path included.
ReturnAfterRun ==
  (done \/ \E g \in Callers : step[g] = "returned") => ran = 1 /\ ended = 1

\* The mutex is held by the goroutine inside; from the first look at done that
\* finds it unset until the store, one goroutine is at f or about to store, so
\* the plain read of done under the mutex is never stale; f has ended when that
\* goroutine is past it.
OnceInv ==
  /\ OnceTypeOK
  /\ Count(step, Inside) = IF mutex THEN 1 ELSE 0
  /\ Count(step, {"call", "store"}) = IF ran = 1 /\ ~done THEN 1 ELSE 0
  /\ ended <= ran /\ ran <= 1
  /\ ended = 1 <=> done \/ Count(step, {"store"}) = 1
  /\ \A g \in Callers : step[g] \in {"unlock", "returned"} => done
  /\ done => ran = 1
=============================================================================
