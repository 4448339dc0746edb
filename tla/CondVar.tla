------------------------------ MODULE CondVar ------------------------------
(***************************************************************************)
(* The condition-variable program (mycond.cc): func_1 .. func_4, which are   *)
(* the same up to what they print, and main, which wakes them Rounds times,   *)
(* sets quit, wakes them once more and joins them in order.  A step is one   *)
(* access to quit or what a thread does from getting the mutex to giving it   *)
(* up.  The sleeps of main are not modelled: they bound no thread's speed.   *)
(***************************************************************************)
EXTENDS Naturals

CONSTANTS PTNUMS,    \* the number of workers
          Rounds     \* main's initial cnt

CondVarAssumption == PTNUMS \in Nat \ {0} /\ Rounds \in Nat

VARIABLES
  quit, cnt,
  main,    \* main's statement: "rounds", "last", "join", "done"
  joined,  \* workers joined so far
  worker   \* "test": at while(!quit); "lock"; "wait": on cond; "woken"; "done"

vars == <<quit, cnt, main, joined, worker>>

W == 1 .. PTNUMS

Init ==
  /\ quit = FALSE /\ cnt = Rounds /\ main = "rounds" /\ joined = 0
  /\ worker = [w \in W |-> "test"]

Goto(w, from, to) == worker[w] = from /\ worker' = [worker EXCEPT ![w] = to]

TestQuit(w) == Goto(w, "test", IF quit THEN "done" ELSE "lock")

\* Lock, then wait at once: quit is not looked at again.
LockAndWait(w) == Goto(w, "lock", "wait")

\* The wait is over: print, unlock.
Work(w) == Goto(w, "woken", "test")

func(w) == /\ TestQuit(w) \/ LockAndWait(w) \/ Work(w)
           /\ UNCHANGED <<quit, cnt, main, joined>>

\* pthread_cond_wait may return without a broadcast; nothing makes it.
SpuriousWake(w) == Goto(w, "wait", "woken") /\ UNCHANGED <<quit, cnt, main, joined>>

SignalOne ==
  LET waiting == {w \in W : worker[w] = "wait"}
  IN  IF waiting = {} THEN worker' = worker
      ELSE \E w \in waiting : worker' = [worker EXCEPT ![w] = "woken"]

Broadcast == worker' = [w \in W |-> IF worker[w] = "wait" THEN "woken" ELSE worker[w]]

WakeAll ==
  /\ main = "rounds" /\ cnt > 0
  /\ cnt' = cnt - 1
  /\ Broadcast
  /\ UNCHANGED <<quit, main, joined>>

SetQuit ==
  /\ main = "rounds" /\ cnt = 0
  /\ quit' = TRUE /\ main' = "last"
  /\ UNCHANGED <<cnt, joined, worker>>

WakeLast ==
  /\ main = "last"
  /\ Broadcast
  /\ main' = "join"
  /\ UNCHANGED <<quit, cnt, joined>>

\* pthread_join of the next worker.
Join ==
  /\ main = "join"
  /\ worker[joined + 1] = "done"
  /\ joined' = joined + 1
  /\ main' = IF joined' = PTNUMS THEN "done" ELSE "join"
  /\ UNCHANGED <<quit, cnt, worker>>

MainStep == WakeAll \/ SetQuit \/ WakeLast \/ Join

Next == MainStep \/ \E w \in W : func(w) \/ SpuriousWake(w)

-----------------------------------------------------------------------------
TypeOK ==
  /\ quit \in BOOLEAN /\ cnt \in 0 .. Rounds /\ joined \in 0 .. PTNUMS
  /\ main \in {"rounds", "last", "join", "done"}
  /\ worker \in [W -> {"test", "lock", "wait", "woken", "done"}]

\* "Wake them once more here, to make sure the threads are checked a last time"
\* (mycond.cc:133).  When quit is set, every worker leaves that is not between its
\* test of quit and its wait, wherever else it is and whatever the others do, and
\* main joins them all if none is there.  One that is may wait for ever.
JoinsUnlessCaught ==
  /\ \A w \in W : (main = "last" /\ worker[w] # "lock") ~> worker[w] = "done"
  /\ (main = "last" /\ \A w \in W : worker[w] # "lock") ~> main = "done"
=============================================================================
