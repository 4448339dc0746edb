--------------------------- MODULE PoolSingleton ---------------------------
(***************************************************************************)
(* ThreadPool<T>::getThreadPool (ThreadPool.hpp:21): the double-checked      *)
(* creation of the one instance, by threads that call it at any time.  A     *)
(* step is one access to pthreadpool or one call on tmutex, a normal pthread *)
(* mutex: a thread that locks it again waits for itself.                     *)
(***************************************************************************)
EXTENDS Naturals

CONSTANTS Callers, Nobody

VARIABLES
  pthreadpool,   \* BOOLEAN: the static pointer is not null
  tmutex,        \* the thread that holds it, or Nobody
  pc

vars == <<pthreadpool, tmutex, pc>>

Init ==
  /\ pthreadpool = FALSE
  /\ tmutex = Nobody
  /\ pc = [t \in Callers |-> "call"]

Goto(t, label) == pc' = [pc EXCEPT ![t] = label]

Test(t) ==
  /\ pc[t] = "call"
  /\ Goto(t, IF pthreadpool THEN "return" ELSE "lock")
  /\ UNCHANGED <<pthreadpool, tmutex>>

Lock(t) ==
  /\ pc[t] = "lock" /\ tmutex = Nobody
  /\ tmutex' = t
  /\ Goto(t, "test")
  /\ UNCHANGED pthreadpool

TestAgain(t) ==
  /\ pc[t] = "test"
  /\ Goto(t, IF pthreadpool THEN "unlock" ELSE "lockAgain")
  /\ UNCHANGED <<pthreadpool, tmutex>>

\* Line 31: the mutex that the thread already holds.
LockAgain(t) ==
  /\ pc[t] = "lockAgain" /\ tmutex = Nobody
  /\ tmutex' = t
  /\ Goto(t, "create")
  /\ UNCHANGED pthreadpool

Create(t) ==
  /\ pc[t] = "create"
  /\ pthreadpool' = TRUE
  /\ Goto(t, "unlock")
  /\ UNCHANGED tmutex

Unlock(t) ==
  /\ pc[t] = "unlock"
  /\ tmutex' = Nobody
  /\ Goto(t, "return")
  /\ UNCHANGED pthreadpool

getThreadPool(t) ==
  Test(t) \/ Lock(t) \/ TestAgain(t) \/ LockAgain(t) \/ Create(t) \/ Unlock(t)

Next == \E t \in Callers : getThreadPool(t)

Spec == Init /\ [][Next]_vars /\ \A t \in Callers : WF_vars(getThreadPool(t))

-----------------------------------------------------------------------------
\* "This keeps one instance of the class at all times" (ThreadPool.hpp:13-16):
\* a call of getThreadPool returns the instance.
CallsReturn == \A t \in Callers : <>(pc[t] = "return")
=============================================================================
