------------------------------ MODULE TlsPool ------------------------------
(***************************************************************************)
(* How a thread of the allocator gets its ThreadCache                       *)
(* (Concurrentalloc.hpp:38-47, ObjectPool::New, SystemAlloc).  The pool of   *)
(* ThreadCache objects has no lock, and SystemAlloc reads the break and       *)
(* moves it in two calls.  A step is one statement on a shared variable or   *)
(* one system call; races inside a statement add behaviours to these.        *)
(* Nothing is deleted from this pool, so its free list stays empty.          *)
(***************************************************************************)
EXTENDS Integers

CONSTANTS Threads,
          PoolPages     \* pages of the pool's chunk

VARIABLES
  brk,
  _memory, allocremain,  \* TLSPool, in units of one ThreadCache a page
  pc,
  ptr,                   \* thread -> what its sbrk(0) returned
  pTLSthreadcahe         \* thread -> its ThreadCache, -1 if null

vars == <<brk, _memory, allocremain, pc, ptr, pTLSthreadcahe>>

Init ==
  /\ brk = 0 /\ _memory = -1 /\ allocremain = 0
  /\ pc = [t \in Threads |-> "test"]
  /\ ptr = [t \in Threads |-> 0]
  /\ pTLSthreadcahe = [t \in Threads |-> -1]

Goto(t, from, to) == pc[t] = from /\ pc' = [pc EXCEPT ![t] = to]

\* allocremain < sizeof(T): a new chunk is due.
Test(t) ==
  /\ Goto(t, "test", IF allocremain < 1 THEN "remain" ELSE "take")
  /\ UNCHANGED <<brk, _memory, allocremain, ptr, pTLSthreadcahe>>

\* allocremain is set before there is memory.
SetRemain(t) ==
  /\ Goto(t, "remain", "sbrk")
  /\ allocremain' = PoolPages
  /\ UNCHANGED <<brk, _memory, ptr, pTLSthreadcahe>>

\* SystemAlloc: sbrk(0) ...
Sbrk(t) ==
  /\ Goto(t, "sbrk", "brk")
  /\ ptr' = [ptr EXCEPT ![t] = brk]
  /\ UNCHANGED <<brk, _memory, allocremain, pTLSthreadcahe>>

\* ... and brk(ptr + length), whose result nobody looks at.
Brk(t) ==
  /\ Goto(t, "brk", "chunk")
  /\ brk' = ptr[t] + PoolPages
  /\ UNCHANGED <<_memory, allocremain, ptr, pTLSthreadcahe>>

SetMemory(t) ==
  /\ Goto(t, "chunk", "take")
  /\ _memory' = ptr[t]
  /\ UNCHANGED <<brk, allocremain, ptr, pTLSthreadcahe>>

\* obj = _memory; the new object will be the thread's cache.  A thread that
\* finds no memory here constructs at a null pointer and goes no further.
TakeObject(t) ==
  /\ Goto(t, "take", "advance")
  /\ _memory # -1
  /\ pTLSthreadcahe' = [pTLSthreadcahe EXCEPT ![t] = _memory]
  /\ UNCHANGED <<brk, _memory, allocremain, ptr>>

\* _memory += newsize; allocremain -= newsize.
Advance(t) ==
  /\ Goto(t, "advance", "done")
  /\ _memory' = _memory + 1
  /\ allocremain' = allocremain - 1
  /\ UNCHANGED <<brk, ptr, pTLSthreadcahe>>

Next == \E t \in Threads :
  \/ Test(t) \/ SetRemain(t) \/ Sbrk(t) \/ Brk(t)
  \/ SetMemory(t) \/ TakeObject(t) \/ Advance(t)

Spec == Init /\ [][Next]_vars

-----------------------------------------------------------------------------
\* "Each thread has a ThreadCache of its own" (ThreadCache.hpp:119): two
\* threads whose first allocations meet get different objects.
OwnCache ==
  \A t, u \in Threads :
    t # u /\ pc[t] = "done" /\ pc[u] = "done"
      => pTLSthreadcahe[t] # pTLSthreadcahe[u]
=============================================================================
