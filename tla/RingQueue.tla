----------------------------- MODULE RingQueue -----------------------------
(***************************************************************************)
(* RQ<T> of the ring-buffer producer/consumer program (RingQueue.hpp,       *)
(* Sem.hpp) with the producer and consumer threads of ConProd.cpp.  A step   *)
(* is one call on a semaphore or a mutex, one access to the array, or one to  *)
(* a position.  The two mutexes are separate: a producer and a consumer work  *)
(* side by side.                                                            *)
(***************************************************************************)
EXTENDS Integers, FiniteSets

CONSTANTS Producers, Consumers, Items,
          Capacity,   \* g_default_num: the constructor ignores its argument
          Nobody      \* an unlocked mutex's holder

ASSUME RingAssumption ==
  /\ Capacity \in Nat \ {0}
  /\ Nobody \notin Producers \cup Consumers
  /\ Producers \cap Consumers = {}
  /\ IsFiniteSet(Producers) /\ IsFiniteSet(Consumers)
  /\ Items # {}

VARIABLES
  rq_, cstep_, pstep_,   \* the array and the positions of its two ends
  spacesem_, datasem_,   \* the values of the semaphores
  pmutex_, cmutex_,      \* the thread that holds each mutex
  pc,
  in,                    \* producer -> the item its push was called with
  out                    \* consumer -> what its last pop stored

vars == <<rq_, cstep_, pstep_, spacesem_, datasem_, pmutex_, cmutex_, pc, in, out>>

Threads == Producers \cup Consumers
Slots   == 0 .. Capacity - 1

Init ==
  /\ rq_ \in [Slots -> {CHOOSE x \in Items : TRUE}]
  /\ cstep_ = 0 /\ pstep_ = 0
  /\ spacesem_ = Capacity /\ datasem_ = 0
  /\ pmutex_ = Nobody /\ cmutex_ = Nobody
  /\ pc = [t \in Threads |-> "call"]
  /\ in \in [Producers -> {CHOOSE x \in Items : TRUE}]
  /\ out \in [Consumers -> {CHOOSE x \in Items : TRUE}]

Goto(t, from, to) == pc[t] = from /\ pc' = [pc EXCEPT ![t] = to]

-----------------------------------------------------------------------------
(* push                                                                    *)

\* A producer draws an item and calls push: spacesem_.p().
PushWait(p, x) ==
  /\ Goto(p, "call", "lock")
  /\ spacesem_ > 0 /\ spacesem_' = spacesem_ - 1
  /\ in' = [in EXCEPT ![p] = x]
  /\ UNCHANGED <<rq_, cstep_, pstep_, datasem_, pmutex_, cmutex_, out>>

PushLockSkipped(p) ==
  /\ Goto(p, "lock", "access")
  /\ pmutex_' = p
  /\ UNCHANGED <<rq_, cstep_, pstep_, spacesem_, datasem_, cmutex_, in, out>>

PushLock(p) ==
  /\ Goto(p, "lock", "access")
  /\ pmutex_ = Nobody /\ pmutex_' = p
  /\ UNCHANGED <<rq_, cstep_, pstep_, spacesem_, datasem_, cmutex_, in, out>>

\* rq_[pstep_++] = in; pstep_ %= capacity_: the array first ...
PushStore(p) ==
  /\ Goto(p, "access", "advance")
  /\ rq_' = [rq_ EXCEPT ![pstep_] = in[p]]
  /\ UNCHANGED <<cstep_, pstep_, spacesem_, datasem_, pmutex_, cmutex_, in, out>>

PushAdvanceWrapsLate(p) ==
  /\ Goto(p, "advance", "post")
  /\ pstep_' = (pstep_ + 1) % (Capacity + 1)
  /\ UNCHANGED <<rq_, cstep_, spacesem_, datasem_, pmutex_, cmutex_, in, out>>

\* ... then the position.
PushAdvance(p) ==
  /\ Goto(p, "advance", "post")
  /\ pstep_' = (pstep_ + 1) % Capacity
  /\ UNCHANGED <<rq_, cstep_, spacesem_, datasem_, pmutex_, cmutex_, in, out>>

PushPostsSpace(p) ==
  /\ Goto(p, "post", "unlock")
  /\ spacesem_' = spacesem_ + 1
  /\ UNCHANGED <<rq_, cstep_, pstep_, datasem_, pmutex_, cmutex_, in, out>>

PushPost(p) ==
  /\ Goto(p, "post", "unlock")
  /\ datasem_' = datasem_ + 1
  /\ UNCHANGED <<rq_, cstep_, pstep_, spacesem_, pmutex_, cmutex_, in, out>>

PushUnlock(p) ==
  /\ Goto(p, "unlock", "call")
  /\ pmutex_' = Nobody
  /\ UNCHANGED <<rq_, cstep_, pstep_, spacesem_, datasem_, cmutex_, in, out>>

-----------------------------------------------------------------------------
(* pop                                                                     *)

PopWaitUncounted(c) ==
  /\ Goto(c, "call", "lock")
  /\ datasem_ > 0
  /\ UNCHANGED <<rq_, cstep_, pstep_, spacesem_, datasem_, pmutex_, cmutex_, in, out>>

PopWait(c) ==
  /\ Goto(c, "call", "lock")
  /\ datasem_ > 0 /\ datasem_' = datasem_ - 1
  /\ UNCHANGED <<rq_, cstep_, pstep_, spacesem_, pmutex_, cmutex_, in, out>>

PopLock(c) ==
  /\ Goto(c, "lock", "access")
  /\ cmutex_ = Nobody /\ cmutex_' = c
  /\ UNCHANGED <<rq_, cstep_, pstep_, spacesem_, datasem_, pmutex_, in, out>>

PopTake(c) ==
  /\ Goto(c, "access", "advance")
  /\ out' = [out EXCEPT ![c] = rq_[cstep_]]
  /\ UNCHANGED <<rq_, cstep_, pstep_, spacesem_, datasem_, pmutex_, cmutex_, in>>

PopAdvance(c) ==
  /\ Goto(c, "advance", "post")
  /\ cstep_' = (cstep_ + 1) % Capacity
  /\ UNCHANGED <<rq_, pstep_, spacesem_, datasem_, pmutex_, cmutex_, in, out>>

PopPostSkipped(c) ==
  /\ Goto(c, "post", "unlock")
  /\ UNCHANGED <<rq_, cstep_, pstep_, spacesem_, datasem_, pmutex_, cmutex_, in, out>>

PopPost(c) ==
  /\ Goto(c, "post", "unlock")
  /\ spacesem_' = spacesem_ + 1
  /\ UNCHANGED <<rq_, cstep_, pstep_, datasem_, pmutex_, cmutex_, in, out>>

PopUnlock(c) ==
  /\ Goto(c, "unlock", "call")
  /\ cmutex_' = Nobody
  /\ UNCHANGED <<rq_, cstep_, pstep_, spacesem_, datasem_, pmutex_, in, out>>

Push(p) == \/ \E x \in Items : PushWait(p, x)
           \/ PushLock(p) \/ PushStore(p) \/ PushAdvance(p)
           \/ PushPost(p) \/ PushUnlock(p)

Pop(c) == \/ PopWait(c) \/ PopLock(c) \/ PopTake(c) \/ PopAdvance(c)
          \/ PopPost(c) \/ PopUnlock(c)

Next == (\E p \in Producers : Push(p)) \/ (\E c \in Consumers : Pop(c))

\* Both kinds of thread run "while (true)" (ConProd.cpp); one that can go on
\* for good does.  A semaphore or mutex chooses among its waiters freely.
Spec == Init /\ [][Next]_vars
             /\ \A p \in Producers : WF_vars(Push(p))
             /\ \A c \in Consumers : WF_vars(Pop(c))

-----------------------------------------------------------------------------
TypeOK ==
  /\ rq_ \in [Slots -> Items]
  /\ cstep_ \in Slots /\ pstep_ \in Slots
  /\ spacesem_ \in Nat /\ datasem_ \in Nat
  /\ pmutex_ \in Producers \cup {Nobody} /\ cmutex_ \in Consumers \cup {Nobody}
  /\ pc \in [Threads -> {"call", "lock", "access", "advance", "post", "unlock"}]
  /\ in \in [Producers -> Items] /\ out \in [Consumers -> Items]

At(T, labels) == Cardinality({t \in T : pc[t] \in labels})

\* The items in the ring: those posted and not reserved, those a consumer has
\* reserved and not taken, and the one a producer has stored and not posted.
Stored == datasem_ + At(Consumers, {"lock", "access"}) + At(Producers, {"advance", "post"})

\* The position of the oldest: cstep_, unless a consumer has taken the item
\* there and not moved on yet.
Oldest == cstep_ + At(Consumers, {"advance"})

\* The two semaphores and the threads between them account for every slot:
\* none is handed to two producers and none is lost.
SlotsAccounted ==
  spacesem_ + Stored + At(Producers, {"lock", "access"}) + At(Consumers, {"advance", "post"})
    = Capacity

\* The indices, which no semaphore guards, agree with the semaphores: the
\* write position is the position of the oldest item plus the number of items.
IndicesAgree ==
  (pstep_ + At(Producers, {"advance"})) % Capacity = (Oldest + Stored) % Capacity

\* A producer and a consumer that are both at the array, each under a mutex of
\* its own, are at different slots.
SlotNotShared ==
  \A p \in Producers, c \in Consumers :
    pc[p] \in {"access", "advance"} /\ pc[c] \in {"access", "advance"}
      => pstep_ # cstep_

Fifo == INSTANCE BoundedFifo WITH
          queue <- [i \in 1 .. Stored |-> rq_[(Oldest + i - 1) % Capacity]]

\* The ring implements BoundedFifo: items come out once each, oldest first,
\* and never more than Capacity are in it, with any number of threads.
ImplementsFifo == Fifo!Spec

\* The queue never stops: some consumer takes an item again and again.
ItemsFlow == []<>(\E c \in Consumers : pc[c] = "post")
=============================================================================
