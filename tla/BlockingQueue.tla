--------------------------- MODULE BlockingQueue ---------------------------
(***************************************************************************)
(* BlockingQueue<T> of the producer/consumer program (BlockingQueue.hpp)     *)
(* with the threads of ConProd.cc.  A step is what a thread does from the    *)
(* moment it gets mutex_, by pthread_mutex_lock or on its way out of          *)
(* pthread_cond_wait, until it gives it up.                                 *)
(***************************************************************************)
EXTENDS Integers, Sequences, FiniteSets

CONSTANTS Producers, Consumers, Items, capacity_

ASSUME QueueAssumption ==
  /\ capacity_ \in Nat \ {0}
  /\ Producers \cap Consumers = {}
  /\ IsFiniteSet(Producers) /\ IsFiniteSet(Consumers)
  /\ Items # {}

VARIABLES
  bq_,     \* the queue
  pc,      \* "call": outside; "enter": about to get mutex_; "wait": on full_ or empty_
  in,      \* producer -> the item its push was called with
  out      \* consumer -> what its last pop stored

vars == <<bq_, pc, in, out>>

Threads == Producers \cup Consumers

\* The threads blocked on each condition variable: only producers wait on
\* full_, only consumers on empty_.
full_  == {p \in Producers : pc[p] = "wait"}
empty_ == {c \in Consumers : pc[c] = "wait"}

IsEmpty == bq_ = <<>>
IsFull  == Len(bq_) = capacity_

Init ==
  /\ bq_ = <<>>
  /\ pc = [t \in Threads |-> "call"]
  /\ in \in [Producers -> {CHOOSE x \in Items : TRUE}]
  /\ out \in [Consumers -> {CHOOSE x \in Items : TRUE}]

\* A producer draws an item and calls push; a consumer calls pop.
CallPush(p, x) ==
  /\ pc[p] = "call"
  /\ pc' = [pc EXCEPT ![p] = "enter"]
  /\ in' = [in EXCEPT ![p] = x]
  /\ UNCHANGED <<bq_, out>>

CallPop(c) ==
  /\ pc[c] = "call"
  /\ pc' = [pc EXCEPT ![c] = "enter"]
  /\ UNCHANGED <<bq_, in, out>>

SignalNobody(t, waiters) == pc' = [pc EXCEPT ![t] = "call"]

\* Thread t leaves its call and pthread_cond_signal wakes one of the waiters,
\* whichever, if there are any.
Signal(t, waiters) ==
  IF waiters = {}
  THEN pc' = [pc EXCEPT ![t] = "call"]
  ELSE \E w \in waiters : pc' = [pc EXCEPT ![t] = "call", ![w] = "enter"]

\* The test finds the queue full, or empty: pthread_cond_wait.
PushBlocks(p) ==
  /\ pc[p] = "enter" /\ IsFull
  /\ pc' = [pc EXCEPT ![p] = "wait"]
  /\ UNCHANGED <<bq_, in, out>>

PopBlocks(c) ==
  /\ pc[c] = "enter" /\ IsEmpty
  /\ pc' = [pc EXCEPT ![c] = "wait"]
  /\ UNCHANGED <<bq_, in, out>>

PushSignalsProducers(p) ==
  /\ pc[p] = "enter" /\ ~ IsFull
  /\ bq_' = Append(bq_, in[p])
  /\ Signal(p, full_)
  /\ UNCHANGED <<in, out>>

PushUnchecked(p) ==
  /\ pc[p] = "enter"
  /\ bq_' = Append(bq_, in[p])
  /\ Signal(p, empty_)
  /\ UNCHANGED <<in, out>>

Push(p) ==
  /\ pc[p] = "enter" /\ ~ IsFull
  /\ bq_' = Append(bq_, in[p])
  /\ Signal(p, empty_)
  /\ UNCHANGED <<in, out>>

PopKeepsFront(c) ==
  /\ pc[c] = "enter" /\ ~ IsEmpty
  /\ out' = [out EXCEPT ![c] = Head(bq_)]
  /\ Signal(c, full_)
  /\ UNCHANGED <<bq_, in>>

Pop(c) ==
  /\ pc[c] = "enter" /\ ~ IsEmpty
  /\ out' = [out EXCEPT ![c] = Head(bq_)]
  /\ bq_' = Tail(bq_)
  /\ Signal(c, full_)
  /\ UNCHANGED in

\* pthread_cond_wait may return without a signal.
SpuriousWake(t) ==
  /\ pc[t] = "wait"
  /\ pc' = [pc EXCEPT ![t] = "enter"]
  /\ UNCHANGED <<bq_, in, out>>

Produce(p) == (\E x \in Items : CallPush(p, x)) \/ PushBlocks(p) \/ Push(p)
Consume(c) == CallPop(c) \/ PopBlocks(c) \/ Pop(c)

Next ==
  \/ \E p \in Producers : Produce(p)
  \/ \E c \in Consumers : Consume(c)
  \/ \E t \in Threads : SpuriousWake(t)

\* The threads of ConProd.cc loop for ever; one that is not waiting goes on.
\* Nothing is promised of spurious wakeups.
Spec == Init /\ [][Next]_vars
             /\ \A p \in Producers : WF_vars(Produce(p))
             /\ \A c \in Consumers : WF_vars(Consume(c))

-----------------------------------------------------------------------------
TypeOK ==
  /\ bq_ \in Seq(Items) /\ Len(bq_) <= capacity_
  /\ pc \in [Threads -> {"call", "enter", "wait"}]
  /\ in \in [Producers -> Items] /\ out \in [Consumers -> Items]

Entering(T) == Cardinality({t \in T : pc[t] = "enter"})

\* One signal for each push and each pop is enough, although a woken thread
\* may find that another was faster: while consumers wait on empty_, there
\* are as many consumers on their way to the queue as it has items; while
\* producers wait on full_, as many producers as it has free places.
NoLostWakeup ==
  /\ empty_ # {} => Len(bq_) <= Entering(Consumers)
  /\ full_ # {} => capacity_ - Len(bq_) <= Entering(Producers)

Fifo == INSTANCE BoundedFifo WITH queue <- bq_, Capacity <- capacity_

\* The queue implements BoundedFifo: it never exceeds its capacity, and each
\* item goes to one consumer, oldest first.
ImplementsFifo == Fifo!Spec

\* Items keep being taken: push and pop never all wait for each other.
ItemsFlow == []<><<\E c \in Consumers : Pop(c)>>_vars
=============================================================================
