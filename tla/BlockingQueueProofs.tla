------------------------ MODULE BlockingQueueProofs ------------------------
(***************************************************************************)
(* Proofs about BlockingQueue for any finite sets of producers and           *)
(* consumers and any capacity.                                              *)
(***************************************************************************)
EXTENDS BlockingQueue, FiniteSetTheorems, TLAPS

\* The threads of T on their way to the queue, which Entering counts.
AtDoor(T) == {t \in T : pc[t] = "enter"}

\* Their number is natural, for the producers and for the consumers.
LEMMA EnteringType ==
  ASSUME NEW T, IsFiniteSet(T)
  PROVE  IsFiniteSet(AtDoor(T)) /\ Entering(T) = Cardinality(AtDoor(T)) /\ Entering(T) \in Nat
  BY FS_Subset, FS_CardinalityType DEF Entering, AtDoor

\* A thread that comes to the door, or leaves it, changes the number by one;
\* without either the number stays.
LEMMA DoorGains ==
  ASSUME NEW T, IsFiniteSet(T), NEW t, t \notin AtDoor(T), AtDoor(T)' = AtDoor(T) \cup {t}
  PROVE  Entering(T)' = Entering(T) + 1
<1>1. Cardinality(AtDoor(T) \cup {t}) = Cardinality(AtDoor(T)) + 1
  BY EnteringType, FS_AddElement
<1> QED BY <1>1 DEF Entering, AtDoor

\* The thread that leaves.
LEMMA DoorLoses ==
  ASSUME NEW T, IsFiniteSet(T), NEW t \in AtDoor(T), AtDoor(T)' = AtDoor(T) \ {t}
  PROVE  Entering(T)' = Entering(T) - 1
<1>1. Cardinality(AtDoor(T) \ {t}) = Cardinality(AtDoor(T)) - 1
  BY EnteringType, FS_RemoveElement
<1> QED BY <1>1 DEF Entering, AtDoor

\* Neither.
LEMMA DoorStays ==
  ASSUME NEW T, AtDoor(T)' = AtDoor(T)
  PROVE  Entering(T)' = Entering(T)
  BY DEF Entering, AtDoor

-----------------------------------------------------------------------------
\* The inductive invariant: NoLostWakeup needs no more than the types.
IInv == TypeOK /\ NoLostWakeup

\* It holds at the start.
LEMMA InitIInv == Init => IInv
<1> SUFFICES ASSUME Init PROVE IInv
  OBVIOUS
<1>1. TypeOK
  BY QueueAssumption DEF Init, TypeOK
<1>2. empty_ = {} /\ full_ = {}
  BY DEF Init, empty_, full_, Threads
<1> QED BY <1>1, <1>2 DEF IInv, NoLostWakeup

\* A step keeps the types; above all it never overfills the queue.
LEMMA TypeStep ==
  ASSUME TypeOK, [Next]_vars
  PROVE  TypeOK'
<1> USE QueueAssumption DEF TypeOK, Threads
<1>1. ASSUME NEW p \in Producers, NEW x \in Items, CallPush(p, x) PROVE TypeOK'
  BY <1>1 DEF CallPush
<1>2. ASSUME NEW p \in Producers, PushBlocks(p) PROVE TypeOK'
  BY <1>2 DEF PushBlocks
<1>3. ASSUME NEW p \in Producers, Push(p) PROVE TypeOK'
  <2>1. in[p] \in Items
    OBVIOUS
  <2>2. bq_' \in Seq(Items) /\ Len(bq_') <= capacity_
    BY <1>3, <2>1 DEF Push, IsFull
  <2>3. pc' \in [Threads -> {"call", "enter", "wait"}]
    BY <1>3 DEF Push, Signal, empty_
  <2> QED BY <1>3, <2>2, <2>3 DEF Push
<1>4. ASSUME NEW c \in Consumers, CallPop(c) PROVE TypeOK'
  BY <1>4 DEF CallPop
<1>5. ASSUME NEW c \in Consumers, PopBlocks(c) PROVE TypeOK'
  BY <1>5 DEF PopBlocks
<1>6. ASSUME NEW c \in Consumers, Pop(c) PROVE TypeOK'
  <2>1. bq_ # << >> /\ Head(bq_) \in Items /\ Tail(bq_) \in Seq(Items)
        /\ Len(Tail(bq_)) = Len(bq_) - 1 /\ Len(bq_) \in Nat
    BY <1>6 DEF Pop, IsEmpty
  <2>2. pc' \in [Threads -> {"call", "enter", "wait"}]
    BY <1>6 DEF Pop, Signal, full_
  <2>3. out' \in [Consumers -> Items] /\ bq_' = Tail(bq_) /\ in' = in
    BY <1>6, <2>1 DEF Pop
  <2>4. Len(bq_') <= capacity_
    BY <2>1, <2>3
  <2> QED BY <2>1, <2>2, <2>3, <2>4
<1>7. ASSUME NEW t \in Threads, SpuriousWake(t) PROVE TypeOK'
  BY <1>7 DEF SpuriousWake
<1>8. CASE UNCHANGED vars
  BY <1>8 DEF vars
<1> QED BY <1>1, <1>2, <1>3, <1>4, <1>5, <1>6, <1>7, <1>8 DEF Next, Produce, Consume

\* Each step keeps a place at the door, for a thread of the right kind, for
\* every item while a consumer waits and for every gap while a producer waits.
LEMMA WakeupStep ==
  ASSUME IInv, [Next]_vars
  PROVE  NoLostWakeup'
<1> USE QueueAssumption DEF IInv, TypeOK
<1> DEFINE P == Entering(Producers)
           C == Entering(Consumers)
<1>1. /\ Len(bq_) \in Nat /\ capacity_ \in Nat /\ Len(bq_) <= capacity_
      /\ P \in Nat /\ C \in Nat
      /\ Producers \subseteq Threads /\ Consumers \subseteq Threads
  BY EnteringType DEF Threads
<1>2. ASSUME NEW p \in Producers, NEW x \in Items, CallPush(p, x) PROVE NoLostWakeup'
  <2>1. AtDoor(Producers)' = AtDoor(Producers) \cup {p} /\ p \notin AtDoor(Producers)
    BY <1>2, <1>1 DEF CallPush, AtDoor
  <2>2. AtDoor(Consumers)' = AtDoor(Consumers)
    BY <1>2, <1>1 DEF CallPush, AtDoor
  <2>3. full_' = full_ /\ empty_' = empty_ /\ bq_' = bq_
    BY <1>2, <1>1 DEF CallPush, full_, empty_
  <2>4. P' = P + 1 /\ C' = C
    BY <2>1, <2>2, DoorGains, DoorStays
  <2> QED BY <1>1, <2>3, <2>4 DEF NoLostWakeup
<1>3. ASSUME NEW c \in Consumers, CallPop(c) PROVE NoLostWakeup'
  <2>1. AtDoor(Consumers)' = AtDoor(Consumers) \cup {c} /\ c \notin AtDoor(Consumers)
    BY <1>3, <1>1 DEF CallPop, AtDoor
  <2>2. AtDoor(Producers)' = AtDoor(Producers)
    BY <1>3, <1>1 DEF CallPop, AtDoor
  <2>3. full_' = full_ /\ empty_' = empty_ /\ bq_' = bq_
    BY <1>3, <1>1 DEF CallPop, full_, empty_
  <2>4. P' = P /\ C' = C + 1
    BY <2>1, <2>2, DoorGains, DoorStays
  <2> QED BY <1>1, <2>3, <2>4 DEF NoLostWakeup
<1>4. ASSUME NEW p \in Producers, PushBlocks(p) PROVE NoLostWakeup'
  <2>1. AtDoor(Producers)' = AtDoor(Producers) \ {p} /\ p \in AtDoor(Producers)
    BY <1>4, <1>1 DEF PushBlocks, AtDoor
  <2>2. AtDoor(Consumers)' = AtDoor(Consumers)
    BY <1>4, <1>1 DEF PushBlocks, AtDoor
  <2>3. empty_' = empty_ /\ bq_' = bq_ /\ Len(bq_) = capacity_
    BY <1>4, <1>1 DEF PushBlocks, empty_, IsFull
  <2>4. P' = P - 1 /\ C' = C
    BY <2>1, <2>2, DoorLoses, DoorStays
  <2>5. P' \in Nat
    <3>1. IsFiniteSet(AtDoor(Producers)')
      BY <2>1, EnteringType, FS_RemoveElement
    <3> QED BY <3>1, FS_CardinalityType DEF Entering, AtDoor
  <2> QED BY <1>1, <2>3, <2>4, <2>5 DEF NoLostWakeup
<1>5. ASSUME NEW c \in Consumers, PopBlocks(c) PROVE NoLostWakeup'
  <2>1. AtDoor(Consumers)' = AtDoor(Consumers) \ {c} /\ c \in AtDoor(Consumers)
    BY <1>5, <1>1 DEF PopBlocks, AtDoor
  <2>2. AtDoor(Producers)' = AtDoor(Producers)
    BY <1>5, <1>1 DEF PopBlocks, AtDoor
  <2>3. full_' = full_ /\ bq_' = bq_ /\ Len(bq_) = 0
    BY <1>5, <1>1 DEF PopBlocks, full_, IsEmpty
  <2>4. P' = P /\ C' = C - 1
    BY <2>1, <2>2, DoorLoses, DoorStays
  <2>5. C' \in Nat
    <3>1. IsFiniteSet(AtDoor(Consumers)')
      BY <2>1, EnteringType, FS_RemoveElement
    <3> QED BY <3>1, FS_CardinalityType DEF Entering, AtDoor
  <2> QED BY <1>1, <2>3, <2>4, <2>5 DEF NoLostWakeup
<1>6. ASSUME NEW p \in Producers, Push(p) PROVE NoLostWakeup'
  <2>1. pc[p] = "enter" /\ p \in AtDoor(Producers) /\ p \notin Consumers
    BY <1>6 DEF Push, AtDoor
  <2>2. Len(bq_') = Len(bq_) + 1
    BY <1>6 DEF Push
  <2>3. AtDoor(Producers)' = AtDoor(Producers) \ {p} /\ full_' = full_
    BY <1>6, <1>1, <2>1 DEF Push, Signal, AtDoor, full_, empty_
  <2>4. P' = P - 1
    BY <2>1, <2>3, DoorLoses
  <2>5. CASE empty_ = {}
    <3>1. AtDoor(Consumers)' = AtDoor(Consumers) /\ empty_' = {}
      BY <1>6, <1>1, <2>1, <2>5 DEF Push, Signal, AtDoor, empty_
    <3> QED BY <1>1, <2>2, <2>3, <2>4, <3>1 DEF NoLostWakeup
  <2>6. CASE empty_ # {}
    <3>1. PICK w \in empty_ : pc' = [pc EXCEPT ![p] = "call", ![w] = "enter"]
      BY <1>6, <2>6 DEF Push, Signal
    <3>2. AtDoor(Consumers)' = AtDoor(Consumers) \cup {w} /\ w \notin AtDoor(Consumers)
      BY <3>1, <1>1, <2>1 DEF AtDoor, empty_
    <3>3. C' = C + 1
      BY <3>2, DoorGains
    <3> QED BY <1>1, <2>2, <2>3, <2>4, <2>6, <3>3 DEF NoLostWakeup
  <2> QED BY <2>5, <2>6
<1>7. ASSUME NEW c \in Consumers, Pop(c) PROVE NoLostWakeup'
  <2>1. pc[c] = "enter" /\ c \in AtDoor(Consumers) /\ c \notin Producers
    BY <1>7 DEF Pop, AtDoor
  <2>2. Len(bq_') = Len(bq_) - 1
    BY <1>7 DEF Pop, IsEmpty
  <2>3. AtDoor(Consumers)' = AtDoor(Consumers) \ {c} /\ empty_' = empty_
    BY <1>7, <1>1, <2>1 DEF Pop, Signal, AtDoor, full_, empty_
  <2>4. C' = C - 1
    BY <2>1, <2>3, DoorLoses
  <2>5. CASE full_ = {}
    <3>1. AtDoor(Producers)' = AtDoor(Producers) /\ full_' = {}
      BY <1>7, <1>1, <2>1, <2>5 DEF Pop, Signal, AtDoor, full_
    <3> QED BY <1>1, <2>2, <2>3, <2>4, <3>1 DEF NoLostWakeup
  <2>6. CASE full_ # {}
    <3>1. PICK w \in full_ : pc' = [pc EXCEPT ![c] = "call", ![w] = "enter"]
      BY <1>7, <2>6 DEF Pop, Signal
    <3>2. AtDoor(Producers)' = AtDoor(Producers) \cup {w} /\ w \notin AtDoor(Producers)
      BY <3>1, <1>1, <2>1 DEF AtDoor, full_
    <3>3. P' = P + 1
      BY <3>2, DoorGains
    <3> QED BY <1>1, <2>2, <2>3, <2>4, <2>6, <3>3 DEF NoLostWakeup
  <2> QED BY <2>5, <2>6
<1>8. ASSUME NEW t \in Threads, SpuriousWake(t) PROVE NoLostWakeup'
  <2>1. bq_' = bq_ /\ full_' \subseteq full_ /\ empty_' \subseteq empty_
    BY <1>8, <1>1 DEF SpuriousWake, full_, empty_
  <2>2. CASE t \in Producers
    <3>1. AtDoor(Producers)' = AtDoor(Producers) \cup {t} /\ t \notin AtDoor(Producers)
      BY <1>8, <1>1, <2>2 DEF SpuriousWake, AtDoor
    <3>2. AtDoor(Consumers)' = AtDoor(Consumers)
      BY <1>8, <1>1, <2>2 DEF SpuriousWake, AtDoor
    <3>3. P' = P + 1 /\ C' = C
      BY <3>1, <3>2, DoorGains, DoorStays
    <3> QED BY <1>1, <2>1, <3>3 DEF NoLostWakeup
  <2>3. CASE t \in Consumers
    <3>1. AtDoor(Consumers)' = AtDoor(Consumers) \cup {t} /\ t \notin AtDoor(Consumers)
      BY <1>8, <1>1, <2>3 DEF SpuriousWake, AtDoor
    <3>2. AtDoor(Producers)' = AtDoor(Producers)
      BY <1>8, <1>1, <2>3 DEF SpuriousWake, AtDoor
    <3>3. P' = P /\ C' = C + 1
      BY <3>1, <3>2, DoorGains, DoorStays
    <3> QED BY <1>1, <2>1, <3>3 DEF NoLostWakeup
  <2> QED BY <2>2, <2>3 DEF Threads
<1>9. CASE UNCHANGED vars
  BY <1>9 DEF vars, NoLostWakeup, Entering, full_, empty_
<1> QED BY <1>2, <1>3, <1>4, <1>5, <1>6, <1>7, <1>8, <1>9 DEF Next, Produce, Consume

\* The invariant is inductive.
THEOREM Invariance == Spec => []IInv
<1>1. Init => IInv
  BY InitIInv
<1>2. IInv /\ [Next]_vars => IInv'
  BY TypeStep, WakeupStep DEF IInv
<1> QED BY <1>1, <1>2, PTL DEF Spec

\* Every variable keeps its type, and the queue never holds more than
\* capacity_ items.
THEOREM TypeCorrect == Spec => []TypeOK
<1>1. IInv => TypeOK
  BY DEF IInv
<1> QED BY <1>1, Invariance, PTL

\* One signal for each push and each pop loses no wakeup, whatever the number
\* of threads and however often a wait returns without a signal.
THEOREM WakeupsSuffice == Spec => []NoLostWakeup
<1>1. IInv => NoLostWakeup
  BY DEF IInv
<1> QED BY <1>1, Invariance, PTL

-----------------------------------------------------------------------------
\* A step of BlockingQueue is an abstract push, an abstract pop, or changes
\* neither the queue nor what a consumer got.
LEMMA FifoStep ==
  ASSUME TypeOK, [Next]_vars
  PROVE  [Fifo!Next]_<<bq_, out>>
<1> USE QueueAssumption DEF TypeOK
<1>1. ASSUME NEW p \in Producers, Push(p) PROVE Fifo!Next
  <2>1. in[p] \in Items
    OBVIOUS
  <2>2. Len(bq_) < capacity_
    BY <1>1 DEF Push, IsFull
  <2>3. bq_' = Append(bq_, in[p]) /\ out' = out
    BY <1>1 DEF Push
  <2>4. \E x \in Items : Fifo!Push(x)
    BY <2>1, <2>2, <2>3 DEF Fifo!Push
  <2> QED BY <2>4 DEF Fifo!Next
<1>2. ASSUME NEW c \in Consumers, Pop(c) PROVE Fifo!Next
  <2>1. Fifo!Pop(c)
    BY <1>2 DEF Pop, IsEmpty, Fifo!Pop
  <2> QED BY <2>1 DEF Fifo!Next
<1>3. ASSUME \A p \in Producers : ~ Push(p), \A c \in Consumers : ~ Pop(c)
      PROVE  UNCHANGED <<bq_, out>>
  BY <1>3 DEF Next, Produce, Consume, CallPush, CallPop, PushBlocks, PopBlocks, SpuriousWake, vars
<1> QED BY <1>1, <1>2, <1>3

\* The queue with its mutex and its two condition variables implements the
\* bounded first-in first-out queue.
THEOREM Refinement == Spec => ImplementsFifo
<1>1. Init => Fifo!Init
  BY QueueAssumption DEF Init, Fifo!Init
<1>2. TypeOK /\ [Next]_vars => [Fifo!Next]_<<bq_, out>>
  BY FifoStep
<1> QED BY <1>1, <1>2, TypeCorrect, PTL DEF Spec, ImplementsFifo, Fifo!Spec
=============================================================================
