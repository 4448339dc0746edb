-------------------------- MODULE RingQueueProofs --------------------------
(***************************************************************************)
(* Proofs about RingQueue for any finite sets of producers and consumers     *)
(* and any capacity.                                                        *)
(***************************************************************************)
EXTENDS RingQueue, FiniteSetTheorems, SequenceTheorems, TLAPS

-----------------------------------------------------------------------------
(* The remainder, where the ring uses it                                     *)

\* One turn of the ring at most: x % Capacity for x below 2 * Capacity.
LEMMA WrapOnce ==
  ASSUME NEW x \in 0 .. 2 * Capacity - 1
  PROVE  /\ x % Capacity \in Slots
         /\ x % Capacity = IF x < Capacity THEN x ELSE x - Capacity
  BY RingAssumption DEF Slots

\* A position moves on by one slot and from the last to the first.
LEMMA WrapSteps ==
  \A x \in Slots : /\ (x + 1) % Capacity \in Slots
                   /\ (x + 1) % Capacity = IF x + 1 < Capacity THEN x + 1 ELSE 0
<1> SUFFICES ASSUME NEW x \in Slots
             PROVE  /\ (x + 1) % Capacity \in Slots
                    /\ (x + 1) % Capacity = IF x + 1 < Capacity THEN x + 1 ELSE 0
  OBVIOUS
<1>1. x \in 0 .. Capacity - 1 /\ x + 1 \in 0 .. 2 * Capacity - 1 /\ Capacity \in Nat \ {0}
  BY RingAssumption DEF Slots
<1> QED BY <1>1, WrapOnce

-----------------------------------------------------------------------------
(* Threads between two lines of the code, counted                            *)

\* A count of threads is a natural number, and is positive when some thread is
\* there.
LEMMA CountType ==
  ASSUME NEW T, IsFiniteSet(T), NEW L
  PROVE  /\ At(T, L) \in Nat
         /\ \A t \in T : pc[t] \in L => At(T, L) >= 1
         /\ (\A t \in T : pc[t] \notin L) => At(T, L) = 0
<1> DEFINE A == {t \in T : pc[t] \in L}
<1>1. IsFiniteSet(A)
  BY FS_Subset
<1>2. Cardinality(A) \in Nat
  BY <1>1, FS_CardinalityType
<1>3. ASSUME NEW t \in T, pc[t] \in L PROVE Cardinality(A) >= 1
  <2>1. t \in A
    BY <1>3
  <2>2. IsFiniteSet(A \ {t}) /\ Cardinality(A \ {t}) = Cardinality(A) - 1
    BY <1>1, <2>1, FS_RemoveElement
  <2>3. Cardinality(A \ {t}) \in Nat
    BY <2>2, FS_CardinalityType
  <2> QED BY <1>2, <2>2, <2>3
<1>4. ASSUME \A t \in T : pc[t] \notin L PROVE Cardinality(A) = 0
  <2>1. A = {}
    BY <1>4
  <2> QED BY <2>1, FS_EmptySet
<1> QED BY <1>2, <1>3, <1>4 DEF At

\* When one thread moves from a label to another, the number of threads at the
\* labels L changes with it.
LEMMA CountMoves ==
  ASSUME NEW T, IsFiniteSet(T), NEW L, NEW t \in T, NEW from, NEW to,
         T \subseteq Threads, DOMAIN pc = Threads, Goto(t, from, to)
  PROVE  At(T, L)' = At(T, L) + (IF to \in L THEN 1 ELSE 0) - (IF from \in L THEN 1 ELSE 0)
<1> DEFINE A == {u \in T : pc[u] \in L}
           B == {u \in T : pc'[u] \in L}
           R == A \ {t}
<1>1. /\ pc[t] = from /\ pc'[t] = to
      /\ \A u \in T : u # t => pc'[u] = pc[u]
  BY DEF Goto
<1>2. /\ IsFiniteSet(A) /\ Cardinality(A) \in Nat
      /\ IsFiniteSet(R) /\ Cardinality(R) \in Nat
  BY FS_Subset, FS_CardinalityType
<1>3. Cardinality(A) = Cardinality(R) + (IF from \in L THEN 1 ELSE 0)
  <2>1. CASE from \in L
    <3>1. t \in A
      BY <1>1, <2>1
    <3>2. Cardinality(R) = Cardinality(A) - 1
      BY <1>2, <3>1, FS_RemoveElement
    <3> QED BY <3>2, <1>2, <2>1
  <2>2. CASE from \notin L
    <3>1. R = A
      BY <1>1, <2>2
    <3> HIDE DEF A, R
    <3> QED BY <3>1, <1>2, <2>2
  <2> QED BY <2>1, <2>2
<1>4. Cardinality(B) = Cardinality(R) + (IF to \in L THEN 1 ELSE 0)
  <2>1. CASE to \in L
    <3>1. B = R \cup {t} /\ t \notin R
      BY <1>1, <2>1
    <3>2. Cardinality(R \cup {t}) = Cardinality(R) + 1
      BY <3>1, <1>2, FS_AddElement
    <3> HIDE DEF B, R
    <3> QED BY <3>1, <3>2, <2>1
  <2>2. CASE to \notin L
    <3>1. B = R
      BY <1>1, <2>2
    <3> HIDE DEF B, R
    <3> QED BY <3>1, <1>2, <2>2
  <2> QED BY <2>1, <2>2
<1>5. At(T, L) = Cardinality(A) /\ At(T, L)' = Cardinality(B)
  BY DEF At
<1> QED BY <1>2, <1>3, <1>4, <1>5

\* A step of a thread outside T does not change a count over T.
LEMMA CountStays ==
  ASSUME NEW T, NEW L, NEW t, NEW from, NEW to,
         T \subseteq Threads, t \notin T, DOMAIN pc = Threads, Goto(t, from, to)
  PROVE  At(T, L)' = At(T, L)
<1>1. \A u \in T : pc'[u] = pc[u]
  BY DEF Goto
<1>2. {u \in T : pc'[u] \in L} = {u \in T : pc[u] \in L}
  BY <1>1
<1> QED BY <1>2 DEF At

-----------------------------------------------------------------------------
(* The inductive invariant                                                   *)

Inside == {"access", "advance", "post", "unlock"}

\* Only the holder of a mutex is between its lock and its unlock.
Turn ==
  /\ \A p \in Producers : pc[p] \in Inside => pmutex_ = p
  /\ \A c \in Consumers : pc[c] \in Inside => cmutex_ = c

\* IndicesAgree without the remainder: the two positions differ by the items
\* between them, and the write position may be one turn behind.
Aligned ==
  \/ pstep_ + At(Producers, {"advance"}) = Oldest + Stored
  \/ pstep_ + At(Producers, {"advance"}) + Capacity = Oldest + Stored

IInv == TypeOK /\ Turn /\ SlotsAccounted /\ Aligned

\* The counts the invariant is about are natural numbers, and each is at least
\* one when a thread is there.
LEMMA Counts ==
  /\ \A L : At(Producers, L) \in Nat /\ At(Consumers, L) \in Nat
  /\ \A L : \A p \in Producers : pc[p] \in L => At(Producers, L) >= 1
  /\ \A L : \A c \in Consumers : pc[c] \in L => At(Consumers, L) >= 1
  BY CountType, RingAssumption

\* Under its mutex a thread is alone.
LEMMA Alone ==
  ASSUME TypeOK, Turn
  PROVE  /\ \A p \in Producers, l \in Inside : pc[p] \in Inside =>
               At(Producers, {l}) = IF pc[p] = l THEN 1 ELSE 0
         /\ \A c \in Consumers, l \in Inside : pc[c] \in Inside =>
               At(Consumers, {l}) = IF pc[c] = l THEN 1 ELSE 0
<1>1. ASSUME NEW p \in Producers, NEW l \in Inside, pc[p] \in Inside
      PROVE  At(Producers, {l}) = IF pc[p] = l THEN 1 ELSE 0
  <2>1. \A q \in Producers : pc[q] \in Inside => q = p
    BY <1>1 DEF Turn
  <2>2. {q \in Producers : pc[q] \in {l}} = IF pc[p] = l THEN {p} ELSE {}
    BY <2>1, <1>1
  <2> QED BY <2>2, FS_Singleton, FS_EmptySet DEF At
<1>2. ASSUME NEW c \in Consumers, NEW l \in Inside, pc[c] \in Inside
      PROVE  At(Consumers, {l}) = IF pc[c] = l THEN 1 ELSE 0
  <2>1. \A q \in Consumers : pc[q] \in Inside => q = c
    BY <1>2 DEF Turn
  <2>2. {q \in Consumers : pc[q] \in {l}} = IF pc[c] = l THEN {c} ELSE {}
    BY <2>1, <1>2
  <2> QED BY <2>2, FS_Singleton, FS_EmptySet DEF At
<1> QED BY <1>1, <1>2

\* No more than one thread of a kind is about to advance a position.
LEMMA AtMostOneAdvances ==
  ASSUME TypeOK, Turn
  PROVE  At(Producers, {"advance"}) \in {0, 1} /\ At(Consumers, {"advance"}) \in {0, 1}
<1>1. At(Producers, {"advance"}) \in {0, 1}
  <2>1. CASE \E p \in Producers : pc[p] = "advance"
    BY <2>1, Alone DEF Inside
  <2>2. CASE \A p \in Producers : pc[p] # "advance"
    BY <2>2, CountType, RingAssumption
  <2> QED BY <2>1, <2>2
<1>2. At(Consumers, {"advance"}) \in {0, 1}
  <2>1. CASE \E c \in Consumers : pc[c] = "advance"
    BY <2>1, Alone DEF Inside
  <2>2. CASE \A c \in Consumers : pc[c] # "advance"
    BY <2>2, CountType, RingAssumption
  <2> QED BY <2>1, <2>2
<1> QED BY <1>1, <1>2

\* What the invariant says of the positions at any moment.
LEMMA Positions ==
  ASSUME IInv
  PROVE  /\ Stored \in 0 .. Capacity /\ Oldest \in 0 .. Capacity
         /\ Oldest + Stored \in 0 .. 2 * Capacity - 1
         /\ pstep_ + At(Producers, {"advance"}) \in 0 .. Capacity
         /\ At(Producers, {"advance"}) <= Stored
         /\ IndicesAgree
<1> USE RingAssumption DEF IInv
<1>1. /\ pstep_ \in 0 .. Capacity - 1 /\ cstep_ \in 0 .. Capacity - 1
      /\ spacesem_ \in Nat /\ datasem_ \in Nat
  BY DEF TypeOK, Slots
<1>2. At(Producers, {"advance"}) \in {0, 1} /\ At(Consumers, {"advance"}) \in {0, 1}
  BY AtMostOneAdvances
<1>3. /\ At(Producers, {"lock", "access"}) \in Nat /\ At(Producers, {"advance", "post"}) \in Nat
      /\ At(Consumers, {"lock", "access"}) \in Nat /\ At(Consumers, {"advance", "post"}) \in Nat
  BY Counts
<1>4. At(Consumers, {"advance"}) <= At(Consumers, {"advance", "post"})
  <2>1. CASE \E c \in Consumers : pc[c] = "advance"
    <3>1. At(Consumers, {"advance", "post"}) >= 1
      BY <2>1, Counts
    <3> QED BY <3>1, <1>2, <1>3
  <2>2. CASE \A c \in Consumers : pc[c] # "advance"
    <3>1. At(Consumers, {"advance"}) = 0
      BY <2>2, CountType
    <3> QED BY <3>1, <1>3
  <2> QED BY <2>1, <2>2
<1>5. At(Producers, {"advance"}) <= At(Producers, {"advance", "post"})
  <2>1. CASE \E p \in Producers : pc[p] = "advance"
    <3>1. At(Producers, {"advance", "post"}) >= 1
      BY <2>1, Counts
    <3> QED BY <3>1, <1>2, <1>3
  <2>2. CASE \A p \in Producers : pc[p] # "advance"
    <3>1. At(Producers, {"advance"}) = 0
      BY <2>2, CountType
    <3> QED BY <3>1, <1>3
  <2> QED BY <2>1, <2>2
<1>6. /\ Stored \in 0 .. Capacity /\ Oldest \in 0 .. Capacity
      /\ Oldest + Stored \in 0 .. 2 * Capacity - 1
      /\ pstep_ + At(Producers, {"advance"}) \in 0 .. Capacity
  BY <1>1, <1>2, <1>3, <1>4 DEF Stored, Oldest, SlotsAccounted
<1>7. At(Producers, {"advance"}) <= Stored
  BY <1>1, <1>2, <1>3, <1>5 DEF Stored
<1>8. IndicesAgree
  <2> DEFINE l == pstep_ + At(Producers, {"advance"})
             r == Oldest + Stored
  <2>1. l \in 0 .. 2 * Capacity - 1 /\ r \in 0 .. 2 * Capacity - 1
    BY <1>6
  <2>2. l = r \/ l + Capacity = r
    BY DEF Aligned
  <2>3. CASE l = r
    BY <2>3 DEF IndicesAgree
  <2>4. CASE l + Capacity = r
    <3>1. l < Capacity
      BY <2>1, <2>4
    <3>2. l % Capacity = l /\ r % Capacity = r - Capacity
      BY <2>1, <2>4, <3>1, WrapOnce
    <3> HIDE DEF l, r
    <3>3. l % Capacity = r % Capacity
      BY <3>2, <2>1, <2>4
    <3> QED BY <3>3 DEF IndicesAgree, l, r
  <2> QED BY <2>2, <2>3, <2>4
<1> QED BY <1>6, <1>7, <1>8

\* An empty ring: every slot is free, every permit is on blank_sem_.
LEMMA InitIInv == Init => IInv
<1> SUFFICES ASSUME Init PROVE IInv
  OBVIOUS
<1> USE RingAssumption DEF Init
<1>1. TypeOK
  BY DEF TypeOK, Slots
<1>2. Turn
  BY DEF Turn, Inside, Threads
<1>3. /\ At(Producers, {"lock", "access"}) = 0 /\ At(Consumers, {"advance", "post"}) = 0
      /\ At(Producers, {"advance", "post"}) = 0 /\ At(Consumers, {"lock", "access"}) = 0
      /\ At(Producers, {"advance"}) = 0 /\ At(Consumers, {"advance"}) = 0
  BY CountType DEF Threads
<1>4. SlotsAccounted /\ Aligned
  BY <1>3 DEF SlotsAccounted, Aligned, Stored, Oldest
<1> QED BY <1>1, <1>2, <1>4 DEF IInv

\* What one step of push does to the counts in the invariant.
LEMMA PushMoves ==
  ASSUME TypeOK, NEW p \in Producers, NEW from, NEW to, Goto(p, from, to)
  PROVE  /\ \A L : At(Producers, L)' = At(Producers, L)
                     + (IF to \in L THEN 1 ELSE 0) - (IF from \in L THEN 1 ELSE 0)
         /\ \A L : At(Consumers, L)' = At(Consumers, L)
<1>1. /\ DOMAIN pc = Threads /\ p \notin Consumers
      /\ Producers \subseteq Threads /\ Consumers \subseteq Threads
  BY RingAssumption DEF TypeOK, Threads
<1> QED BY <1>1, CountMoves, CountStays, RingAssumption

\* The same of one step of pop.
LEMMA PopMoves ==
  ASSUME TypeOK, NEW c \in Consumers, NEW from, NEW to, Goto(c, from, to)
  PROVE  /\ \A L : At(Consumers, L)' = At(Consumers, L)
                     + (IF to \in L THEN 1 ELSE 0) - (IF from \in L THEN 1 ELSE 0)
         /\ \A L : At(Producers, L)' = At(Producers, L)
<1>1. /\ DOMAIN pc = Threads /\ c \notin Producers
      /\ Producers \subseteq Threads /\ Consumers \subseteq Threads
  BY RingAssumption DEF TypeOK, Threads
<1> QED BY <1>1, CountMoves, CountStays, RingAssumption

\* A step keeps the types and the mutual exclusion under each mutex.
LEMMA TypeTurnStep ==
  ASSUME TypeOK, Turn, [Next]_vars
  PROVE  TypeOK' /\ Turn'
<1> USE RingAssumption DEF TypeOK, Turn, Inside, Threads, Goto
<1>1. ASSUME NEW p \in Producers, NEW x \in Items, PushWait(p, x) PROVE TypeOK' /\ Turn'
  BY <1>1 DEF PushWait
<1>2. ASSUME NEW p \in Producers, PushLock(p) PROVE TypeOK' /\ Turn'
  BY <1>2 DEF PushLock
<1>3. ASSUME NEW p \in Producers, PushStore(p) PROVE TypeOK' /\ Turn'
  BY <1>3 DEF PushStore
<1>4. ASSUME NEW p \in Producers, PushAdvance(p) PROVE TypeOK' /\ Turn'
  BY <1>4, WrapSteps DEF PushAdvance
<1>5. ASSUME NEW p \in Producers, PushPost(p) PROVE TypeOK' /\ Turn'
  BY <1>5 DEF PushPost
<1>6. ASSUME NEW p \in Producers, PushUnlock(p) PROVE TypeOK' /\ Turn'
  BY <1>6 DEF PushUnlock
<1>7. ASSUME NEW c \in Consumers, PopWait(c) PROVE TypeOK' /\ Turn'
  BY <1>7 DEF PopWait
<1>8. ASSUME NEW c \in Consumers, PopLock(c) PROVE TypeOK' /\ Turn'
  BY <1>8 DEF PopLock
<1>9. ASSUME NEW c \in Consumers, PopTake(c) PROVE TypeOK' /\ Turn'
  BY <1>9 DEF PopTake, Slots
<1>10. ASSUME NEW c \in Consumers, PopAdvance(c) PROVE TypeOK' /\ Turn'
  BY <1>10, WrapSteps DEF PopAdvance
<1>11. ASSUME NEW c \in Consumers, PopPost(c) PROVE TypeOK' /\ Turn'
  BY <1>11 DEF PopPost
<1>12. ASSUME NEW c \in Consumers, PopUnlock(c) PROVE TypeOK' /\ Turn'
  BY <1>12 DEF PopUnlock
<1>13. CASE UNCHANGED vars
  BY <1>13 DEF vars
<1> QED BY <1>1, <1>2, <1>3, <1>4, <1>5, <1>6, <1>7, <1>8, <1>9, <1>10, <1>11, <1>12, <1>13 DEF Next, Push, Pop

\* A step keeps the account of the slots and the alignment of the positions.
LEMMA SlotsStep ==
  ASSUME IInv, [Next]_vars
  PROVE  SlotsAccounted' /\ Aligned'
<1> USE RingAssumption DEF IInv
<1>1. /\ pstep_ \in Slots /\ cstep_ \in Slots
      /\ spacesem_ \in Nat /\ datasem_ \in Nat
  BY DEF TypeOK
<1>2. At(Producers, {"advance"}) \in {0, 1} /\ At(Consumers, {"advance"}) \in {0, 1}
  BY AtMostOneAdvances
<1>3. /\ At(Producers, {"lock", "access"}) \in Nat /\ At(Producers, {"advance", "post"}) \in Nat
      /\ At(Consumers, {"lock", "access"}) \in Nat /\ At(Consumers, {"advance", "post"}) \in Nat
  BY Counts
<1>4. /\ Stored \in 0 .. Capacity /\ Oldest \in 0 .. Capacity
      /\ Oldest + Stored \in 0 .. 2 * Capacity - 1
      /\ pstep_ + At(Producers, {"advance"}) \in 0 .. Capacity
      /\ At(Producers, {"advance"}) <= Stored
  BY Positions
<1>5. ASSUME NEW p \in Producers, NEW x \in Items, PushWait(p, x) PROVE SlotsAccounted' /\ Aligned'
  <2>1. Goto(p, "call", "lock")
    BY <1>5 DEF PushWait
  <2>2. /\ At(Producers, {"lock", "access"})' = At(Producers, {"lock", "access"}) + 1
        /\ At(Producers, {"advance", "post"})' = At(Producers, {"advance", "post"})
        /\ At(Producers, {"advance"})' = At(Producers, {"advance"})
        /\ At(Consumers, {"lock", "access"})' = At(Consumers, {"lock", "access"})
        /\ At(Consumers, {"advance", "post"})' = At(Consumers, {"advance", "post"})
        /\ At(Consumers, {"advance"})' = At(Consumers, {"advance"})
    BY <2>1, <1>2, <1>3, PushMoves
  <2> QED BY <1>5, <1>1, <1>2, <1>3, <2>2 DEF PushWait, SlotsAccounted, Aligned, Stored, Oldest, Slots
<1>6. ASSUME NEW p \in Producers, PushLock(p) PROVE SlotsAccounted' /\ Aligned'
  <2>1. Goto(p, "lock", "access")
    BY <1>6 DEF PushLock
  <2>2. /\ At(Producers, {"lock", "access"})' = At(Producers, {"lock", "access"})
        /\ At(Producers, {"advance", "post"})' = At(Producers, {"advance", "post"})
        /\ At(Producers, {"advance"})' = At(Producers, {"advance"})
        /\ At(Consumers, {"lock", "access"})' = At(Consumers, {"lock", "access"})
        /\ At(Consumers, {"advance", "post"})' = At(Consumers, {"advance", "post"})
        /\ At(Consumers, {"advance"})' = At(Consumers, {"advance"})
    BY <2>1, <1>2, <1>3, PushMoves
  <2> QED BY <1>6, <1>1, <1>2, <1>3, <2>2 DEF PushLock, SlotsAccounted, Aligned, Stored, Oldest, Slots
<1>7. ASSUME NEW p \in Producers, PushStore(p) PROVE SlotsAccounted' /\ Aligned'
  <2>1. Goto(p, "access", "advance")
    BY <1>7 DEF PushStore
  <2>2. /\ At(Producers, {"lock", "access"})' = At(Producers, {"lock", "access"}) - 1
        /\ At(Producers, {"advance", "post"})' = At(Producers, {"advance", "post"}) + 1
        /\ At(Producers, {"advance"})' = At(Producers, {"advance"}) + 1
        /\ At(Consumers, {"lock", "access"})' = At(Consumers, {"lock", "access"})
        /\ At(Consumers, {"advance", "post"})' = At(Consumers, {"advance", "post"})
        /\ At(Consumers, {"advance"})' = At(Consumers, {"advance"})
    BY <2>1, <1>2, <1>3, PushMoves
  <2>3. UNCHANGED <<pstep_, cstep_, spacesem_, datasem_>>
    BY <1>7 DEF PushStore
  <2>4. Stored' = Stored + 1 /\ Oldest' = Oldest
    BY <1>1, <1>2, <1>3, <2>2, <2>3 DEF Stored, Oldest, Slots
  <2>5. SlotsAccounted'
    BY <1>1, <1>3, <1>4, <2>2, <2>3, <2>4 DEF SlotsAccounted
  <2>6. Aligned'
    BY <1>1, <1>2, <1>4, <2>2, <2>3, <2>4 DEF Aligned, Slots
  <2> QED BY <2>5, <2>6
<1>8. ASSUME NEW p \in Producers, PushAdvance(p) PROVE SlotsAccounted' /\ Aligned'
  <2>1. Goto(p, "advance", "post")
    BY <1>8 DEF PushAdvance
  <2>2. /\ At(Producers, {"lock", "access"})' = At(Producers, {"lock", "access"})
        /\ At(Producers, {"advance", "post"})' = At(Producers, {"advance", "post"})
        /\ At(Producers, {"advance"})' = At(Producers, {"advance"}) - 1
        /\ At(Consumers, {"lock", "access"})' = At(Consumers, {"lock", "access"})
        /\ At(Consumers, {"advance", "post"})' = At(Consumers, {"advance", "post"})
        /\ At(Consumers, {"advance"})' = At(Consumers, {"advance"})
    BY <2>1, <1>2, <1>3, PushMoves
  <2>3. At(Producers, {"advance"}) = 1
    BY <2>1, Alone DEF Inside, Goto
  <2>4. /\ pstep_' = IF pstep_ + 1 < Capacity THEN pstep_ + 1 ELSE 0
        /\ UNCHANGED <<cstep_, spacesem_, datasem_>>
    BY <1>8, <1>1, WrapSteps DEF PushAdvance
  <2>5. Stored' = Stored /\ Oldest' = Oldest
    BY <2>2, <2>4 DEF Stored, Oldest
  <2>6. SlotsAccounted'
    BY <2>2, <2>4, <2>5 DEF SlotsAccounted
  <2>7. Aligned'
    BY <1>1, <1>4, <2>2, <2>3, <2>4, <2>5 DEF Aligned, Slots
  <2> QED BY <2>6, <2>7
<1>9. ASSUME NEW p \in Producers, PushPost(p) PROVE SlotsAccounted' /\ Aligned'
  <2>1. Goto(p, "post", "unlock")
    BY <1>9 DEF PushPost
  <2>2. /\ At(Producers, {"lock", "access"})' = At(Producers, {"lock", "access"})
        /\ At(Producers, {"advance", "post"})' = At(Producers, {"advance", "post"}) - 1
        /\ At(Producers, {"advance"})' = At(Producers, {"advance"})
        /\ At(Consumers, {"lock", "access"})' = At(Consumers, {"lock", "access"})
        /\ At(Consumers, {"advance", "post"})' = At(Consumers, {"advance", "post"})
        /\ At(Consumers, {"advance"})' = At(Consumers, {"advance"})
    BY <2>1, <1>2, <1>3, PushMoves
  <2> QED BY <1>9, <1>1, <1>2, <1>3, <2>2 DEF PushPost, SlotsAccounted, Aligned, Stored, Oldest, Slots
<1>10. ASSUME NEW p \in Producers, PushUnlock(p) PROVE SlotsAccounted' /\ Aligned'
  <2>1. Goto(p, "unlock", "call")
    BY <1>10 DEF PushUnlock
  <2>2. /\ At(Producers, {"lock", "access"})' = At(Producers, {"lock", "access"})
        /\ At(Producers, {"advance", "post"})' = At(Producers, {"advance", "post"})
        /\ At(Producers, {"advance"})' = At(Producers, {"advance"})
        /\ At(Consumers, {"lock", "access"})' = At(Consumers, {"lock", "access"})
        /\ At(Consumers, {"advance", "post"})' = At(Consumers, {"advance", "post"})
        /\ At(Consumers, {"advance"})' = At(Consumers, {"advance"})
    BY <2>1, <1>2, <1>3, PushMoves
  <2> QED BY <1>10, <1>1, <1>2, <1>3, <2>2 DEF PushUnlock, SlotsAccounted, Aligned, Stored, Oldest, Slots
<1>11. ASSUME NEW c \in Consumers, PopWait(c) PROVE SlotsAccounted' /\ Aligned'
  <2>1. Goto(c, "call", "lock")
    BY <1>11 DEF PopWait
  <2>2. /\ At(Consumers, {"lock", "access"})' = At(Consumers, {"lock", "access"}) + 1
        /\ At(Consumers, {"advance", "post"})' = At(Consumers, {"advance", "post"})
        /\ At(Consumers, {"advance"})' = At(Consumers, {"advance"})
        /\ At(Producers, {"lock", "access"})' = At(Producers, {"lock", "access"})
        /\ At(Producers, {"advance", "post"})' = At(Producers, {"advance", "post"})
        /\ At(Producers, {"advance"})' = At(Producers, {"advance"})
    BY <2>1, <1>2, <1>3, PopMoves
  <2> QED BY <1>11, <1>1, <1>2, <1>3, <2>2 DEF PopWait, SlotsAccounted, Aligned, Stored, Oldest, Slots
<1>12. ASSUME NEW c \in Consumers, PopLock(c) PROVE SlotsAccounted' /\ Aligned'
  <2>1. Goto(c, "lock", "access")
    BY <1>12 DEF PopLock
  <2>2. /\ At(Consumers, {"lock", "access"})' = At(Consumers, {"lock", "access"})
        /\ At(Consumers, {"advance", "post"})' = At(Consumers, {"advance", "post"})
        /\ At(Consumers, {"advance"})' = At(Consumers, {"advance"})
        /\ At(Producers, {"lock", "access"})' = At(Producers, {"lock", "access"})
        /\ At(Producers, {"advance", "post"})' = At(Producers, {"advance", "post"})
        /\ At(Producers, {"advance"})' = At(Producers, {"advance"})
    BY <2>1, <1>2, <1>3, PopMoves
  <2> QED BY <1>12, <1>1, <1>2, <1>3, <2>2 DEF PopLock, SlotsAccounted, Aligned, Stored, Oldest, Slots
<1>13. ASSUME NEW c \in Consumers, PopTake(c) PROVE SlotsAccounted' /\ Aligned'
  <2>1. Goto(c, "access", "advance")
    BY <1>13 DEF PopTake
  <2>2. /\ At(Consumers, {"lock", "access"})' = At(Consumers, {"lock", "access"}) - 1
        /\ At(Consumers, {"advance", "post"})' = At(Consumers, {"advance", "post"}) + 1
        /\ At(Consumers, {"advance"})' = At(Consumers, {"advance"}) + 1
        /\ At(Producers, {"lock", "access"})' = At(Producers, {"lock", "access"})
        /\ At(Producers, {"advance", "post"})' = At(Producers, {"advance", "post"})
        /\ At(Producers, {"advance"})' = At(Producers, {"advance"})
    BY <2>1, <1>2, <1>3, PopMoves
  <2> QED BY <1>13, <1>1, <1>2, <1>3, <2>2 DEF PopTake, SlotsAccounted, Aligned, Stored, Oldest, Slots
<1>14. ASSUME NEW c \in Consumers, PopAdvance(c) PROVE SlotsAccounted' /\ Aligned'
  <2>1. Goto(c, "advance", "post")
    BY <1>14 DEF PopAdvance
  <2>2. /\ At(Consumers, {"lock", "access"})' = At(Consumers, {"lock", "access"})
        /\ At(Consumers, {"advance", "post"})' = At(Consumers, {"advance", "post"})
        /\ At(Consumers, {"advance"})' = At(Consumers, {"advance"}) - 1
        /\ At(Producers, {"lock", "access"})' = At(Producers, {"lock", "access"})
        /\ At(Producers, {"advance", "post"})' = At(Producers, {"advance", "post"})
        /\ At(Producers, {"advance"})' = At(Producers, {"advance"})
    BY <2>1, <1>2, <1>3, PopMoves
  <2>3. At(Consumers, {"advance"}) = 1
    BY <2>1, Alone DEF Inside, Goto
  <2>4. /\ cstep_' = IF cstep_ + 1 < Capacity THEN cstep_ + 1 ELSE 0
        /\ UNCHANGED <<pstep_, spacesem_, datasem_>>
    BY <1>14, <1>1, WrapSteps DEF PopAdvance
  <2>5. Stored' = Stored /\ Oldest = cstep_ + 1 /\ Oldest' = cstep_'
    BY <1>1, <2>2, <2>3, <2>4 DEF Stored, Oldest, Slots
  <2>6. SlotsAccounted'
    BY <2>2, <2>4, <2>5 DEF SlotsAccounted
  <2>7. Aligned'
    BY <1>1, <1>2, <1>4, <2>2, <2>4, <2>5 DEF Aligned, Slots
  <2> QED BY <2>6, <2>7
<1>15. ASSUME NEW c \in Consumers, PopPost(c) PROVE SlotsAccounted' /\ Aligned'
  <2>1. Goto(c, "post", "unlock")
    BY <1>15 DEF PopPost
  <2>2. /\ At(Consumers, {"lock", "access"})' = At(Consumers, {"lock", "access"})
        /\ At(Consumers, {"advance", "post"})' = At(Consumers, {"advance", "post"}) - 1
        /\ At(Consumers, {"advance"})' = At(Consumers, {"advance"})
        /\ At(Producers, {"lock", "access"})' = At(Producers, {"lock", "access"})
        /\ At(Producers, {"advance", "post"})' = At(Producers, {"advance", "post"})
        /\ At(Producers, {"advance"})' = At(Producers, {"advance"})
    BY <2>1, <1>2, <1>3, PopMoves
  <2> QED BY <1>15, <1>1, <1>2, <1>3, <2>2 DEF PopPost, SlotsAccounted, Aligned, Stored, Oldest, Slots
<1>16. ASSUME NEW c \in Consumers, PopUnlock(c) PROVE SlotsAccounted' /\ Aligned'
  <2>1. Goto(c, "unlock", "call")
    BY <1>16 DEF PopUnlock
  <2>2. /\ At(Consumers, {"lock", "access"})' = At(Consumers, {"lock", "access"})
        /\ At(Consumers, {"advance", "post"})' = At(Consumers, {"advance", "post"})
        /\ At(Consumers, {"advance"})' = At(Consumers, {"advance"})
        /\ At(Producers, {"lock", "access"})' = At(Producers, {"lock", "access"})
        /\ At(Producers, {"advance", "post"})' = At(Producers, {"advance", "post"})
        /\ At(Producers, {"advance"})' = At(Producers, {"advance"})
    BY <2>1, <1>2, <1>3, PopMoves
  <2> QED BY <1>16, <1>1, <1>2, <1>3, <2>2 DEF PopUnlock, SlotsAccounted, Aligned, Stored, Oldest, Slots
<1>17. CASE UNCHANGED vars
  BY <1>17 DEF vars, SlotsAccounted, Aligned, Stored, Oldest, At
<1> QED BY <1>5, <1>6, <1>7, <1>8, <1>9, <1>10, <1>11, <1>12, <1>13, <1>14, <1>15, <1>16, <1>17 DEF Next, Push, Pop

\* The invariant is inductive.
THEOREM Invariance == Spec => []IInv
<1>1. Init => IInv
  BY InitIInv
<1>2. IInv /\ [Next]_vars => IInv'
  BY TypeTurnStep, SlotsStep DEF IInv
<1> QED BY <1>1, <1>2, PTL DEF Spec

\* Every variable of the ring keeps its type: the positions stay inside the
\* array and the semaphores are never negative.
THEOREM TypeCorrect == Spec => []TypeOK
<1>1. IInv => TypeOK
  BY DEF IInv
<1> QED BY <1>1, Invariance, PTL

\* At every moment the two semaphores and the threads between them account
\* for each slot of the ring exactly once.
THEOREM EverySlotAccounted == Spec => []SlotsAccounted
<1>1. IInv => SlotsAccounted
  BY DEF IInv
<1> QED BY <1>1, Invariance, PTL

\* The positions pstep_ and cstep_, which no semaphore guards, always agree
\* with the number of items the semaphores count.
THEOREM PositionsAgree == Spec => []IndicesAgree
<1>1. IInv => IndicesAgree
  BY Positions
<1> QED BY <1>1, Invariance, PTL

\* A producer and a consumer, each under its own mutex, are never at the same
\* slot of the array.
THEOREM NoSlotShared == Spec => []SlotNotShared
<1>1. IInv => SlotNotShared
  <2> USE RingAssumption DEF IInv
  <2> SUFFICES ASSUME IInv, NEW p \in Producers, NEW c \in Consumers,
                      pc[p] \in {"access", "advance"}, pc[c] \in {"access", "advance"},
                      pstep_ = cstep_
               PROVE  FALSE
    BY DEF SlotNotShared
  <2>1. /\ cstep_ \in 0 .. Capacity - 1 /\ spacesem_ \in Nat /\ datasem_ \in Nat
        /\ Capacity \in Nat \ {0}
    BY DEF TypeOK, Slots
  <2>2. /\ At(Producers, {"advance"}) = IF pc[p] = "advance" THEN 1 ELSE 0
        /\ At(Consumers, {"advance"}) = IF pc[c] = "advance" THEN 1 ELSE 0
    BY Alone DEF Inside
  <2>3. /\ At(Producers, {"lock", "access"}) \in Nat /\ At(Producers, {"advance", "post"}) \in Nat
        /\ At(Consumers, {"lock", "access"}) \in Nat /\ At(Consumers, {"advance", "post"}) \in Nat
    BY Counts
  <2>4. /\ pc[p] = "access" => At(Producers, {"lock", "access"}) >= 1
        /\ pc[p] = "advance" => At(Producers, {"advance", "post"}) >= 1
        /\ pc[c] = "access" => At(Consumers, {"lock", "access"}) >= 1
        /\ pc[c] = "advance" => At(Consumers, {"advance", "post"}) >= 1
    BY Counts
  <2> QED BY <2>1, <2>2, <2>3, <2>4 DEF SlotsAccounted, Aligned, Stored, Oldest
<1> QED BY <1>1, Invariance, PTL

-----------------------------------------------------------------------------
(* The ring implements a bounded first-in first-out queue                    *)

\* The slot of the i-th oldest item, and the queue the ring stands for.
Slot(i) == (Oldest + i - 1) % Capacity
Queue   == [i \in 1 .. Stored |-> rq_[Slot(i)]]

\* The queue is a sequence of items; the slots it occupies are different, and
\* none is the one a producer in its critical section writes.
LEMMA Window ==
  ASSUME IInv
  PROVE  /\ Queue \in Seq(Items) /\ Len(Queue) = Stored
         /\ \A i \in 1 .. Stored + 1 :
              Slot(i) = IF Oldest + i - 1 < Capacity THEN Oldest + i - 1
                                                     ELSE Oldest + i - 1 - Capacity
         /\ \A i \in 1 .. Stored : Slot(i) \in Slots
<1> USE RingAssumption DEF IInv
<1>1. /\ Capacity \in Nat \ {0}
      /\ Stored \in 0 .. Capacity /\ Oldest \in 0 .. Capacity
      /\ Oldest + Stored \in 0 .. 2 * Capacity - 1
  BY Positions
<1>2. ASSUME NEW i \in 1 .. Stored + 1
      PROVE  /\ Slot(i) = IF Oldest + i - 1 < Capacity THEN Oldest + i - 1
                                                       ELSE Oldest + i - 1 - Capacity
             /\ Slot(i) \in Slots
  <2> DEFINE x == Oldest + i - 1
  <2>1. x \in 0 .. 2 * Capacity - 1
    BY <1>1
  <2>2. Slot(i) = x % Capacity
    BY DEF Slot
  <2> HIDE DEF x
  <2>3. Slot(i) \in Slots /\ Slot(i) = IF x < Capacity THEN x ELSE x - Capacity
    BY <2>1, <2>2, WrapOnce
  <2> QED BY <1>1, <2>1, <2>3 DEF x
<1>3. \A i \in 1 .. Stored : i \in 1 .. Stored + 1
  BY <1>1
<1>4. \A i \in 1 .. Stored : rq_[Slot(i)] \in Items
  BY <1>2, <1>3 DEF TypeOK
<1>5. Queue \in Seq(Items) /\ Len(Queue) = Stored
  BY <1>1, <1>4 DEF Queue
<1> QED BY <1>2, <1>3, <1>5

\* The same in a form that holds of the next state, too.
LEMMA QueueType == IInv => Queue \in Seq(Items) /\ Len(Queue) = Stored
  BY Window

\* PushStore is the abstract Push, PopTake the abstract Pop, and every other
\* step leaves the abstract queue as it is.
LEMMA StoreIsPush ==
  ASSUME IInv, IInv', NEW p \in Producers, PushStore(p)
  PROVE  \E x \in Items : Fifo!Push(x)
<1> USE RingAssumption DEF IInv
<1>1. /\ Capacity \in Nat \ {0} /\ pstep_ \in 0 .. Capacity - 1
      /\ Stored \in 0 .. Capacity /\ Oldest \in 0 .. Capacity
      /\ Oldest + Stored \in 0 .. 2 * Capacity - 1
  BY Positions DEF TypeOK, Slots
<1>2. Stored < Capacity
  <2>1. At(Producers, {"lock", "access"}) >= 1
    BY Counts DEF PushStore, Goto
  <2>2. At(Consumers, {"advance", "post"}) \in Nat /\ At(Producers, {"lock", "access"}) \in Nat
    BY Counts
  <2>3. spacesem_ \in Nat
    BY DEF TypeOK
  <2> QED BY <1>1, <2>1, <2>2, <2>3 DEF SlotsAccounted
<1>3. Goto(p, "access", "advance")
  BY DEF PushStore
<1>4. Stored' = Stored + 1 /\ Oldest' = Oldest
  <2>1. /\ At(Consumers, {"lock", "access"})' = At(Consumers, {"lock", "access"})
        /\ At(Consumers, {"advance"})' = At(Consumers, {"advance"})
    BY <1>3, PushMoves
  <2>2. At(Producers, {"advance", "post"})' = At(Producers, {"advance", "post"}) + 1
    BY <1>3, PushMoves, Counts
  <2>3. /\ At(Producers, {"advance", "post"}) \in Nat /\ At(Consumers, {"lock", "access"}) \in Nat
        /\ datasem_ \in Nat
    BY Counts DEF TypeOK
  <2>4. datasem_' = datasem_ /\ cstep_' = cstep_
    BY DEF PushStore
  <2> QED BY <2>1, <2>2, <2>3, <2>4 DEF Stored, Oldest
<1>5. Slot(Stored + 1) = pstep_
  <2>1. At(Producers, {"advance"}) = 0
    BY <1>3, Alone DEF Goto, Inside
  <2>2. pstep_ = Oldest + Stored \/ pstep_ + Capacity = Oldest + Stored
    BY <1>1, <2>1 DEF Aligned
  <2>3. Slot(Stored + 1) = IF Oldest + Stored < Capacity THEN Oldest + Stored
                                                         ELSE Oldest + Stored - Capacity
    BY <1>1, Window
  <2> QED BY <1>1, <2>2, <2>3
<1>6. \A i \in 1 .. Stored : Slot(i) # pstep_ /\ Slot(i) \in Slots
  <2> SUFFICES ASSUME NEW i \in 1 .. Stored PROVE Slot(i) # pstep_ /\ Slot(i) \in Slots
    OBVIOUS
  <2>1. /\ Slot(i) = IF Oldest + i - 1 < Capacity THEN Oldest + i - 1
                                                 ELSE Oldest + i - 1 - Capacity
        /\ Slot(Stored + 1) = IF Oldest + Stored < Capacity THEN Oldest + Stored
                                                            ELSE Oldest + Stored - Capacity
        /\ Slot(i) \in Slots
    BY <1>1, Window
  <2> QED BY <1>1, <1>2, <1>5, <2>1
<1>7. \A i \in 1 .. Stored + 1 : Slot(i)' = Slot(i)
  BY <1>4 DEF Slot
<1>8. rq_' = [rq_ EXCEPT ![pstep_] = in[p]] /\ rq_ \in [Slots -> Items] /\ pstep_ \in Slots
  BY DEF PushStore, TypeOK
<1>9. Queue' = [i \in 1 .. Stored + 1 |-> IF i = Stored + 1 THEN in[p] ELSE Queue[i]]
  <2>1. Queue' = [i \in 1 .. Stored + 1 |-> rq_'[Slot(i)]]
    BY <1>4, <1>7 DEF Queue
  <2>2. ASSUME NEW i \in 1 .. Stored + 1
        PROVE  rq_'[Slot(i)] = IF i = Stored + 1 THEN in[p] ELSE Queue[i]
    <3>1. CASE i = Stored + 1
      BY <3>1, <1>5, <1>8
    <3>2. CASE i # Stored + 1
      <4>1. i \in 1 .. Stored
        BY <1>1, <3>2
      <4> QED BY <4>1, <3>2, <1>6, <1>8 DEF Queue
    <3> QED BY <3>1, <3>2
  <2> QED BY <2>1, <2>2
<1>10. Queue' = Append(Queue, in[p]) /\ Len(Queue) < Capacity
  <2>1. Queue \in Seq(Items) /\ Len(Queue) = Stored
    BY Window
  <2>2. Queue' \in Seq(Items) /\ Len(Queue') = Stored + 1
    <3>1. (IInv => Queue \in Seq(Items) /\ Len(Queue) = Stored)'
      BY QueueType, PTL
    <3> QED BY <3>1, <1>4
  <2>3. in[p] \in Items
    BY DEF TypeOK
  <2>4. /\ Append(Queue, in[p]) \in Seq(Items) /\ Len(Append(Queue, in[p])) = Stored + 1
        /\ \A i \in 1 .. Stored + 1 :
             Append(Queue, in[p])[i] = IF i = Stored + 1 THEN in[p] ELSE Queue[i]
    BY <1>1, <2>1, <2>3
  <2>5. \A i \in 1 .. Stored + 1 : Queue'[i] = Append(Queue, in[p])[i]
    BY <1>9, <2>4
  <2>6. Queue' = Append(Queue, in[p])
    BY <2>2, <2>4, <2>5, SeqEqual
  <2> QED BY <1>1, <1>2, <2>1, <2>6
<1>11. out' = out
  BY DEF PushStore
<1>12. in[p] \in Items
  BY DEF TypeOK
<1> QED BY <1>10, <1>11, <1>12 DEF Fifo!Push, Queue, Slot

\* pop's read of a slot takes the front of the abstract queue.
LEMMA TakeIsPop ==
  ASSUME IInv, IInv', NEW c \in Consumers, PopTake(c)
  PROVE  Fifo!Pop(c)
<1> USE RingAssumption DEF IInv
<1>1. /\ Capacity \in Nat \ {0} /\ cstep_ \in 0 .. Capacity - 1
      /\ Stored \in 0 .. Capacity /\ Oldest \in 0 .. Capacity
      /\ Oldest + Stored \in 0 .. 2 * Capacity - 1
  BY Positions DEF TypeOK, Slots
<1>2. Goto(c, "access", "advance")
  BY DEF PopTake
<1>3. /\ datasem_ \in Nat /\ At(Producers, {"advance", "post"}) \in Nat
      /\ At(Consumers, {"lock", "access"}) \in Nat
  BY Counts DEF TypeOK
<1>4. Stored >= 1
  <2>1. At(Consumers, {"lock", "access"}) >= 1
    BY Counts, <1>2 DEF Goto
  <2> QED BY <1>3, <2>1 DEF Stored
<1>5. Oldest = cstep_
  <2>1. At(Consumers, {"advance"}) = 0
    BY <1>2, Alone DEF Goto, Inside
  <2> QED BY <1>1, <2>1 DEF Oldest
<1>6. Stored' = Stored - 1 /\ Oldest' = Oldest + 1
  <2>1. At(Producers, {"advance", "post"})' = At(Producers, {"advance", "post"})
    BY <1>2, PopMoves
  <2>2. At(Consumers, {"lock", "access"})' = At(Consumers, {"lock", "access"}) - 1
    BY <1>2, <1>3, PopMoves
  <2>3. At(Consumers, {"advance"}) \in Nat
    BY Counts
  <2>4. At(Consumers, {"advance"})' = At(Consumers, {"advance"}) + 1
    BY <1>2, <2>3, PopMoves
  <2>5. datasem_' = datasem_ /\ cstep_' = cstep_
    BY DEF PopTake
  <2> QED BY <1>1, <1>3, <2>1, <2>2, <2>3, <2>4, <2>5 DEF Stored, Oldest
<1>7. Queue \in Seq(Items) /\ Len(Queue) = Stored /\ Queue # << >>
  BY <1>1, <1>4, Window
<1>8. Head(Queue) = rq_[cstep_]
  <2>1. Slot(1) = cstep_
    BY <1>1, <1>4, <1>5, Window
  <2>2. Queue[1] = rq_[cstep_]
    BY <2>1, <1>1, <1>4 DEF Queue
  <2> QED BY <1>7, <2>2
<1>9. Queue' = Tail(Queue)
  <2>1. Queue' \in Seq(Items) /\ Len(Queue') = Stored - 1
    <3>1. (IInv => Queue \in Seq(Items) /\ Len(Queue) = Stored)'
      BY QueueType, PTL
    <3> QED BY <3>1, <1>6
  <2>2. /\ Tail(Queue) \in Seq(Items) /\ Len(Tail(Queue)) = Stored - 1
        /\ \A i \in 1 .. Stored - 1 : Tail(Queue)[i] = Queue[i + 1]
    BY <1>7, HeadTailProperties
  <2>3. \A i \in 1 .. Stored - 1 : Slot(i)' = Slot(i + 1)
    <3> SUFFICES ASSUME NEW i \in 1 .. Stored - 1 PROVE Slot(i)' = Slot(i + 1)
      OBVIOUS
    <3>1. Oldest' + i - 1 = Oldest + (i + 1) - 1
      BY <1>1, <1>6
    <3> QED BY <3>1 DEF Slot
  <2>4. rq_' = rq_
    BY DEF PopTake
  <2>5. \A i \in 1 .. Stored - 1 : Queue'[i] = Tail(Queue)[i]
    <3> SUFFICES ASSUME NEW i \in 1 .. Stored - 1 PROVE Queue'[i] = Tail(Queue)[i]
      OBVIOUS
    <3>1. Queue'[i] = rq_'[Slot(i)']
      BY <1>1, <1>6 DEF Queue
    <3>2. i + 1 \in 1 .. Stored
      BY <1>1
    <3>3. Queue[i + 1] = rq_[Slot(i + 1)]
      BY <3>2 DEF Queue
    <3> QED BY <3>1, <3>3, <2>2, <2>3, <2>4
  <2> QED BY <2>1, <2>2, <2>5, SeqEqual
<1>10. out' = [out EXCEPT ![c] = Head(Queue)]
  BY <1>8 DEF PopTake
<1> QED BY <1>7, <1>9, <1>10 DEF Fifo!Pop, Queue, Slot

\* Every other step leaves the abstract queue as it is.
LEMMA OthersStutter ==
  ASSUME IInv, [Next]_vars,
         \A p \in Producers : ~ PushStore(p), \A c \in Consumers : ~ PopTake(c)
  PROVE  Queue' = Queue /\ out' = out
<1> USE RingAssumption DEF IInv
<1>1. /\ Capacity \in Nat \ {0} /\ cstep_ \in Slots /\ datasem_ \in Nat
      /\ Stored \in 0 .. Capacity /\ Oldest \in 0 .. Capacity
  BY Positions DEF TypeOK
<1>2. At(Producers, {"advance"}) \in {0, 1} /\ At(Consumers, {"advance"}) \in {0, 1}
  BY AtMostOneAdvances
<1>3. /\ At(Producers, {"lock", "access"}) \in Nat /\ At(Producers, {"advance", "post"}) \in Nat
      /\ At(Consumers, {"lock", "access"}) \in Nat /\ At(Consumers, {"advance", "post"}) \in Nat
  BY Counts
<1>4. ASSUME Stored' = Stored, Oldest' = Oldest, rq_' = rq_
      PROVE  Queue' = Queue
  BY <1>4 DEF Queue, Slot
<1>5. ASSUME NEW p \in Producers, NEW x \in Items, PushWait(p, x) PROVE Queue' = Queue /\ out' = out
  <2>1. Goto(p, "call", "lock")
    BY <1>5 DEF PushWait
  <2>2. /\ At(Producers, {"advance", "post"})' = At(Producers, {"advance", "post"})
        /\ At(Consumers, {"lock", "access"})' = At(Consumers, {"lock", "access"})
        /\ At(Consumers, {"advance"})' = At(Consumers, {"advance"})
    BY <2>1, <1>2, <1>3, PushMoves
  <2>3. UNCHANGED <<rq_, cstep_, out>>
    BY <1>5 DEF PushWait
  <2>4. Stored' = Stored /\ Oldest' = Oldest
    BY <1>5, <1>1, <1>2, <1>3, <2>2, <2>3 DEF PushWait, Stored, Oldest
  <2> QED BY <1>4, <2>3, <2>4
<1>6. ASSUME NEW p \in Producers, PushLock(p) PROVE Queue' = Queue /\ out' = out
  <2>1. Goto(p, "lock", "access")
    BY <1>6 DEF PushLock
  <2>2. /\ At(Producers, {"advance", "post"})' = At(Producers, {"advance", "post"})
        /\ At(Consumers, {"lock", "access"})' = At(Consumers, {"lock", "access"})
        /\ At(Consumers, {"advance"})' = At(Consumers, {"advance"})
    BY <2>1, <1>2, <1>3, PushMoves
  <2>3. UNCHANGED <<rq_, cstep_, out>>
    BY <1>6 DEF PushLock
  <2>4. Stored' = Stored /\ Oldest' = Oldest
    BY <1>6, <1>1, <1>2, <1>3, <2>2, <2>3 DEF PushLock, Stored, Oldest
  <2> QED BY <1>4, <2>3, <2>4
<1>7. ASSUME NEW p \in Producers, PushAdvance(p) PROVE Queue' = Queue /\ out' = out
  <2>1. Goto(p, "advance", "post")
    BY <1>7 DEF PushAdvance
  <2>2. /\ At(Producers, {"advance", "post"})' = At(Producers, {"advance", "post"})
        /\ At(Consumers, {"lock", "access"})' = At(Consumers, {"lock", "access"})
        /\ At(Consumers, {"advance"})' = At(Consumers, {"advance"})
    BY <2>1, <1>2, <1>3, PushMoves
  <2>3. UNCHANGED <<rq_, cstep_, out>>
    BY <1>7 DEF PushAdvance
  <2>4. Stored' = Stored /\ Oldest' = Oldest
    BY <1>7, <1>1, <1>2, <1>3, <2>2, <2>3 DEF PushAdvance, Stored, Oldest
  <2> QED BY <1>4, <2>3, <2>4
<1>8. ASSUME NEW p \in Producers, PushPost(p) PROVE Queue' = Queue /\ out' = out
  <2>1. Goto(p, "post", "unlock")
    BY <1>8 DEF PushPost
  <2>2. /\ At(Producers, {"advance", "post"})' = At(Producers, {"advance", "post"}) - 1
        /\ At(Consumers, {"lock", "access"})' = At(Consumers, {"lock", "access"})
        /\ At(Consumers, {"advance"})' = At(Consumers, {"advance"})
    BY <2>1, <1>2, <1>3, PushMoves
  <2>3. UNCHANGED <<rq_, cstep_, out>>
    BY <1>8 DEF PushPost
  <2>4. Stored' = Stored /\ Oldest' = Oldest
    BY <1>8, <1>1, <1>2, <1>3, <2>2, <2>3 DEF PushPost, Stored, Oldest
  <2> QED BY <1>4, <2>3, <2>4
<1>9. ASSUME NEW p \in Producers, PushUnlock(p) PROVE Queue' = Queue /\ out' = out
  <2>1. Goto(p, "unlock", "call")
    BY <1>9 DEF PushUnlock
  <2>2. /\ At(Producers, {"advance", "post"})' = At(Producers, {"advance", "post"})
        /\ At(Consumers, {"lock", "access"})' = At(Consumers, {"lock", "access"})
        /\ At(Consumers, {"advance"})' = At(Consumers, {"advance"})
    BY <2>1, <1>2, <1>3, PushMoves
  <2>3. UNCHANGED <<rq_, cstep_, out>>
    BY <1>9 DEF PushUnlock
  <2>4. Stored' = Stored /\ Oldest' = Oldest
    BY <1>9, <1>1, <1>2, <1>3, <2>2, <2>3 DEF PushUnlock, Stored, Oldest
  <2> QED BY <1>4, <2>3, <2>4
<1>10. ASSUME NEW c \in Consumers, PopWait(c) PROVE Queue' = Queue /\ out' = out
  <2>1. Goto(c, "call", "lock")
    BY <1>10 DEF PopWait
  <2>2. /\ At(Consumers, {"lock", "access"})' = At(Consumers, {"lock", "access"}) + 1
        /\ At(Consumers, {"advance"})' = At(Consumers, {"advance"})
        /\ At(Producers, {"advance", "post"})' = At(Producers, {"advance", "post"})
    BY <2>1, <1>2, <1>3, PopMoves
  <2>3. UNCHANGED <<rq_, cstep_, out>>
    BY <1>10 DEF PopWait
  <2>4. Stored' = Stored /\ Oldest' = Oldest
    BY <1>10, <1>1, <1>2, <1>3, <2>2, <2>3 DEF PopWait, Stored, Oldest
  <2> QED BY <1>4, <2>3, <2>4
<1>11. ASSUME NEW c \in Consumers, PopLock(c) PROVE Queue' = Queue /\ out' = out
  <2>1. Goto(c, "lock", "access")
    BY <1>11 DEF PopLock
  <2>2. /\ At(Consumers, {"lock", "access"})' = At(Consumers, {"lock", "access"})
        /\ At(Consumers, {"advance"})' = At(Consumers, {"advance"})
        /\ At(Producers, {"advance", "post"})' = At(Producers, {"advance", "post"})
    BY <2>1, <1>2, <1>3, PopMoves
  <2>3. UNCHANGED <<rq_, cstep_, out>>
    BY <1>11 DEF PopLock
  <2>4. Stored' = Stored /\ Oldest' = Oldest
    BY <1>11, <1>1, <1>2, <1>3, <2>2, <2>3 DEF PopLock, Stored, Oldest
  <2> QED BY <1>4, <2>3, <2>4
<1>12. ASSUME NEW c \in Consumers, PopAdvance(c) PROVE Queue' = Queue /\ out' = out
  <2>1. Goto(c, "advance", "post")
    BY <1>12 DEF PopAdvance
  <2>2. /\ At(Consumers, {"lock", "access"})' = At(Consumers, {"lock", "access"})
        /\ At(Consumers, {"advance"})' = At(Consumers, {"advance"}) - 1
        /\ At(Producers, {"advance", "post"})' = At(Producers, {"advance", "post"})
    BY <2>1, <1>2, <1>3, PopMoves
  <2>3. /\ cstep_' = IF cstep_ + 1 < Capacity THEN cstep_ + 1 ELSE 0
        /\ UNCHANGED <<rq_, datasem_, out>>
    BY <1>12, <1>1, WrapSteps DEF PopAdvance
  <2>4. At(Consumers, {"advance"}) = 1
    BY <2>1, Alone DEF Goto, Inside
  <2>5. Stored' = Stored /\ Oldest = cstep_ + 1 /\ Oldest' = cstep_'
    BY <1>1, <2>2, <2>3, <2>4 DEF Stored, Oldest, Slots
  <2>6. ASSUME NEW n \in 1 .. Stored PROVE Slot(n)' = Slot(n)
    <3>1. CASE cstep_ + 1 < Capacity
      <4>1. Oldest' = Oldest
        BY <3>1, <2>3, <2>5
      <4> QED BY <4>1 DEF Slot
    <3>2. CASE cstep_ + 1 = Capacity
      <4> DEFINE m == n - 1
      <4>1. m \in 0 .. Capacity - 1 /\ m + Capacity \in 0 .. 2 * Capacity - 1
        BY <1>1
      <4>2. Oldest' = 0 /\ Oldest = Capacity
        BY <3>2, <2>3, <2>5, <1>1
      <4>3. Oldest' + n - 1 = m /\ Oldest + n - 1 = m + Capacity
        BY <4>1, <4>2, <1>1
      <4> HIDE DEF m
      <4>4. m \in 0 .. 2 * Capacity - 1 /\ m < Capacity
        BY <1>1, <4>1
      <4>5. m % Capacity = m /\ (m + Capacity) % Capacity = m
        BY <1>1, <4>1, <4>4, WrapOnce
      <4> QED BY <4>3, <4>5 DEF Slot
    <3> QED BY <3>1, <3>2, <1>1 DEF Slots
  <2> QED BY <2>3, <2>5, <2>6 DEF Queue
<1>13. ASSUME NEW c \in Consumers, PopPost(c) PROVE Queue' = Queue /\ out' = out
  <2>1. Goto(c, "post", "unlock")
    BY <1>13 DEF PopPost
  <2>2. /\ At(Consumers, {"lock", "access"})' = At(Consumers, {"lock", "access"})
        /\ At(Consumers, {"advance"})' = At(Consumers, {"advance"})
        /\ At(Producers, {"advance", "post"})' = At(Producers, {"advance", "post"})
    BY <2>1, <1>2, <1>3, PopMoves
  <2>3. UNCHANGED <<rq_, cstep_, out>>
    BY <1>13 DEF PopPost
  <2>4. Stored' = Stored /\ Oldest' = Oldest
    BY <1>13, <1>1, <1>2, <1>3, <2>2, <2>3 DEF PopPost, Stored, Oldest
  <2> QED BY <1>4, <2>3, <2>4
<1>14. ASSUME NEW c \in Consumers, PopUnlock(c) PROVE Queue' = Queue /\ out' = out
  <2>1. Goto(c, "unlock", "call")
    BY <1>14 DEF PopUnlock
  <2>2. /\ At(Consumers, {"lock", "access"})' = At(Consumers, {"lock", "access"})
        /\ At(Consumers, {"advance"})' = At(Consumers, {"advance"})
        /\ At(Producers, {"advance", "post"})' = At(Producers, {"advance", "post"})
    BY <2>1, <1>2, <1>3, PopMoves
  <2>3. UNCHANGED <<rq_, cstep_, out>>
    BY <1>14 DEF PopUnlock
  <2>4. Stored' = Stored /\ Oldest' = Oldest
    BY <1>14, <1>1, <1>2, <1>3, <2>2, <2>3 DEF PopUnlock, Stored, Oldest
  <2> QED BY <1>4, <2>3, <2>4
<1>15. CASE UNCHANGED vars
  BY <1>15 DEF vars, Queue, Slot, Stored, Oldest, At
<1> QED BY <1>5, <1>6, <1>7, <1>8, <1>9, <1>10, <1>11, <1>12, <1>13, <1>14, <1>15 DEF Next, Push, Pop

\* An empty ring is an empty queue.
LEMMA InitIsEmpty == Init => Fifo!Init
<1> SUFFICES ASSUME Init PROVE Fifo!Init
  OBVIOUS
<1>1. IInv
  BY InitIInv
<1>2. At(Producers, {"advance", "post"}) = 0 /\ At(Consumers, {"lock", "access"}) = 0
  BY CountType, RingAssumption DEF Init, Threads
<1>3. Stored = 0
  BY <1>2 DEF Init, Stored
<1>4. Queue = << >>
  BY <1>1, <1>3, QueueType
<1>5. out \in [Consumers -> Items]
  BY RingAssumption DEF Init
<1> QED BY <1>4, <1>5 DEF Fifo!Init, Queue, Slot

\* The ring with its two semaphores, two mutexes and unguarded positions
\* implements the bounded first-in first-out queue: whatever the number of
\* threads, each item pushed is handed to one consumer, in the order of the
\* stores, and never more than Capacity wait.
THEOREM Refinement == Spec => ImplementsFifo
<1>1. Init => Fifo!Init
  BY InitIsEmpty
<1>2. IInv /\ IInv' /\ [Next]_vars => [Fifo!Next]_<<Queue, out>>
  <2> SUFFICES ASSUME IInv, IInv', [Next]_vars
               PROVE  [Fifo!Next]_<<Queue, out>>
    OBVIOUS
  <2>1. ASSUME NEW p \in Producers, PushStore(p) PROVE Fifo!Next
    BY <2>1, StoreIsPush DEF Fifo!Next
  <2>2. ASSUME NEW c \in Consumers, PopTake(c) PROVE Fifo!Next
    BY <2>2, TakeIsPop DEF Fifo!Next
  <2> QED BY <2>1, <2>2, OthersStutter
<1>3. QED BY <1>1, <1>2, Invariance, PTL DEF Spec, ImplementsFifo, Fifo!Spec, Queue, Slot
=============================================================================
