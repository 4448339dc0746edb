------------------------- MODULE SizeClassProofs --------------------------
(***************************************************************************)
(* Proofs about the size classes: what MCSizeClass checks by walking over   *)
(* the sizes, derived from the formulas.  The table of classes is listed in *)
(* increasing order by Nth; rounding a size up lands on an entry of that    *)
(* list, and Index computes the entry's place in it.                        *)
(***************************************************************************)
EXTENDS MCSizeClass, FiniteSetTheorems, TLAPS

\* The k-th entry of the table, group by group.
Nth == [k \in 1 .. MAX_LISTNODE |->
          IF k <= 16 THEN 8 * k
          ELSE IF k <= 72 THEN 128 + 16 * (k - 16)
          ELSE IF k <= 128 THEN 1024 + 128 * (k - 72)
          ELSE IF k <= 184 THEN 8192 + 1024 * (k - 128)
          ELSE 65536 + 8192 * (k - 184)]

\* The largest size the tables serve: the entry before the last, because Index
\* asserts that the aligned size is below MAX_BYTES.
LargestServed == 31 * PAGE_SIZE

\* Nth lists the classes, all of them and nothing else.
LEMMA NthListsClasses ==
  /\ Nth \in [1 .. MAX_LISTNODE -> Nat]
  /\ \A k \in 1 .. MAX_LISTNODE : Nth[k] \in ClassSizes
  /\ \A c \in ClassSizes : \E k \in 1 .. MAX_LISTNODE : Nth[k] = c
PROOF
<1>1. Nth \in [1 .. MAX_LISTNODE -> Nat]
  BY DEF Nth, MAX_LISTNODE
<1>2. ASSUME NEW k \in 1 .. MAX_LISTNODE
      PROVE  Nth[k] \in ClassSizes
  <2>1. CASE k <= 16
    BY <2>1 DEF Nth, ClassSizes, MAX_LISTNODE
  <2>2. CASE k > 16 /\ k <= 72
    <3>1. k - 16 \in 1 .. 56 /\ Nth[k] = 128 + 16 * (k - 16)
      BY <2>2 DEF Nth, MAX_LISTNODE
    <3> QED  BY <3>1 DEF ClassSizes
  <2>3. CASE k > 72 /\ k <= 128
    <3>1. k - 72 \in 1 .. 56 /\ Nth[k] = 1024 + 128 * (k - 72)
      BY <2>3 DEF Nth, MAX_LISTNODE
    <3> QED  BY <3>1 DEF ClassSizes
  <2>4. CASE k > 128 /\ k <= 184
    <3>1. k - 128 \in 1 .. 56 /\ Nth[k] = 8192 + 1024 * (k - 128)
      BY <2>4 DEF Nth, MAX_LISTNODE
    <3> QED  BY <3>1 DEF ClassSizes
  <2>5. CASE k > 184
    <3>1. k - 184 \in 1 .. 24 /\ Nth[k] = 65536 + 8192 * (k - 184)
      BY <2>5 DEF Nth, MAX_LISTNODE
    <3> QED  BY <3>1 DEF ClassSizes
  <2> QED  BY <2>1, <2>2, <2>3, <2>4, <2>5 DEF MAX_LISTNODE
<1>3. ASSUME NEW c \in ClassSizes
      PROVE  \E k \in 1 .. MAX_LISTNODE : Nth[k] = c
  <2>1. CASE c \in {8 * k : k \in 1 .. 16}
    <3>1. PICK k \in 1 .. 16 : c = 8 * k
      BY <2>1
    <3> QED  BY <3>1 DEF Nth, MAX_LISTNODE
  <2>2. CASE c \in {128 + 16 * k : k \in 1 .. 56}
    <3>1. PICK k \in 1 .. 56 : c = 128 + 16 * k
      BY <2>2
    <3>2. k + 16 \in 1 .. MAX_LISTNODE /\ Nth[k + 16] = c
      BY <3>1 DEF Nth, MAX_LISTNODE
    <3> QED  BY <3>2
  <2>3. CASE c \in {1024 + 128 * k : k \in 1 .. 56}
    <3>1. PICK k \in 1 .. 56 : c = 1024 + 128 * k
      BY <2>3
    <3>2. k + 72 \in 1 .. MAX_LISTNODE /\ Nth[k + 72] = c
      BY <3>1 DEF Nth, MAX_LISTNODE
    <3> QED  BY <3>2
  <2>4. CASE c \in {8192 + 1024 * k : k \in 1 .. 56}
    <3>1. PICK k \in 1 .. 56 : c = 8192 + 1024 * k
      BY <2>4
    <3>2. k + 128 \in 1 .. MAX_LISTNODE /\ Nth[k + 128] = c
      BY <3>1 DEF Nth, MAX_LISTNODE
    <3> QED  BY <3>2
  <2>5. CASE c \in {65536 + 8192 * k : k \in 1 .. 24}
    <3>1. PICK k \in 1 .. 24 : c = 65536 + 8192 * k
      BY <2>5
    <3>2. k + 184 \in 1 .. MAX_LISTNODE /\ Nth[k + 184] = c
      BY <3>1 DEF Nth, MAX_LISTNODE
    <3> QED  BY <3>2
  <2> QED  BY <2>1, <2>2, <2>3, <2>4, <2>5 DEF ClassSizes
<1> QED  BY <1>1, <1>2, <1>3

\* The list is in increasing order.
LEMMA NthIncreases ==
  ASSUME NEW i \in 1 .. MAX_LISTNODE, NEW j \in 1 .. MAX_LISTNODE
  PROVE  Nth[i] < Nth[j] <=> i < j
PROOF
<1>1. ASSUME NEW m \in 1 .. MAX_LISTNODE, NEW n \in 1 .. MAX_LISTNODE, m < n
      PROVE  Nth[m] < Nth[n]
  BY <1>1 DEF Nth, MAX_LISTNODE
<1>2. Nth[i] \in Nat /\ Nth[j] \in Nat
  BY NthListsClasses
<1>3. CASE i < j
  BY <1>1, <1>3
<1>4. CASE i = j
  BY <1>2, <1>4
<1>5. CASE j < i
  BY <1>1, <1>2, <1>5
<1> QED  BY <1>3, <1>4, <1>5 DEF MAX_LISTNODE

\* As many classes lie below the k-th as the list has entries before it: the
\* rank of a class, which the property counts, is its place.
LEMMA RankIsPlace ==
  ASSUME NEW k \in 1 .. MAX_LISTNODE
  PROVE  Cardinality({c \in ClassSizes : c < Nth[k]}) = k - 1
PROOF
<1> DEFINE Below == {c \in ClassSizes : c < Nth[k]}
           f == [i \in 1 .. k - 1 |-> Nth[i]]
<1>1. k \in Nat /\ 1 .. k - 1 \subseteq 1 .. MAX_LISTNODE
  BY DEF MAX_LISTNODE
<1>2. \A i \in 1 .. k - 1 : f[i] \in Below
  <2> SUFFICES ASSUME NEW i \in 1 .. k - 1
               PROVE  f[i] \in Below
    OBVIOUS
  <2>1. i \in 1 .. MAX_LISTNODE /\ i < k
    BY <1>1
  <2> QED  BY <2>1, NthListsClasses, NthIncreases
<1>3. \A c \in Below : \E i \in 1 .. k - 1 : f[i] = c
  <2> SUFFICES ASSUME NEW c \in Below
               PROVE  \E i \in 1 .. k - 1 : f[i] = c
    OBVIOUS
  <2>1. PICK i \in 1 .. MAX_LISTNODE : Nth[i] = c
    BY NthListsClasses
  <2>2. i < k
    BY <2>1, NthIncreases
  <2>3. i \in 1 .. k - 1
    BY <2>2, <1>1 DEF MAX_LISTNODE
  <2> QED  BY <2>1, <2>3
<1>4. \A i, j \in 1 .. k - 1 : f[i] = f[j] => i = j
  <2> SUFFICES ASSUME NEW i \in 1 .. k - 1, NEW j \in 1 .. k - 1, Nth[i] = Nth[j]
               PROVE  i = j
    OBVIOUS
  <2>1. i \in 1 .. MAX_LISTNODE /\ j \in 1 .. MAX_LISTNODE
    BY <1>1
  <2>2. Nth[i] \in Nat /\ Nth[j] \in Nat
    BY <2>1, NthListsClasses
  <2>3. ~(Nth[i] < Nth[j]) /\ ~(Nth[j] < Nth[i])
    BY <2>2
  <2>4. ~(i < j) /\ ~(j < i)
    BY <2>1, <2>3, NthIncreases
  <2> QED  BY <2>4
<1>5. f \in Bijection(1 .. k - 1, Below)
  <2> HIDE DEF Below
  <2>1. f \in [1 .. k - 1 -> Below]
    BY <1>2
  <2> HIDE DEF f
  <2>2. IsInjective(f)
    BY <2>1, <1>4 DEF IsInjective
  <2> QED  BY <1>3, <2>1, <2>2 DEF Bijection, Injection, Surjection
<1>6. IsFiniteSet(1 .. k - 1) /\ Cardinality(1 .. k - 1) = k - 1
  BY <1>1, FS_Interval DEF MAX_LISTNODE
<1>7. ExistsBijection(1 .. k - 1, Below)
  BY <1>5 DEF ExistsBijection
<1> QED  BY <1>6, <1>7, FS_Bijection

-----------------------------------------------------------------------------
\* Round_up group by group, with the alignment written out.
LEMMA RoundUpByGroup ==
  ASSUME NEW n \in Nat
  PROVE  /\ n <= 128               => Round_up(n) = ((n + 7) \div 8) * 8
         /\ n > 128  /\ n <= 1024  => Round_up(n) = ((n + 15) \div 16) * 16
         /\ n > 1024 /\ n <= 8192  => Round_up(n) = ((n + 127) \div 128) * 128
         /\ n > 8192 /\ n <= 65536 => Round_up(n) = ((n + 1023) \div 1024) * 1024
         /\ n > 65536              => Round_up(n) = ((n + 8191) \div 8192) * 8192
PROOF
<1>1. /\ n <= 128               => Alignment(n) = 8
      /\ n > 128  /\ n <= 1024  => Alignment(n) = 16
      /\ n > 1024 /\ n <= 8192  => Alignment(n) = 128
      /\ n > 8192 /\ n <= 65536 => Alignment(n) = 1024
      /\ n > 65536              => Alignment(n) = 8192
  BY SMT DEF Alignment, PAGE_SIZE
<1>2. Round_up(n) = ((n + Alignment(n) - 1) \div Alignment(n)) * Alignment(n)
  BY DEF Round_up, _Round_up
<1>3. CASE n <= 128
  BY <1>1, <1>2, <1>3
<1>4. CASE n > 128 /\ n <= 1024
  BY <1>1, <1>2, <1>4
<1>5. CASE n > 1024 /\ n <= 8192
  BY <1>1, <1>2, <1>5
<1>6. CASE n > 8192 /\ n <= 65536
  BY <1>1, <1>2, <1>6
<1>7. CASE n > 65536
  BY <1>1, <1>2, <1>7
<1> QED  BY ONLY <1>3, <1>4, <1>5, <1>6, <1>7, n \in Nat

\* Index group by group.
LEMMA IndexByGroup ==
  ASSUME NEW n \in Nat
  PROVE  /\ n <= 128               => Index(n) = n \div 8 - 1
         /\ n > 128  /\ n <= 1024  => Index(n) = (n - 128) \div 16 + 15
         /\ n > 1024 /\ n <= 8192  => Index(n) = (n - 1024) \div 128 + 71
         /\ n > 8192 /\ n <= 65536 => Index(n) = (n - 8192) \div 1024 + 127
         /\ n > 65536              => Index(n) = (n - 65536) \div 8192 + 183
PROOF
  BY SMT DEF Index

\* The largest served size as a number.
LEMMA ServedBound ==
  LargestServed \in Nat /\ \A n \in Nat : n <= LargestServed <=> n <= 253952
PROOF
  BY SMT DEF LargestServed, PAGE_SIZE

\* A served size is rounded up to an entry of the list that IndexAsserts admits.
LEMMA RoundsToEntry ==
  ASSUME NEW n \in 1 .. LargestServed
  PROVE  \E k \in 1 .. MAX_LISTNODE - 1 : Round_up(n) = Nth[k] /\ Nth[k] >= n
PROOF
<1>0. n \in Nat /\ n >= 1 /\ n <= 253952
  BY ServedBound
<1>1. CASE n <= 128
  <2> DEFINE q == (n + 7) \div 8
  <2>1. q \in 1 .. 16 /\ 8 * q >= n
    BY <1>0, <1>1
  <2>2. Round_up(n) = q * 8
    BY <1>0, <1>1, RoundUpByGroup
  <2> HIDE DEF q
  <2>3. q \in 1 .. MAX_LISTNODE - 1 /\ Nth[q] = 8 * q
    BY <2>1 DEF Nth, MAX_LISTNODE
  <2>4. Round_up(n) = Nth[q] /\ Nth[q] >= n
    BY <2>1, <2>2, <2>3
  <2> QED  BY ONLY <2>3, <2>4
<1>2. CASE n > 128 /\ n <= 1024
  <2> DEFINE q == (n + 15) \div 16
  <2>1. q \in 9 .. 64 /\ 16 * q >= n
    BY <1>0, <1>2
  <2>2. Round_up(n) = q * 16
    BY <1>0, <1>2, RoundUpByGroup
  <2> HIDE DEF q
  <2>3. q + 8 \in 1 .. MAX_LISTNODE - 1 /\ Nth[q + 8] = 16 * q
    BY <2>1 DEF Nth, MAX_LISTNODE
  <2>4. Round_up(n) = Nth[q + 8] /\ Nth[q + 8] >= n
    BY <2>1, <2>2, <2>3
  <2> QED  BY ONLY <2>3, <2>4
<1>3. CASE n > 1024 /\ n <= 8192
  <2> DEFINE q == (n + 127) \div 128
  <2>1. q \in 9 .. 64 /\ 128 * q >= n
    BY <1>0, <1>3
  <2>2. Round_up(n) = q * 128
    BY <1>0, <1>3, RoundUpByGroup
  <2> HIDE DEF q
  <2>3. q + 64 \in 1 .. MAX_LISTNODE - 1 /\ Nth[q + 64] = 128 * q
    BY <2>1 DEF Nth, MAX_LISTNODE
  <2>4. Round_up(n) = Nth[q + 64] /\ Nth[q + 64] >= n
    BY <2>1, <2>2, <2>3
  <2> QED  BY ONLY <2>3, <2>4
<1>4. CASE n > 8192 /\ n <= 65536
  <2> DEFINE q == (n + 1023) \div 1024
  <2>1. q \in 9 .. 64 /\ 1024 * q >= n
    BY <1>0, <1>4
  <2>2. Round_up(n) = q * 1024
    BY <1>0, <1>4, RoundUpByGroup
  <2> HIDE DEF q
  <2>3. q + 120 \in 1 .. MAX_LISTNODE - 1 /\ Nth[q + 120] = 1024 * q
    BY <2>1 DEF Nth, MAX_LISTNODE
  <2>4. Round_up(n) = Nth[q + 120] /\ Nth[q + 120] >= n
    BY <2>1, <2>2, <2>3
  <2> QED  BY ONLY <2>3, <2>4
<1>5. CASE n > 65536
  <2> DEFINE q == (n + 8191) \div 8192
  <2>1. q \in 9 .. 31 /\ 8192 * q >= n
    BY <1>0, <1>5
  <2>2. Round_up(n) = q * 8192
    BY <1>0, <1>5, RoundUpByGroup
  <2> HIDE DEF q
  <2>3. q + 176 \in 1 .. MAX_LISTNODE - 1 /\ Nth[q + 176] = 8192 * q
    BY <2>1 DEF Nth, MAX_LISTNODE
  <2>4. Round_up(n) = Nth[q + 176] /\ Nth[q + 176] >= n
    BY <2>1, <2>2, <2>3
  <2> QED  BY ONLY <2>3, <2>4
<1>6. \/ n <= 128
      \/ n > 128 /\ n <= 1024
      \/ n > 1024 /\ n <= 8192
      \/ n > 8192 /\ n <= 65536
      \/ n > 65536
  BY <1>0
<1> QED  BY ONLY <1>1, <1>2, <1>3, <1>4, <1>5, <1>6

\* An entry is its own rounding, and Index gives its place in the list.
LEMMA EntryIsFixed ==
  ASSUME NEW k \in 1 .. MAX_LISTNODE - 1
  PROVE  /\ Nth[k] \in 1 .. LargestServed
         /\ Round_up(Nth[k]) = Nth[k]
         /\ Index(Nth[k]) = k - 1
PROOF
<1>0. k \in 1 .. 207 /\ k \in 1 .. MAX_LISTNODE
  BY DEF MAX_LISTNODE
<1>1. CASE k <= 16
  <2> DEFINE j == k - 0
             v == 8 * j
  <2>1. j \in 1 .. 16 /\ Nth[k] = v /\ k = j + 0
    BY <1>0, <1>1 DEF Nth
  <2> HIDE DEF j
  <2>2. v \in Nat /\ v > 0 /\ v <= 128
    BY <2>1
  <2>3. (v + 7) \div 8 = j /\ (v - 0) \div 8 = j
    BY <2>1
  <2>4. ((v + 7) \div 8) * 8 = v
    BY <2>1, <2>3
  <2> HIDE DEF v
  <2>5. Round_up(v) = v /\ Index(v) = k - 1
    BY <2>1, <2>2, <2>3, <2>4, RoundUpByGroup, IndexByGroup
  <2>6. v \in 1 .. LargestServed
    BY <2>2, ServedBound
  <2> QED  BY <2>1, <2>5, <2>6
<1>2. CASE k > 16 /\ k <= 72
  <2> DEFINE j == k - 16
             v == 128 + 16 * j
  <2>1. j \in 1 .. 56 /\ Nth[k] = v /\ k = j + 16
    BY <1>0, <1>2 DEF Nth
  <2> HIDE DEF j
  <2>2. v \in Nat /\ v > 128 /\ v <= 1024
    BY <2>1
  <2>3. (v + 15) \div 16 = 8 + j /\ (v - 128) \div 16 = j
    BY <2>1
  <2>4. ((v + 15) \div 16) * 16 = v
    BY <2>1, <2>3
  <2> HIDE DEF v
  <2>5. Round_up(v) = v /\ Index(v) = k - 1
    BY <2>1, <2>2, <2>3, <2>4, RoundUpByGroup, IndexByGroup
  <2>6. v \in 1 .. LargestServed
    BY <2>2, ServedBound
  <2> QED  BY <2>1, <2>5, <2>6
<1>3. CASE k > 72 /\ k <= 128
  <2> DEFINE j == k - 72
             v == 1024 + 128 * j
  <2>1. j \in 1 .. 56 /\ Nth[k] = v /\ k = j + 72
    BY <1>0, <1>3 DEF Nth
  <2> HIDE DEF j
  <2>2. v \in Nat /\ v > 1024 /\ v <= 8192
    BY <2>1
  <2>3. (v + 127) \div 128 = 8 + j /\ (v - 1024) \div 128 = j
    BY <2>1
  <2>4. ((v + 127) \div 128) * 128 = v
    BY <2>1, <2>3
  <2> HIDE DEF v
  <2>5. Round_up(v) = v /\ Index(v) = k - 1
    BY <2>1, <2>2, <2>3, <2>4, RoundUpByGroup, IndexByGroup
  <2>6. v \in 1 .. LargestServed
    BY <2>2, ServedBound
  <2> QED  BY <2>1, <2>5, <2>6
<1>4. CASE k > 128 /\ k <= 184
  <2> DEFINE j == k - 128
             v == 8192 + 1024 * j
  <2>1. j \in 1 .. 56 /\ Nth[k] = v /\ k = j + 128
    BY <1>0, <1>4 DEF Nth
  <2> HIDE DEF j
  <2>2. v \in Nat /\ v > 8192 /\ v <= 65536
    BY <2>1
  <2>3. (v + 1023) \div 1024 = 8 + j /\ (v - 8192) \div 1024 = j
    BY <2>1
  <2>4. ((v + 1023) \div 1024) * 1024 = v
    BY <2>1, <2>3
  <2> HIDE DEF v
  <2>5. Round_up(v) = v /\ Index(v) = k - 1
    BY <2>1, <2>2, <2>3, <2>4, RoundUpByGroup, IndexByGroup
  <2>6. v \in 1 .. LargestServed
    BY <2>2, ServedBound
  <2> QED  BY <2>1, <2>5, <2>6
<1>5. CASE k > 184
  <2> DEFINE j == k - 184
             v == 65536 + 8192 * j
  <2>1. j \in 1 .. 23 /\ Nth[k] = v /\ k = j + 184
    BY <1>0, <1>5 DEF Nth
  <2> HIDE DEF j
  <2>2. v \in Nat /\ v > 65536 /\ v <= 253952
    BY <2>1
  <2>3. (v + 8191) \div 8192 = 8 + j /\ (v - 65536) \div 8192 = j
    BY <2>1
  <2>4. ((v + 8191) \div 8192) * 8192 = v
    BY <2>1, <2>3
  <2> HIDE DEF v
  <2>5. Round_up(v) = v /\ Index(v) = k - 1
    BY <2>1, <2>2, <2>3, <2>4, RoundUpByGroup, IndexByGroup
  <2>6. v \in 1 .. LargestServed
    BY <2>2, ServedBound
  <2> QED  BY <2>1, <2>5, <2>6
<1>6. \/ k <= 16
      \/ k > 16 /\ k <= 72
      \/ k > 72 /\ k <= 128
      \/ k > 128 /\ k <= 184
      \/ k > 184
  BY <1>0
<1> QED  BY ONLY <1>1, <1>2, <1>3, <1>4, <1>5, <1>6

\* Padding is bounded for every size, served or not.
LEMMA PaddingBounded ==
  ASSUME NEW n \in Nat
  PROVE  WasteBounded(n)
PROOF
<1> SUFFICES ASSUME n > 128
             PROVE  9 * (Round_up(n) - n) <= Round_up(n)
  BY DEF WasteBounded
<1>1. CASE n <= 1024
  <2>1. ((n + 15) \div 16) * 16 <= n + 15 /\ (n + 15) \div 16 >= 9
    BY <1>1
  <2> QED  BY <1>1, <2>1, RoundUpByGroup
<1>2. CASE n > 1024 /\ n <= 8192
  <2>1. ((n + 127) \div 128) * 128 <= n + 127 /\ (n + 127) \div 128 >= 9
    BY <1>2
  <2> QED  BY <1>2, <2>1, RoundUpByGroup
<1>3. CASE n > 8192 /\ n <= 65536
  <2>1. ((n + 1023) \div 1024) * 1024 <= n + 1023 /\ (n + 1023) \div 1024 >= 9
    BY <1>3
  <2> QED  BY <1>3, <2>1, RoundUpByGroup
<1>4. CASE n > 65536
  <2>1. ((n + 8191) \div 8192) * 8192 <= n + 8191 /\ (n + 8191) \div 8192 >= 9
    BY <1>4
  <2> QED  BY <1>4, <2>1, RoundUpByGroup
<1>5. \/ n <= 1024
      \/ n > 1024 /\ n <= 8192
      \/ n > 8192 /\ n <= 65536
      \/ n > 65536
  OBVIOUS
<1> QED  BY ONLY <1>1, <1>2, <1>3, <1>4, <1>5

-----------------------------------------------------------------------------
\* A fetch is of at least two blocks and, but for the two blocks of a size above
\* half of MAX_BYTES, of no more than MAX_BYTES.
LEMMA FetchBounded ==
  ASSUME NEW a \in Nat, a >= 1, a <= 253952
  PROVE  /\ NumMoveSize(a) \in Nat
         /\ NumMoveSize(a) >= 2
         /\ NumMoveSize(a) * a <= 507904
PROOF
<1> DEFINE num == 262144 \div a
<1>1. num \in Nat /\ num * a <= 262144
  OBVIOUS
<1>2. NumMoveSize(a) = IF num > 512 THEN 512 ELSE IF num < 2 THEN 2 ELSE num
  BY SMT DEF NumMoveSize, MAX_BYTES
<1> HIDE DEF num
<1>3. CASE num > 512
  <2>1. 512 * a <= num * a
    BY <1>1, <1>3
  <2> QED  BY <1>1, <1>2, <1>3, <2>1
<1>4. CASE num < 2
  <2>1. NumMoveSize(a) = 2
    BY ONLY <1>1, <1>2, <1>4
  <2>2. 2 \in Nat /\ 2 >= 2 /\ 2 * a <= 507904
    OBVIOUS
  <2> QED  BY ONLY <2>1, <2>2
<1>5. CASE num >= 2 /\ num <= 512
  BY <1>1, <1>2, <1>5
<1> QED  BY ONLY <1>1, <1>3, <1>4, <1>5

\* The span asked for is one the page cache serves from its buckets, and it
\* holds a block.
LEMMA SpanHoldsBlock ==
  ASSUME NEW a \in Nat, a >= 1, a <= 253952
  PROVE  NumMovePages(a) \in 1 .. NPAGES - 1 /\ SpanBytes(a) >= a
PROOF
<1> DEFINE bytes == NumMoveSize(a) * a
<1>1. bytes \in Nat /\ bytes <= 507904 /\ bytes >= 2 * a
  <2>1. ASSUME NEW m \in Nat, m >= 2
        PROVE  m * a \in Nat /\ m * a >= 2 * a
    BY <2>1
  <2> QED  BY <2>1, FetchBounded
<1>2. NumMovePages(a) = IF bytes \div 8192 = 0 THEN 1 ELSE bytes \div 8192
  BY SMT DEF NumMovePages, PAGE_SIZE
<1>3. SpanBytes(a) = NumMovePages(a) * 8192
  BY SMT DEF SpanBytes, PAGE_SIZE
<1> HIDE DEF bytes
<1>4. NumMovePages(a) \in 1 .. 128
  BY <1>1, <1>2
<1>5. NumMovePages(a) * 8192 >= a
  <2>1. CASE a <= 8192
    BY <1>4, <2>1
  <2>2. CASE a > 8192
    <3>1. bytes \div 8192 >= 1 /\ (bytes \div 8192) * 8192 > bytes - 8192
      BY <1>1, <2>2
    <3> QED  BY <1>1, <1>2, <2>2, <3>1
  <2> QED  BY <2>1, <2>2
<1> QED  BY <1>3, <1>4, <1>5 DEF NPAGES

\* Both halves of the promise, for each served size.
LEMMA EverySizeServed ==
  ASSUME NEW n \in 1 .. LargestServed
  PROVE  FreedIntoItsOwnBucket(n) /\ SpanServesClass(n)
PROOF
<1>1. PICK k \in 1 .. MAX_LISTNODE - 1 : Round_up(n) = Nth[k] /\ Nth[k] >= n
  BY RoundsToEntry
<1> DEFINE a == Nth[k]
<1>2. k \in 1 .. MAX_LISTNODE
  BY DEF MAX_LISTNODE
<1>3. a \in ClassSizes
  BY <1>2, NthListsClasses
<1>4. a \in 1 .. LargestServed /\ Round_up(a) = a /\ Index(a) = k - 1
  BY EntryIsFixed
<1>5. Cardinality({c \in ClassSizes : c < a}) = k - 1
  BY <1>2, RankIsPlace
<1>6. a \in Nat /\ a >= 1 /\ a <= 253952
  BY <1>4, ServedBound
<1>7. IndexAsserts(a)
  BY <1>6, SMT DEF IndexAsserts, MAX_BYTES
<1>8. NumMovePages(a) \in 1 .. NPAGES - 1 /\ SpanBytes(a) >= a
  BY <1>6, SpanHoldsBlock
<1>9. Round_up(n) = a /\ a >= n
  BY <1>1
<1> HIDE DEF a
<1>10. FreedIntoItsOwnBucket(n)
  BY ONLY <1>3, <1>4, <1>5, <1>7, <1>9 DEF FreedIntoItsOwnBucket
<1>11. SpanServesClass(n)
  BY ONLY <1>8, <1>9 DEF SpanServesClass
<1> QED  BY <1>10, <1>11

-----------------------------------------------------------------------------
\* Where the walk may be.
Between == size \in Nat /\ MinSize <= size /\ size <= MaxSize

\* The walk stays between its bounds: a strip that starts below MaxSize ends there.
LEMMA WalkStays == Spec => []Between
PROOF
<1>1. Init => Between
  <2> SUFFICES ASSUME Init
               PROVE  Between
    OBVIOUS
  <2>1. PICK k \in 0 .. (MaxSize - MinSize) \div Strip : size = MinSize + k * Strip
    BY DEF Init
  <2>2. MinSize \in Nat /\ MaxSize \in Nat /\ Strip \in Nat /\ Strip >= 1
    BY WalkAssumption
  <2>3. k \in Nat /\ k * Strip \in Nat
    BY <2>2
  <2>4. k * Strip <= MaxSize - MinSize
    <3> DEFINE q == (MaxSize - MinSize) \div Strip
    <3>1. q \in Int /\ q * Strip <= MaxSize - MinSize
      BY <2>2
    <3>2. k <= q
      BY <3>1
    <3> HIDE DEF q
    <3>3. k * Strip <= q * Strip
      BY <2>2, <2>3, <3>1, <3>2
    <3> QED  BY <2>2, <2>3, <3>1, <3>3
  <2> QED  BY <2>1, <2>2, <2>3, <2>4 DEF Between
<1>2. Between /\ [Next]_size => Between'
  BY WalkAssumption DEF Between, Next, NextSize
<1> QED  BY <1>1, <1>2, PTL DEF Spec

\* Every size from 1 byte to 248 KiB, however it is walked over, is served: the
\* block it gets is freed into the list it came from (Round_up and Index of
\* ClassSize, Common.hpp), and the span its list asks for comes from a bucket of
\* the page cache and holds a block.
THEOREM SizesServed ==
  ASSUME MinSize >= 1, MaxSize <= LargestServed
  PROVE  Spec => []SizeServed
PROOF
<1>1. Between => SizeServed
  <2> SUFFICES ASSUME Between
               PROVE  SizeServed
    OBVIOUS
  <2>1. size \in 1 .. LargestServed
    BY WalkAssumption, ServedBound DEF Between
  <2> QED  BY <2>1, EverySizeServed DEF SizeServed
<1> QED  BY <1>1, WalkStays, PTL

\* The padding promised by the comment on the table, for every size at all.
THEOREM WasteWithinTenth == Spec => []Waste
PROOF
<1>1. Between => Waste
  BY PaddingBounded DEF Between, Waste
<1> QED  BY <1>1, WalkStays, PTL
=============================================================================
