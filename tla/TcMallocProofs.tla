-------------------------- MODULE TcMallocProofs --------------------------
(***************************************************************************)
(* Proofs about TcMalloc for any number of threads, any sizes, whether they   *)
(* divide their spans or not, and a heap of any length.                      *)
(***************************************************************************)
EXTENDS TcMalloc, FiniteSetTheorems, TLAPS

-----------------------------------------------------------------------------
(* The inductive invariant                                                   *)

\* The blocks of the spans linked in the bucket of size c.
Home(c) == UNION {Blocks(p, c) : p \in _freelists[c]}

\* The runs handed out are runs of pages of the heap and do not overlap.
RunsApart ==
  /\ \A r \in used : Heap!PagesOf(r) \subseteq Pages
  /\ \A r, s \in used : r # s => ~ Heap!Overlap(r, s)

\* A linked span is a run handed out, of the length and the size of its bucket.
LinkedOK ==
  \A c \in Sizes : \A p \in _freelists[c] :
    /\ [id |-> p, n |-> NumMovePages[c]] \in used
    /\ _objSize[p] = c

Linked(p) == \E c \in Sizes : p \in _freelists[c]

\* A span between NewSpan and its linking, and one between its unlinking and
\* ReleaseSpanToPageCache, is in the hands of one thread; the first is whole.
PrivateOK ==
  /\ \A t \in Threads : pc[t] = "link" =>
       /\ [id |-> arg[t].span, n |-> NumMovePages[arg[t].size]] \in used
       /\ ~ Linked(arg[t].span)
       /\ _objSize[arg[t].span] = arg[t].size
       /\ _freelist[arg[t].span] = Blocks(arg[t].span, arg[t].size)
  /\ \A t \in Threads : pc[t] = "relPage" =>
       /\ \E r \in used : r.id = arg[t].span
       /\ ~ Linked(arg[t].span)
  /\ \A t, u \in Threads :
       t # u /\ pc[t] \in {"link", "relPage"} /\ pc[u] \in {"link", "relPage"}
         => arg[t].span # arg[u].span

\* A span that is in no bucket has no block out.
UnlinkedUnused == \A p \in Pages : ~ Linked(p) => _useCount[p] = 0

\* What a thread has in hand fits where it is in its call: nothing, one block
\* and its span, or a list of blocks of linked spans of one size.
InHand(t) ==
  /\ pc[t] \in {"idle", "fetch", "grow", "link"} => arg[t].blocks = {}
  /\ pc[t] = "free" => \E c \in Sizes : \E b \in Blocks(arg[t].span, c) :
                         arg[t].span \in _freelists[c] /\ arg[t].blocks = {b}
  /\ pc[t] \in {"relLock", "relLoop", "relPage"} =>
       arg[t].size \in Sizes /\ arg[t].blocks \subseteq Home(arg[t].size)

\* Every block that is out belongs to a linked span, of the size of the list it
\* is in.
AtHome ==
  /\ \A t \in Threads, c \in Sizes : cache[t][c] \subseteq Home(c)
  /\ \A b \in live : \E c \in Sizes : b \in Home(c)
  /\ \A t \in Threads : InHand(t)

\* A thread on its way to the central cache has an empty list, and asks for
\* fewer blocks than the list may hold next time.
Fetching(t) ==
  pc[t] \in {"fetch", "grow", "link"} =>
    /\ arg[t].size \in Sizes
    /\ cache[t][arg[t].size] = {}
    /\ arg[t].batch \in 1 .. NumMoveSize[arg[t].size]
    /\ arg[t].batch < _maxSize[t][arg[t].size]

FetchOK == \A t \in Threads : Fetching(t)

\* A bucket is locked across steps only by a thread in ReleaseBackSpan's loop.
HolderOK ==
  \A c \in Sizes, t \in Threads : holder[c] = t <=> pc[t] = "relLoop" /\ arg[t].size = c

IInv ==
  /\ TypeOK /\ RunsApart /\ LinkedOK /\ PrivateOK /\ UnlinkedUnused
  /\ AtHome /\ FetchOK /\ HolderOK
  /\ UseCountExact /\ OneHolder /\ CacheBounded

-----------------------------------------------------------------------------
(* Blocks and the spans they are cut from                                    *)

\* A block starts inside its span.
LEMMA BlockInSpan ==
  ASSUME NEW p \in Nat, NEW c \in Sizes, NEW b \in Blocks(p, c)
  PROVE  b \in p * PageBytes .. (p + NumMovePages[c]) * PageBytes - 1
<1> USE SizesAssumption
<1> DEFINE bytes == NumMovePages[c] * PageBytes
           q == (bytes + c - 1) \div c
<1>1. c \in Nat \ {0} /\ NumMovePages[c] \in Nat \ {0} /\ PageBytes \in Nat \ {0}
  OBVIOUS
<1>2. bytes \in Nat \ {0}
  BY <1>1
<1>3. PICK i \in 0 .. q - 1 : b = p * PageBytes + i * c
  BY DEF Blocks
<1>4. i * c \in 0 .. bytes - 1
  <2> HIDE DEF bytes
  <2>1. q \in Nat /\ q * c <= bytes + c - 1
    BY <1>1, <1>2
  <2> HIDE DEF q
  <2>2. i \in Nat /\ i <= q - 1
    BY <1>3, <2>1
  <2>3. i * c \in Nat /\ i * c <= (q - 1) * c
    BY <2>1, <2>2, <1>1
  <2>4. (q - 1) * c = q * c - c
    BY <2>1, <1>1
  <2>5. q * c \in Int
    BY <2>1, <1>1
  <2> QED BY <2>1, <2>3, <2>4, <2>5, <1>1, <1>2
<1>5. (p + NumMovePages[c]) * PageBytes = p * PageBytes + bytes /\ p * PageBytes \in Nat
  BY <1>1
<1> HIDE DEF bytes, q
<1> QED BY <1>2, <1>3, <1>4, <1>5

\* So its page is one of the span's.
LEMMA BlockPage ==
  ASSUME NEW p \in Nat, NEW c \in Sizes, NEW b \in Blocks(p, c)
  PROVE  b \in Nat /\ b \div PageBytes \in p .. p + NumMovePages[c] - 1
<1> USE SizesAssumption
<1>1. NumMovePages[c] \in Nat \ {0} /\ PageBytes \in Nat \ {0}
  OBVIOUS
<1> DEFINE e == p + NumMovePages[c]
<1>2. b \in p * PageBytes .. e * PageBytes - 1 /\ e \in Nat
  BY <1>1, BlockInSpan
<1> HIDE DEF e
<1>3. p * PageBytes \in Nat /\ e * PageBytes \in Nat
  BY <1>1, <1>2
<1>4. b \in Nat /\ p * PageBytes <= b /\ b < e * PageBytes
  BY <1>2, <1>3
<1> DEFINE k == b \div PageBytes
<1>5. k \in Nat /\ k * PageBytes <= b /\ b < (k + 1) * PageBytes
  BY <1>1, <1>4
<1> HIDE DEF k
<1>6. p < k + 1
  <2>1. p * PageBytes < (k + 1) * PageBytes
    BY <1>3, <1>4, <1>5, <1>1
  <2> QED BY <2>1, <1>5, <1>1
<1>7. k < e
  <2>1. k * PageBytes < e * PageBytes
    BY <1>3, <1>4, <1>5, <1>1
  <2> QED BY <2>1, <1>5, <1>1, <1>2
<1> QED BY <1>4, <1>5, <1>6, <1>7, <1>2, <1>1 DEF e, k

\* A span has finitely many blocks, and they are addresses of the heap when its
\* pages are pages of the heap.
LEMMA BlocksFinite ==
  ASSUME NEW p \in Nat, NEW c \in Sizes
  PROVE  IsFiniteSet(Blocks(p, c))
<1> USE SizesAssumption
<1> DEFINE lo == p * PageBytes
           hi == (p + NumMovePages[c]) * PageBytes - 1
<1>1. NumMovePages[c] \in Nat /\ PageBytes \in Nat
  OBVIOUS
<1>2. lo \in Int /\ hi \in Int
  BY <1>1
<1>3. Blocks(p, c) \subseteq lo .. hi
  BY BlockInSpan
<1> HIDE DEF lo, hi
<1> QED BY <1>2, <1>3, FS_Interval, FS_Subset

\* Blocks of a span are addresses of the heap.
LEMMA BlocksAreAddresses ==
  ASSUME NEW p \in Nat, NEW c \in Sizes, p .. p + NumMovePages[c] - 1 \subseteq Pages
  PROVE  Blocks(p, c) \subseteq Addresses
<1> USE SizesAssumption
<1> DEFINE e == p + NumMovePages[c]
<1>1. NumMovePages[c] \in Nat \ {0} /\ PageBytes \in Nat \ {0} /\ HeapPages \in Nat
  OBVIOUS
<1>2. e \in Nat /\ e <= HeapPages
  <2>1. e - 1 \in Pages
    BY <1>1
  <2> QED BY <2>1, <1>1 DEF Pages
<1>3. e * PageBytes <= HeapPages * PageBytes
  BY <1>1, <1>2
<1>4. p * PageBytes \in Nat /\ e * PageBytes \in Nat /\ HeapPages * PageBytes \in Nat
  BY <1>1, <1>2
<1>5. \A b \in Blocks(p, c) : b \in p * PageBytes .. e * PageBytes - 1
  BY BlockInSpan
<1> HIDE DEF e
<1> QED BY <1>3, <1>4, <1>5 DEF Addresses

\* Runs handed out that share a page are the same run.
LEMMA SameRun ==
  ASSUME TypeOK, RunsApart, NEW r \in used, NEW s \in used, NEW k,
         k \in Heap!PagesOf(r), k \in Heap!PagesOf(s)
  PROVE  r = s
<1>1. /\ r.id \in Nat /\ s.id \in Nat /\ r.n \in Nat /\ s.n \in Nat
  <2>1. r \in Heap!Runs /\ s \in Heap!Runs
    BY DEF TypeOK
  <2>2. \A c \in Sizes : NumMovePages[c] \in Nat
    BY SizesAssumption
  <2>3. Pages \subseteq Nat
    BY SizesAssumption DEF Pages
  <2> QED BY <2>1, <2>2, <2>3 DEF Heap!Runs
<1>2. k \in r.id .. r.id + r.n - 1 /\ k \in s.id .. s.id + s.n - 1
  BY DEF Heap!PagesOf
<1>3. Heap!Overlap(r, s)
  BY <1>1, <1>2 DEF Heap!Overlap
<1> QED BY <1>3 DEF RunsApart

\* A run with the length of a size's spans, and the blocks it is cut into.
SpanRun(p, c) == [id |-> p, n |-> NumMovePages[c]]

\* MapToSpan finds the span a block was cut from while its run is handed out.
LEMMA MapFinds ==
  ASSUME TypeOK, RunsApart, NEW p, NEW c \in Sizes, SpanRun(p, c) \in used, NEW b \in Blocks(p, c)
  PROVE  /\ p \in Pages /\ p \in Nat
         /\ b \div PageBytes \in Heap!PagesOf(SpanRun(p, c))
         /\ MapToSpan(b) = p
<1> DEFINE r == SpanRun(p, c)
           k == b \div PageBytes
<1>1. p \in Pages /\ p \in Nat
  <2>1. r \in Heap!Runs
    BY DEF TypeOK
  <2>2. r.id \in Pages /\ r.id = p
    BY <2>1 DEF Heap!Runs, SpanRun
  <2> QED BY <2>2, SizesAssumption DEF Pages
<1>2. k \in Heap!PagesOf(r)
  BY <1>1, BlockPage DEF Heap!PagesOf, SpanRun
<1>3. \A s \in used : k \in Heap!PagesOf(s) => s = r
  BY <1>2, SameRun
<1>4. (CHOOSE s \in used : k \in Heap!PagesOf(s)) = r
  <2> HIDE DEF r, k
  <2> QED BY <1>2, <1>3 DEF r
<1>5. MapToSpan(b) = r.id
  BY <1>4 DEF MapToSpan
<1> QED BY <1>1, <1>2, <1>5 DEF SpanRun

\* Blocks of different spans are different.
LEMMA BlocksApart ==
  ASSUME TypeOK, RunsApart, NEW p, NEW c \in Sizes, SpanRun(p, c) \in used,
         NEW q, NEW d \in Sizes, SpanRun(q, d) \in used, p # q
  PROVE  Blocks(p, c) \cap Blocks(q, d) = {}
  BY MapFinds

\* What the invariant says of a linked span.
LEMMA LinkedSpan ==
  ASSUME TypeOK, RunsApart, LinkedOK, NEW c \in Sizes, NEW p \in _freelists[c]
  PROVE  /\ SpanRun(p, c) \in used /\ p \in Pages /\ p \in Nat
         /\ _objSize[p] = c
         /\ \A d \in Sizes : p \in _freelists[d] => d = c
         /\ \A b \in Blocks(p, c) : MapToSpan(b) = p
         /\ IsFiniteSet(Blocks(p, c))
<1>1. SpanRun(p, c) \in used
  BY DEF LinkedOK, SpanRun
<1>2. p \in Pages /\ p \in Nat
  BY SizesAssumption DEF TypeOK, Pages
<1>3. _objSize[p] = c /\ \A d \in Sizes : p \in _freelists[d] => d = c
  BY DEF LinkedOK
<1>4. \A b \in Blocks(p, c) : MapToSpan(b) = p
  BY <1>1, MapFinds
<1> QED BY <1>1, <1>2, <1>3, <1>4, BlocksFinite

\* Two linked spans that share a block are one.
LEMMA HomeIsOne ==
  ASSUME TypeOK, RunsApart, LinkedOK, NEW c \in Sizes, NEW p \in _freelists[c],
         NEW d \in Sizes, NEW q \in _freelists[d], NEW b, b \in Blocks(p, c), b \in Blocks(q, d)
  PROVE  p = q /\ c = d
<1>1. p = q
  BY LinkedSpan
<1> QED BY <1>1, LinkedSpan

\* The members of Out, one by one.
OutIs ==
  \A b : b \in Out <=> \/ b \in live
                       \/ \E t \in Threads, c \in Sizes : b \in cache[t][c]
                       \/ \E t \in Threads : b \in arg[t].blocks

\* Out is the set of the blocks that are out.
LEMMA OutMembers == OutIs
<1> USE DEF OutIs
<1> DEFINE C == {cache[t][c] : t \in Threads, c \in Sizes}
           A == {arg[t].blocks : t \in Threads}
<1>1. ASSUME NEW b
      PROVE  b \in UNION C <=> \E t \in Threads, c \in Sizes : b \in cache[t][c]
  <2>1. ASSUME b \in UNION C PROVE \E t \in Threads, c \in Sizes : b \in cache[t][c]
    BY <2>1
  <2>2. ASSUME NEW t \in Threads, NEW c \in Sizes, b \in cache[t][c] PROVE b \in UNION C
    BY <2>2
  <2> QED BY <2>1, <2>2
<1>2. ASSUME NEW b
      PROVE  b \in UNION A <=> \E t \in Threads : b \in arg[t].blocks
  OBVIOUS
<1>3. \A b : b \in Out <=> b \in live \/ b \in UNION C \/ b \in UNION A
  BY DEF Out
<1> HIDE DEF C, A
<1> QED BY <1>1, <1>2, <1>3

\* Every block that is out belongs to a linked span.
LEMMA OutIsHome ==
  ASSUME AtHome, TypeOK, RunsApart, LinkedOK, NEW b \in Out
  PROVE  \E c \in Sizes : \E p \in _freelists[c] : b \in Blocks(p, c)
<1>1. CASE b \in live
  BY <1>1 DEF AtHome, Home
<1>2. ASSUME NEW t \in Threads, NEW c \in Sizes, b \in cache[t][c]
      PROVE  \E d \in Sizes : \E p \in _freelists[d] : b \in Blocks(p, d)
  BY <1>2 DEF AtHome, Home
<1>3. ASSUME NEW t \in Threads, b \in arg[t].blocks
      PROVE  \E d \in Sizes : \E p \in _freelists[d] : b \in Blocks(p, d)
  <2>1. pc[t] \in Labels
    BY DEF TypeOK
  <2>2. CASE pc[t] \in {"idle", "fetch", "grow", "link"}
    BY <1>3, <2>2 DEF AtHome, InHand
  <2>3. CASE pc[t] = "free"
    BY <1>3, <2>3 DEF AtHome, InHand
  <2>4. CASE pc[t] \in {"relLock", "relLoop", "relPage"}
    BY <1>3, <2>4 DEF AtHome, InHand, Home
  <2> QED BY <2>1, <2>2, <2>3, <2>4 DEF Labels
<1> QED BY <1>1, <1>2, <1>3, OutMembers DEF OutIs

-----------------------------------------------------------------------------
(* What a step moves                                                         *)

\* A step of thread t that concerns its list of size c, what it has in hand and
\* what the program holds keeps every block in one place, provided the three are
\* disjoint afterwards and hold nothing that was out elsewhere.
LEMMA HoldersMove ==
  ASSUME OneHolder, NEW t \in Threads, NEW c \in Sizes,
         \A u \in Threads, d \in Sizes : <<u, d>> # <<t, c>> => cache'[u][d] = cache[u][d],
         \A u \in Threads : u # t => arg'[u].blocks = arg[u].blocks,
         \A b : b \in cache'[t][c] \/ b \in arg'[t].blocks \/ b \in live' =>
                b \in cache[t][c] \/ b \in arg[t].blocks \/ b \in live \/ b \notin Out,
         cache'[t][c] \cap arg'[t].blocks = {}, cache'[t][c] \cap live' = {},
         arg'[t].blocks \cap live' = {}
  PROVE  /\ OneHolder'
         /\ \A b : b \in Out' <=>
              \/ b \in cache'[t][c] \/ b \in arg'[t].blocks \/ b \in live'
              \/ b \in Out /\ b \notin cache[t][c] /\ b \notin arg[t].blocks /\ b \notin live
<1> DEFINE Mine(b) == b \in cache[t][c] \/ b \in arg[t].blocks \/ b \in live
           New(b)  == b \in cache'[t][c] \/ b \in arg'[t].blocks \/ b \in live'
<1>1. \A b : New(b) => Mine(b) \/ b \notin Out
  OBVIOUS
<1>2. \A u \in Threads, d \in Sizes : <<u, d>> # <<t, c>> =>
        \A b \in cache[u][d] : b \in Out /\ ~ Mine(b)
  BY OutMembers DEF OneHolder, OutIs
<1>3. \A u \in Threads : u # t => \A b \in arg[u].blocks : b \in Out /\ ~ Mine(b)
  BY OutMembers DEF OneHolder, OutIs
<1>4. /\ \A u \in Threads, d \in Sizes : <<u, d>> # <<t, c>> =>
           \A b \in cache'[u][d] : ~ New(b) /\ b \in cache[u][d]
      /\ \A u \in Threads : u # t => \A b \in arg'[u].blocks : ~ New(b) /\ b \in arg[u].blocks
  BY <1>1, <1>2, <1>3
<1>5. OneHolder'
  <2>1. \A u \in Threads, d \in Sizes : cache'[u][d] \cap live' = {}
    BY <1>4
  <2>2. \A u \in Threads : arg'[u].blocks \cap live' = {}
    BY <1>4
  <2>3. \A u, v \in Threads, d \in Sizes : cache'[u][d] \cap arg'[v].blocks = {}
    <3> SUFFICES ASSUME NEW u \in Threads, NEW v \in Threads, NEW d \in Sizes,
                        NEW b \in cache'[u][d], b \in arg'[v].blocks
                 PROVE  FALSE
      OBVIOUS
    <3>1. CASE <<u, d>> = <<t, c>> /\ v = t
      BY <3>1
    <3>2. CASE <<u, d>> = <<t, c>> /\ v # t
      BY <3>2, <1>4
    <3>3. CASE <<u, d>> # <<t, c>> /\ v = t
      BY <3>3, <1>4
    <3>4. CASE <<u, d>> # <<t, c>> /\ v # t
      BY <3>4, <1>4 DEF OneHolder
    <3> QED BY <3>1, <3>2, <3>3, <3>4
  <2>4. \A u, v \in Threads, d, e \in Sizes :
          <<u, d>> # <<v, e>> => cache'[u][d] \cap cache'[v][e] = {}
    <3> SUFFICES ASSUME NEW u \in Threads, NEW v \in Threads, NEW d \in Sizes, NEW e \in Sizes,
                        <<u, d>> # <<v, e>>, NEW b \in cache'[u][d], b \in cache'[v][e]
                 PROVE  FALSE
      OBVIOUS
    <3>1. CASE <<u, d>> = <<t, c>>
      BY <3>1, <1>4
    <3>2. CASE <<v, e>> = <<t, c>>
      BY <3>2, <1>4
    <3>3. CASE <<u, d>> # <<t, c>> /\ <<v, e>> # <<t, c>>
      BY <3>3, <1>4 DEF OneHolder
    <3> QED BY <3>1, <3>2, <3>3
  <2>5. \A u, v \in Threads : u # v => arg'[u].blocks \cap arg'[v].blocks = {}
    <3> SUFFICES ASSUME NEW u \in Threads, NEW v \in Threads, u # v,
                        NEW b \in arg'[u].blocks, b \in arg'[v].blocks
                 PROVE  FALSE
      OBVIOUS
    <3>1. CASE u = t
      BY <3>1, <1>4
    <3>2. CASE v = t
      BY <3>2, <1>4
    <3>3. CASE u # t /\ v # t
      BY <3>3, <1>4 DEF OneHolder
    <3> QED BY <3>1, <3>2, <3>3
  <2> QED BY <2>1, <2>2, <2>3, <2>4, <2>5 DEF OneHolder
<1>6. \A b : b \in Out' <=> New(b) \/ (b \in Out /\ ~ Mine(b))
  <2>1. \A b : b \in Out' <=> \/ b \in live'
                              \/ \E u \in Threads, d \in Sizes : b \in cache'[u][d]
                              \/ \E u \in Threads : b \in arg'[u].blocks
    <3>1. OutIs'
      BY OutMembers, PTL
    <3> QED BY <3>1 DEF OutIs
  <2>2. ASSUME NEW b, b \in Out' PROVE New(b) \/ (b \in Out /\ ~ Mine(b))
    BY <2>1, <2>2, <1>2, <1>3, <1>4
  <2>3. ASSUME NEW b, New(b) PROVE b \in Out'
    BY <2>1, <2>3
  <2>4. ASSUME NEW b, b \in Out, ~ Mine(b) PROVE b \in Out'
    <3>1. \/ \E u \in Threads, d \in Sizes : b \in cache[u][d] /\ <<u, d>> # <<t, c>>
          \/ \E u \in Threads : b \in arg[u].blocks /\ u # t
      BY <2>4, OutMembers DEF OutIs
    <3> QED BY <3>1, <2>1
  <2> QED BY <2>2, <2>3, <2>4
<1> QED BY <1>5, <1>6

\* The lists of the threads are finite.
LEMMA ListsFinite ==
  ASSUME TypeOK
  PROVE  /\ \A t \in Threads, c \in Sizes : IsFiniteSet(cache[t][c])
         /\ \A t \in Threads : IsFiniteSet(arg[t].blocks)
<1>1. HeapPages * PageBytes - 1 \in Int
  BY SizesAssumption
<1>2. IsFiniteSet(Addresses)
  BY <1>1, FS_Interval DEF Addresses
<1>3. /\ \A t \in Threads, c \in Sizes : cache[t][c] \subseteq Addresses
      /\ \A t \in Threads : arg[t].blocks \subseteq Addresses
  BY DEF TypeOK
<1> QED BY <1>2, <1>3, FS_Subset

\* A list of a thread, its length or its limit is replaced.
LEMMA SetList ==
  ASSUME NEW S, NEW f \in [Threads -> [Sizes -> S]], NEW t \in Threads, NEW c \in Sizes, NEW x
  PROVE  LET g == [f EXCEPT ![t][c] = x]
         IN  /\ g[t][c] = x
             /\ \A u \in Threads, d \in Sizes : <<u, d>> # <<t, c>> => g[u][d] = f[u][d]
             /\ x \in S => g \in [Threads -> [Sizes -> S]]
  OBVIOUS

\* Without a change to the heap, the spans and the set of blocks that are out,
\* what the invariant says of spans stays true.
LEMMA SpansKept ==
  ASSUME RunsApart, LinkedOK, UnlinkedUnused, UseCountExact,
         UNCHANGED <<heapVars, spanVars>>, \A b : b \in Out' <=> b \in Out
  PROVE  /\ RunsApart' /\ LinkedOK' /\ UnlinkedUnused' /\ UseCountExact'
         /\ \A c : Home(c)' = Home(c)
         /\ \A p : Linked(p)' <=> Linked(p)
<1>1. UNCHANGED <<used, _objSize, _useCount, _freelist, _freelists>>
  BY DEF heapVars, spanVars
<1>2. RunsApart' /\ LinkedOK'
  BY <1>1 DEF RunsApart, LinkedOK
<1>3. \A p : Linked(p)' <=> Linked(p)
  BY <1>1 DEF Linked
<1>4. UnlinkedUnused'
  BY <1>1, <1>3 DEF UnlinkedUnused
<1>5. Out' = Out
  OBVIOUS
<1>6. UseCountExact'
  BY <1>1, <1>5 DEF UseCountExact
<1>7. \A c : Home(c)' = Home(c)
  BY <1>1 DEF Home
<1> QED BY <1>2, <1>3, <1>4, <1>6, <1>7

\* Where the threads are and what they have in hand; no span changes.
LEMMA PrivateKept ==
  ASSUME PrivateOK, UNCHANGED <<used, _objSize, _freelist, _freelists>>,
         \A t \in Threads : pc'[t] \in {"link", "relPage"} => pc'[t] = pc[t] /\ arg'[t] = arg[t]
  PROVE  PrivateOK'
<1>1. \A p : Linked(p)' <=> Linked(p)
  BY DEF Linked
<1> QED BY <1>1 DEF PrivateOK

\* Only one list changes, and its length and limit with it.
LEMMA BoundedKept ==
  ASSUME CacheBounded, NEW t \in Threads, NEW c \in Sizes,
         \A u \in Threads, d \in Sizes : <<u, d>> # <<t, c>> =>
           /\ cache'[u][d] = cache[u][d] /\ _size'[u][d] = _size[u][d]
           /\ _maxSize'[u][d] = _maxSize[u][d],
         _size'[t][c] = Cardinality(cache'[t][c]), _size'[t][c] < _maxSize'[t][c],
         _maxSize'[t][c] <= NumMoveSize[c] + 1
  PROVE  CacheBounded'
<1> SUFFICES ASSUME NEW u \in Threads, NEW d \in Sizes
             PROVE  /\ _size'[u][d] = Cardinality(cache'[u][d])
                    /\ _size'[u][d] < _maxSize'[u][d]
                    /\ _maxSize'[u][d] <= NumMoveSize[d] + 1
  BY DEF CacheBounded
<1>1. CASE u = t /\ d = c
  BY <1>1
<1>2. CASE ~ (u = t /\ d = c)
  BY <1>2 DEF CacheBounded
<1> QED BY <1>1, <1>2

\* Only one thread's hand and one of its lists change, and no span leaves its bucket.
LEMMA HomeKept ==
  ASSUME AtHome, NEW t \in Threads, NEW c \in Sizes,
         \A d \in Sizes : _freelists[d] \subseteq _freelists'[d],
         \A u \in Threads, d \in Sizes : <<u, d>> # <<t, c>> => cache'[u][d] = cache[u][d],
         \A u \in Threads : u # t => pc'[u] = pc[u] /\ arg'[u] = arg[u],
         cache'[t][c] \subseteq Home(c)', InHand(t)',
         \A b \in live' : b \in live \/ \E d \in Sizes : b \in Home(d)'
  PROVE  AtHome'
<1>1. \A d \in Sizes : Home(d) \subseteq Home(d)'
  BY DEF Home
<1>2. \A u \in Threads, d \in Sizes : cache'[u][d] \subseteq Home(d)'
  <2> SUFFICES ASSUME NEW u \in Threads, NEW d \in Sizes PROVE cache'[u][d] \subseteq Home(d)'
    OBVIOUS
  <2>1. CASE u = t /\ d = c
    BY <2>1
  <2>2. CASE ~ (u = t /\ d = c)
    BY <2>2, <1>1 DEF AtHome
  <2> QED BY <2>1, <2>2
<1>3. \A b \in live' : \E d \in Sizes : b \in Home(d)'
  BY <1>1 DEF AtHome
<1>4. \A u \in Threads : InHand(u)'
  <2> SUFFICES ASSUME NEW u \in Threads, u # t PROVE InHand(u)'
    OBVIOUS
  <2>1. InHand(u) /\ pc'[u] = pc[u] /\ arg'[u] = arg[u]
    BY DEF AtHome
  <2> QED BY <2>1, <1>1 DEF InHand
<1> QED BY <1>2, <1>3, <1>4 DEF AtHome

\* Only one thread's call and its lists change.
LEMMA FetchKept ==
  ASSUME FetchOK, NEW t \in Threads, Fetching(t)',
         \A u \in Threads, d \in Sizes : u # t =>
           cache'[u][d] = cache[u][d] /\ _maxSize'[u][d] = _maxSize[u][d],
         \A u \in Threads : u # t => pc'[u] = pc[u] /\ arg'[u] = arg[u]
  PROVE  FetchOK'
<1> SUFFICES ASSUME NEW u \in Threads, u # t PROVE Fetching(u)'
  BY DEF FetchOK
<1> QED BY DEF FetchOK, Fetching

\* Only one thread moves, and it neither holds a bucket's lock nor takes one.
LEMMA HolderKept ==
  ASSUME HolderOK, NEW t \in Threads, holder' = holder,
         pc[t] # "relLoop", pc'[t] # "relLoop",
         \A u \in Threads : u # t => pc'[u] = pc[u] /\ arg'[u] = arg[u]
  PROVE  HolderOK'
  BY DEF HolderOK

\* A thread goes on to a label with what it has in hand there.
ArgType == [size : Sizes \cup {0}, batch : Nat, span : Pages, blocks : SUBSET Addresses]

\* A thread's locals keep their types when its span becomes another page.
LEMMA ArgWithSpan ==
  ASSUME NEW x \in ArgType, NEW p \in Pages
  PROVE  LET a == [x EXCEPT !.span = p]
         IN  /\ a.size = x.size /\ a.batch = x.batch /\ a.blocks = x.blocks
             /\ a.span = p /\ a \in ArgType
BY DEF ArgType

\* Goto moves one thread and no other, and keeps the types.
LEMMA GotoMoves ==
  ASSUME TypeOK, NEW t \in Threads, NEW label \in Labels, NEW a, Goto(t, label, a)
  PROVE  /\ pc'[t] = label /\ arg'[t] = a
         /\ \A u \in Threads : u # t => pc'[u] = pc[u] /\ arg'[u] = arg[u]
         /\ pc' \in [Threads -> Labels]
         /\ a \in ArgType => arg' \in [Threads -> ArgType]
  BY DEF TypeOK, Goto, ArgType

\* Nothing changes hands.
LEMMA NothingMoves ==
  ASSUME OneHolder, live' = live, cache' = cache,
         \A u \in Threads : arg'[u].blocks = arg[u].blocks
  PROVE  OneHolder' /\ \A b : b \in Out' <=> b \in Out
<1>1. OneHolder'
  BY DEF OneHolder
<1>2. OutIs'
  BY OutMembers, PTL
<1> QED BY <1>1, <1>2, OutMembers DEF OutIs

-----------------------------------------------------------------------------
(* Allocation                                                                *)

\* A block goes from a thread's list to the program.
LEMMA AllocateHitIInv ==
  ASSUME IInv, NEW t \in Threads, NEW c \in Sizes, AllocateHit(t, c)
  PROVE  IInv'
<1> USE SizesAssumption DEF IInv
<1>1. PICK b \in cache[t][c] :
        /\ cache' = [cache EXCEPT ![t][c] = cache[t][c] \ {b}]
        /\ _size' = [_size EXCEPT ![t][c] = _size[t][c] - 1]
        /\ live' = live \cup {b}
  BY DEF AllocateHit
<1>2. /\ pc[t] = "idle"
      /\ UNCHANGED <<used, _objSize, _useCount, _freelist, _freelists, holder, tls, _maxSize, pc, arg>>
  BY DEF AllocateHit, heapVars, spanVars
<1>3. /\ cache'[t][c] = cache[t][c] \ {b}
      /\ \A u \in Threads, d \in Sizes : <<u, d>> # <<t, c>> => cache'[u][d] = cache[u][d]
      /\ cache' \in [Threads -> [Sizes -> SUBSET Addresses]]
  <2>1. cache \in [Threads -> [Sizes -> SUBSET Addresses]] /\ cache[t][c] \ {b} \in SUBSET Addresses
    BY DEF TypeOK
  <2> QED BY <1>1, <2>1, SetList
<1>4. arg[t].blocks = {} /\ b \notin live
  BY <1>2 DEF AtHome, InHand, OneHolder
<1>5. OneHolder' /\ \A x : x \in Out' <=> x \in Out
  <2>1. /\ OneHolder'
        /\ \A x : x \in Out' <=>
             \/ x \in cache'[t][c] \/ x \in arg'[t].blocks \/ x \in live'
             \/ x \in Out /\ x \notin cache[t][c] /\ x \notin arg[t].blocks /\ x \notin live
    <3>1. /\ cache'[t][c] \cap arg'[t].blocks = {} /\ cache'[t][c] \cap live' = {}
          /\ arg'[t].blocks \cap live' = {}
      BY <1>1, <1>2, <1>3, <1>4 DEF OneHolder
    <3>2. \A x : x \in cache'[t][c] \/ x \in arg'[t].blocks \/ x \in live' =>
                 x \in cache[t][c] \/ x \in arg[t].blocks \/ x \in live
      BY <1>1, <1>2, <1>3
    <3> QED BY <3>1, <3>2, <1>2, <1>3, HoldersMove
  <2> QED BY <2>1, <1>1, <1>2, <1>3, <1>4, OutMembers DEF OutIs
<1>6. /\ RunsApart' /\ LinkedOK' /\ UnlinkedUnused' /\ UseCountExact'
      /\ \A d : Home(d)' = Home(d)
  BY <1>2, <1>5, SpansKept DEF heapVars, spanVars
<1>7. PrivateOK'
  BY <1>2, PrivateKept
<1>8. IsFiniteSet(cache[t][c]) /\ Cardinality(cache[t][c] \ {b}) = Cardinality(cache[t][c]) - 1
  BY ListsFinite, FS_RemoveElement
<1>9. Cardinality(cache[t][c] \ {b}) \in Nat
  BY <1>8, FS_Subset, FS_CardinalityType
<1>10. /\ _size'[t][c] = Cardinality(cache'[t][c]) /\ _size[t][c] = _size'[t][c] + 1
       /\ \A u \in Threads, d \in Sizes : <<u, d>> # <<t, c>> => _size'[u][d] = _size[u][d]
       /\ _size' \in [Threads -> [Sizes -> Nat]]
  <2>1. _size \in [Threads -> [Sizes -> Nat]] /\ _size[t][c] = Cardinality(cache[t][c])
    BY DEF TypeOK, CacheBounded
  <2>2. _size[t][c] - 1 \in Nat
    BY <1>8, <1>9, <2>1
  <2>3. _size[t][c] \in Nat
    BY <2>1
  <2> QED BY <1>1, <1>3, <1>8, <1>9, <2>1, <2>2, <2>3, SetList
<1>11. TypeOK'
  <2>1. live' \subseteq Addresses
    BY <1>1 DEF TypeOK
  <2> QED BY <2>1, <1>2, <1>3, <1>10 DEF TypeOK
<1>12. CacheBounded'
  <2>1. _maxSize[t][c] \in Nat /\ _size'[t][c] \in Nat
    BY <1>10 DEF TypeOK
  <2>2. _size[t][c] < _maxSize[t][c] /\ _maxSize[t][c] <= NumMoveSize[c] + 1
    BY DEF CacheBounded
  <2>3. _size'[t][c] < _maxSize'[t][c] /\ _maxSize'[t][c] <= NumMoveSize[c] + 1
    BY <2>1, <2>2, <1>2, <1>10
  <2>4. \A u \in Threads, d \in Sizes : <<u, d>> # <<t, c>> =>
          /\ cache'[u][d] = cache[u][d] /\ _size'[u][d] = _size[u][d]
          /\ _maxSize'[u][d] = _maxSize[u][d]
    BY <1>2, <1>3, <1>10
  <2> QED BY <2>3, <2>4, <1>10, BoundedKept
<1>13. AtHome'
  <2>1. b \in Home(c) /\ cache'[t][c] \subseteq Home(c)'
    BY <1>3, <1>6 DEF AtHome
  <2>2. InHand(t)'
    BY <1>2, <1>4 DEF InHand
  <2>3. \A x \in live' : x \in live \/ \E d \in Sizes : x \in Home(d)'
    BY <1>1, <1>6, <2>1
  <2> QED BY <2>1, <2>2, <2>3, <1>2, <1>3, HomeKept
<1>14. FetchOK' /\ HolderOK'
  <2>1. Fetching(t)'
    BY <1>2 DEF Fetching
  <2>2. \A u \in Threads, d \in Sizes : u # t =>
          cache'[u][d] = cache[u][d] /\ _maxSize'[u][d] = _maxSize[u][d]
    BY <1>2, <1>3
  <2> QED BY <2>1, <2>2, <1>2, FetchKept, HolderKept
<1> QED BY <1>5, <1>6, <1>7, <1>11, <1>12, <1>13, <1>14

\* The list is empty: the thread goes to the central cache.
LEMMA AllocateMissIInv ==
  ASSUME IInv, NEW t \in Threads, NEW c \in Sizes, AllocateMiss(t, c)
  PROVE  IInv'
<1> USE SizesAssumption DEF IInv
<1> DEFINE batch == Lesser(_maxSize[t][c], NumMoveSize[c])
           a == [NoArg EXCEPT !.size = c, !.batch = batch]
           max == IF _maxSize[t][c] = batch THEN _maxSize[t][c] + 1 ELSE _maxSize[t][c]
<1>1. /\ pc[t] = "idle" /\ cache[t][c] = {} /\ tls' = tls \cup {t}
      /\ _maxSize' = [_maxSize EXCEPT ![t][c] = max]
      /\ Goto(t, "fetch", a)
      /\ UNCHANGED <<used, _objSize, _useCount, _freelist, _freelists, holder, cache, _size, live>>
  BY DEF AllocateMiss, heapVars, spanVars
<1>2. /\ _maxSize[t][c] \in Nat /\ _size[t][c] \in Nat /\ NumMoveSize[c] \in Nat \ {0}
      /\ _size[t][c] < _maxSize[t][c] /\ _maxSize[t][c] <= NumMoveSize[c] + 1
  BY DEF TypeOK, CacheBounded
<1>3. /\ batch \in 1 .. NumMoveSize[c] /\ batch < max
      /\ max \in Nat /\ max <= NumMoveSize[c] + 1 /\ _size[t][c] < max
  BY <1>2 DEF Lesser
<1>4. /\ a.size = c /\ a.batch = batch /\ a.blocks = {} /\ a \in ArgType
  <2>1. 0 \in Pages
    BY DEF Pages
  <2>2. batch \in Nat
    BY <1>2, <1>3
  <2> HIDE DEF batch
  <2> QED BY <2>1, <2>2 DEF NoArg, ArgType
<1> HIDE DEF batch, a, max
<1>5. /\ pc'[t] = "fetch" /\ arg'[t] = a
      /\ \A u \in Threads : u # t => pc'[u] = pc[u] /\ arg'[u] = arg[u]
      /\ pc' \in [Threads -> Labels] /\ arg' \in [Threads -> ArgType]
  BY <1>1, <1>4, GotoMoves DEF Labels
<1>6. /\ _maxSize'[t][c] = max
      /\ \A u \in Threads, d \in Sizes : <<u, d>> # <<t, c>> => _maxSize'[u][d] = _maxSize[u][d]
      /\ _maxSize' \in [Threads -> [Sizes -> Nat]]
  BY <1>1, <1>3, SetList DEF TypeOK
<1>7. arg[t].blocks = {}
  BY <1>1 DEF AtHome, InHand
<1>8. OneHolder' /\ \A b : b \in Out' <=> b \in Out
  BY <1>1, <1>4, <1>5, <1>7, NothingMoves
<1>9. /\ RunsApart' /\ LinkedOK' /\ UnlinkedUnused' /\ UseCountExact'
      /\ \A d : Home(d)' = Home(d)
  BY <1>1, <1>8, SpansKept DEF heapVars, spanVars
<1>10. PrivateOK'
  <2>1. \A u \in Threads : pc'[u] \in {"link", "relPage"} => pc'[u] = pc[u] /\ arg'[u] = arg[u]
    BY <1>5
  <2> QED BY <2>1, <1>1, PrivateKept
<1>11. TypeOK'
  BY <1>1, <1>5, <1>6 DEF TypeOK, ArgType
<1>12. CacheBounded'
  <2>1. \A u \in Threads, d \in Sizes : <<u, d>> # <<t, c>> =>
          /\ cache'[u][d] = cache[u][d] /\ _size'[u][d] = _size[u][d]
          /\ _maxSize'[u][d] = _maxSize[u][d]
    BY <1>1, <1>6
  <2>2. _size'[t][c] = Cardinality(cache'[t][c]) /\ _size'[t][c] < _maxSize'[t][c]
    BY <1>1, <1>3, <1>6 DEF CacheBounded
  <2>3. _maxSize'[t][c] <= NumMoveSize[c] + 1
    BY <1>3, <1>6
  <2> QED BY <2>1, <2>2, <2>3, BoundedKept
<1>13. AtHome'
  <2>1. InHand(t)'
    BY <1>4, <1>5 DEF InHand
  <2>2. cache'[t][c] \subseteq Home(c)'
    BY <1>1
  <2> QED BY <2>1, <2>2, <1>1, <1>5, HomeKept
<1>14. FetchOK' /\ HolderOK'
  <2>1. Fetching(t)'
    BY <1>1, <1>3, <1>4, <1>5, <1>6 DEF Fetching
  <2>2. \A u \in Threads, d \in Sizes : u # t =>
          cache'[u][d] = cache[u][d] /\ _maxSize'[u][d] = _maxSize[u][d]
    BY <1>1, <1>6
  <2> QED BY <2>1, <2>2, <1>1, <1>5, FetchKept, HolderKept
<1> QED BY <1>8, <1>9, <1>10, <1>11, <1>12, <1>13, <1>14

\* No span of the bucket has a free block.
LEMMA FetchNoneIInv ==
  ASSUME IInv, NEW t \in Threads, FetchNone(t)
  PROVE  IInv'
<1> USE SizesAssumption DEF IInv
<1>1. /\ pc[t] = "fetch" /\ Goto(t, "grow", arg[t])
      /\ UNCHANGED <<used, _objSize, _useCount, _freelist, _freelists, holder, tls, cache,
                     _size, _maxSize, live>>
  BY DEF FetchNone, heapVars, spanVars, cacheVars
<1>2. /\ pc'[t] = "grow" /\ arg'[t] = arg[t]
      /\ \A u \in Threads : u # t => pc'[u] = pc[u] /\ arg'[u] = arg[u]
      /\ pc' \in [Threads -> Labels] /\ arg' \in [Threads -> ArgType]
  <2>1. arg[t] \in ArgType
    BY DEF TypeOK, ArgType
  <2> QED BY <1>1, <2>1, GotoMoves DEF Labels
<1>3. OneHolder' /\ \A b : b \in Out' <=> b \in Out
  BY <1>1, <1>2, NothingMoves
<1>4. /\ RunsApart' /\ LinkedOK' /\ UnlinkedUnused' /\ UseCountExact'
      /\ \A d : Home(d)' = Home(d)
  BY <1>1, <1>3, SpansKept DEF heapVars, spanVars
<1>5. PrivateOK'
  <2>1. \A u \in Threads : pc'[u] \in {"link", "relPage"} => pc'[u] = pc[u] /\ arg'[u] = arg[u]
    BY <1>2
  <2> QED BY <2>1, <1>1, PrivateKept
<1>6. TypeOK'
  BY <1>1, <1>2 DEF TypeOK, ArgType
<1>7. CacheBounded'
  BY <1>1 DEF CacheBounded
<1>8. arg[t].size \in Sizes
  BY <1>1 DEF FetchOK, Fetching
<1>9. AtHome'
  <2>1. InHand(t)'
    BY <1>1, <1>2 DEF InHand, AtHome
  <2>2. PICK c \in Sizes : c = arg[t].size
    BY <1>8
  <2>3. cache'[t][c] \subseteq Home(c)'
    BY <1>1, <1>4 DEF AtHome
  <2> QED BY <2>1, <2>3, <1>1, <1>2, HomeKept
<1>10. FetchOK' /\ HolderOK'
  <2>1. Fetching(t)'
    BY <1>1, <1>2 DEF FetchOK, Fetching
  <2> QED BY <2>1, <1>1, <1>2, FetchKept, HolderKept
<1> QED BY <1>3, <1>4, <1>5, <1>6, <1>7, <1>9, <1>10

\* FetchRangObj from what is in the list of span p.
TakeFrom(t, p) == Take(t, p, _freelist[p])

\* The lists after FetchRangObj has taken blocks of span p, which is linked by
\* then: the first for the program, the others for the thread's list.
LEMMA TakeIInv ==
  ASSUME IInv, NEW t \in Threads, NEW c \in Sizes, arg[t].size = c, pc[t] \in {"fetch", "link"},
         NEW p \in Pages, SpanRun(p, c) \in used, _objSize[p] = c,
         _freelist[p] = Blocks(p, c) \ Out,
         _useCount[p] = Cardinality(Blocks(p, c) \cap Out),
         _freelists' = [_freelists EXCEPT ![c] = _freelists[c] \cup {p}],
         \A d \in Sizes : p \in _freelists[d] => d = c,
         \A u \in Threads : u # t /\ pc[u] \in {"link", "relPage"} => arg[u].span # p,
         TakeFrom(t, p), UNCHANGED <<used, _objSize, holder, tls, _maxSize>>
  PROVE  IInv'
<1> USE SizesAssumption DEF IInv
<1> DEFINE free == _freelist[p]
           num  == Lesser(arg[t].batch, Cardinality(free))
           out  == Blocks(p, c) \cap Out
<1>1. /\ cache[t][c] = {} /\ arg[t].batch \in Nat \ {0} /\ arg[t].batch < _maxSize[t][c]
      /\ arg[t].blocks = {} /\ _size[t][c] = 0
  <2>1. cache[t][c] = {} /\ arg[t].batch \in 1 .. NumMoveSize[c] /\ arg[t].batch < _maxSize[t][c]
    BY DEF FetchOK, Fetching
  <2>2. arg[t].blocks = {}
    BY DEF AtHome, InHand
  <2>3. _size[t][c] = 0
    BY <2>1, FS_EmptySet DEF CacheBounded
  <2> QED BY <2>1, <2>2, <2>3
<1>2. p \in Nat /\ IsFiniteSet(Blocks(p, c))
  BY BlocksFinite DEF Pages
<1>3. /\ IsFiniteSet(free) /\ Cardinality(free) \in Nat
      /\ IsFiniteSet(out) /\ Cardinality(out) \in Nat
  <2>1. free \subseteq Blocks(p, c) /\ out \subseteq Blocks(p, c)
    OBVIOUS
  <2> HIDE DEF free, out
  <2> QED BY <1>2, <2>1, FS_Subset, FS_CardinalityType
<1>4. PICK taken \in PopRang(free, num) : \E first \in taken :
        /\ _freelist' = [_freelist EXCEPT ![p] = free \ taken]
        /\ _useCount' = [_useCount EXCEPT ![p] = _useCount[p] + num]
        /\ cache' = [cache EXCEPT ![t][c] = cache[t][c] \cup (taken \ {first})]
        /\ _size' = [_size EXCEPT ![t][c] = _size[t][c] + num - 1]
        /\ live' = live \cup {first}
        /\ Goto(t, "idle", NoArg)
  BY DEF TakeFrom, Take
<1> PICK first \in taken :
        /\ _freelist' = [_freelist EXCEPT ![p] = free \ taken]
        /\ _useCount' = [_useCount EXCEPT ![p] = _useCount[p] + num]
        /\ cache' = [cache EXCEPT ![t][c] = cache[t][c] \cup (taken \ {first})]
        /\ _size' = [_size EXCEPT ![t][c] = _size[t][c] + num - 1]
        /\ live' = live \cup {first}
        /\ Goto(t, "idle", NoArg)
  BY <1>4
<1>5. num \in Nat /\ num <= Cardinality(free) /\ num <= arg[t].batch
  BY <1>1, <1>3 DEF Lesser
<1>6. /\ taken \subseteq free /\ Cardinality(taken) = num
      /\ IsFiniteSet(taken) /\ taken \subseteq Blocks(p, c) /\ taken \cap Out = {}
  <2>1. taken \subseteq free /\ Cardinality(taken) = Lesser(num, Cardinality(free))
    BY DEF PopRang
  <2>2. Lesser(num, Cardinality(free)) = num
    BY <1>3, <1>5 DEF Lesser
  <2>3. IsFiniteSet(taken)
    BY <1>3, <2>1, FS_Subset
  <2> QED BY <2>1, <2>2, <2>3
<1>7. num >= 1 /\ Cardinality(taken \ {first}) = num - 1
  <2>1. Cardinality(taken \ {first}) = num - 1 /\ IsFiniteSet(taken \ {first})
    BY <1>6, FS_RemoveElement
  <2>2. Cardinality(taken \ {first}) \in Nat
    BY <2>1, FS_CardinalityType
  <2> QED BY <2>1, <2>2, <1>5
<1> HIDE DEF num
<1>8. /\ cache'[t][c] = taken \ {first}
      /\ \A u \in Threads, d \in Sizes : <<u, d>> # <<t, c>> => cache'[u][d] = cache[u][d]
      /\ cache' \in [Threads -> [Sizes -> SUBSET Addresses]]
  <2>1. cache[t][c] \cup (taken \ {first}) = taken \ {first}
    BY <1>1
  <2>2. cache \in [Threads -> [Sizes -> SUBSET Addresses]] /\ taken \ {first} \in SUBSET Addresses
    BY <1>6 DEF TypeOK
  <2> QED BY <1>4, <2>1, <2>2, SetList
<1>9. /\ _size'[t][c] = num - 1
      /\ \A u \in Threads, d \in Sizes : <<u, d>> # <<t, c>> => _size'[u][d] = _size[u][d]
      /\ _size' \in [Threads -> [Sizes -> Nat]]
  <2>1. _size[t][c] + num - 1 = num - 1 /\ num - 1 \in Nat
    BY <1>1, <1>5, <1>7
  <2>2. _size \in [Threads -> [Sizes -> Nat]]
    BY DEF TypeOK
  <2> QED BY <1>4, <2>1, <2>2, SetList
<1>10. /\ pc'[t] = "idle" /\ arg'[t].blocks = {}
       /\ \A u \in Threads : u # t => pc'[u] = pc[u] /\ arg'[u] = arg[u]
       /\ pc' \in [Threads -> Labels] /\ arg' \in [Threads -> ArgType]
  <2>1. NoArg \in ArgType /\ NoArg.blocks = {}
    BY DEF NoArg, ArgType, Pages
  <2> QED BY <1>4, <2>1, GotoMoves DEF Labels
<1>11. first \in taken /\ live' = live \cup {first}
  BY <1>4
<1>12. \A b : b \in live => b \in Out
  BY OutMembers DEF OutIs
<1>13. OneHolder' /\ \A b : b \in Out' <=> b \in Out \/ b \in taken
  <2>1. /\ cache'[t][c] \cap arg'[t].blocks = {} /\ cache'[t][c] \cap live' = {}
        /\ arg'[t].blocks \cap live' = {}
    BY <1>6, <1>8, <1>10, <1>11, <1>12
  <2>2. \A b : b \in cache'[t][c] \/ b \in arg'[t].blocks \/ b \in live' =>
                 b \in cache[t][c] \/ b \in arg[t].blocks \/ b \in live \/ b \notin Out
    BY <1>6, <1>8, <1>10, <1>11
  <2>3. /\ OneHolder'
        /\ \A b : b \in Out' <=>
             \/ b \in cache'[t][c] \/ b \in arg'[t].blocks \/ b \in live'
             \/ b \in Out /\ b \notin cache[t][c] /\ b \notin arg[t].blocks /\ b \notin live
    BY <2>1, <2>2, <1>8, <1>10, HoldersMove
  <2> QED BY <2>3, <1>1, <1>8, <1>10, <1>11, <1>12
<1>14. /\ p \in _freelists'[c]
       /\ \A d \in Sizes : _freelists[d] \subseteq _freelists'[d]
       /\ \A d \in Sizes : \A q \in _freelists'[d] : q \in _freelists[d] \/ (q = p /\ d = c)
       /\ _freelists' \in [Sizes -> SUBSET Pages]
  BY DEF TypeOK
<1>15. RunsApart' /\ LinkedOK'
  BY <1>14 DEF RunsApart, LinkedOK, SpanRun
<1>16. \A q : q # p => (Linked(q)' <=> Linked(q))
  BY <1>14 DEF Linked
<1>17. /\ \A q \in Pages : q # p => _freelist'[q] = _freelist[q] /\ _useCount'[q] = _useCount[q]
       /\ _freelist'[p] = free \ taken /\ _useCount'[p] = _useCount[p] + num
       /\ _freelist' \in [Pages -> SUBSET Addresses] /\ _useCount' \in [Pages -> Nat]
  BY <1>4, <1>5 DEF TypeOK
<1>18. UseCountExact'
  <2> SUFFICES ASSUME NEW d \in Sizes, NEW q \in _freelists'[d]
               PROVE  /\ _freelist'[q] = Blocks(q, d) \ (Blocks(q, d) \cap Out')
                      /\ _useCount'[q] = Cardinality(Blocks(q, d) \cap Out')
                      /\ _objSize'[q] = d
    BY DEF UseCountExact
  <2>1. CASE q = p
    <3>1. d = c
      BY <2>1, <1>14
    <3>2. Blocks(p, c) \cap Out' = out \cup taken /\ out \cap taken = {}
      BY <1>6, <1>13
    <3>3. Cardinality(out \cup taken) = Cardinality(out) + num
      <4>1. Cardinality(out \cup taken)
              = Cardinality(out) + Cardinality(taken) - Cardinality(out \cap taken)
        BY <1>3, <1>6, FS_Union
      <4>2. Cardinality(out \cap taken) = 0
        BY <3>2, FS_EmptySet
      <4> HIDE DEF out
      <4> QED BY <4>1, <4>2, <1>3, <1>5, <1>6
    <3>4. free \ taken = Blocks(p, c) \ (Blocks(p, c) \cap Out')
      BY <1>13, <1>6
    <3> QED BY <2>1, <3>1, <3>2, <3>3, <3>4, <1>17
  <2>2. CASE q # p
    <3>1. q \in _freelists[d]
      BY <2>2, <1>14
    <3>2. SpanRun(q, d) \in used /\ q \in Pages
      BY <3>1, LinkedSpan
    <3>3. Blocks(q, d) \cap taken = {}
      BY <3>2, <2>2, <1>6, BlocksApart
    <3>4. Blocks(q, d) \cap Out' = Blocks(q, d) \cap Out
      BY <3>3, <1>13
    <3>5. /\ _freelist[q] = Blocks(q, d) \ (Blocks(q, d) \cap Out)
          /\ _useCount[q] = Cardinality(Blocks(q, d) \cap Out) /\ _objSize[q] = d
      BY <3>1 DEF UseCountExact
    <3>6. _freelist'[q] = _freelist[q] /\ _useCount'[q] = _useCount[q] /\ _objSize'[q] = _objSize[q]
      BY <2>2, <3>2, <1>17
    <3> QED BY <3>4, <3>5, <3>6
  <2> QED BY <2>1, <2>2
<1>19. UnlinkedUnused'
  <2>1. Linked(p)'
    BY <1>14 DEF Linked
  <2> QED BY <2>1, <1>16, <1>17 DEF UnlinkedUnused
<1>20. PrivateOK'
  <2>1. \A u \in Threads : pc'[u] \in {"link", "relPage"} =>
          /\ pc'[u] = pc[u] /\ arg'[u] = arg[u]
          /\ arg[u].span # p /\ arg[u].span \in Pages
    BY <1>10 DEF TypeOK
  <2> QED BY <2>1, <1>16, <1>17 DEF PrivateOK
<1>21. TypeOK'
  <2>1. live' \subseteq Addresses
    BY <1>6, <1>11 DEF TypeOK
  <2> QED BY <2>1, <1>8, <1>9, <1>10, <1>14, <1>17 DEF TypeOK, ArgType
<1>22. CacheBounded'
  <2>1. \A u \in Threads, d \in Sizes : <<u, d>> # <<t, c>> =>
          /\ cache'[u][d] = cache[u][d] /\ _size'[u][d] = _size[u][d]
          /\ _maxSize'[u][d] = _maxSize[u][d]
    BY <1>8, <1>9
  <2>2. _size'[t][c] = Cardinality(cache'[t][c])
    BY <1>7, <1>8, <1>9
  <2>3. _size'[t][c] < _maxSize'[t][c]
    BY <1>1, <1>5, <1>7, <1>9 DEF TypeOK
  <2>4. _maxSize'[t][c] <= NumMoveSize[c] + 1
    BY DEF CacheBounded
  <2>5. CacheBounded /\ t \in Threads /\ c \in Sizes
    OBVIOUS
  <2> QED BY ONLY <2>1, <2>2, <2>3, <2>4, <2>5, BoundedKept
<1>23. AtHome'
  <2>1. taken \subseteq Home(c)'
    BY <1>6, <1>14 DEF Home
  <2>2. InHand(t)'
    BY <1>10 DEF InHand
  <2> QED BY <2>1, <2>2, <1>8, <1>10, <1>11, <1>14, HomeKept
<1>24. FetchOK' /\ HolderOK'
  <2>1. Fetching(t)'
    BY <1>10 DEF Fetching
  <2>2. \A u \in Threads, d \in Sizes : u # t =>
          cache'[u][d] = cache[u][d] /\ _maxSize'[u][d] = _maxSize[u][d]
    BY <1>8
  <2> QED BY <2>1, <2>2, <1>10, FetchKept, HolderKept
<1> QED BY <1>13, <1>15, <1>18, <1>19, <1>20, <1>21, <1>22, <1>23, <1>24

\* A linked span has free blocks.
LEMMA FetchHitIInv ==
  ASSUME IInv, NEW t \in Threads, FetchHit(t)
  PROVE  IInv'
<1> USE DEF IInv
<1>1. /\ pc[t] = "fetch"
      /\ UNCHANGED <<used, _objSize, _freelists, holder, tls, _maxSize>>
  BY DEF FetchHit, heapVars
<1>2. PICK c \in Sizes : arg[t].size = c
  BY <1>1 DEF FetchOK, Fetching
<1>3. PICK p \in _freelists[c] : TakeFrom(t, p)
  BY <1>2 DEF FetchHit, TakeFrom
<1>4. /\ SpanRun(p, c) \in used /\ p \in Pages /\ _objSize[p] = c
      /\ \A d \in Sizes : p \in _freelists[d] => d = c
  BY LinkedSpan
<1>5. /\ _freelist[p] = Blocks(p, c) \ Out
      /\ _useCount[p] = Cardinality(Blocks(p, c) \cap Out)
  BY DEF UseCountExact
<1>6. _freelists' = [_freelists EXCEPT ![c] = _freelists[c] \cup {p}]
  <2>1. _freelists[c] \cup {p} = _freelists[c] /\ _freelists \in [Sizes -> SUBSET Pages]
    BY DEF TypeOK
  <2> QED BY <2>1, <1>1
<1>7. \A u \in Threads : u # t /\ pc[u] \in {"link", "relPage"} => arg[u].span # p
  BY DEF PrivateOK, Linked
<1> HIDE DEF IInv
<1> QED BY <1>1, <1>2, <1>3, <1>4, <1>5, <1>6, <1>7, TakeIInv

\* A thread links the span it has cut, none of whose blocks is out.
LEMMA LinkSpanIInv ==
  ASSUME IInv, NEW t \in Threads, LinkSpan(t)
  PROVE  IInv'
<1> USE DEF IInv
<1> DEFINE p == arg[t].span
<1>1. /\ pc[t] = "link" /\ TakeFrom(t, p)
      /\ UNCHANGED <<used, _objSize, holder, tls, _maxSize>>
  BY DEF LinkSpan, heapVars, TakeFrom
<1>2. PICK c \in Sizes : arg[t].size = c
  BY <1>1 DEF FetchOK, Fetching
<1>3. _freelists' = [_freelists EXCEPT ![c] = _freelists[c] \cup {p}]
  BY <1>2 DEF LinkSpan
<1>4. /\ SpanRun(p, c) \in used /\ _objSize[p] = c /\ ~ Linked(p)
      /\ _freelist[p] = Blocks(p, c) /\ p \in Pages
  BY <1>1, <1>2 DEF PrivateOK, SpanRun, TypeOK
<1>5. Blocks(p, c) \cap Out = {}
  <2> SUFFICES ASSUME NEW b \in Blocks(p, c), b \in Out PROVE FALSE
    OBVIOUS
  <2>1. PICK d \in Sizes : \E q \in _freelists[d] : b \in Blocks(q, d)
    BY OutIsHome
  <2>2. PICK q \in _freelists[d] : b \in Blocks(q, d)
    BY <2>1
  <2>3. q # p /\ SpanRun(q, d) \in used
    BY <1>4, LinkedSpan DEF Linked
  <2> QED BY <2>2, <2>3, <1>4, BlocksApart
<1>6. /\ _freelist[p] = Blocks(p, c) \ Out
      /\ _useCount[p] = Cardinality(Blocks(p, c) \cap Out)
  BY <1>4, <1>5, FS_EmptySet DEF UnlinkedUnused
<1>7. \A d \in Sizes : p \in _freelists[d] => d = c
  BY <1>4 DEF Linked
<1>8. \A u \in Threads : u # t /\ pc[u] \in {"link", "relPage"} => arg[u].span # p
  BY <1>1 DEF PrivateOK
<1> HIDE DEF p, IInv
<1> QED BY <1>1, <1>2, <1>3, <1>4, <1>6, <1>7, <1>8, TakeIInv

\* Under _pageMtx a thread gets a run nobody holds and cuts it into blocks.
LEMMA GrowSpanIInv ==
  ASSUME IInv, NEW t \in Threads, GrowSpan(t)
  PROVE  IInv'
<1> USE SizesAssumption DEF IInv
<1>1. PICK c \in Sizes : arg[t].size = c
  BY DEF GrowSpan, FetchOK, Fetching
<1>2. PICK new \in Heap!Runs : /\ Heap!PagesOf(new) \subseteq Pages
                               /\ \A r \in used : ~ Heap!Overlap(r, new)
                               /\ used' = used \cup {new}
  BY DEF GrowSpan, Heap!NewSpan
<1>3. PICK run \in used' \ used :
        /\ run.n = NumMovePages[c]
        /\ _objSize' = [_objSize EXCEPT ![run.id] = c]
        /\ _freelist' = [_freelist EXCEPT ![run.id] = Blocks(run.id, c)]
        /\ Goto(t, "link", [arg[t] EXCEPT !.span = run.id])
  BY <1>1 DEF GrowSpan
<1> DEFINE p == new.id
           a == [arg[t] EXCEPT !.span = p]
<1>4. /\ run = new /\ new = SpanRun(p, c) /\ p \in Pages /\ p \in Nat
      /\ NumMovePages[c] \in Nat \ {0}
  <2>1. run = new /\ new.n = NumMovePages[c]
    BY <1>2, <1>3
  <2> QED BY <2>1 DEF Heap!Runs, SpanRun, Pages
<1>5. /\ pc[t] = "grow"
      /\ UNCHANGED <<_useCount, _freelists, holder, tls, cache, _size, _maxSize, live>>
  BY DEF GrowSpan, cacheVars
<1>6. \A r \in used : r.id # p
  <2> SUFFICES ASSUME NEW r \in used, r.id = p PROVE FALSE
    OBVIOUS
  <2>1. r.n \in Nat \ {0}
    BY DEF TypeOK, Heap!Runs
  <2>2. Heap!Overlap(r, new)
    BY <2>1, <1>4 DEF Heap!Overlap, SpanRun
  <2> QED BY <2>2, <1>2
<1>7. /\ ~ Linked(p)
      /\ \A u \in Threads : pc[u] \in {"link", "relPage"} => arg[u].span # p
  <2>1. \A d \in Sizes : p \notin _freelists[d]
    <3> SUFFICES ASSUME NEW d \in Sizes, p \in _freelists[d] PROVE FALSE
      OBVIOUS
    <3>1. SpanRun(p, d) \in used
      BY LinkedSpan
    <3> QED BY <3>1, <1>6 DEF SpanRun
  <2>2. ~ Linked(p)
    BY <2>1 DEF Linked
  <2> QED BY <2>2, <1>6 DEF PrivateOK
<1>8. /\ a.size = arg[t].size /\ a.batch = arg[t].batch /\ a.blocks = arg[t].blocks
      /\ a.span = p /\ a \in ArgType
  <2>1. arg[t] \in ArgType
    BY DEF TypeOK, ArgType
  <2> QED BY ONLY <2>1, <1>4, ArgWithSpan
<1>9. /\ _objSize'[p] = c /\ _freelist'[p] = Blocks(p, c)
      /\ \A q \in Pages : q # p => _objSize'[q] = _objSize[q] /\ _freelist'[q] = _freelist[q]
      /\ _objSize' \in [Pages -> Sizes \cup {0}]
      /\ _freelist' \in [Pages -> SUBSET Addresses]
  <2>1. Blocks(p, c) \subseteq Addresses
    BY <1>2, <1>4, BlocksAreAddresses DEF Heap!PagesOf, SpanRun
  <2> QED BY <2>1, <1>3, <1>4 DEF TypeOK
<1>10. /\ pc'[t] = "link" /\ arg'[t] = a
       /\ \A u \in Threads : u # t => pc'[u] = pc[u] /\ arg'[u] = arg[u]
       /\ pc' \in [Threads -> Labels] /\ arg' \in [Threads -> ArgType]
  BY <1>3, <1>4, <1>8, GotoMoves DEF Labels
<1> HIDE DEF a
<1>11. OneHolder' /\ \A b : b \in Out' <=> b \in Out
  BY <1>5, <1>8, <1>10, NothingMoves
<1>12. \A q : Linked(q)' <=> Linked(q)
  BY <1>5 DEF Linked
<1>13. RunsApart'
  <2>1. \A r \in used : ~ Heap!Overlap(r, new) /\ ~ Heap!Overlap(new, r)
    BY <1>2 DEF Heap!Overlap
  <2> QED BY <2>1, <1>2 DEF RunsApart
<1>14. \A d \in Sizes : \A q \in _freelists'[d] :
         q \in _freelists[d] /\ q # p /\ q \in Pages
  BY <1>5, <1>7 DEF Linked, TypeOK
<1>15. LinkedOK'
  BY <1>2, <1>9, <1>14 DEF LinkedOK
<1>16. UnlinkedUnused' /\ \A d \in Sizes : Home(d)' = Home(d)
  BY <1>5, <1>12 DEF UnlinkedUnused, Home
<1>17. UseCountExact'
  <2> SUFFICES ASSUME NEW d \in Sizes, NEW q \in _freelists'[d]
               PROVE  /\ _freelist'[q] = Blocks(q, d) \ (Blocks(q, d) \cap Out')
                      /\ _useCount'[q] = Cardinality(Blocks(q, d) \cap Out')
                      /\ _objSize'[q] = d
    BY DEF UseCountExact
  <2>1. Out' = Out
    BY <1>11
  <2>2. q \in _freelists[d] /\ _freelist'[q] = _freelist[q] /\ _objSize'[q] = _objSize[q]
    BY <1>9, <1>14
  <2>3. _useCount'[q] = _useCount[q]
    BY <1>5
  <2> QED BY <2>1, <2>2, <2>3 DEF UseCountExact
<1>18. PrivateOK'
  <2>1. /\ SpanRun(p, c) \in used' /\ ~ Linked(p)'
        /\ _objSize'[p] = c /\ _freelist'[p] = Blocks(p, c) /\ arg'[t].span = p /\ arg'[t].size = c
    BY <1>1, <1>2, <1>4, <1>7, <1>8, <1>9, <1>10, <1>12
  <2>2. \A u \in Threads : u # t /\ pc'[u] \in {"link", "relPage"} =>
          /\ pc[u] = pc'[u] /\ arg'[u] = arg[u] /\ arg[u].span # p /\ arg[u].span \in Pages
    BY <1>7, <1>10 DEF TypeOK
  <2> QED BY <2>1, <2>2, <1>2, <1>9, <1>10, <1>12 DEF PrivateOK, SpanRun
<1>19. TypeOK'
  BY <1>2, <1>5, <1>9, <1>10 DEF TypeOK, ArgType
<1>20. CacheBounded'
  BY <1>5 DEF CacheBounded
<1>21. AtHome'
  <2>1. InHand(t)'
    BY <1>5, <1>8, <1>10 DEF InHand, AtHome
  <2>2. cache'[t][c] \subseteq Home(c)'
    BY <1>5, <1>16 DEF AtHome
  <2> QED BY <2>1, <2>2, <1>5, <1>10, HomeKept
<1>22. FetchOK' /\ HolderOK'
  <2>1. Fetching(t)'
    BY <1>5, <1>8, <1>10 DEF FetchOK, Fetching
  <2> QED BY <2>1, <1>5, <1>10, FetchKept, HolderKept
<1> QED BY <1>11, <1>13, <1>15, <1>16, <1>17, <1>18, <1>19, <1>20, <1>21, <1>22

-----------------------------------------------------------------------------
(* Free and release                                                          *)

\* The program gives a block back; its span is found while the block is out.
LEMMA FreeLookupIInv ==
  ASSUME IInv, NEW t \in Threads, FreeLookup(t)
  PROVE  IInv'
<1> USE SizesAssumption DEF IInv
<1>1. PICK b \in live : /\ live' = live \ {b}
                        /\ Goto(t, "free", [NoArg EXCEPT !.span = MapToSpan(b), !.blocks = {b}])
  BY DEF FreeLookup
<1>2. /\ pc[t] = "idle"
      /\ UNCHANGED <<used, _objSize, _useCount, _freelist, _freelists, holder, tls, cache,
                     _size, _maxSize>>
  BY DEF FreeLookup, heapVars, spanVars, cacheVars
<1>3. PICK c \in Sizes : \E q \in _freelists[c] : b \in Blocks(q, c)
  BY DEF AtHome, Home
<1>4. PICK p \in _freelists[c] : b \in Blocks(p, c)
  BY <1>3
<1>5. p \in Pages /\ MapToSpan(b) = p /\ b \in Addresses
  BY <1>4, LinkedSpan DEF TypeOK
<1> DEFINE a == [NoArg EXCEPT !.span = MapToSpan(b), !.blocks = {b}]
<1>6. a.span = p /\ a.blocks = {b} /\ a \in ArgType
  BY <1>5 DEF NoArg, ArgType
<1>7. /\ pc'[t] = "free" /\ arg'[t] = a
      /\ \A u \in Threads : u # t => pc'[u] = pc[u] /\ arg'[u] = arg[u]
      /\ pc' \in [Threads -> Labels] /\ arg' \in [Threads -> ArgType]
  BY <1>1, <1>6, GotoMoves DEF Labels
<1> HIDE DEF a
<1>8. OneHolder' /\ \A x : x \in Out' <=> x \in Out
  <2>1. arg[t].blocks = {}
    BY <1>2 DEF AtHome, InHand
  <2>2. /\ cache'[t][c] \cap arg'[t].blocks = {} /\ cache'[t][c] \cap live' = {}
        /\ arg'[t].blocks \cap live' = {}
    BY <1>1, <1>2, <1>6, <1>7 DEF OneHolder
  <2>3. \A x : x \in cache'[t][c] \/ x \in arg'[t].blocks \/ x \in live' =>
                 x \in cache[t][c] \/ x \in live
    BY <1>1, <1>2, <1>6, <1>7
  <2>4. /\ OneHolder'
        /\ \A x : x \in Out' <=>
             \/ x \in cache'[t][c] \/ x \in arg'[t].blocks \/ x \in live'
             \/ x \in Out /\ x \notin cache[t][c] /\ x \notin arg[t].blocks /\ x \notin live
    BY <2>2, <2>3, <1>2, <1>7, HoldersMove
  <2> QED BY <2>1, <2>4, <1>1, <1>2, <1>6, <1>7, OutMembers DEF OutIs
<1>9. /\ RunsApart' /\ LinkedOK' /\ UnlinkedUnused' /\ UseCountExact'
      /\ \A d : Home(d)' = Home(d)
  BY <1>2, <1>8, SpansKept DEF heapVars, spanVars
<1>10. PrivateOK'
  <2>1. \A u \in Threads : pc'[u] \in {"link", "relPage"} => pc'[u] = pc[u] /\ arg'[u] = arg[u]
    BY <1>7
  <2> QED BY <2>1, <1>2, PrivateKept
<1>11. TypeOK'
  BY <1>1, <1>2, <1>7 DEF TypeOK, ArgType
<1>12. CacheBounded'
  BY <1>2 DEF CacheBounded
<1>13. AtHome'
  <2>1. InHand(t)'
    BY <1>2, <1>4, <1>6, <1>7 DEF InHand
  <2>2. cache'[t][c] \subseteq Home(c)'
    BY <1>2, <1>9 DEF AtHome
  <2> QED BY <2>1, <2>2, <1>1, <1>2, <1>7, HomeKept
<1>14. FetchOK' /\ HolderOK'
  <2>1. Fetching(t)'
    BY <1>7 DEF Fetching
  <2> QED BY <2>1, <1>2, <1>7, FetchKept, HolderKept
<1> QED BY <1>8, <1>9, <1>10, <1>11, <1>12, <1>13, <1>14

\* The block is pushed on the list of its span's size; a full list is emptied.
LEMMA FreePushIInv ==
  ASSUME IInv, NEW t \in Threads, FreePush(t)
  PROVE  IInv'
<1> USE SizesAssumption DEF IInv
<1>1. /\ pc[t] = "free"
      /\ UNCHANGED <<used, _objSize, _useCount, _freelist, _freelists, holder, tls, _maxSize, live>>
  BY DEF FreePush, heapVars, spanVars
<1>2. PICK d \in Sizes : \E x \in Blocks(arg[t].span, d) :
                           arg[t].span \in _freelists[d] /\ arg[t].blocks = {x}
  BY <1>1 DEF AtHome, InHand
<1>3. PICK b \in Blocks(arg[t].span, d) : arg[t].span \in _freelists[d] /\ arg[t].blocks = {b}
  BY <1>2
<1>4. PICK c \in Sizes : c = d /\ _objSize[arg[t].span] = c
  BY <1>3, LinkedSpan
<1> DEFINE list == cache[t][c] \cup {b}
<1>5. /\ b \in Home(c) /\ b \notin cache[t][c] /\ b \notin live
      /\ list \subseteq Home(c) /\ list \subseteq Addresses
  <2>1. b \in Home(c)
    BY <1>3, <1>4 DEF Home
  <2>2. b \notin cache[t][c] /\ b \notin live
    BY <1>3 DEF OneHolder
  <2>3. cache[t][c] \subseteq Home(c)
    BY DEF AtHome
  <2>4. list \subseteq Addresses
    BY <1>3 DEF TypeOK
  <2> QED BY <2>1, <2>2, <2>3, <2>4
<1>6. /\ IsFiniteSet(list) /\ Cardinality(list) = _size[t][c] + 1
      /\ _size[t][c] \in Nat /\ _maxSize[t][c] \in Nat /\ _size[t][c] + 1 <= _maxSize[t][c]
      /\ _size[t][c] = Cardinality(cache[t][c])
  <2>1. IsFiniteSet(cache[t][c]) /\ _size[t][c] = Cardinality(cache[t][c])
    BY ListsFinite DEF CacheBounded
  <2>2. IsFiniteSet(list) /\ Cardinality(list) = Cardinality(cache[t][c]) + 1
    BY <2>1, <1>5, FS_AddElement
  <2>3. _size[t][c] \in Nat /\ _maxSize[t][c] \in Nat /\ _size[t][c] < _maxSize[t][c]
    BY DEF TypeOK, CacheBounded
  <2> QED BY <2>1, <2>2, <2>3
<1> DEFINE full == _size[t][c] + 1 >= _maxSize[t][c]
           rel  == [NoArg EXCEPT !.size = c, !.blocks = list]
           kept == IF full THEN {} ELSE list
           len  == IF full THEN 0 ELSE _size[t][c] + 1
           label == IF full THEN "relLock" ELSE "idle"
           a    == IF full THEN rel ELSE NoArg
<1>7. /\ cache' = [cache EXCEPT ![t][c] = kept]
      /\ _size' = [_size EXCEPT ![t][c] = len]
      /\ Goto(t, label, a)
  <2>1. CASE full
    <3>1. PICK popped \in PopRang(list, _maxSize[t][c]) :
            /\ cache' = [cache EXCEPT ![t][c] = list \ popped]
            /\ _size' = [_size EXCEPT ![t][c] = _size[t][c] + 1 - _maxSize[t][c]]
            /\ Goto(t, "relLock", [NoArg EXCEPT !.size = c, !.blocks = popped])
      BY <2>1, <1>3, <1>4 DEF FreePush
    <3>2. _maxSize[t][c] = Cardinality(list)
      BY <2>1, <1>6
    <3>3. popped \subseteq list /\ Cardinality(popped) = Cardinality(list)
      BY <3>2, <1>6 DEF PopRang, Lesser
    <3>4. popped = list
      BY <3>3, <1>6, FS_Subset
    <3>5. _size[t][c] + 1 - _maxSize[t][c] = 0 /\ list \ popped = {}
      BY <3>2, <3>4, <1>6
    <3> QED BY <2>1, <3>1, <3>4, <3>5
  <2>2. CASE ~ full
    BY <2>2, <1>3, <1>4 DEF FreePush
  <2> QED BY <2>1, <2>2
<1>8. /\ label \in {"relLock", "idle"} /\ label \in Labels /\ a \in ArgType
      /\ a.size = (IF full THEN c ELSE 0) /\ a.blocks = (IF full THEN list ELSE {})
      /\ label = "relLock" <=> full
  <2>1. 0 \in Pages
    BY DEF Pages
  <2> HIDE DEF full
  <2> QED BY <2>1, <1>5 DEF NoArg, ArgType, Labels
<1>9. len \in Nat /\ len = Cardinality(kept) /\ len < _maxSize[t][c] /\ kept \subseteq Addresses
  <2>1. Cardinality({}) = 0
    BY FS_EmptySet
  <2> HIDE DEF list
  <2> QED BY <2>1, <1>5, <1>6
<1>10. kept \cup a.blocks = list /\ kept \cap a.blocks = {}
  <2> HIDE DEF full, list
  <2> QED BY <1>8
<1> HIDE DEF kept, len, label, a, full
<1>11. /\ pc'[t] = label /\ arg'[t] = a
       /\ \A u \in Threads : u # t => pc'[u] = pc[u] /\ arg'[u] = arg[u]
       /\ pc' \in [Threads -> Labels] /\ arg' \in [Threads -> ArgType]
  BY <1>7, <1>8, GotoMoves
<1>12. /\ cache'[t][c] = kept
       /\ \A u \in Threads, e \in Sizes : <<u, e>> # <<t, c>> => cache'[u][e] = cache[u][e]
       /\ cache' \in [Threads -> [Sizes -> SUBSET Addresses]]
  BY <1>7, <1>9, SetList DEF TypeOK
<1>13. /\ _size'[t][c] = len
       /\ \A u \in Threads, e \in Sizes : <<u, e>> # <<t, c>> => _size'[u][e] = _size[u][e]
       /\ _size' \in [Threads -> [Sizes -> Nat]]
  BY <1>7, <1>9, SetList DEF TypeOK
<1>14. OneHolder' /\ \A x : x \in Out' <=> x \in Out
  <2>1. cache[t][c] \cap live = {}
    BY DEF OneHolder
  <2>2. /\ cache'[t][c] \cap arg'[t].blocks = {} /\ cache'[t][c] \cap live' = {}
        /\ arg'[t].blocks \cap live' = {}
    BY <2>1, <1>1, <1>5, <1>10, <1>11, <1>12
  <2>3. \A x : x \in cache'[t][c] \/ x \in arg'[t].blocks <=> x \in cache[t][c] \/ x \in arg[t].blocks
    BY <1>3, <1>10, <1>11, <1>12
  <2>4. /\ OneHolder'
        /\ \A x : x \in Out' <=>
             \/ x \in cache'[t][c] \/ x \in arg'[t].blocks \/ x \in live'
             \/ x \in Out /\ x \notin cache[t][c] /\ x \notin arg[t].blocks /\ x \notin live
    BY <2>2, <2>3, <1>1, <1>11, <1>12, HoldersMove
  <2> QED BY <2>3, <2>4, <1>1, OutMembers DEF OutIs
<1>15. /\ RunsApart' /\ LinkedOK' /\ UnlinkedUnused' /\ UseCountExact'
       /\ \A e : Home(e)' = Home(e)
  BY <1>1, <1>14, SpansKept DEF heapVars, spanVars
<1>16. PrivateOK'
  <2>1. \A u \in Threads : pc'[u] \in {"link", "relPage"} => pc'[u] = pc[u] /\ arg'[u] = arg[u]
    BY <1>8, <1>11
  <2> QED BY <2>1, <1>1, PrivateKept
<1>17. TypeOK'
  BY <1>1, <1>11, <1>12, <1>13 DEF TypeOK, ArgType
<1>18. CacheBounded'
  <2>1. \A u \in Threads, e \in Sizes : <<u, e>> # <<t, c>> =>
          /\ cache'[u][e] = cache[u][e] /\ _size'[u][e] = _size[u][e]
          /\ _maxSize'[u][e] = _maxSize[u][e]
    BY <1>1, <1>12, <1>13
  <2>2. _maxSize'[t][c] <= NumMoveSize[c] + 1
    BY <1>1 DEF CacheBounded
  <2>3. _size'[t][c] = Cardinality(cache'[t][c]) /\ _size'[t][c] < _maxSize'[t][c]
    BY <1>1, <1>9, <1>12, <1>13
  <2> QED BY <2>1, <2>2, <2>3, BoundedKept
<1>19. AtHome'
  <2>1. kept \subseteq Home(c) /\ a.blocks \subseteq Home(c)
    BY <1>5, <1>10
  <2>2. InHand(t)'
    <3>1. CASE full
      BY <3>1, <2>1, <1>8, <1>11, <1>15 DEF InHand
    <3>2. CASE ~ full
      BY <3>2, <1>8, <1>11 DEF InHand
    <3> QED BY <3>1, <3>2
  <2> QED BY <2>1, <2>2, <1>1, <1>11, <1>12, <1>15, HomeKept
<1>20. FetchOK' /\ HolderOK'
  <2>1. Fetching(t)'
    BY <1>8, <1>11 DEF Fetching
  <2>2. \A u \in Threads, e \in Sizes : u # t =>
          cache'[u][e] = cache[u][e] /\ _maxSize'[u][e] = _maxSize[u][e]
    BY <1>1, <1>12
  <2>3. FetchOK'
    BY <2>1, <2>2, <1>11, FetchKept
  <2>4. HolderOK'
    <3>1. /\ HolderOK /\ holder' = holder /\ pc[t] # "relLoop" /\ pc'[t] # "relLoop"
          /\ \A u \in Threads : u # t => pc'[u] = pc[u] /\ arg'[u] = arg[u]
      <4>1. HolderOK
        OBVIOUS
      <4>2. pc[t] = "free" /\ holder' = holder
        BY <1>1
      <4> QED BY ONLY <4>1, <4>2, <1>8, <1>11
    <3> QED BY ONLY <3>1, HolderKept, t \in Threads
  <2> QED BY <2>3, <2>4
<1> QED BY ONLY <1>14, <1>15, <1>16, <1>17, <1>18, <1>19, <1>20, Zenon DEF IInv

\* A thread takes the bucket's lock to return its blocks.
LEMMA RelLockIInv ==
  ASSUME IInv, NEW t \in Threads, RelLock(t)
  PROVE  IInv'
<1> USE SizesAssumption DEF IInv
<1>1. /\ pc[t] = "relLock" /\ Goto(t, "relLoop", arg[t])
      /\ UNCHANGED <<used, _objSize, _useCount, _freelist, _freelists, tls, cache,
                     _size, _maxSize, live>>
  BY DEF RelLock, heapVars, spanVars, cacheVars
<1>2. PICK c \in Sizes : arg[t].size = c
  BY <1>1 DEF AtHome, InHand
<1>3. holder[c] = NoThread /\ holder' = [holder EXCEPT ![c] = t]
  BY <1>2 DEF RelLock
<1>4. /\ pc'[t] = "relLoop" /\ arg'[t] = arg[t]
      /\ \A u \in Threads : u # t => pc'[u] = pc[u] /\ arg'[u] = arg[u]
      /\ pc' \in [Threads -> Labels] /\ arg' \in [Threads -> ArgType]
  <2>1. arg[t] \in ArgType
    BY DEF TypeOK, ArgType
  <2> QED BY <1>1, <2>1, GotoMoves DEF Labels
<1>5. OneHolder' /\ \A b : b \in Out' <=> b \in Out
  BY <1>1, <1>4, NothingMoves
<1>6. /\ RunsApart' /\ LinkedOK' /\ UnlinkedUnused' /\ UseCountExact'
      /\ \A d : Home(d)' = Home(d)
  BY <1>1, <1>5, SpansKept DEF heapVars, spanVars
<1>7. PrivateOK'
  <2>1. \A u \in Threads : pc'[u] \in {"link", "relPage"} => pc'[u] = pc[u] /\ arg'[u] = arg[u]
    BY <1>4
  <2> QED BY <2>1, <1>1, PrivateKept
<1>8. /\ holder'[c] = t /\ \A d \in Sizes : d # c => holder'[d] = holder[d]
      /\ holder' \in [Sizes -> Threads \cup {NoThread}]
  BY <1>3 DEF TypeOK
<1>9. TypeOK'
  BY <1>1, <1>4, <1>8 DEF TypeOK, ArgType
<1>10. CacheBounded'
  BY <1>1 DEF CacheBounded
<1>11. AtHome'
  <2>1. arg[t].blocks \subseteq Home(c)
    BY <1>1, <1>2 DEF AtHome, InHand
  <2>2. InHand(t)'
    BY <2>1, <1>2, <1>4, <1>6 DEF InHand
  <2>3. cache'[t][c] \subseteq Home(c)'
    BY <1>1, <1>6 DEF AtHome
  <2> QED BY <2>2, <2>3, <1>1, <1>4, HomeKept
<1>12. FetchOK'
  <2>1. Fetching(t)'
    BY <1>4 DEF Fetching
  <2> QED BY <2>1, <1>1, <1>4, FetchKept
<1>13. HolderOK'
  <2> SUFFICES ASSUME NEW d \in Sizes, NEW u \in Threads
               PROVE  holder'[d] = u <=> pc'[u] = "relLoop" /\ arg'[u].size = d
    BY DEF HolderOK
  <2>1. holder[d] = u <=> pc[u] = "relLoop" /\ arg[u].size = d
    BY DEF HolderOK
  <2>2. CASE d = c
    BY <2>1, <2>2, <1>2, <1>3, <1>4, <1>8
  <2>3. CASE d # c
    BY <2>1, <2>3, <1>1, <1>2, <1>4, <1>8
  <2> QED BY <2>2, <2>3
<1> QED BY <1>5, <1>6, <1>7, <1>9, <1>10, <1>11, <1>12, <1>13

\* The thread has returned its blocks and gives up the lock.
LEMMA RelDoneIInv ==
  ASSUME IInv, NEW t \in Threads, RelDone(t)
  PROVE  IInv'
<1> USE SizesAssumption DEF IInv
<1>1. /\ pc[t] = "relLoop" /\ arg[t].blocks = {} /\ Goto(t, "idle", NoArg)
      /\ UNCHANGED <<used, _objSize, _useCount, _freelist, _freelists, tls, cache,
                     _size, _maxSize, live>>
  BY DEF RelDone, heapVars, spanVars, cacheVars
<1>2. PICK c \in Sizes : arg[t].size = c
  BY <1>1 DEF AtHome, InHand
<1>3. holder' = [holder EXCEPT ![c] = NoThread] /\ holder[c] = t
  <2>1. holder' = [holder EXCEPT ![c] = NoThread]
    BY <1>2 DEF RelDone
  <2>2. holder[c] = t
    BY <1>1, <1>2 DEF HolderOK
  <2> QED BY <2>1, <2>2
<1>4. /\ pc'[t] = "idle" /\ arg'[t].blocks = {}
      /\ \A u \in Threads : u # t => pc'[u] = pc[u] /\ arg'[u] = arg[u]
      /\ pc' \in [Threads -> Labels] /\ arg' \in [Threads -> ArgType]
  <2>1. NoArg \in ArgType /\ NoArg.blocks = {}
    BY DEF NoArg, ArgType, Pages
  <2> QED BY <1>1, <2>1, GotoMoves DEF Labels
<1>5. OneHolder' /\ \A b : b \in Out' <=> b \in Out
  BY <1>1, <1>4, NothingMoves
<1>6. /\ RunsApart' /\ LinkedOK' /\ UnlinkedUnused' /\ UseCountExact'
      /\ \A d : Home(d)' = Home(d)
  BY <1>1, <1>5, SpansKept DEF heapVars, spanVars
<1>7. PrivateOK'
  <2>1. \A u \in Threads : pc'[u] \in {"link", "relPage"} => pc'[u] = pc[u] /\ arg'[u] = arg[u]
    BY <1>4
  <2> QED BY <2>1, <1>1, PrivateKept
<1>8. /\ holder'[c] = NoThread /\ \A d \in Sizes : d # c => holder'[d] = holder[d]
      /\ holder' \in [Sizes -> Threads \cup {NoThread}]
  BY <1>3 DEF TypeOK
<1>9. TypeOK'
  BY <1>1, <1>4, <1>8 DEF TypeOK, ArgType
<1>10. CacheBounded'
  BY <1>1 DEF CacheBounded
<1>11. AtHome'
  <2>1. InHand(t)'
    BY <1>4 DEF InHand
  <2>2. cache'[t][c] \subseteq Home(c)'
    BY <1>1, <1>6 DEF AtHome
  <2> QED BY <2>1, <2>2, <1>1, <1>4, HomeKept
<1>12. FetchOK'
  <2>1. Fetching(t)'
    BY <1>4 DEF Fetching
  <2> QED BY <2>1, <1>1, <1>4, FetchKept
<1>13. HolderOK'
  <2> SUFFICES ASSUME NEW d \in Sizes, NEW u \in Threads
               PROVE  holder'[d] = u <=> pc'[u] = "relLoop" /\ arg'[u].size = d
    BY DEF HolderOK
  <2>1. holder[d] = u <=> pc[u] = "relLoop" /\ arg[u].size = d
    BY DEF HolderOK
  <2>2. CASE d = c
    BY <2>1, <2>2, <1>3, <1>4, <1>8
  <2>3. CASE d # c
    BY <2>1, <2>3, <1>1, <1>2, <1>4, <1>8
  <2> QED BY <2>2, <2>3
<1> QED BY <1>5, <1>6, <1>7, <1>9, <1>10, <1>11, <1>12, <1>13

\* A span that is in no bucket goes back to the page cache.
LEMMA RelPageIInv ==
  ASSUME IInv, NEW t \in Threads, RelPage(t)
  PROVE  IInv'
<1> USE SizesAssumption DEF IInv
<1> DEFINE p == arg[t].span
           r == RunAt(p)
           a == [arg[t] EXCEPT !.span = 0]
<1>1. /\ pc[t] = "relPage" /\ used' = used \ {r} /\ Goto(t, "relLock", a)
      /\ UNCHANGED <<_objSize, _useCount, _freelist, _freelists, holder, tls, cache,
                     _size, _maxSize, live>>
  BY DEF RelPage, spanVars, cacheVars
<1>2. r \in used /\ r.id = p /\ ~ Linked(p)
  <2>1. \E s \in used : s.id = p
    BY <1>1 DEF PrivateOK
  <2> HIDE DEF p
  <2>2. r \in used /\ r.id = p
    BY <2>1 DEF RunAt
  <2> QED BY <2>2, <1>1 DEF PrivateOK, p
<1>3. /\ a.size = arg[t].size /\ a.blocks = arg[t].blocks /\ a \in ArgType
  <2>1. 0 \in Pages
    BY DEF Pages
  <2>2. arg[t] \in ArgType
    BY DEF TypeOK, ArgType
  <2> QED BY ONLY <2>1, <2>2, ArgWithSpan
<1> HIDE DEF r, a
<1>4. /\ pc'[t] = "relLock" /\ arg'[t] = a
      /\ \A u \in Threads : u # t => pc'[u] = pc[u] /\ arg'[u] = arg[u]
      /\ pc' \in [Threads -> Labels] /\ arg' \in [Threads -> ArgType]
  BY <1>1, <1>3, GotoMoves DEF Labels
<1>5. OneHolder' /\ \A b : b \in Out' <=> b \in Out
  BY <1>1, <1>3, <1>4, NothingMoves
<1>6. \A d \in Sizes : Home(d)' = Home(d)
  BY <1>1 DEF Home
<1>7. \A q : Linked(q)' <=> Linked(q)
  BY <1>1 DEF Linked
<1>8. RunsApart' /\ LinkedOK' /\ UnlinkedUnused' /\ UseCountExact'
  <2>1. RunsApart'
    BY <1>1 DEF RunsApart
  <2>2. LinkedOK'
    BY <1>1, <1>2 DEF LinkedOK, Linked
  <2>3. UnlinkedUnused'
    BY <1>1, <1>7 DEF UnlinkedUnused
  <2>4. Out' = Out
    BY <1>5
  <2>5. UseCountExact'
    BY <2>4, <1>1 DEF UseCountExact
  <2> QED BY <2>1, <2>2, <2>3, <2>5
<1>9. PrivateOK'
  <2>1. \A u \in Threads : pc'[u] \in {"link", "relPage"} =>
          u # t /\ pc'[u] = pc[u] /\ arg'[u] = arg[u] /\ arg[u].span # p
    BY <1>1, <1>4 DEF PrivateOK
  <2> QED BY <2>1, <1>1, <1>2, <1>7 DEF PrivateOK
<1>10. TypeOK'
  BY <1>1, <1>4 DEF TypeOK, ArgType
<1>11. CacheBounded'
  BY <1>1 DEF CacheBounded
<1>12. PICK c \in Sizes : arg[t].size = c
  BY <1>1 DEF AtHome, InHand
<1>13. AtHome'
  <2>1. arg[t].blocks \subseteq Home(c)
    BY <1>1, <1>12 DEF AtHome, InHand
  <2>2. InHand(t)'
    BY <2>1, <1>3, <1>4, <1>6, <1>12 DEF InHand
  <2>3. cache'[t][c] \subseteq Home(c)'
    BY <1>1, <1>6 DEF AtHome
  <2> QED BY <2>2, <2>3, <1>1, <1>4, HomeKept
<1>14. FetchOK' /\ HolderOK'
  <2>1. Fetching(t)'
    BY <1>4 DEF Fetching
  <2> QED BY <2>1, <1>1, <1>4, FetchKept, HolderKept
<1> QED BY <1>5, <1>8, <1>9, <1>10, <1>11, <1>13, <1>14

\* A block goes back into its span, and the last one back takes the span out of
\* its bucket.
LEMMA RelPutIInv ==
  ASSUME IInv, NEW t \in Threads, RelPut(t)
  PROVE  IInv'
<1> USE SizesAssumption DEF IInv
<1>1. /\ pc[t] = "relLoop"
      /\ UNCHANGED <<used, _objSize, tls, cache, _size, _maxSize, live>>
  BY DEF RelPut, heapVars, cacheVars
<1>2. PICK c \in Sizes : arg[t].size = c
  BY <1>1 DEF AtHome, InHand
<1>3. PICK b \in arg[t].blocks :
        LET p    == MapToSpan(b)
            rest == [arg[t] EXCEPT !.blocks = @ \ {b}]
        IN  /\ _useCount' = [_useCount EXCEPT ![p] = @ - 1]
            /\ IF _useCount[p] = 1
               THEN /\ _freelists' = [_freelists EXCEPT ![c] = @ \ {p}]
                    /\ _freelist' = [_freelist EXCEPT ![p] = {}]
                    /\ holder' = [holder EXCEPT ![c] = NoThread]
                    /\ Goto(t, "relPage", [rest EXCEPT !.span = p])
               ELSE /\ _freelist' = [_freelist EXCEPT ![p] = @ \cup {b}]
                    /\ Goto(t, "relLoop", rest)
                    /\ UNCHANGED <<_freelists, holder>>
  BY <1>2 DEF RelPut
<1>4. \E q \in _freelists[c] : b \in Blocks(q, c)
  BY <1>1, <1>2 DEF AtHome, InHand, Home
<1>5. PICK p \in _freelists[c] : b \in Blocks(p, c)
  BY <1>4
<1>6. /\ MapToSpan(b) = p /\ p \in Pages /\ SpanRun(p, c) \in used /\ _objSize[p] = c
      /\ IsFiniteSet(Blocks(p, c)) /\ \A d \in Sizes : p \in _freelists[d] => d = c
  BY <1>5, LinkedSpan
<1> DEFINE out  == Blocks(p, c) \cap Out
           rest == [arg[t] EXCEPT !.blocks = arg[t].blocks \ {b}]
           last == _useCount[p] = 1
           a    == IF last THEN [rest EXCEPT !.span = p] ELSE rest
           label == IF last THEN "relPage" ELSE "relLoop"
<1>7. /\ b \in out /\ IsFiniteSet(out) /\ _useCount[p] = Cardinality(out)
      /\ Cardinality(out \ {b}) = _useCount[p] - 1 /\ _useCount[p] - 1 \in Nat
  <2>1. b \in out /\ _useCount[p] = Cardinality(out)
    BY <1>5, OutMembers DEF OutIs, UseCountExact
  <2>2. IsFiniteSet(out)
    <3>1. out \subseteq Blocks(p, c)
      OBVIOUS
    <3> QED BY <3>1, <1>6, FS_Subset
  <2> HIDE DEF out
  <2>3. IsFiniteSet(out \ {b}) /\ Cardinality(out \ {b}) = Cardinality(out) - 1
    BY <2>1, <2>2, FS_RemoveElement
  <2>4. Cardinality(out \ {b}) \in Nat
    BY <2>3, FS_CardinalityType
  <2> QED BY <2>1, <2>2, <2>3, <2>4
<1>8. /\ Goto(t, label, a) /\ _useCount' = [_useCount EXCEPT ![p] = _useCount[p] - 1]
      /\ last => /\ _freelists' = [_freelists EXCEPT ![c] = _freelists[c] \ {p}]
                 /\ _freelist' = [_freelist EXCEPT ![p] = {}]
                 /\ holder' = [holder EXCEPT ![c] = NoThread]
      /\ ~ last => /\ _freelist' = [_freelist EXCEPT ![p] = _freelist[p] \cup {b}]
                   /\ UNCHANGED <<_freelists, holder>>
  BY <1>3, <1>6
<1>9. /\ a.size = c /\ a.blocks = arg[t].blocks \ {b} /\ a \in ArgType
      /\ last => a.span = p
      /\ label \in Labels /\ label = (IF last THEN "relPage" ELSE "relLoop")
  <2>1. arg[t] \in ArgType /\ arg[t].blocks \ {b} \in SUBSET Addresses
    BY DEF TypeOK, ArgType
  <2>2. rest \in ArgType /\ rest.size = c /\ rest.blocks = arg[t].blocks \ {b}
    BY <2>1, <1>2 DEF ArgType
  <2> HIDE DEF rest
  <2>3. LET r == [rest EXCEPT !.span = p]
        IN  r \in ArgType /\ r.size = c /\ r.blocks = arg[t].blocks \ {b} /\ r.span = p
    BY <2>2, <1>6 DEF ArgType
  <2> HIDE DEF last
  <2> QED BY <2>2, <2>3 DEF Labels
<1> HIDE DEF a, label, rest
<1>10. /\ pc'[t] = label /\ arg'[t] = a
       /\ \A u \in Threads : u # t => pc'[u] = pc[u] /\ arg'[u] = arg[u]
       /\ pc' \in [Threads -> Labels] /\ arg' \in [Threads -> ArgType]
  BY <1>8, <1>9, GotoMoves
<1>11. OneHolder' /\ \A x : x \in Out' <=> x \in Out /\ x # b
  <2>1. b \notin cache[t][c] /\ b \notin live
    BY DEF OneHolder
  <2>2. /\ cache'[t][c] \cap arg'[t].blocks = {} /\ cache'[t][c] \cap live' = {}
        /\ arg'[t].blocks \cap live' = {}
    BY <1>1, <1>9, <1>10 DEF OneHolder
  <2>3. \A x : x \in arg'[t].blocks <=> x \in arg[t].blocks /\ x # b
    BY <1>9, <1>10
  <2>4. /\ OneHolder'
        /\ \A x : x \in Out' <=>
             \/ x \in cache'[t][c] \/ x \in arg'[t].blocks \/ x \in live'
             \/ x \in Out /\ x \notin cache[t][c] /\ x \notin arg[t].blocks /\ x \notin live
    BY <2>2, <2>3, <1>1, <1>10, HoldersMove
  <2> QED BY <2>1, <2>3, <2>4, <1>1, OutMembers DEF OutIs
<1>12. /\ \A q \in Pages : q # p => _freelist'[q] = _freelist[q] /\ _useCount'[q] = _useCount[q]
       /\ _useCount'[p] = _useCount[p] - 1
       /\ _freelist'[p] = IF last THEN {} ELSE _freelist[p] \cup {b}
       /\ _freelist' \in [Pages -> SUBSET Addresses] /\ _useCount' \in [Pages -> Nat]
  <2>1. b \in Addresses
    BY DEF TypeOK
  <2>2. /\ _freelist \in [Pages -> SUBSET Addresses] /\ _useCount \in [Pages -> Nat]
        /\ _freelist[p] \cup {b} \in SUBSET Addresses
    BY <2>1, <1>6 DEF TypeOK
  <2>3. PICK list \in SUBSET Addresses :
          /\ list = (IF last THEN {} ELSE _freelist[p] \cup {b})
          /\ _freelist' = [_freelist EXCEPT ![p] = list]
    BY <2>2, <1>8
  <2>4. /\ \A q \in Pages : q # p => _freelist'[q] = _freelist[q]
        /\ _freelist'[p] = list /\ _freelist' \in [Pages -> SUBSET Addresses]
    BY <2>2, <2>3, <1>6
  <2>5. /\ \A q \in Pages : q # p => _useCount'[q] = _useCount[q]
        /\ _useCount'[p] = _useCount[p] - 1 /\ _useCount' \in [Pages -> Nat]
    BY <2>2, <1>6, <1>7, <1>8
  <2> QED BY <2>3, <2>4, <2>5
<1>13. /\ \A d \in Sizes : \A q : q \in _freelists'[d] <=> q \in _freelists[d] /\ ~ (last /\ q = p)
       /\ _freelists' \in [Sizes -> SUBSET Pages]
  <2> HIDE DEF last
  <2>1. CASE last
    <3>1. _freelists' = [_freelists EXCEPT ![c] = _freelists[c] \ {p}]
      BY <2>1, <1>8
    <3>2. _freelists \in [Sizes -> SUBSET Pages] /\ _freelists[c] \ {p} \in SUBSET Pages
      BY DEF TypeOK
    <3>3. /\ _freelists' \in [Sizes -> SUBSET Pages] /\ _freelists'[c] = _freelists[c] \ {p}
          /\ \A d \in Sizes : d # c => _freelists'[d] = _freelists[d]
      BY <3>1, <3>2
    <3>4. \A d \in Sizes : d # c => p \notin _freelists[d]
      BY <1>6
    <3> QED BY <2>1, <3>3, <3>4
  <2>2. CASE ~ last
    BY <2>2, <1>8 DEF TypeOK
  <2> QED BY <2>1, <2>2
<1>14. \A q : Linked(q)' <=> Linked(q) /\ ~ (last /\ q = p)
  BY <1>13 DEF Linked
<1>15. RunsApart' /\ LinkedOK'
  BY <1>1, <1>13 DEF RunsApart, LinkedOK
<1>16. UnlinkedUnused'
  <2>1. last => _useCount'[p] = 0
    BY <1>12
  <2>2. Linked(p)
    BY DEF Linked
  <2> HIDE DEF last
  <2> QED BY <2>1, <2>2, <1>12, <1>14 DEF UnlinkedUnused
<1>17. \A d \in Sizes : \A q \in _freelists[d] : q # p =>
         b \notin Blocks(q, d) /\ Blocks(q, d) \cap Out' = Blocks(q, d) \cap Out
  <2> SUFFICES ASSUME NEW d \in Sizes, NEW q \in _freelists[d], q # p
               PROVE  b \notin Blocks(q, d) /\ Blocks(q, d) \cap Out' = Blocks(q, d) \cap Out
    OBVIOUS
  <2>1. b \notin Blocks(q, d)
    BY <1>5, HomeIsOne
  <2> QED BY <2>1, <1>11
<1>18. UseCountExact'
  <2> SUFFICES ASSUME NEW d \in Sizes, NEW q \in _freelists'[d]
               PROVE  /\ _freelist'[q] = Blocks(q, d) \ (Blocks(q, d) \cap Out')
                      /\ _useCount'[q] = Cardinality(Blocks(q, d) \cap Out')
                      /\ _objSize'[q] = d
    BY DEF UseCountExact
  <2>1. q \in _freelists[d] /\ ~ (last /\ q = p) /\ q \in Pages
    BY <1>13
  <2>2. /\ _freelist[q] = Blocks(q, d) \ (Blocks(q, d) \cap Out)
        /\ _useCount[q] = Cardinality(Blocks(q, d) \cap Out) /\ _objSize[q] = d
    BY <2>1 DEF UseCountExact
  <2>3. CASE q = p
    <3>1. d = c /\ ~ last
      BY <2>1, <2>3, <1>6
    <3>2. Blocks(p, c) \cap Out' = out \ {b}
      BY <1>11
    <3>3. _freelist'[p] = Blocks(p, c) \ (out \ {b})
      BY <2>2, <2>3, <3>1, <1>5, <1>12
    <3> HIDE DEF out, last
    <3> QED BY <2>2, <2>3, <3>1, <3>2, <3>3, <1>1, <1>7, <1>12
  <2>4. CASE q # p
    <3>1. Blocks(q, d) \cap Out' = Blocks(q, d) \cap Out
      BY <2>1, <2>4, <1>17
    <3> HIDE DEF last, out
    <3> QED BY <2>1, <2>2, <2>4, <3>1, <1>1, <1>12
  <2> QED BY <2>3, <2>4
<1>19. PrivateOK'
  <2> HIDE DEF last
  <2>1. \A u \in Threads : u # t /\ pc'[u] \in {"link", "relPage"} =>
          /\ pc'[u] = pc[u] /\ arg'[u] = arg[u]
          /\ arg[u].span # p /\ arg[u].span \in Pages
    <3>1. \A u \in Threads : pc[u] \in {"link", "relPage"} => ~ Linked(arg[u].span)
      BY DEF PrivateOK
    <3>2. Linked(p) /\ \A u \in Threads : arg[u].span \in Pages
      BY DEF Linked, TypeOK
    <3> QED BY <3>1, <3>2, <1>10
  <2>2. pc'[t] # "link"
    BY <1>9, <1>10
  <2>3. pc'[t] = "relPage" =>
          /\ arg'[t].span = p /\ ~ Linked(p)' /\ \E r \in used' : r.id = p
    BY <1>1, <1>6, <1>9, <1>10, <1>14 DEF SpanRun
  <2>4. \A u \in Threads : pc'[u] = "link" =>
          /\ u # t /\ pc[u] = "link" /\ arg'[u] = arg[u] /\ arg[u].span # p /\ arg[u].span \in Pages
    BY <2>1, <2>2
  <2> QED BY <2>1, <2>2, <2>3, <2>4, <1>1, <1>12, <1>14 DEF PrivateOK
<1>20. /\ holder' \in [Sizes -> Threads \cup {NoThread}]
       /\ \A d \in Sizes : holder'[d] = IF last /\ d = c THEN NoThread ELSE holder[d]
  <2> HIDE DEF last
  <2>1. CASE last
    BY <2>1, <1>8 DEF TypeOK
  <2>2. CASE ~ last
    BY <2>2, <1>8 DEF TypeOK
  <2> QED BY <2>1, <2>2
<1>21. TypeOK'
  BY <1>1, <1>10, <1>12, <1>13, <1>20 DEF TypeOK, ArgType
<1>22. CacheBounded'
  BY <1>1 DEF CacheBounded
<1>23. FetchOK'
  <2>1. Fetching(t)'
    BY <1>9, <1>10 DEF Fetching
  <2> QED BY <2>1, <1>1, <1>10, FetchKept
<1>24. HolderOK'
  <2> SUFFICES ASSUME NEW d \in Sizes, NEW u \in Threads
               PROVE  holder'[d] = u <=> pc'[u] = "relLoop" /\ arg'[u].size = d
    BY DEF HolderOK
  <2>1. holder[d] = u <=> pc[u] = "relLoop" /\ arg[u].size = d
    BY DEF HolderOK
  <2>2. holder[c] = t
    BY <1>1, <1>2 DEF HolderOK
  <2> HIDE DEF last
  <2>3. CASE u = t
    BY <2>1, <2>2, <2>3, <1>1, <1>2, <1>9, <1>10, <1>20
  <2>4. CASE u # t
    BY <2>1, <2>2, <2>4, <1>1, <1>2, <1>10, <1>20
  <2> QED BY <2>3, <2>4
<1>25. AtHome'
  <2>1. \A d \in Sizes : \A x : x \in Home(d) /\ x \in Out' => x \in Home(d)'
    <3> SUFFICES ASSUME NEW d \in Sizes, NEW q \in _freelists[d], NEW x \in Blocks(q, d), x \in Out'
                 PROVE  q \in _freelists'[d]
      BY DEF Home
    <3>1. CASE last /\ q = p
      <4>1. d = c /\ x \in out \ {b}
        BY <3>1, <1>6, <1>11
      <4>2. Cardinality(out \ {b}) = 0 /\ IsFiniteSet(out \ {b})
        BY <3>1, <1>7, FS_RemoveElement
      <4>3. out \ {b} = {}
        BY <4>2, FS_EmptySet
      <4> QED BY <4>1, <4>3
    <3> QED BY <3>1, <1>13
  <2>2. OutIs'
    BY OutMembers, PTL
  <2>3. \A u \in Threads, d \in Sizes : cache'[u][d] \subseteq Home(d)'
    BY <2>1, <2>2, <1>1 DEF OutIs, AtHome
  <2>4. \A x \in live' : \E d \in Sizes : x \in Home(d)'
    BY <2>1, <2>2, <1>1 DEF OutIs, AtHome
  <2>5. ASSUME NEW u \in Threads PROVE InHand(u)'
    <3>1. CASE u = t
      <4>1. arg[t].blocks \subseteq Home(c)
        BY <1>1, <1>2 DEF AtHome, InHand
      <4>2. arg'[t].blocks \subseteq Home(c)'
        BY <2>1, <2>2, <4>1, <1>9, <1>10 DEF OutIs
      <4> QED BY <3>1, <4>2, <1>9, <1>10 DEF InHand
    <3>2. CASE u # t /\ pc[u] = "free"
      <4>1. PICK d \in Sizes : \E x \in Blocks(arg[u].span, d) :
                                 arg[u].span \in _freelists[d] /\ arg[u].blocks = {x}
        BY <3>2 DEF AtHome, InHand
      <4>2. PICK x \in Blocks(arg[u].span, d) :
              arg[u].span \in _freelists[d] /\ arg[u].blocks = {x}
        BY <4>1
      <4>3. x \in Home(d) /\ x \in Out'
        BY <3>2, <4>2, <2>2, <1>10 DEF Home, OutIs
      <4>4. PICK q \in _freelists'[d] : x \in Blocks(q, d)
        BY <4>3, <2>1 DEF Home
      <4>5. q = arg[u].span
        BY <4>2, <4>4, <1>13, HomeIsOne
      <4> QED BY <3>2, <4>2, <4>4, <4>5, <1>10 DEF InHand
    <3>3. CASE u # t /\ pc[u] \in {"relLock", "relLoop", "relPage"}
      <4>1. PICK d \in Sizes : arg[u].size = d
        BY <3>3 DEF AtHome, InHand
      <4>2. arg[u].blocks \subseteq Home(d)
        BY <3>3, <4>1 DEF AtHome, InHand
      <4>3. arg'[u].blocks \subseteq Home(d)'
        BY <3>3, <4>2, <2>1, <2>2, <1>10 DEF OutIs
      <4> QED BY <3>3, <4>1, <4>3, <1>10 DEF InHand
    <3>4. CASE u # t /\ pc[u] \in {"idle", "fetch", "grow", "link"}
      BY <3>4, <1>10 DEF AtHome, InHand
    <3> QED BY <3>1, <3>2, <3>3, <3>4 DEF TypeOK, Labels
  <2> QED BY <2>3, <2>4, <2>5 DEF AtHome
<1> QED BY <1>11, <1>15, <1>16, <1>18, <1>19, <1>21, <1>22, <1>23, <1>24, <1>25

-----------------------------------------------------------------------------
(* The invariants                                                            *)

\* At first no page is handed out and every list is empty.
LEMMA InitIInv == Init => IInv
<1> SUFFICES ASSUME Init PROVE IInv
  OBVIOUS
<1> USE SizesAssumption DEF Init
<1>1. 0 \in Pages /\ NoArg \in ArgType
  <2>1. 0 \in Pages
    BY DEF Pages
  <2> QED BY <2>1 DEF NoArg, ArgType
<1>2. \A p : ~ Linked(p)
  BY DEF Linked
<1>3. TypeOK
  BY <1>1 DEF TypeOK, ArgType, Labels
<1>4. RunsApart /\ LinkedOK /\ PrivateOK /\ UnlinkedUnused /\ UseCountExact
  BY <1>2 DEF RunsApart, LinkedOK, PrivateOK, UnlinkedUnused, UseCountExact
<1>5. AtHome /\ FetchOK
  BY DEF AtHome, InHand, NoArg, FetchOK, Fetching
<1>6. HolderOK
  BY DEF HolderOK
<1>7. OneHolder
  BY DEF OneHolder, NoArg
<1>8. CacheBounded
  BY FS_EmptySet DEF CacheBounded
<1> QED BY <1>3, <1>4, <1>5, <1>6, <1>7, <1>8 DEF IInv

\* The inductive invariant holds of every state of the allocator.
THEOREM Invariance == Spec => []IInv
<1>1. Init => IInv
  BY InitIInv
<1>2. IInv /\ [Next]_vars => IInv'
  <2> SUFFICES ASSUME IInv, [Next]_vars PROVE IInv'
    OBVIOUS
  <2>1. ASSUME NEW t \in Threads, NEW c \in Sizes, AllocateHit(t, c) PROVE IInv'
    BY <2>1, AllocateHitIInv
  <2>2. ASSUME NEW t \in Threads, NEW c \in Sizes, AllocateMiss(t, c) PROVE IInv'
    BY <2>2, AllocateMissIInv
  <2>3. ASSUME NEW t \in Threads, FreeLookup(t) PROVE IInv'
    BY <2>3, FreeLookupIInv
  <2>4. ASSUME NEW t \in Threads, Step(t) PROVE IInv'
    <3>1. CASE FetchHit(t)
      BY <3>1, FetchHitIInv
    <3>2. CASE FetchNone(t)
      BY <3>2, FetchNoneIInv
    <3>3. CASE GrowSpan(t)
      BY <3>3, GrowSpanIInv
    <3>4. CASE LinkSpan(t)
      BY <3>4, LinkSpanIInv
    <3>5. CASE FreePush(t)
      BY <3>5, FreePushIInv
    <3>6. CASE RelLock(t)
      BY <3>6, RelLockIInv
    <3>7. CASE RelPut(t)
      BY <3>7, RelPutIInv
    <3>8. CASE RelPage(t)
      BY <3>8, RelPageIInv
    <3>9. CASE RelDone(t)
      BY <3>9, RelDoneIInv
    <3> QED BY <2>4, <3>1, <3>2, <3>3, <3>4, <3>5, <3>6, <3>7, <3>8, <3>9 DEF Step
  <2>5. CASE UNCHANGED vars
    <3>1. UNCHANGED <<used, _objSize, _useCount, _freelist, _freelists, holder, tls, cache,
                      _size, _maxSize, live, pc, arg>>
      BY <2>5 DEF vars, heapVars, spanVars, cacheVars
    <3>2. OneHolder /\ (OneHolder' /\ \A b : b \in Out' <=> b \in Out)
      BY <3>1, NothingMoves DEF IInv
    <3>3. RunsApart' /\ LinkedOK' /\ UnlinkedUnused' /\ UseCountExact' /\ \A c : Home(c)' = Home(c)
      BY <3>1, <3>2, SpansKept DEF IInv, heapVars, spanVars
    <3>4. PrivateOK'
      BY <3>1, PrivateKept DEF IInv
    <3>5. TypeOK' /\ CacheBounded' /\ HolderOK'
      BY <3>1 DEF IInv, TypeOK, CacheBounded, HolderOK
    <3>6. AtHome' /\ FetchOK'
      BY <3>1, <3>3 DEF IInv, AtHome, InHand, FetchOK, Fetching
    <3> QED BY <3>2, <3>3, <3>4, <3>5, <3>6 DEF IInv
  <2> QED BY <2>1, <2>2, <2>3, <2>4, <2>5 DEF Next
<1> QED BY <1>1, <1>2, PTL DEF Spec

\* Every variable has its type.
THEOREM TypeCorrect == Spec => []TypeOK
<1>1. IInv => TypeOK
  BY DEF IInv
<1> QED BY <1>1, Invariance, PTL

\* _useCount of a linked span counts the blocks it has given out, and its list
\* holds the others: ReleaseBackSpan releases a span neither early nor never.
THEOREM UseCounted == Spec => []UseCountExact
<1>1. IInv => UseCountExact
  BY DEF IInv
<1> QED BY <1>1, Invariance, PTL

\* No block is in two places: ConCurrentAlloc returns no block twice, and no
\* block is lost between two lists.
THEOREM EachBlockOnce == Spec => []OneHolder
<1>1. IInv => OneHolder
  BY DEF IInv
<1> QED BY <1>1, Invariance, PTL

\* The list of a thread stays below its _maxSize and _size is its length.
THEOREM SlowStart == Spec => []CacheBounded
<1>1. IInv => CacheBounded
  BY DEF IInv
<1> QED BY <1>1, Invariance, PTL

\* A block that is out lies in a span that is handed out and not on its way
\* back to the page cache.
THEOREM SpansOutlive == Spec => []OutBlocksHaveSpan
<1>1. IInv => OutBlocksHaveSpan
  <2> SUFFICES ASSUME IInv, NEW b \in Out
               PROVE  /\ \E r \in used : b \div PageBytes \in Heap!PagesOf(r)
                      /\ \A t \in Threads : pc[t] = "relPage" => MapToSpan(b) # arg[t].span
    BY DEF OutBlocksHaveSpan
  <2> USE DEF IInv
  <2>1. PICK c \in Sizes : \E p \in _freelists[c] : b \in Blocks(p, c)
    BY OutIsHome
  <2>2. PICK p \in _freelists[c] : b \in Blocks(p, c)
    BY <2>1
  <2>3. SpanRun(p, c) \in used /\ Linked(p)
    BY LinkedSpan DEF Linked
  <2>4. b \div PageBytes \in Heap!PagesOf(SpanRun(p, c)) /\ MapToSpan(b) = p
    BY <2>2, <2>3, MapFinds
  <2>5. \A t \in Threads : pc[t] = "relPage" => arg[t].span # p
    BY <2>3 DEF PrivateOK
  <2> QED BY <2>3, <2>4, <2>5
<1> QED BY <1>1, Invariance, PTL

\* The size a freeing thread reads from the span without a lock is the size the
\* block was cut with.
THEOREM OwnSize == Spec => []FreedAtOwnSize
<1>1. IInv => FreedAtOwnSize
  <2> SUFFICES ASSUME IInv, NEW t \in Threads, pc[t] = "free"
               PROVE  /\ _objSize[arg[t].span] \in Sizes
                      /\ arg[t].blocks \subseteq Blocks(arg[t].span, _objSize[arg[t].span])
    BY DEF FreedAtOwnSize
  <2>1. PICK c \in Sizes : \E b \in Blocks(arg[t].span, c) :
                             arg[t].span \in _freelists[c] /\ arg[t].blocks = {b}
    BY DEF IInv, AtHome, InHand
  <2>2. _objSize[arg[t].span] = c
    BY <2>1 DEF IInv, LinkedOK
  <2> QED BY <2>1, <2>2
<1> QED BY <1>1, Invariance, PTL

-----------------------------------------------------------------------------
(* The bucket lock                                                           *)

\* FetchRangObj by another thread is stopped by the lock in its own bucket, and
\* in another bucket it takes from another span.
LEMMA TakeLeaves ==
  ASSUME NEW t, NEW p, TakeFrom(t, p), NEW q, q # p
  PROVE  _freelist'[q] = _freelist[q]
<1>1. \E free : _freelist' = [_freelist EXCEPT ![p] = free]
  BY DEF TakeFrom, Take
<1> QED BY <1>1

\* While a thread stays in ReleaseBackSpan's loop no step of another thread
\* changes the bucket it has locked, or the list of a span in it.
THEOREM BucketHeld == Spec => BucketOwned
<1> DEFINE Owned ==
      \A c \in Sizes, t \in Threads : (holder[c] = t /\ pc'[t] = pc[t] /\ arg'[t] = arg[t]) =>
        /\ _freelists'[c] = _freelists[c]
        /\ \A p \in _freelists[c] : _freelist'[p] = _freelist[p]
<1>1. IInv /\ [Next]_vars => Owned
  <2> SUFFICES ASSUME IInv, [Next]_vars, NEW c \in Sizes, NEW t \in Threads,
                      holder[c] = t, pc'[t] = pc[t], arg'[t] = arg[t]
               PROVE  /\ _freelists'[c] = _freelists[c]
                      /\ \A p \in _freelists[c] : _freelist'[p] = _freelist[p]
    OBVIOUS
  <2>1. pc[t] = "relLoop" /\ arg[t].size = c /\ holder[c] # NoThread
    BY SizesAssumption DEF IInv, HolderOK
  <2>2. \A u \in Threads : pc[u] = "relLoop" /\ u # t => arg[u].size # c
    BY <2>1 DEF IInv, HolderOK
  <2>3. ASSUME NEW u \in Threads, NEW d \in Sizes, AllocateHit(u, d) \/ AllocateMiss(u, d)
        PROVE  UNCHANGED <<_freelist, _freelists>>
    BY ONLY <2>3, Zenon DEF AllocateHit, AllocateMiss, spanVars
  <2>4. ASSUME NEW u \in Threads, \/ FreeLookup(u) \/ FetchNone(u) \/ FreePush(u) \/ RelLock(u)
                                  \/ RelPage(u) \/ RelDone(u)
        PROVE  UNCHANGED <<_freelist, _freelists>>
    BY ONLY <2>4, Zenon DEF FreeLookup, FetchNone, FreePush, RelLock, RelPage, RelDone, spanVars
  <2> USE DEF IInv
  <2>5. ASSUME NEW u \in Threads, FetchHit(u)
        PROVE  /\ _freelists'[c] = _freelists[c]
               /\ \A q \in _freelists[c] : _freelist'[q] = _freelist[q]
    <3>1. PICK d \in Sizes : arg[u].size = d
      BY <2>5 DEF FetchHit, FetchOK, Fetching
    <3>2. d # c /\ _freelists' = _freelists
      BY <2>1, <2>5, <3>1 DEF FetchHit
    <3>3. PICK p \in _freelists[d] : TakeFrom(u, p)
      BY <2>5, <3>1 DEF FetchHit, TakeFrom
    <3>4. \A q \in _freelists[c] : q # p
      BY <3>2, LinkedSpan
    <3> QED BY <3>2, <3>3, <3>4, TakeLeaves
  <2>6. ASSUME NEW u \in Threads, LinkSpan(u)
        PROVE  /\ _freelists'[c] = _freelists[c]
               /\ \A q \in _freelists[c] : _freelist'[q] = _freelist[q]
    <3> DEFINE p == arg[u].span
    <3>1. PICK d \in Sizes : arg[u].size = d
      BY <2>6 DEF LinkSpan, FetchOK, Fetching
    <3>2. d # c
      BY <2>1, <2>6, <3>1 DEF LinkSpan
    <3>3. _freelists' = [_freelists EXCEPT ![d] = _freelists[d] \cup {p}]
      BY <2>6, <3>1 DEF LinkSpan
    <3>4. _freelists'[c] = _freelists[c]
      BY <3>2, <3>3 DEF TypeOK
    <3>5. TakeFrom(u, p)
      BY <2>6 DEF LinkSpan, TakeFrom
    <3>6. \A q \in _freelists[c] : q # p
      BY <2>6 DEF LinkSpan, PrivateOK, Linked
    <3> HIDE DEF p
    <3> QED BY <3>4, <3>5, <3>6, TakeLeaves
  <2>7. ASSUME NEW u \in Threads, GrowSpan(u)
        PROVE  /\ _freelists'[c] = _freelists[c]
               /\ \A q \in _freelists[c] : _freelist'[q] = _freelist[q]
    <3>1. PICK run \in used' \ used : \E s : _freelist' = [_freelist EXCEPT ![run.id] = s]
      BY <2>7 DEF GrowSpan
    <3>2. PICK new \in Heap!Runs : /\ \A r \in used : ~ Heap!Overlap(r, new)
                                   /\ used' = used \cup {new}
      BY <2>7 DEF GrowSpan, Heap!NewSpan
    <3>3. run = new
      BY <3>2
    <3>4. \A q \in _freelists[c] : q # run.id
      <4> SUFFICES ASSUME NEW q \in _freelists[c], q = run.id PROVE FALSE
        OBVIOUS
      <4>1. SpanRun(q, c) \in used /\ q \in Nat
        BY LinkedSpan
      <4>2. new.n \in Nat \ {0} /\ NumMovePages[c] \in Nat \ {0}
        BY SizesAssumption DEF Heap!Runs
      <4>3. Heap!Overlap(SpanRun(q, c), new)
        BY <3>3, <4>1, <4>2 DEF Heap!Overlap, SpanRun
      <4> QED BY <3>2, <4>1, <4>3
    <3> QED BY <2>7, <3>1, <3>4 DEF GrowSpan
  <2>8. ASSUME NEW u \in Threads, RelPut(u)
        PROVE  /\ _freelists'[c] = _freelists[c]
               /\ \A q \in _freelists[c] : _freelist'[q] = _freelist[q]
    <3>1. PICK b \in arg[u].blocks :
            /\ arg'[u].blocks = arg[u].blocks \ {b}
            /\ \/ _freelists' = _freelists
               \/ _freelists' = [_freelists EXCEPT ![arg[u].size] = @ \ {MapToSpan(b)}]
            /\ \E s : _freelist' = [_freelist EXCEPT ![MapToSpan(b)] = s]
      <4>1. PICK b \in arg[u].blocks :
              LET rest == [arg[u] EXCEPT !.blocks = @ \ {b}]
              IN  /\ \/ _freelists' = _freelists /\ Goto(u, "relLoop", rest)
                     \/ /\ _freelists' = [_freelists EXCEPT ![arg[u].size] = @ \ {MapToSpan(b)}]
                        /\ Goto(u, "relPage", [rest EXCEPT !.span = MapToSpan(b)])
                  /\ \E s : _freelist' = [_freelist EXCEPT ![MapToSpan(b)] = s]
        BY <2>8 DEF RelPut
      <4> DEFINE rest == [arg[u] EXCEPT !.blocks = @ \ {b}]
                 moved == [rest EXCEPT !.span = MapToSpan(b)]
      <4>2. rest.blocks = arg[u].blocks \ {b} /\ moved.blocks = arg[u].blocks \ {b}
        BY DEF TypeOK
      <4>3. arg'[u] = rest \/ arg'[u] = moved
        BY <4>1 DEF Goto, TypeOK
      <4> HIDE DEF rest, moved
      <4> QED BY <4>1, <4>2, <4>3
    <3>2. u # t
      BY <3>1
    <3>3. PICK d \in Sizes : arg[u].size = d
      BY <2>8 DEF RelPut, AtHome, InHand
    <3>4. d # c
      BY <2>2, <2>8, <3>2, <3>3 DEF RelPut
    <3>5. \E p \in _freelists[d] : b \in Blocks(p, d)
      BY <2>8, <3>3 DEF RelPut, AtHome, InHand, Home
    <3>6. MapToSpan(b) \in _freelists[d]
      BY <3>5, LinkedSpan
    <3>7. \A q \in _freelists[c] : q # MapToSpan(b)
      BY <3>4, <3>6, LinkedSpan
    <3> QED BY <3>1, <3>3, <3>4, <3>7 DEF TypeOK
  <2>9. CASE UNCHANGED vars
    BY <2>9 DEF vars, spanVars
  <2> QED BY <2>3, <2>4, <2>5, <2>6, <2>7, <2>8, <2>9 DEF Next, Step
<1>2. IInv /\ [Next]_vars => [Owned]_vars
  BY <1>1
<1> QED BY <1>2, Invariance, PTL DEF Spec, BucketOwned

-----------------------------------------------------------------------------
(* Blocks do not overlap                                                     *)

\* The sizes divide the spans they are cut from: what NumMovePages gives for
\* sizes that are powers of two, and what fails for some of the others.
SizesDivide == \A c \in Sizes : (NumMovePages[c] * PageBytes) % c = 0

\* The last block of a span ends where the span ends.
LEMMA BlockEnds ==
  ASSUME SizesDivide, NEW p \in Nat, NEW c \in Sizes, NEW b \in Blocks(p, c)
  PROVE  b + c <= (p + NumMovePages[c]) * PageBytes
<1> USE SizesAssumption
<1> DEFINE bytes == NumMovePages[c] * PageBytes
           q == (bytes + c - 1) \div c
<1>1. c \in Nat \ {0} /\ NumMovePages[c] \in Nat \ {0} /\ PageBytes \in Nat \ {0}
  OBVIOUS
<1>2. bytes \in Nat \ {0} /\ bytes % c = 0
  BY <1>1 DEF SizesDivide
<1>3. PICK i \in 0 .. q - 1 : b = p * PageBytes + i * c
  BY DEF Blocks
<1>4. i \in Nat /\ i * c + c <= bytes
  <2> HIDE DEF bytes
  <2> DEFINE k == bytes \div c
  <2>1. k \in Nat /\ bytes = k * c
    BY <1>1, <1>2
  <2> HIDE DEF k
  <2>2. q = k
    <3>1. bytes + c - 1 = k * c + (c - 1) /\ c - 1 \in 0 .. c - 1
      BY <1>1, <2>1
    <3>2. (k * c + (c - 1)) \div c = k
      BY <1>1, <2>1
    <3> QED BY <3>1, <3>2
  <2> HIDE DEF q
  <2>3. i \in Nat /\ i + 1 <= k
    BY <1>3, <2>1, <2>2
  <2>4. (i + 1) * c <= k * c /\ (i + 1) * c = i * c + c
    BY <1>1, <2>1, <2>3
  <2> QED BY <2>1, <2>3, <2>4
<1>5. (p + NumMovePages[c]) * PageBytes = p * PageBytes + bytes /\ p * PageBytes \in Nat
  BY <1>1
<1>6. i * c \in Nat
  BY <1>1, <1>4
<1> HIDE DEF bytes, q
<1> QED BY <1>1, <1>2, <1>3, <1>4, <1>5, <1>6

\* Blocks of one span are a whole number of sizes apart.
LEMMA BlockSteps ==
  ASSUME NEW p \in Nat, NEW c \in Sizes, NEW a \in Blocks(p, c), NEW b \in Blocks(p, c), a < b
  PROVE  a + c <= b
<1> USE SizesAssumption
<1>1. c \in Nat \ {0} /\ PageBytes \in Nat \ {0}
  OBVIOUS
<1> DEFINE q == (NumMovePages[c] * PageBytes + c - 1) \div c
<1>0. q \in Int
  BY <1>1
<1>2. PICK i \in Nat : a = p * PageBytes + i * c
  <2>1. PICK i \in 0 .. q - 1 : a = p * PageBytes + i * c
    BY DEF Blocks
  <2> HIDE DEF q
  <2> QED BY <1>0, <2>1
<1>3. PICK j \in Nat : b = p * PageBytes + j * c
  <2>1. PICK j \in 0 .. q - 1 : b = p * PageBytes + j * c
    BY DEF Blocks
  <2> HIDE DEF q
  <2> QED BY <1>0, <2>1
<1>4. p * PageBytes \in Nat /\ i * c \in Nat /\ j * c \in Nat
  BY <1>1
<1>5. i * c < j * c
  BY <1>2, <1>3, <1>4
<1>6. i < j
  BY <1>1, <1>5
<1>7. (i + 1) * c <= j * c /\ (i + 1) * c = i * c + c
  BY <1>1, <1>6
<1> QED BY <1>1, <1>2, <1>3, <1>4, <1>7

\* When every size divides its span no two blocks the program holds overlap.
THEOREM BlocksDisjoint == ASSUME SizesDivide PROVE Spec => []LiveDisjoint
<1>1. IInv => LiveDisjoint
  <2> SUFFICES ASSUME IInv, NEW a \in live, NEW b \in live, a < b
               PROVE  a + SizeAt(a) <= b
    BY DEF LiveDisjoint
  <2> USE DEF IInv
  <2>1. PICK c \in Sizes : \E p \in _freelists[c] : a \in Blocks(p, c)
    BY DEF AtHome, Home
  <2>2. PICK p \in _freelists[c] : a \in Blocks(p, c)
    BY <2>1
  <2>3. PICK d \in Sizes : \E q \in _freelists[d] : b \in Blocks(q, d)
    BY DEF AtHome, Home
  <2>4. PICK q \in _freelists[d] : b \in Blocks(q, d)
    BY <2>3
  <2>5. /\ SpanRun(p, c) \in used /\ p \in Nat /\ SizeAt(a) = c
        /\ SpanRun(q, d) \in used /\ q \in Nat
    BY <2>2, <2>4, LinkedSpan DEF SizeAt
  <2>6. CASE p = q
    <3>1. c = d
      BY <2>6, LinkedSpan
    <3> QED BY <2>2, <2>4, <2>5, <2>6, <3>1, BlockSteps
  <2>7. CASE p # q
    <3> DEFINE m == p + NumMovePages[c]
               n == q + NumMovePages[d]
    <3>1. m \in Nat /\ n \in Nat /\ PageBytes \in Nat \ {0}
      BY <2>5, SizesAssumption
    <3>2. a + c <= m * PageBytes
      BY <2>2, <2>5, BlockEnds
    <3>3. /\ a \in p * PageBytes .. m * PageBytes - 1
          /\ b \in q * PageBytes .. n * PageBytes - 1
      BY <2>2, <2>4, <2>5, BlockInSpan
    <3>4. ~ (p < n /\ q < m)
      <4>1. ~ Heap!Overlap(SpanRun(p, c), SpanRun(q, d))
        BY <2>5, <2>7 DEF RunsApart, SpanRun
      <4> QED BY <4>1 DEF Heap!Overlap, SpanRun
    <3> HIDE DEF m, n
    <3>5. /\ p * PageBytes \in Nat /\ q * PageBytes \in Nat
          /\ m * PageBytes \in Nat /\ n * PageBytes \in Nat
      BY <2>5, <3>1
    <3>6. CASE m <= q
      <4>1. m * PageBytes <= q * PageBytes
        BY <2>5, <3>1, <3>6
      <4>2. a \in Nat /\ b \in Nat /\ c \in Nat
        BY <3>3, <3>5, SizesAssumption
      <4> QED BY <2>5, <3>2, <3>3, <3>5, <4>1, <4>2
    <3>7. CASE n <= p
      <4>1. n * PageBytes <= p * PageBytes
        BY <2>5, <3>1, <3>7
      <4> QED BY <3>3, <3>5, <4>1
    <3> QED BY <2>5, <3>1, <3>4, <3>6, <3>7
  <2> QED BY <2>6, <2>7
<1> QED BY <1>1, Invariance, PTL
===========================================================================
