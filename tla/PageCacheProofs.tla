-------------------------- MODULE PageCacheProofs --------------------------
(***************************************************************************)
(* What PageCache promises, proved for every number of buckets, heap size,    *)
(* number of Span objects and size of a large span: no page is handed out     *)
(* twice, none is lost, _spanMap leads to the span, and PageHeap is           *)
(* implemented.  Two things are assumed, and runs show that both are needed:   *)
(* callers free large spans only at the top of the heap (LastLargeFirst), or   *)
(* ask for none (PageCacheLargeAny.cfg), and nobody reads the break between    *)
(* the two calls with which another moves it (PageCacheRace.cfg).             *)
(***************************************************************************)
EXTENDS PageCache, TLAPS

\* Nobody pulls the program break away from under others' pages: not the callers
\* with a large span, not another user of the break who read it too early.
BreakRespected == (LargeSizes = {} \/ LastLargeFirst) /\ OneAtTheBreak

\* The spans of the buckets, in use or free.
Small == Live \cap SmallIds

Last(s) == _id[s] + n[s] - 1

\* A span from _objPool has a bucket's length, one from "new" a longer one.
LengthsOK == /\ \A s \in Small : n[s] \in Buckets
             /\ \A s \in Live \cap LargeIds : n[s] \in LargeSizes

\* Each bucket holds free spans of its length.
ListsOK == \A k \in Buckets : \A s \in _spanList[k] : n[s] = k /\ ~ _isUse[s]

\* An object that _objPool has made is a span or recycled, and not both.
ObjectsOK == /\ made <= MaxSpans
             /\ \A s \in SmallIds : /\ s \in Live => s \notin pool
                                    /\ s <= made <=> s \in Live \cup pool

\* Two spans share no page, and none reaches beyond where PageCache left the break.
ExtentsOK == /\ \A s, t \in Live : s # t => Disjoint(s, t)
             /\ \A s \in Live : _id[s] + n[s] <= Page(mark) /\ _id[s] + n[s] <= HeapPages

\* What sbrk(0) returned is still the break, to the SystemAlloc in progress, which
\* NewSpan needs, and to another user of the break; the others stay above mark.
BreakOK ==
  /\ mark <= brk
  /\ ptr # Nowhere =>
       /\ ptr = brk /\ theirPtr = Nowhere /\ want # 0
       /\ want \in Buckets => ~ Fits(want) \/ (NoObject /\ _spanList[want] = {})
  /\ theirPtr # Nowhere => theirPtr = brk

\* The NewSpan call in progress finds a span or room for a growth.
RoomOK == want # 0 => Fits(want) \/ Page(brk) + Needs(want) <= HeapPages

Covered(p) == \E t \in Small : _id[t] <= p /\ p < _id[t] + n[t]

\* A page with an entry of _objPool's, stale or not, lies in some span of the
\* buckets; an entry of a large span, stale or not, has a large span's length.
MapCovered ==
  \A p \in Pages : /\ _spanMap[p] \in SmallIds => Covered(p)
                   /\ _spanMap[p] \in LargeIds => n[_spanMap[p]] \in LargeSizes

\* The last page of a span leads to the span, unless the span is a chunk that
\* nobody has asked for yet.
MapEndsOK == \A t \in Small :
  \/ _spanMap[Last(t)] = t
  \/ ~ _isUse[t] /\ n[t] = MaxPages /\ _spanMap[Last(t)] \notin SmallIds

RelOK == rel # None => _isUse[rel] /\ want = 0

IInv == /\ TypeOK /\ LengthsOK /\ ListsOK /\ ObjectsOK /\ ExtentsOK /\ RoomOK
        /\ MapCovered /\ MapEndsOK /\ MapExact /\ RelOK /\ BreakOK

-----------------------------------------------------------------------------
(* What is used of the invariant again and again.                            *)

\* The objects of _objPool are not those of "new", and None is neither.
LEMMA Ids ==
  /\ \A s \in SmallIds : s \in SpanIds /\ s \notin LargeIds /\ s # None
  /\ \A s \in LargeIds : s \in SpanIds /\ s \notin SmallIds /\ s # None
  /\ \A s \in SpanIds : s \in SmallIds \/ s \in LargeIds
  BY SizesAssumption DEF SmallIds, LargeIds, SpanIds, None

\* The numbers the parameters are.
LEMMA Numbers ==
  /\ MaxPages \in Nat \ {0} /\ PoolPages \in Nat \ {0} /\ HeapPages \in Nat
  /\ PageUnits \in Nat \ {0} /\ SpansPerChunk \in Nat \ {0} /\ Gaps \subseteq Nat
  /\ \A k : k \in Buckets <=> k \in Nat /\ 0 < k /\ k <= MaxPages
  /\ \A k \in LargeSizes : k \in Nat /\ k > MaxPages
  /\ \A p : p \in Pages <=> p \in Nat /\ p < HeapPages
<1>1. /\ MaxPages \in Nat \ {0} /\ PoolPages \in Nat \ {0} /\ HeapPages \in Nat
      /\ PageUnits \in Nat \ {0} /\ SpansPerChunk \in Nat \ {0} /\ Gaps \subseteq Nat
  BY SizesAssumption
<1>2. \A k \in LargeSizes : k \in Nat /\ k > MaxPages
  BY SizesAssumption
<1> QED BY <1>1, <1>2 DEF Buckets, Pages

\* The shifts by PAGE_SHIFT: a page begins at its address and holds PageUnits units.
LEMMA PageBounds ==
  ASSUME NEW b \in Nat
  PROVE  /\ Page(b) \in Nat /\ Page(b) * PageUnits <= b
         /\ b < (Page(b) + 1) * PageUnits
<1>1. PageUnits \in Nat \ {0}
  BY Numbers
<1> QED BY <1>1 DEF Page

\* The page of a unit is the only one whose bounds it is within.
LEMMA PageOnly ==
  ASSUME NEW b \in Nat, NEW p \in Nat, p * PageUnits <= b, b < (p + 1) * PageUnits
  PROVE  Page(b) = p
<1> DEFINE q == Page(b)
<1>1. PageUnits \in Nat \ {0} /\ q \in Nat /\ q * PageUnits <= b /\ b < (q + 1) * PageUnits
  BY Numbers, PageBounds
<1> HIDE DEF q
<1>2. q * PageUnits < (p + 1) * PageUnits /\ p * PageUnits < (q + 1) * PageUnits
  BY <1>1
<1>3. q < p + 1 /\ p < q + 1
  BY <1>1, <1>2
<1>4. q = p
  BY <1>1, <1>3
<1> QED BY <1>4 DEF q

\* Taking k pages from the break moves it by k pages, wherever in a page it is.
LEMMA PagePlus ==
  ASSUME NEW b \in Nat, NEW k \in Nat
  PROVE  Addr(k) \in Nat /\ b + Addr(k) \in Nat /\ Page(b + Addr(k)) = Page(b) + k
<1> DEFINE q == Page(b)
<1>1. PageUnits \in Nat \ {0} /\ q \in Nat /\ q * PageUnits <= b /\ b < (q + 1) * PageUnits
  BY Numbers, PageBounds
<1> HIDE DEF q
<1>2. Addr(k) = k * PageUnits /\ Addr(k) \in Nat
  BY <1>1 DEF Addr
<1>3. (q + k) * PageUnits <= b + Addr(k) /\ b + Addr(k) < (q + k + 1) * PageUnits
  BY <1>1, <1>2
<1>4. Page(b + Addr(k)) = q + k
  BY <1>1, <1>2, <1>3, PageOnly
<1> QED BY <1>2, <1>4 DEF q

\* A higher break is in no lower page.
LEMMA PageMonotone ==
  ASSUME NEW b \in Nat, NEW c \in Nat, b <= c
  PROVE  Page(b) <= Page(c)
<1> DEFINE q == Page(b)
           r == Page(c)
<1>1. /\ PageUnits \in Nat \ {0} /\ q \in Nat /\ q * PageUnits <= b
      /\ r \in Nat /\ c < (r + 1) * PageUnits
  BY Numbers, PageBounds
<1> HIDE DEF q, r
<1>2. q * PageUnits < (r + 1) * PageUnits
  BY <1>1
<1>3. q < r + 1
  BY <1>1, <1>2
<1>4. q <= r
  BY <1>1, <1>3
<1> QED BY <1>4 DEF q, r

\* The address of a page is in that page.
LEMMA PageOfAddr ==
  ASSUME NEW p \in Nat
  PROVE  Addr(p) \in Nat /\ Page(Addr(p)) = p
<1>1. PageUnits \in Nat \ {0}
  BY Numbers
<1>2. Addr(p) = p * PageUnits /\ Addr(p) \in Nat /\ Addr(p) < (p + 1) * PageUnits
  BY <1>1 DEF Addr
<1> QED BY <1>2, PageOnly

\* What ends at or below a page of the break begins no higher than the break.
LEMMA AddrBelow ==
  ASSUME NEW b \in Nat, NEW p \in Nat, p <= Page(b)
  PROVE  Addr(p) <= b
<1> DEFINE q == Page(b)
<1>1. PageUnits \in Nat \ {0} /\ q \in Nat /\ q * PageUnits <= b /\ p <= q
  BY Numbers, PageBounds
<1> HIDE DEF q
<1>2. p * PageUnits <= q * PageUnits
  BY <1>1
<1> QED BY <1>1, <1>2 DEF Addr

\* A span that exists has pages.
LEMMA LiveSpan ==
  ASSUME IInv, NEW s \in Live
  PROVE  /\ s \in SpanIds /\ _id[s] \in Nat /\ n[s] \in Nat \ {0}
         /\ s \in SmallIds => n[s] \in Buckets /\ n[s] <= MaxPages
         /\ s \in LargeIds => n[s] \in LargeSizes /\ n[s] > MaxPages /\ _isUse[s]
         /\ _id[s] + n[s] <= Page(mark) /\ _id[s] + n[s] <= HeapPages
<1>1. s \in SpanIds
  BY Ids DEF IInv, TypeOK, Live, InUse, Free
<1>2. s \in LargeIds => _isUse[s]
  BY Ids DEF IInv, TypeOK, Live, InUse, Free
<1>3. s \in SmallIds => n[s] \in Buckets
  BY DEF IInv, LengthsOK, Small
<1>4. s \in LargeIds => n[s] \in LargeSizes
  BY DEF IInv, LengthsOK
<1>5. _id[s] \in Nat /\ n[s] \in Nat
  BY <1>1 DEF IInv, TypeOK
<1>6. _id[s] + n[s] <= Page(mark) /\ _id[s] + n[s] <= HeapPages
  BY DEF IInv, ExtentsOK
<1>7. (s \in SmallIds => n[s] <= MaxPages /\ n[s] # 0)
      /\ (s \in LargeIds => n[s] > MaxPages /\ n[s] # 0)
  BY <1>3, <1>4, <1>5, Numbers
<1> QED BY <1>1, <1>2, <1>3, <1>4, <1>5, <1>6, <1>7, Ids

\* Its pages are pages of the heap, the first and the last among them.
LEMMA PagesIn ==
  ASSUME IInv, NEW s \in Live
  PROVE  /\ \A p : p \in PagesOf(s) <=> p \in Nat /\ _id[s] <= p /\ p < _id[s] + n[s]
         /\ PagesOf(s) \subseteq Pages
         /\ _id[s] \in PagesOf(s) /\ Last(s) \in PagesOf(s)
  BY LiveSpan, Numbers DEF PagesOf, Last

\* No page belongs to two spans.
LEMMA PagesApart ==
  ASSUME IInv, NEW s \in Live, NEW t \in Live, s # t, NEW p \in PagesOf(t)
  PROVE  p \notin PagesOf(s)
<1>1. Disjoint(s, t)
  BY DEF IInv, ExtentsOK
<1> QED BY <1>1, PagesIn, LiveSpan DEF Disjoint

\* A span the callers hold, and one that is being released, is live.
LEMMA HeldIsLive ==
  ASSUME IInv
  PROVE  /\ InUse \subseteq Live /\ Small \subseteq Live
         /\ rel # None => rel \in Small /\ rel \in InUse
  BY Ids DEF IInv, TypeOK, RelOK, Live, InUse, Small

\* The entry of the last page of a span in use is the span.
LEMMA OwnEnd ==
  ASSUME IInv, NEW s \in Small, _isUse[s]
  PROVE  _spanMap[Last(s)] = s
  BY DEF IInv, MapEndsOK

\* What New returns is no span: it is a recycled object or the next one.
LEMMA NewIsFresh ==
  ASSUME IInv, NEW s \in SmallIds, New(s), ~ NoObject
  PROVE  /\ s \notin Live /\ allocremain' \in Nat
         /\ made' \in Nat /\ made' <= MaxSpans
         /\ pool' \subseteq SmallIds /\ s \notin pool'
         /\ \A u \in SmallIds : /\ u \in Live => u \notin pool'
                                /\ u <= made' <=> u = s \/ u \in Live \cup pool'
<1>1. made \in Nat /\ allocremain \in Nat /\ pool \subseteq SmallIds /\ made <= MaxSpans
      /\ \A u \in SmallIds : /\ u \in Live => u \notin pool
                             /\ u <= made <=> u \in Live \cup pool
      /\ MaxSpans \in Nat /\ SmallIds = 1 .. MaxSpans
  BY SizesAssumption DEF IInv, TypeOK, ObjectsOK, SmallIds
<1>2. CASE pool # {}
  BY <1>1, <1>2 DEF New
<1>3. CASE pool = {}
  <2>1. s = made + 1 /\ made' = made + 1 /\ pool' = {} /\ allocremain' \in Nat
    BY <1>1, <1>3 DEF New, NoObject
  <2> QED BY <1>1, <1>3, <2>1
<1> QED BY <1>2, <1>3

\* Initially there is no span and no entry.
LEMMA InitIInv == Init => IInv
<1> SUFFICES ASSUME Init PROVE IInv
  OBVIOUS
<1>1. InUse = {} /\ Free = {} /\ Live = {} /\ Small = {}
  BY DEF Init, Live, InUse, Free, Small
<1>2. TypeOK
  BY SizesAssumption DEF Init, TypeOK, None, SpanIds, Pages
<1>3. ObjectsOK
  BY <1>1, SizesAssumption DEF Init, ObjectsOK, SmallIds
<1>4. MapCovered
  BY Ids DEF Init, MapCovered
<1>5. BreakOK
  BY <1>2 DEF Init, BreakOK, TypeOK
<1> QED BY <1>1, <1>2, <1>3, <1>4, <1>5
        DEF Init, IInv, LengthsOK, ListsOK, ExtentsOK, RoomOK, MapEndsOK, MapExact, RelOK

-----------------------------------------------------------------------------
(* What a step does to the pages of the buckets and to the runs handed out.  *)

\* No page of the buckets' spans is lost.
PagesKept == \A p \in Nat : Covered(p) => Covered(p)'

\* The runs handed out, without the one that is on its way back.
Held == InUse \ {rel}

Run(s) == [id |-> _id[s], n |-> n[s]]

\* Spans that stay as they are keep their pages.
LEMMA SamePages ==
  ASSUME Small \subseteq Small', \A t \in Small : _id'[t] = _id[t] /\ n'[t] = n[t]
  PROVE  PagesKept
  BY DEF PagesKept, Covered

\* A span that joins those held is a run that PageHeap may hand out.
LEMMA HandsOut ==
  ASSUME IInv, IInv', NEW r \in SpanIds, r \notin Held, Held' = Held \cup {r},
         \A t \in Held : _id'[t] = _id[t] /\ n'[t] = n[t]
  PROVE  Heap!NewSpan
<1> DEFINE run == [id |-> _id'[r], n |-> n'[r]]
<1>1. r \in Live' /\ Held' \subseteq Live'
  BY DEF Held, Live, InUse
<1>2. /\ _id'[r] \in Nat /\ n'[r] \in Nat \ {0} /\ n'[r] \in Buckets \cup LargeSizes
      /\ _id'[r] + n'[r] <= HeapPages
  <2>1. _id'[r] \in Nat /\ n'[r] \in Nat /\ _id'[r] + n'[r] <= HeapPages
    BY <1>1 DEF IInv, TypeOK, ExtentsOK
  <2>2. n'[r] \in Buckets \cup LargeSizes
    BY <1>1, Ids DEF IInv, LengthsOK, Small
  <2> QED BY <2>1, <2>2, Numbers
<1>3. run \in Heap!Runs /\ Heap!PagesOf(run) \subseteq Pages
  BY <1>2, Numbers DEF Heap!Runs, Heap!PagesOf
<1>4. ASSUME NEW t \in Held
      PROVE  ~ Heap!Overlap(Run(t), run)
  <2>1. t \in Live' /\ t # r
    BY <1>1, <1>4
  <2>2. Disjoint(t, r)'
    BY <1>1, <2>1 DEF IInv, ExtentsOK
  <2>3. _id'[t] = _id[t] /\ n'[t] = n[t] /\ _id[t] \in Nat /\ n[t] \in Nat
    BY <1>4 DEF Held, InUse, IInv, TypeOK
  <2>4. _id[t] + n[t] <= _id'[r] \/ _id'[r] + n'[r] <= _id[t]
    BY <2>2, <2>3 DEF Disjoint
  <2> QED BY <1>2, <2>3, <2>4 DEF Heap!Overlap, Run
<1>5. HeldRuns = {Run(t) : t \in Held}
  BY DEF HeldRuns, Held, Run
<1>6. HeldRuns' = HeldRuns \cup {run}
  <2>1. HeldRuns' = {[id |-> _id'[t], n |-> n'[t]] : t \in Held'}
    BY DEF HeldRuns, Held
  <2>2. HeldRuns = {[id |-> _id'[t], n |-> n'[t]] : t \in Held}
    BY <1>5 DEF Run
  <2> HIDE DEF Held, HeldRuns
  <2> QED BY <2>1, <2>2
<1> QED BY <1>3, <1>4, <1>5, <1>6 DEF Heap!NewSpan

\* A span that leaves those held is a run that PageHeap takes back.
LEMMA TakesBack ==
  ASSUME IInv, NEW s \in Held, Held' = Held \ {s},
         \A t \in Held : _id'[t] = _id[t] /\ n'[t] = n[t]
  PROVE  Heap!ReleaseSpan
<1>1. HeldRuns = {Run(t) : t \in Held}
  BY DEF HeldRuns, Held, Run
<1>2. HeldRuns' = {Run(t) : t \in Held \ {s}}
  <2>1. HeldRuns' = {[id |-> _id'[t], n |-> n'[t]] : t \in Held'}
    BY DEF HeldRuns, Held
  <2> HIDE DEF Held, HeldRuns
  <2> QED BY <2>1 DEF Run
<1>3. ASSUME NEW t \in Held \ {s}
      PROVE  Run(t) # Run(s)
  <2>1. s \in Live /\ t \in Live /\ s # t
    BY <1>3, HeldIsLive DEF Held
  <2>2. Disjoint(s, t)
    BY <2>1 DEF IInv, ExtentsOK
  <2>3. _id[t] # _id[s]
    BY <2>1, <2>2, LiveSpan DEF Disjoint
  <2> QED BY <2>3 DEF Run
<1>4. HeldRuns' = HeldRuns \ {Run(s)} /\ Run(s) \in HeldRuns
  BY <1>1, <1>2, <1>3
<1> QED BY <1>4 DEF Heap!ReleaseSpan

\* Nothing is handed out or taken back.
LEMMA SameRuns ==
  ASSUME Held' = Held, \A t \in Held : _id'[t] = _id[t] /\ n'[t] = n[t]
  PROVE  HeldRuns' = HeldRuns
<1>1. HeldRuns' = {[id |-> _id'[t], n |-> n'[t]] : t \in Held'}
  BY DEF HeldRuns, Held
<1>2. HeldRuns = {[id |-> _id[t], n |-> n[t]] : t \in Held}
  BY DEF HeldRuns, Held
<1> HIDE DEF Held, HeldRuns
<1> QED BY <1>1, <1>2

-----------------------------------------------------------------------------
(* One lemma per action.  Each begins with what the step does to Live.       *)

\* NewSpan finds a span of the exact length.
LEMMA TakeExactStep ==
  ASSUME IInv, TakeExact
  PROVE  IInv' /\ PagesKept /\ Heap!NewSpan
<1> PICK s \in _spanList[want] :
      /\ _spanList' = [_spanList EXCEPT ![want] = @ \ {s}]
      /\ _spanMap' = MapAll(_spanMap, _id[s], _id[s] + n[s] - 1, s)
      /\ _isUse' = [_isUse EXCEPT ![s] = TRUE]
  BY DEF TakeExact
<1>1. /\ want \in Buckets /\ s \in SmallIds /\ s \in SpanIds /\ s \in Live /\ s \in Small
      /\ n[s] = want /\ ~ _isUse[s] /\ rel = None
  BY Numbers DEF IInv, TypeOK, TakeExact, ListsOK, Live, Free, SpanIds, RelOK, Small
<1>2. /\ UNCHANGED <<brk, ptr, theirPtr, mark, _id, n, made, allocremain, pool, rel>>
      /\ want' = 0
  BY DEF TakeExact, poolVars, brkVars
<1>3. TypeOK'
  BY <1>1, <1>2 DEF IInv, TypeOK, MapAll
<1>4. Live' = Live /\ Small' = Small /\ InUse' = InUse \cup {s}
  BY <1>1, <1>2 DEF IInv, TypeOK, Live, InUse, Free, Small
<1>5. LengthsOK' /\ ObjectsOK' /\ ExtentsOK' /\ RoomOK'
  BY <1>2, <1>4 DEF IInv, LengthsOK, ObjectsOK, ExtentsOK, Disjoint, RoomOK
<1>6. ListsOK'
  BY <1>1, <1>2 DEF IInv, TypeOK, ListsOK, SpanIds
<1>7. \A p \in Pages : _spanMap'[p] = IF p \in PagesOf(s) THEN s ELSE _spanMap[p]
  BY DEF MapAll, PagesOf
<1>8. MapCovered'
  <2> SUFFICES ASSUME NEW p \in Pages
               PROVE  /\ _spanMap'[p] \in SmallIds => \E t \in Small : _id[t] <= p /\ p < _id[t] + n[t]
                      /\ _spanMap'[p] \in LargeIds => n[_spanMap'[p]] \in LargeSizes
    BY <1>2, <1>4 DEF MapCovered, Covered
  <2>1. CASE p \in PagesOf(s)
    BY <2>1, <1>1, <1>7, PagesIn, Ids
  <2>2. CASE p \notin PagesOf(s)
    BY <2>2, <1>7 DEF IInv, MapCovered, Covered
  <2> QED BY <2>1, <2>2
<1>9. MapEndsOK'
  <2> SUFFICES ASSUME NEW t \in Small
               PROVE  \/ _spanMap'[Last(t)] = t
                      \/ ~ _isUse'[t] /\ n[t] = MaxPages /\ _spanMap'[Last(t)] \notin SmallIds
    BY <1>2, <1>4 DEF MapEndsOK, Last
  <2>1. t \in Live /\ Last(t) \in PagesOf(t) /\ Last(t) \in Pages
    BY PagesIn DEF Small
  <2>2. CASE t = s
    BY <2>1, <2>2, <1>7
  <2>3. CASE t # s
    <3>1. Last(t) \notin PagesOf(s)
      BY <2>1, <2>3, <1>1, PagesApart
    <3>2. _spanMap'[Last(t)] = _spanMap[Last(t)] /\ _isUse'[t] = _isUse[t]
      BY <2>1, <2>3, <3>1, <1>7 DEF IInv, TypeOK
    <3> QED BY <3>2 DEF IInv, MapEndsOK
  <2> QED BY <2>2, <2>3
<1>10. MapExact'
  <2> SUFFICES ASSUME NEW t \in InUse'
               PROVE  IF n[t] <= MaxPages THEN \A p \in PagesOf(t) : _spanMap'[p] = t
                                          ELSE _spanMap'[_id[t]] = t
    BY <1>2 DEF MapExact, PagesOf
  <2>1. t \in Live /\ PagesOf(t) \subseteq Pages /\ _id[t] \in PagesOf(t)
    BY <1>4, HeldIsLive, <1>1, PagesIn
  <2>2. CASE t = s
    BY <2>1, <2>2, <1>7
  <2>3. CASE t # s
    <3>1. \A p \in PagesOf(t) : p \in Pages /\ _spanMap'[p] = _spanMap[p]
      BY <2>1, <2>3, <1>1, <1>7, PagesApart
    <3>2. t \in InUse \ {rel}
      BY <2>3, <1>1, <1>4, HeldIsLive, Ids DEF InUse
    <3> QED BY <2>1, <3>1, <3>2 DEF IInv, MapExact
  <2> QED BY <2>2, <2>3
<1>11. RelOK' /\ BreakOK'
  <2>1. Fits(want) /\ _spanList[want] # {}
    BY <1>1, Numbers DEF Fits
  <2>2. ptr = Nowhere
    BY <1>1, <2>1 DEF IInv, BreakOK
  <2> QED BY <1>1, <1>2, <2>2 DEF RelOK, IInv, BreakOK
<1>12. IInv'
  BY <1>3, <1>5, <1>6, <1>8, <1>9, <1>10, <1>11 DEF IInv
<1>13. PagesKept
  BY <1>2, <1>4, SamePages
<1>14. Held' = Held \cup {s} /\ s \notin Held
  BY <1>1, <1>2, <1>4, Ids DEF Held, InUse
<1>15. Heap!NewSpan
  BY <1>1, <1>2, <1>12, <1>14, HandsOut
<1> QED BY <1>12, <1>13, <1>15

\* NewSpan adds a chunk from the break, one free span of the last bucket.
LEMMA GrowStep ==
  ASSUME IInv, Grow
  PROVE  IInv' /\ PagesKept /\ HeldRuns' = HeldRuns
<1> PICK s \in SmallIds :
      /\ New(s)
      /\ n' = [n EXCEPT ![s] = MaxPages]
      /\ _id' = [_id EXCEPT ![s] = Page(ptr)]
      /\ _spanList' = [_spanList EXCEPT ![MaxPages] = @ \cup {s}]
  BY DEF Grow
<1>1. /\ s \notin Live /\ allocremain' \in Nat /\ made' \in Nat /\ made' <= MaxSpans
      /\ pool' \subseteq SmallIds /\ s \notin pool'
      /\ \A u \in SmallIds : /\ u \in Live => u \notin pool'
                             /\ u <= made' <=> u = s \/ u \in Live \cup pool'
  BY NewIsFresh DEF Grow
<1>2. /\ UNCHANGED <<_isUse, _spanMap, want, rel>>
      /\ want \in Buckets /\ want # 0 /\ rel = None /\ ~ Fits(want)
  BY Numbers DEF Grow, IInv, RelOK
<1>a. /\ MaxPages \in Nat \ {0} /\ MaxPages \in Buckets /\ s \in SpanIds
      /\ want \in Nat /\ want <= MaxPages /\ HeapPages \in Nat
  BY <1>2, Numbers, Ids
<1>b. /\ ptr = brk /\ brk \in Nat /\ mark \in Nat /\ mark <= brk /\ theirPtr = Nowhere
      /\ brk' = brk + Addr(MaxPages) /\ mark' = brk' /\ ptr' = Nowhere /\ theirPtr' = Nowhere
  BY DEF Grow, Brk, IInv, TypeOK, BreakOK
<1>3. /\ brk' \in Nat /\ Page(mark') = Page(brk) + MaxPages
      /\ Page(brk) \in Nat /\ Page(mark) \in Nat /\ Page(mark) <= Page(brk)
      /\ Page(brk) + MaxPages <= HeapPages
  <2>1. Page(brk) + MaxPages <= HeapPages
    BY <1>2, <1>a DEF Grow, IInv, RoomOK, Needs
  <2> QED BY <2>1, <1>a, <1>b, PageBounds, PagePlus, PageMonotone
<1>4. TypeOK'
  BY <1>1, <1>2, <1>3, <1>a, <1>b DEF IInv, TypeOK
<1>5. s \notin InUse /\ Live' = Live \cup {s} /\ Small' = Small \cup {s} /\ InUse' = InUse
  BY <1>1, <1>2, <1>a DEF IInv, TypeOK, Live, InUse, Free, Small
<1>6. \A t \in Live : /\ t # s /\ t \in SpanIds /\ _id'[t] = _id[t] /\ n'[t] = n[t]
                      /\ _id[t] \in Nat /\ n[t] \in Nat \ {0}
                      /\ _id[t] + n[t] <= Page(mark) /\ _id[t] + n[t] <= HeapPages
  BY <1>1, LiveSpan DEF IInv, TypeOK
<1>7. _id'[s] = Page(brk) /\ n'[s] = MaxPages
  BY <1>a, <1>b DEF IInv, TypeOK
<1>8. LengthsOK'
  BY <1>a, <1>5, <1>6, <1>7, Ids DEF IInv, LengthsOK, Small
<1>9. ListsOK'
  BY <1>1, <1>2, <1>a, <1>5, <1>6, <1>7 DEF IInv, TypeOK, ListsOK, Live, InUse, Free
<1>10. ObjectsOK'
  BY <1>1, <1>5 DEF ObjectsOK
<1>11. ExtentsOK'
  BY <1>3, <1>a, <1>5, <1>6, <1>7 DEF IInv, ExtentsOK, Disjoint
<1>12. RoomOK' /\ BreakOK'
  <2>1. s \in _spanList'[MaxPages]
    BY <1>a DEF IInv, TypeOK
  <2>2. MaxPages \in want .. MaxPages
    BY <1>a
  <2>3. Fits(want)'
    BY <1>2, <2>1, <2>2 DEF Fits
  <2> QED BY <2>3, <1>2, <1>3, <1>b DEF RoomOK, BreakOK
<1>13. MapCovered'
  <2>1. \A e \in LargeIds : n'[e] = n[e]
    BY Ids DEF IInv, TypeOK
  <2>2. \A p \in Pages : Covered(p) => Covered(p)'
    BY <1>5, <1>6 DEF Covered, Small
  <2> QED BY <1>2, <2>1, <2>2 DEF IInv, MapCovered
<1>14. MapEndsOK'
  <2> SUFFICES ASSUME NEW t \in Small'
               PROVE  \/ _spanMap[Last(t)'] = t
                      \/ ~ _isUse[t] /\ n'[t] = MaxPages /\ _spanMap[Last(t)'] \notin SmallIds
    BY <1>2 DEF MapEndsOK
  <2>1. CASE t = s
    <3>1. Last(s)' \in Pages /\ \A u \in Live : _id[u] + n[u] <= Last(s)'
      BY <1>3, <1>a, <1>6, <1>7, Numbers DEF Last
    <3>2. ~ Covered(Last(s)')
      BY <3>1, <1>6, Numbers DEF Covered, Small
    <3>3. _spanMap[Last(s)'] \notin SmallIds
      BY <3>1, <3>2 DEF IInv, MapCovered
    <3> QED BY <2>1, <3>3, <1>a, <1>5, <1>7 DEF InUse
  <2>2. CASE t # s
    <3>1. t \in Small /\ Last(t)' = Last(t) /\ n'[t] = n[t]
      BY <2>2, <1>5, <1>6 DEF Last, Small
    <3> QED BY <3>1 DEF IInv, MapEndsOK
  <2> QED BY <2>1, <2>2
<1>15. MapExact'
  <2>1. \A t \in InUse : t \in Live /\ PagesOf(t)' = PagesOf(t) /\ n'[t] = n[t] /\ _id'[t] = _id[t]
    BY <1>6, HeldIsLive DEF PagesOf
  <2> QED BY <1>2, <1>5, <2>1 DEF IInv, MapExact
<1>16. RelOK'
  BY <1>2 DEF RelOK
<1>17. IInv'
  BY <1>4, <1>8, <1>9, <1>10, <1>11, <1>12, <1>13, <1>14, <1>15, <1>16 DEF IInv
<1>18. PagesKept
  BY <1>5, <1>6, SamePages DEF Small
<1>19. Held' = Held /\ \A t \in Held : t \in Live
  BY <1>2, <1>5, HeldIsLive DEF Held
<1>20. HeldRuns' = HeldRuns
  BY <1>6, <1>19, SameRuns
<1> QED BY <1>17, <1>18, <1>20

\* _objPool takes a chunk from the break; no span is in it.
LEMMA ChunkStep ==
  ASSUME IInv, Chunk
  PROVE  IInv' /\ PagesKept /\ HeldRuns' = HeldRuns
<1>1. /\ UNCHANGED <<_id, n, _isUse, _spanList, _spanMap, made, pool, want, rel>>
      /\ allocremain' = SpansPerChunk /\ NoObject /\ want \in Buckets
  BY DEF Chunk, spanVars
<1>2. /\ ptr = brk /\ brk \in Nat /\ mark \in Nat /\ mark <= brk /\ theirPtr = Nowhere
      /\ brk' = brk + Addr(PoolPages) /\ mark' = brk' /\ ptr' = Nowhere /\ theirPtr' = Nowhere
  BY DEF Chunk, Brk, IInv, TypeOK, BreakOK
<1>3. /\ PoolPages \in Nat /\ SpansPerChunk \in Nat \ {0} /\ MaxPages \in Nat
      /\ HeapPages \in Nat /\ want \in Nat /\ 0 < want /\ want <= MaxPages
  BY <1>1, Numbers
<1>4. /\ brk' \in Nat /\ mark <= mark' /\ Page(brk') = Page(brk) + PoolPages
      /\ Page(mark) <= Page(mark') /\ Page(mark) \in Nat /\ Page(brk) \in Nat
      /\ Page(mark') \in Nat
  <2>1. Addr(PoolPages) \in Nat /\ brk' \in Nat /\ Page(brk') = Page(brk) + PoolPages
    BY <1>2, <1>3, PagePlus
  <2> QED BY <2>1, <1>2, <1>3, PageMonotone, PageBounds
<1>5. Live' = Live /\ Small' = Small /\ InUse' = InUse
  BY <1>1 DEF Live, InUse, Free, Small
<1>6. TypeOK'
  BY <1>1, <1>2, <1>3, <1>4 DEF IInv, TypeOK
<1>7. /\ LengthsOK' /\ ListsOK' /\ ObjectsOK' /\ MapCovered' /\ MapEndsOK' /\ RelOK'
  BY <1>1, <1>5 DEF IInv, LengthsOK, ListsOK, ObjectsOK, MapCovered, Covered, MapEndsOK, Last, RelOK
<1>8. ExtentsOK'
  <2>1. \A s \in Live : _id[s] + n[s] \in Nat
    BY LiveSpan
  <2> QED BY <1>1, <1>4, <1>5, <2>1 DEF IInv, ExtentsOK, Disjoint
<1>9. MapExact'
  BY <1>1, <1>5 DEF IInv, MapExact, PagesOf
<1>10. RoomOK'
  <2>1. Fits(want)' <=> Fits(want)
    BY <1>1 DEF Fits
  <2>2. ~ NoObject'
    BY <1>1, <1>3 DEF NoObject
  <2>3. CASE Fits(want)
    BY <2>1, <2>3, <1>1 DEF RoomOK
  <2>4. CASE ~ Fits(want)
    <3>1. Page(brk) + (MaxPages + PoolPages) <= HeapPages
      BY <2>4, <1>1, <1>3 DEF IInv, RoomOK, Needs
    <3>2. Needs(want)' = MaxPages
      BY <2>1, <2>2, <2>4, <1>1, <1>3 DEF Needs
    <3> QED BY <3>1, <3>2, <1>3, <1>4 DEF RoomOK
  <2> QED BY <2>3, <2>4
<1>11. BreakOK'
  BY <1>2, <1>4 DEF BreakOK
<1>12. IInv'
  BY <1>6, <1>7, <1>8, <1>9, <1>10, <1>11 DEF IInv
<1>13. PagesKept
  BY <1>1, <1>5, SamePages
<1>14. HeldRuns' = HeldRuns
  BY <1>1, <1>5, SameRuns DEF Held
<1> QED BY <1>12, <1>13, <1>14

\* A release that merges finds a free span of the buckets that ends before its
\* own, in the bucket of its length.
LEMMA MergesNeighbour ==
  ASSUME IInv, rel # None, CanMerge(PrevId)
  PROVE  LET q == _spanMap[PrevId]
         IN  /\ q \in Small /\ q # rel /\ ~ _isUse[q] /\ _id[q] + n[q] = _id[rel]
             /\ n[q] \in Buckets /\ q \in _spanList[n[q]] /\ n[q] + n[rel] \in Buckets
<1> DEFINE q == _spanMap[PrevId]
<1>1. /\ PrevId \in Pages /\ q # None /\ q \in SpanIds /\ ~ _isUse[q]
      /\ n[q] + n[rel] <= MaxPages
  BY DEF CanMerge, IInv, TypeOK
<1>2. /\ rel \in Live /\ rel \in Small /\ rel \in InUse /\ _id[rel] \in Nat
      /\ n[rel] \in Nat \ {0}
  BY HeldIsLive, LiveSpan
<1>3. q \in SmallIds
  <2> SUFFICES ASSUME q \in LargeIds PROVE FALSE
    BY <1>1, Ids
  <2>1. n[q] \in Nat /\ n[q] > MaxPages
    BY <1>1, Numbers DEF IInv, MapCovered
  <2> QED BY <2>1, <1>1, <1>2, Numbers
<1>4. PICK t \in Small : _id[t] <= PrevId /\ PrevId < _id[t] + n[t]
  BY <1>1, <1>3 DEF IInv, MapCovered, Covered
<1>5. t \in Live /\ _id[t] \in Nat /\ n[t] \in Nat \ {0}
  BY <1>4, LiveSpan DEF Small
<1>6. t # rel
  BY <1>2, <1>4 DEF PrevId
<1>7. Disjoint(t, rel)
  BY <1>2, <1>5, <1>6 DEF IInv, ExtentsOK
<1>8. _id[t] + n[t] = _id[rel] /\ Last(t) = PrevId
  BY <1>2, <1>4, <1>5, <1>7 DEF Disjoint, PrevId, Last
<1>9. q = t
  BY <1>3, <1>4, <1>8 DEF IInv, MapEndsOK
<1>10. n[q] \in Buckets /\ q \in Free
  BY <1>1, <1>5, <1>9, <1>4, LiveSpan DEF Live, InUse, Small
<1>11. q \in _spanList[n[q]]
  BY <1>10 DEF Free, IInv, ListsOK
<1>12. n[q] + n[rel] \in Buckets
  BY <1>1, <1>2, <1>10, Numbers
<1> QED BY <1>1, <1>4, <1>6, <1>8, <1>9, <1>10, <1>11, <1>12

\* The first merge loop: the span before is unlinked and its pages taken over.
LEMMA MergePrevStep ==
  ASSUME IInv, MergePrev
  PROVE  IInv' /\ PagesKept /\ HeldRuns' = HeldRuns
<1> DEFINE q == _spanMap[PrevId]
<1>1. /\ rel # None /\ rel \in SmallIds /\ rel \in SpanIds /\ rel \in Live /\ rel \in Small
      /\ rel \in InUse /\ _isUse[rel] /\ want = 0
  BY HeldIsLive, Ids DEF MergePrev, IInv, RelOK, Small
<1>2. /\ q \in Small /\ q \in Live /\ q # rel /\ ~ _isUse[q] /\ _id[q] + n[q] = _id[rel]
      /\ q \in SmallIds /\ q \in SpanIds
      /\ n[q] \in Buckets /\ q \in _spanList[n[q]] /\ n[q] + n[rel] \in Buckets
  BY MergesNeighbour, Ids DEF MergePrev, Small
<1>3. /\ n' = [n EXCEPT ![rel] = @ + n[q]]
      /\ _id' = [_id EXCEPT ![rel] = _id[q]]
      /\ _spanList' = [_spanList EXCEPT ![n[q]] = @ \ {q}]
      /\ pool' = pool \cup {q}
      /\ UNCHANGED <<brk, ptr, theirPtr, mark, _isUse, _spanMap, made, allocremain, want, rel>>
  BY DEF MergePrev, Absorb, Delete, brkVars
<1> HIDE DEF q
<1>4. \A t \in Live : /\ t \in SpanIds /\ _id[t] \in Nat /\ n[t] \in Nat \ {0}
                      /\ _id[t] + n[t] <= Page(mark) /\ _id[t] + n[t] <= HeapPages
  BY LiveSpan
<1>5. /\ _id'[rel] = _id[q] /\ n'[rel] = n[q] + n[rel]
      /\ \A t \in SpanIds \ {rel} : _id'[t] = _id[t] /\ n'[t] = n[t]
  BY <1>1, <1>2, <1>3, <1>4 DEF IInv, TypeOK
<1>6. TypeOK'
  BY <1>1, <1>2, <1>3, <1>4 DEF IInv, TypeOK
<1>7. Live' = Live \ {q} /\ Small' = Small \ {q} /\ InUse' = InUse
  BY <1>1, <1>2, <1>3 DEF IInv, TypeOK, Live, InUse, Free, ListsOK, Small
<1>8. LengthsOK'
  BY <1>1, <1>2, <1>4, <1>5, <1>7, Ids DEF IInv, LengthsOK, Small
<1>9. ListsOK'
  <2> SUFFICES ASSUME NEW k \in Buckets, NEW s \in _spanList'[k]
               PROVE  n'[s] = k /\ ~ _isUse[s]
    BY <1>3 DEF ListsOK
  <2>1. s \in _spanList[k] /\ s \in SpanIds
    BY <1>2, <1>3, Ids DEF IInv, TypeOK
  <2>2. n[s] = k /\ ~ _isUse[s] /\ s # rel
    BY <2>1, <1>1 DEF IInv, ListsOK
  <2> QED BY <1>5, <2>1, <2>2
<1>10. ObjectsOK'
  BY <1>2, <1>3, <1>7 DEF IInv, ObjectsOK
<1>11. _id'[rel] + n'[rel] = _id[rel] + n[rel]
  BY <1>1, <1>2, <1>4, <1>5
<1>12. ExtentsOK'
  <2>1. \A t \in Live : (t # rel => Disjoint(t, rel)) /\ (t # q => Disjoint(t, q))
    BY <1>1, <1>2 DEF IInv, ExtentsOK
  <2>2. \A t \in Live : t # rel /\ t # q =>
          _id[t] + n[t] <= _id[q] \/ _id[rel] + n[rel] <= _id[t]
    BY <1>1, <1>2, <1>4, <2>1 DEF Disjoint
  <2>3. ASSUME NEW s \in Live', NEW t \in Live', s # t
        PROVE  Disjoint(s, t)'
    <3>1. CASE s = rel
      BY <1>4, <1>5, <1>7, <1>11, <2>2, <2>3, <3>1 DEF Disjoint
    <3>2. CASE t = rel
      BY <1>4, <1>5, <1>7, <1>11, <2>2, <2>3, <3>2 DEF Disjoint
    <3>3. CASE s # rel /\ t # rel
      BY <1>4, <1>5, <1>7, <2>3, <3>3 DEF IInv, ExtentsOK, Disjoint
    <3> QED BY <3>1, <3>2, <3>3
  <2>4. \A s \in Live' : _id'[s] + n'[s] <= Page(mark) /\ _id'[s] + n'[s] <= HeapPages
    BY <1>1, <1>4, <1>5, <1>7, <1>11
  <2> QED BY <1>3, <2>3, <2>4 DEF ExtentsOK
<1>0. PagesKept
  <2> SUFFICES ASSUME NEW p \in Nat, Covered(p)
               PROVE  Covered(p)'
    BY DEF PagesKept
  <2>1. PICK t \in Small : _id[t] <= p /\ p < _id[t] + n[t]
    BY DEF Covered
  <2>2. t \in Live
    BY DEF Small
  <2>3. CASE t = q \/ t = rel
    <3>1. _id'[rel] <= p /\ p < _id'[rel] + n'[rel]
      BY <1>1, <1>2, <1>4, <1>5, <1>11, <2>1, <2>2, <2>3
    <3> QED BY <3>1, <1>1, <1>2, <1>7 DEF Covered
  <2>4. CASE t # q /\ t # rel
    BY <1>4, <1>5, <1>7, <2>1, <2>2, <2>4 DEF Covered
  <2> QED BY <2>3, <2>4
<1>13. MapCovered'
  <2>1. \A e \in LargeIds : n'[e] = n[e]
    BY <1>1, <1>5, Ids
  <2> QED BY <1>3, <1>0, <2>1, Numbers DEF IInv, MapCovered, PagesKept
<1>14. MapEndsOK'
  <2> SUFFICES ASSUME NEW t \in Small \ {q}
               PROVE  \/ _spanMap[Last(t)'] = t
                      \/ ~ _isUse[t] /\ n'[t] = MaxPages /\ _spanMap[Last(t)'] \notin SmallIds
    BY <1>3, <1>7 DEF MapEndsOK
  <2>1. CASE t = rel
    <3>1. Last(t)' = Last(rel)
      <4>1. _id'[rel] + n'[rel] - 1 = _id[rel] + n[rel] - 1
        BY <1>1, <1>2, <1>4, <1>5
      <4> QED BY <4>1, <2>1 DEF Last
    <3> QED BY <1>1, <2>1, <3>1, OwnEnd
  <2>2. CASE t # rel
    <3>1. Last(t)' = Last(t) /\ n'[t] = n[t]
      BY <1>4, <1>5, <2>2 DEF Last, Small
    <3> QED BY <3>1 DEF IInv, MapEndsOK
  <2> QED BY <2>1, <2>2
<1>15. MapExact'
  <2>1. \A t \in InUse \ {rel} : PagesOf(t)' = PagesOf(t) /\ n'[t] = n[t] /\ _id'[t] = _id[t]
    BY <1>4, <1>5, HeldIsLive DEF PagesOf
  <2> QED BY <1>3, <1>7, <2>1 DEF IInv, MapExact
<1>16. RelOK' /\ RoomOK' /\ BreakOK'
  BY <1>1, <1>3 DEF RelOK, RoomOK, IInv, BreakOK
<1>17. IInv'
  BY <1>6, <1>8, <1>9, <1>10, <1>12, <1>13, <1>14, <1>15, <1>16 DEF IInv
<1>18. Held' = Held /\ \A t \in Held : t \in SpanIds \ {rel}
  BY <1>3, <1>7 DEF Held, InUse
<1>19. HeldRuns' = HeldRuns
  BY <1>5, <1>18, SameRuns
<1> QED BY <1>0, <1>17, <1>19

\* The page the second merge loop looks at is the last one of the span itself,
\* which is in use.
LEMMA NextPageIsOwn ==
  ASSUME IInv, rel # None
  PROVE  ~ CanMerge(NextId)
<1>1. _isUse[rel] /\ rel \in Small
  BY HeldIsLive DEF IInv, RelOK
<1>2. NextId = Last(rel)
  BY DEF NextId, Last
<1>3. _spanMap[NextId] = rel
  BY <1>1, <1>2, OwnEnd
<1> QED BY <1>1, <1>3 DEF CanMerge

\* What ReleaseEnd does, now that the second loop finds nothing.
LEMMA ReleaseEndLinks ==
  ASSUME IInv, ReleaseEnd
  PROVE  /\ rel # None /\ ~ CanMerge(PrevId)
         /\ _spanList' = [_spanList EXCEPT ![n[rel]] = @ \cup {rel}]
         /\ _isUse' = [_isUse EXCEPT ![rel] = FALSE]
         /\ _spanMap' = [_spanMap EXCEPT ![_id[rel]] = rel, ![Last(rel)] = rel]
         /\ rel' = None
         /\ UNCHANGED <<brk, ptr, theirPtr, mark, _id, n, made, allocremain, pool, want>>
  BY NextPageIsOwn DEF ReleaseEnd, MapEnds, Last, brkVars

\* The released span is linked into its bucket and its ends are mapped.
LEMMA ReleaseEndStep ==
  ASSUME IInv, ReleaseEnd
  PROVE  IInv' /\ PagesKept /\ HeldRuns' = HeldRuns
<1>1. /\ rel # None
      /\ _spanList' = [_spanList EXCEPT ![n[rel]] = @ \cup {rel}]
      /\ _isUse' = [_isUse EXCEPT ![rel] = FALSE]
      /\ _spanMap' = [_spanMap EXCEPT ![_id[rel]] = rel, ![Last(rel)] = rel]
      /\ rel' = None
      /\ UNCHANGED <<brk, ptr, theirPtr, mark, _id, n, made, allocremain, pool, want>>
  BY ReleaseEndLinks
<1>2. /\ rel \in SmallIds /\ rel \in SpanIds /\ rel \in Live /\ rel \in Small /\ rel \in InUse
      /\ _isUse[rel] /\ want = 0 /\ n[rel] \in Buckets
  BY <1>1, HeldIsLive, LiveSpan, Ids DEF IInv, RelOK, Small
<1>3. TypeOK'
  BY <1>1, <1>2 DEF IInv, TypeOK
<1>4. Live' = Live /\ Small' = Small /\ InUse' = InUse \ {rel}
  BY <1>1, <1>2 DEF IInv, TypeOK, Live, InUse, Free, Small
<1>5. LengthsOK' /\ ObjectsOK' /\ ExtentsOK' /\ RoomOK'
  BY <1>1, <1>2, <1>4 DEF IInv, LengthsOK, ObjectsOK, ExtentsOK, Disjoint, RoomOK
<1>6. ListsOK'
  <2> SUFFICES ASSUME NEW k \in Buckets, NEW s \in _spanList'[k]
               PROVE  n[s] = k /\ ~ _isUse'[s]
    BY <1>1 DEF ListsOK
  <2>1. CASE s = rel
    <3>1. rel \notin _spanList[k]
      BY <1>2 DEF IInv, ListsOK
    <3> QED BY <1>1, <1>2, <2>1, <3>1 DEF IInv, TypeOK
  <2>2. CASE s # rel
    <3>1. s \in _spanList[k]
      BY <1>1, <1>2, <2>2 DEF IInv, TypeOK
    <3>2. s \in SpanIds
      BY <3>1, Ids DEF IInv, TypeOK
    <3> QED BY <1>1, <2>2, <3>1, <3>2 DEF IInv, TypeOK, ListsOK
  <2> QED BY <2>1, <2>2
<1>7. \A p \in Pages : _spanMap'[p] = IF p \in {_id[rel], Last(rel)} THEN rel ELSE _spanMap[p]
  BY <1>1 DEF IInv, TypeOK
<1>8. _id[rel] \in PagesOf(rel) /\ Last(rel) \in PagesOf(rel)
  BY <1>2, PagesIn
<1>9. MapCovered'
  <2> SUFFICES ASSUME NEW p \in Pages
               PROVE  /\ _spanMap'[p] \in SmallIds => Covered(p)
                      /\ _spanMap'[p] \in LargeIds => n[_spanMap'[p]] \in LargeSizes
    BY <1>1, <1>4 DEF MapCovered, Covered
  <2>1. CASE p \in {_id[rel], Last(rel)}
    <3>1. _spanMap'[p] = rel /\ p \in PagesOf(rel)
      BY <2>1, <1>7, <1>8
    <3>2. _id[rel] <= p /\ p < _id[rel] + n[rel]
      BY <3>1, <1>2, PagesIn
    <3> QED BY <3>1, <3>2, <1>2, Ids DEF Covered
  <2>2. CASE p \notin {_id[rel], Last(rel)}
    BY <1>7, <2>2 DEF IInv, MapCovered
  <2> QED BY <2>1, <2>2
<1>10. MapEndsOK'
  <2> SUFFICES ASSUME NEW t \in Small
               PROVE  \/ _spanMap'[Last(t)] = t
                      \/ ~ _isUse'[t] /\ n[t] = MaxPages /\ _spanMap'[Last(t)] \notin SmallIds
    BY <1>1, <1>4 DEF MapEndsOK, Last
  <2>1. t \in Live /\ Last(t) \in PagesOf(t) /\ Last(t) \in Pages
    BY PagesIn DEF Small
  <2>2. CASE t = rel
    BY <1>7, <2>1, <2>2
  <2>3. CASE t # rel
    <3>1. Last(t) \notin PagesOf(rel)
      BY <1>2, <2>1, <2>3, PagesApart
    <3>2. _spanMap'[Last(t)] = _spanMap[Last(t)] /\ _isUse'[t] = _isUse[t]
      BY <1>1, <1>7, <1>8, <2>1, <2>3, <3>1 DEF IInv, TypeOK
    <3> QED BY <3>2 DEF IInv, MapEndsOK
  <2> QED BY <2>2, <2>3
<1>11. MapExact'
  <2> SUFFICES ASSUME NEW t \in InUse \ {rel}
               PROVE  IF n[t] <= MaxPages THEN \A p \in PagesOf(t) : _spanMap'[p] = t
                                          ELSE _spanMap'[_id[t]] = t
    BY <1>1, <1>4 DEF MapExact, PagesOf
  <2>1. t \in Live /\ PagesOf(t) \subseteq Pages /\ _id[t] \in PagesOf(t)
    BY HeldIsLive, PagesIn
  <2>2. \A p \in PagesOf(t) : p \in Pages /\ _spanMap'[p] = _spanMap[p]
    BY <1>2, <1>7, <1>8, <2>1, PagesApart
  <2> QED BY <2>1, <2>2 DEF IInv, MapExact
<1>12. RelOK' /\ BreakOK'
  BY <1>1, <1>2 DEF RelOK, IInv, BreakOK
<1>13. IInv'
  BY <1>3, <1>5, <1>6, <1>9, <1>10, <1>11, <1>12 DEF IInv
<1>14. PagesKept
  BY <1>1, <1>4, SamePages
<1>15. Held' = Held
  BY <1>1, <1>4, Ids DEF Held, InUse
<1>16. HeldRuns' = HeldRuns
  BY <1>1, <1>15, SameRuns
<1> QED BY <1>13, <1>14, <1>16

\* A longer span s is split: a new span r takes its first pages, s keeps the rest.
LEMMA TakeSplitStep ==
  ASSUME IInv, TakeSplit
  PROVE  IInv' /\ PagesKept /\ Heap!NewSpan
<1>a. PICK step \in want + 1 .. MaxPages, r \in SmallIds : \E s \in _spanList[step] :
       /\ New(r)
       /\ n' = [n EXCEPT ![r] = want, ![s] = @ - want]
       /\ _id' = [_id EXCEPT ![r] = _id[s], ![s] = @ + want]
       /\ _spanList' = [_spanList EXCEPT ![step] = @ \ {s},
                                         ![step - want] = @ \cup {s}]
       /\ _spanMap' = MapAll(MapEnds(_spanMap, s, _id[s] + want, _id[s] + n[s] - 1),
                             _id[s], _id[s] + want - 1, r)
       /\ _isUse' = [_isUse EXCEPT ![r] = TRUE]
  BY DEF TakeSplit
<1>b. PICK s \in _spanList[step] :
       /\ New(r)
       /\ n' = [n EXCEPT ![r] = want, ![s] = @ - want]
       /\ _id' = [_id EXCEPT ![r] = _id[s], ![s] = @ + want]
       /\ _spanList' = [_spanList EXCEPT ![step] = @ \ {s},
                                         ![step - want] = @ \cup {s}]
       /\ _spanMap' = MapAll(MapEnds(_spanMap, s, _id[s] + want, _id[s] + n[s] - 1),
                             _id[s], _id[s] + want - 1, r)
       /\ _isUse' = [_isUse EXCEPT ![r] = TRUE]
  BY <1>a
<1>1. /\ r \notin Live /\ allocremain' \in Nat /\ made' \in Nat /\ made' <= MaxSpans
      /\ pool' \subseteq SmallIds /\ r \notin pool'
      /\ \A u \in SmallIds : /\ u \in Live => u \notin pool'
                             /\ u <= made' <=> u = r \/ u \in Live \cup pool'
  BY <1>b, NewIsFresh DEF TakeSplit
<1>2. want \in Buckets /\ want # 0 /\ want' = 0 /\ rel = None /\ rel' = None
  BY Numbers DEF TakeSplit, IInv, RelOK
<1>3. /\ MaxPages \in Nat \ {0} /\ want \in Nat \ {0} /\ step \in Buckets
      /\ step - want \in Buckets /\ step - want # step
      /\ step \in Nat /\ want < step /\ step <= MaxPages
  BY <1>2, Numbers
<1>4. /\ UNCHANGED <<brk, ptr, theirPtr, mark>>
      /\ mark \in Nat /\ Page(mark) \in Nat
  BY PageBounds DEF TakeSplit, brkVars, IInv, TypeOK
<1>5. /\ s \in Free /\ s \in SmallIds /\ n[s] = step /\ ~ _isUse[s]
  BY <1>3 DEF IInv, TypeOK, ListsOK, Free
<1>6. /\ s \in Live /\ s \in Small /\ s \in SpanIds /\ r \in SpanIds /\ r # s /\ _id[s] \in Nat
      /\ _id[s] + step <= Page(mark) /\ _id[s] + step <= HeapPages
  BY <1>1, <1>5, LiveSpan, Ids DEF Live, Small
<1>7. /\ n'[r] = want /\ n'[s] = step - want
      /\ _id'[r] = _id[s] /\ _id'[s] = _id[s] + want
      /\ \A t \in SpanIds : t # r /\ t # s => _id'[t] = _id[t] /\ n'[t] = n[t]
  BY <1>b, <1>5, <1>6 DEF IInv, TypeOK
<1>8. \A t \in Live : /\ t # r /\ t \in SpanIds /\ _id[t] \in Nat /\ n[t] \in Nat \ {0}
                      /\ _id[t] + n[t] <= Page(mark) /\ _id[t] + n[t] <= HeapPages
  BY <1>1, LiveSpan
<1>9. TypeOK'
  <2>1. n' \in [SpanIds -> Nat] /\ _id' \in [SpanIds -> Nat]
    BY <1>b, <1>3, <1>5, <1>6 DEF IInv, TypeOK
  <2>2. _spanList' \in [Buckets -> SUBSET SmallIds]
    BY <1>b, <1>3, <1>5 DEF IInv, TypeOK
  <2>3. _spanMap' \in [Pages -> SpanIds \cup {None}]
    BY <1>b, <1>6 DEF IInv, TypeOK, MapAll, MapEnds
  <2>4. _isUse' \in [SpanIds -> BOOLEAN]
    BY <1>b, <1>6 DEF IInv, TypeOK
  <2> QED BY <1>1, <1>2, <1>4, <2>1, <2>2, <2>3, <2>4 DEF IInv, TypeOK
<1>10. \A k \in Buckets :
         _spanList'[k] = (_spanList[k] \ {s}) \cup (IF k = step - want THEN {s} ELSE {})
  BY <1>b, <1>3, <1>5 DEF IInv, TypeOK, ListsOK
<1>11. Live' = Live \cup {r} /\ Small' = Small \cup {r} /\ InUse' = InUse \cup {r}
  <2>1. InUse' = InUse \cup {r}
    BY <1>b, <1>6 DEF IInv, TypeOK, InUse
  <2>2. ASSUME NEW t PROVE t \in Free' <=> t \in Free
    <3>1. CASE t = s
      <4>1. s \in _spanList'[step - want]
        BY <1>3, <1>10
      <4> QED BY <1>3, <1>5, <3>1, <4>1 DEF Free
    <3>2. CASE t # s
      <4>1. \A k \in Buckets : t \in _spanList'[k] <=> t \in _spanList[k]
        <5> TAKE k \in Buckets
        <5>1. _spanList'[k] = (_spanList[k] \ {s}) \cup (IF k = step - want THEN {s} ELSE {})
          BY <1>10
        <5> QED BY <3>2, <5>1
      <4>2. t \in Free' <=> \E k \in Buckets : t \in _spanList'[k]
        BY DEF Free
      <4>3. t \in Free <=> \E k \in Buckets : t \in _spanList[k]
        BY DEF Free
      <4> QED BY <4>1, <4>2, <4>3
    <3> QED BY <3>1, <3>2
  <2>3. Live' = Live \cup {r}
    BY <2>1, <2>2 DEF Live
  <2> QED BY <2>1, <2>3 DEF Small
<1>12. LengthsOK'
  <2>1. ASSUME NEW t \in Small' PROVE n'[t] \in Buckets
    <3>1. CASE t = r
      BY <1>2, <1>7, <3>1
    <3>2. CASE t = s
      BY <1>3, <1>7, <3>2
    <3>3. CASE t \notin {r, s}
      BY <1>7, <1>8, <1>11, <3>3 DEF IInv, LengthsOK, Small
    <3> QED BY <3>1, <3>2, <3>3
  <2>2. ASSUME NEW t \in Live' \cap LargeIds PROVE n'[t] \in LargeSizes
    BY <1>5, <1>7, <1>8, <1>11, Ids DEF IInv, LengthsOK
  <2> QED BY <2>1, <2>2 DEF LengthsOK
<1>13. ListsOK'
  <2> SUFFICES ASSUME NEW k \in Buckets, NEW t \in _spanList'[k]
               PROVE  n'[t] = k /\ ~ _isUse'[t]
    BY DEF ListsOK
  <2>1. t \in (_spanList[k] \ {s}) \cup (IF k = step - want THEN {s} ELSE {})
    BY <1>10
  <2>2. CASE t = s
    <3>1. s \notin _spanList[k] \ {s} /\ k = step - want
      BY <2>1, <2>2
    <3> QED BY <1>b, <1>5, <1>6, <1>7, <2>2, <3>1 DEF IInv, TypeOK
  <2>3. CASE t # s
    <3>1. t \in _spanList[k]
      BY <2>1, <2>3
    <3>2. t \in Live
      BY <3>1 DEF Live, Free
    <3> QED BY <1>b, <1>7, <1>8, <2>3, <3>1, <3>2 DEF IInv, TypeOK, ListsOK
  <2> QED BY <2>2, <2>3
<1>14. ObjectsOK'
  BY <1>1, <1>11 DEF ObjectsOK
<1>15. ASSUME NEW t \in Live', t \notin {r, s}
       PROVE  /\ t \in Live /\ _id'[t] = _id[t] /\ n'[t] = n[t]
              /\ _id[t] \in Nat /\ n[t] \in Nat \ {0}
              /\ _id[t] + n[t] <= Page(mark) /\ _id[t] + n[t] <= HeapPages
              /\ _id[t] + n[t] <= _id[s] \/ _id[s] + step <= _id[t]
  <2>1. t \in Live /\ t # s
    BY <1>11, <1>15
  <2>2. Disjoint(s, t)
    BY <1>6, <2>1 DEF IInv, ExtentsOK
  <2> QED BY <1>5, <1>7, <1>8, <1>15, <2>1, <2>2 DEF Disjoint
<1>16. ExtentsOK'
  <2>1. ASSUME NEW t \in Live', NEW u \in Live', t # u PROVE Disjoint(t, u)'
    <3>1. CASE t \in {r, s} /\ u \in {r, s}
      BY <1>3, <1>6, <1>7, <2>1, <3>1 DEF Disjoint
    <3>2. CASE t \in {r, s} /\ u \notin {r, s}
      <4>1. CASE t = r
        BY <1>3, <1>6, <1>7, <1>15, <3>2, <4>1 DEF Disjoint
      <4>2. CASE t = s
        BY <1>3, <1>6, <1>7, <1>15, <3>2, <4>2 DEF Disjoint
      <4> QED BY <3>2, <4>1, <4>2
    <3>3. CASE t \notin {r, s} /\ u \in {r, s}
      <4>1. CASE u = r
        BY <1>3, <1>6, <1>7, <1>15, <3>3, <4>1 DEF Disjoint
      <4>2. CASE u = s
        BY <1>3, <1>6, <1>7, <1>15, <3>3, <4>2 DEF Disjoint
      <4> QED BY <3>3, <4>1, <4>2
    <3>4. CASE t \notin {r, s} /\ u \notin {r, s}
      BY <1>15, <2>1, <3>4 DEF IInv, ExtentsOK, Disjoint
    <3> QED BY <3>1, <3>2, <3>3, <3>4
  <2>2. ASSUME NEW t \in Live'
        PROVE  _id'[t] + n'[t] <= Page(mark) /\ _id'[t] + n'[t] <= HeapPages
    <3>1. CASE t = r
      BY <1>3, <1>4, <1>6, <1>7, <3>1, Numbers
    <3>2. CASE t = s
      BY <1>3, <1>4, <1>6, <1>7, <3>2, Numbers
    <3>3. CASE t \notin {r, s}
      BY <1>4, <1>15, <3>3
    <3> QED BY <3>1, <3>2, <3>3
  <2> QED BY <1>4, <2>1, <2>2 DEF ExtentsOK
<1>17. \A p \in Pages :
         _spanMap'[p] = IF p \in _id[s] .. _id[s] + want - 1 THEN r
                        ELSE IF p \in {_id[s] + want, _id[s] + step - 1} THEN s
                        ELSE _spanMap[p]
  BY <1>b, <1>5 DEF IInv, TypeOK, MapAll, MapEnds
<1>18. \A p \in Pages : p \notin PagesOf(s) => _spanMap'[p] = _spanMap[p]
  BY <1>3, <1>5, <1>6, <1>17 DEF PagesOf
<1>0. PagesKept
  <2> SUFFICES ASSUME NEW p \in Nat, Covered(p)
               PROVE  Covered(p)'
    BY DEF PagesKept
  <2>1. PICK t \in Small : _id[t] <= p /\ p < _id[t] + n[t]
    BY DEF Covered
  <2>2. CASE t = s
    <3>1. CASE p < _id[s] + want
      BY <1>3, <1>5, <1>6, <1>7, <1>11, <2>1, <2>2, <3>1 DEF Covered
    <3>2. CASE p >= _id[s] + want
      BY <1>3, <1>5, <1>6, <1>7, <1>11, <2>1, <2>2, <3>2 DEF Covered
    <3> QED BY <1>3, <1>6, <3>1, <3>2
  <2>3. CASE t # s
    BY <1>7, <1>8, <1>11, <2>1, <2>3 DEF Covered, Small
  <2> QED BY <2>2, <2>3
<1>19. MapCovered'
  <2> SUFFICES ASSUME NEW p \in Pages
               PROVE  /\ _spanMap'[p] \in SmallIds => Covered(p)'
                      /\ _spanMap'[p] \in LargeIds => n'[_spanMap'[p]] \in LargeSizes
    BY DEF MapCovered
  <2>1. p \in Nat
    BY Numbers
  <2>2. \A e \in LargeIds : n'[e] = n[e] /\ e # r /\ e # s
    BY <1>5, <1>7, Ids
  <2>3. CASE p \in PagesOf(s)
    <3>1. Covered(p)
      BY <1>6, <2>3, PagesIn DEF Covered
    <3>2. Covered(p)'
      BY <1>0, <2>1, <3>1 DEF PagesKept
    <3>3. _spanMap'[p] \in {r, s} \/ _spanMap'[p] = _spanMap[p]
      BY <1>17
    <3> QED BY <2>2, <3>2, <3>3 DEF IInv, MapCovered
  <2>4. CASE p \notin PagesOf(s)
    <3>1. _spanMap'[p] = _spanMap[p]
      BY <1>18, <2>4
    <3> QED BY <1>0, <2>1, <2>2, <3>1 DEF IInv, MapCovered, PagesKept
  <2> QED BY <2>3, <2>4
<1>20. MapEndsOK'
  <2> SUFFICES ASSUME NEW t \in Small'
               PROVE  \/ _spanMap'[Last(t)'] = t
                      \/ ~ _isUse'[t] /\ n'[t] = MaxPages /\ _spanMap'[Last(t)'] \notin SmallIds
    BY DEF MapEndsOK
  <2>1. CASE t = r
    <3>1. Last(t)' = _id[s] + want - 1 /\ _id[s] + want - 1 \in Pages
      BY <1>3, <1>6, <1>7, <2>1, Numbers DEF Last
    <3>2. _id[s] + want - 1 \in _id[s] .. _id[s] + want - 1
      BY <1>3, <1>6
    <3> QED BY <1>17, <2>1, <3>1, <3>2
  <2>2. CASE t = s
    <3>1. Last(t)' = _id[s] + step - 1 /\ _id[s] + step - 1 \in Pages
      BY <1>3, <1>6, <1>7, <2>2, Numbers DEF Last
    <3>2. _id[s] + step - 1 \notin _id[s] .. _id[s] + want - 1
      BY <1>3, <1>6
    <3> QED BY <1>17, <2>2, <3>1, <3>2
  <2>3. CASE t \notin {r, s}
    <3>1. t \in Small /\ t \in Live /\ Last(t) \in PagesOf(t) /\ Last(t) \in Pages
      BY <1>11, <2>3, PagesIn DEF Small
    <3>2. Last(t)' = Last(t) /\ n'[t] = n[t] /\ _isUse'[t] = _isUse[t]
      BY <1>b, <1>7, <1>8, <2>3, <3>1 DEF Last, IInv, TypeOK
    <3>3. _spanMap'[Last(t)] = _spanMap[Last(t)]
      BY <1>6, <1>18, <2>3, <3>1, PagesApart
    <3> QED BY <3>1, <3>2, <3>3 DEF IInv, MapEndsOK
  <2> QED BY <2>1, <2>2, <2>3
<1>21. MapExact'
  <2> SUFFICES ASSUME NEW t \in InUse'
               PROVE  IF n'[t] <= MaxPages THEN \A p \in PagesOf(t)' : _spanMap'[p] = t
                                           ELSE _spanMap'[_id'[t]] = t
    BY DEF MapExact
  <2>1. CASE t = r
    <3>1. n'[t] <= MaxPages
      BY <1>3, <1>7, <2>1
    <3>2. ASSUME NEW p \in PagesOf(t)' PROVE p \in Pages /\ p \in _id[s] .. _id[s] + want - 1
      BY <1>3, <1>6, <1>7, <2>1, <3>2, Numbers DEF PagesOf
    <3> QED BY <1>17, <2>1, <3>1, <3>2
  <2>2. CASE t # r
    <3>1. t \in InUse /\ t # s /\ t \in Live /\ t \in SpanIds
      BY <1>5, <1>8, <1>11, <2>2, HeldIsLive DEF InUse
    <3>2. _id'[t] = _id[t] /\ n'[t] = n[t] /\ PagesOf(t)' = PagesOf(t)
      BY <1>7, <2>2, <3>1 DEF PagesOf
    <3>3. \A p \in PagesOf(t) : _spanMap'[p] = _spanMap[p]
      BY <1>6, <1>18, <3>1, PagesIn, PagesApart
    <3>4. t \in InUse \ {rel} /\ _id[t] \in PagesOf(t)
      BY <1>2, <3>1, PagesIn, Ids
    <3> QED BY <3>2, <3>3, <3>4 DEF IInv, MapExact
  <2> QED BY <2>1, <2>2
<1>22. RelOK' /\ RoomOK' /\ BreakOK'
  <2>1. Fits(want) /\ ~ NoObject
    BY <1>3, <1>5 DEF Fits, TakeSplit
  <2>2. ptr = Nowhere
    BY <1>2, <2>1 DEF IInv, BreakOK
  <2> QED BY <1>2, <1>4, <2>2 DEF RelOK, RoomOK, IInv, BreakOK
<1>23. IInv'
  BY <1>9, <1>12, <1>13, <1>14, <1>16, <1>19, <1>20, <1>21, <1>22 DEF IInv
<1>24. r \notin Held /\ Held' = Held \cup {r}
  BY <1>1, <1>2, <1>6, <1>11, HeldIsLive, Ids DEF Held
<1>25. \A t \in Held : t \in SpanIds /\ t # r /\ t # s
  BY <1>5, <1>24 DEF Held, InUse
<1>26. Heap!NewSpan
  BY <1>6, <1>7, <1>23, <1>24, <1>25, HandsOut
<1> QED BY <1>0, <1>23, <1>26

\* A large span comes straight from the break.
LEMMA NewLargeStep ==
  ASSUME IInv, NewLarge
  PROVE  IInv' /\ PagesKept /\ Heap!NewSpan
<1> DEFINE first == Page(ptr)
<1> PICK s \in LargeIds \ InUse :
      /\ _id' = [_id EXCEPT ![s] = first]
      /\ n' = [n EXCEPT ![s] = want]
      /\ _isUse' = [_isUse EXCEPT ![s] = TRUE]
      /\ _spanMap' = [_spanMap EXCEPT ![first] = s]
  BY DEF NewLarge
<1>a. /\ want \in LargeSizes /\ want \in Nat /\ want > MaxPages /\ MaxPages \in Nat
      /\ want \notin Buckets /\ ~ Fits(want) /\ rel = None /\ want' = 0
      /\ UNCHANGED <<_spanList, made, allocremain, pool, rel>>
  BY Numbers DEF NewLarge, IInv, RelOK, poolVars, Fits
<1>b. /\ ptr = brk /\ brk \in Nat /\ mark \in Nat /\ mark <= brk /\ theirPtr = Nowhere
      /\ brk' = brk + Addr(want) /\ mark' = brk' /\ ptr' = Nowhere /\ theirPtr' = Nowhere
  BY DEF NewLarge, Brk, IInv, TypeOK, BreakOK
<1>1. /\ brk' \in Nat /\ Page(mark') = first + want /\ first \in Pages /\ first \in Nat
      /\ Page(mark) \in Nat /\ Page(mark) <= first /\ first + want <= HeapPages
  <2>1. first + want <= HeapPages
    BY <1>a, <1>b DEF IInv, RoomOK, Needs
  <2>2. /\ brk' \in Nat /\ Page(mark') = first + want /\ first \in Nat
        /\ Page(mark) \in Nat /\ Page(mark) <= first
    BY <1>a, <1>b, PageBounds, PagePlus, PageMonotone
  <2> QED BY <2>1, <2>2, <1>a, Numbers
<1> HIDE DEF first
<1>2. s \in LargeIds /\ s \in SpanIds /\ s \notin SmallIds /\ s \notin Live /\ s \notin InUse
  BY Ids DEF IInv, TypeOK, Live, InUse, Free
<1>3. Live' = Live \cup {s} /\ Small' = Small /\ InUse' = InUse \cup {s}
  BY <1>a, <1>2 DEF IInv, TypeOK, Live, InUse, Free, Small
<1>4. /\ _id'[s] = first /\ n'[s] = want
      /\ \A t \in SpanIds \ {s} : _id'[t] = _id[t] /\ n'[t] = n[t] /\ _isUse'[t] = _isUse[t]
      /\ \A p \in Pages : _spanMap'[p] = IF p = first THEN s ELSE _spanMap[p]
  BY <1>1, <1>2 DEF IInv, TypeOK
<1>5. \A t \in Live : /\ t # s /\ t \in SpanIds /\ _id[t] \in Nat /\ n[t] \in Nat \ {0}
                      /\ _id[t] + n[t] <= Page(mark) /\ _id[t] + n[t] <= HeapPages
  BY <1>2, LiveSpan
<1>6. TypeOK'
  BY <1>1, <1>2, <1>a, <1>b DEF IInv, TypeOK
<1>7. LengthsOK'
  BY <1>a, <1>3, <1>4, <1>5, <1>2 DEF IInv, LengthsOK, Small
<1>8. ListsOK'
  <2> SUFFICES ASSUME NEW b \in Buckets, NEW t \in _spanList[b]
               PROVE  n'[t] = b /\ ~ _isUse'[t]
    BY <1>a DEF ListsOK
  <2>1. t \in Live
    BY DEF Live, Free
  <2> QED BY <1>4, <1>5, <2>1 DEF IInv, ListsOK
<1>9. ObjectsOK'
  BY <1>a, <1>2, <1>3 DEF IInv, ObjectsOK
<1>10. ExtentsOK'
  BY <1>1, <1>a, <1>3, <1>4, <1>5 DEF IInv, ExtentsOK, Disjoint
<1>11. RoomOK' /\ RelOK' /\ BreakOK'
  BY <1>1, <1>a, <1>b DEF RoomOK, RelOK, BreakOK
<1>12. PagesKept
  BY <1>3, <1>4, <1>5, SamePages DEF Small
<1>13. MapCovered'
  <2> SUFFICES ASSUME NEW p \in Pages
               PROVE  /\ _spanMap'[p] \in SmallIds => Covered(p)'
                      /\ _spanMap'[p] \in LargeIds => n'[_spanMap'[p]] \in LargeSizes
    BY DEF MapCovered
  <2>1. CASE p = first
    BY <1>a, <1>2, <1>4, <2>1
  <2>2. CASE p # first
    <3>1. _spanMap'[p] = _spanMap[p] /\ p \in Nat
      BY <1>4, <2>2, Numbers
    <3>2. \A e \in LargeIds : n'[e] = n[e] \/ n'[e] = want
      BY <1>4, Ids
    <3>3. _spanMap[p] \in LargeIds => n'[_spanMap[p]] \in LargeSizes
      BY <3>2, <1>a DEF IInv, MapCovered
    <3>4. _spanMap[p] \in SmallIds => Covered(p)'
      BY <1>12, <3>1 DEF IInv, MapCovered, PagesKept
    <3> QED BY <3>1, <3>3, <3>4
  <2> QED BY <2>1, <2>2
<1>14. MapEndsOK'
  <2> SUFFICES ASSUME NEW t \in Small
               PROVE  \/ _spanMap'[Last(t)'] = t
                      \/ ~ _isUse'[t] /\ n'[t] = MaxPages /\ _spanMap'[Last(t)'] \notin SmallIds
    BY <1>3 DEF MapEndsOK
  <2>1. t \in Live /\ Last(t)' = Last(t) /\ n'[t] = n[t] /\ _isUse'[t] = _isUse[t]
    BY <1>4, <1>5 DEF Last, Small
  <2>2. Last(t) \in Pages /\ Last(t) # first
    BY <1>1, <1>5, <2>1, PagesIn DEF Last
  <2>3. _spanMap'[Last(t)] = _spanMap[Last(t)]
    BY <1>4, <2>2
  <2> QED BY <2>1, <2>3 DEF IInv, MapEndsOK
<1>15. MapExact'
  <2> SUFFICES ASSUME NEW t \in InUse'
               PROVE  IF n'[t] <= MaxPages THEN \A p \in PagesOf(t)' : _spanMap'[p] = t
                                           ELSE _spanMap'[_id'[t]] = t
    BY DEF MapExact
  <2>1. CASE t = s
    BY <1>1, <1>a, <1>4, <2>1
  <2>2. CASE t # s
    <3>1. t \in InUse /\ t \in Live /\ t \in InUse \ {rel}
      BY <1>a, <1>3, <2>2, HeldIsLive, Ids DEF InUse
    <3>2. _id'[t] = _id[t] /\ n'[t] = n[t] /\ PagesOf(t)' = PagesOf(t)
      BY <1>4, <1>5, <3>1 DEF PagesOf
    <3>3. _id[t] \in PagesOf(t) /\ \A p \in PagesOf(t) : p \in Pages /\ p # first
      BY <1>1, <1>5, <3>1, PagesIn
    <3>4. \A p \in PagesOf(t) : _spanMap'[p] = _spanMap[p]
      BY <1>4, <3>3
    <3> QED BY <3>1, <3>2, <3>3, <3>4 DEF IInv, MapExact
  <2> QED BY <2>1, <2>2
<1>16. IInv'
  BY <1>6, <1>7, <1>8, <1>9, <1>10, <1>11, <1>13, <1>14, <1>15 DEF IInv
<1>17. s \notin Held /\ Held' = Held \cup {s}
  BY <1>a, <1>2, <1>3, Ids DEF Held
<1>18. \A t \in Held : _id'[t] = _id[t] /\ n'[t] = n[t]
  BY <1>2, <1>4 DEF Held, InUse
<1>19. Heap!NewSpan
  BY <1>2, <1>16, <1>17, <1>18, HandsOut
<1> QED BY <1>12, <1>16, <1>19

\* A large span at the top of the heap is given back to the system.
LEMMA ReleaseLargeStep ==
  ASSUME IInv, BreakRespected, NEW s \in SpanIds, ReleaseLarge(s)
  PROVE  IInv' /\ PagesKept /\ Heap!ReleaseSpan
<1>1. /\ s \in InUse /\ n[s] > MaxPages /\ want = 0 /\ rel = None
      /\ brk' = Addr(_id[s]) /\ mark' = brk' /\ theirPtr = Nowhere
      /\ _isUse' = [_isUse EXCEPT ![s] = FALSE]
      /\ UNCHANGED <<ptr, theirPtr, _id, n, _spanList, _spanMap, made, allocremain, pool,
                      want, rel>>
  BY DEF ReleaseLarge, Idle, poolVars, BreakRespected
<1>2. /\ s \in Live /\ s \in LargeIds /\ s \notin SmallIds /\ s \notin Free
      /\ _id[s] \in Nat /\ n[s] \in Nat \ {0} /\ n[s] \in LargeSizes
  <2>1. s \in Live
    BY <1>1, HeldIsLive
  <2>2. s \in LargeIds
    BY <1>1, <2>1, LiveSpan, Ids, Numbers
  <2> QED BY <2>1, <2>2, LiveSpan, Ids DEF IInv, TypeOK, Free
<1>3. /\ _id[s] + n[s] = Page(brk)
      /\ brk' \in Nat /\ Page(mark') = _id[s] /\ ptr = Nowhere
      /\ mark \in Nat /\ brk \in Nat /\ Page(mark) <= Page(brk)
  <2>1. _id[s] + n[s] = Page(brk)
    BY <1>2 DEF BreakRespected, ReleaseLarge
  <2>2. mark \in Nat /\ brk \in Nat /\ mark <= brk /\ ptr = Nowhere
    BY <1>1 DEF IInv, TypeOK, BreakOK
  <2> QED BY <2>1, <2>2, <1>1, <1>2, PageOfAddr, PageMonotone
<1>4. Live' = Live \ {s} /\ Small' = Small /\ InUse' = InUse \ {s}
  BY <1>1, <1>2 DEF IInv, TypeOK, Live, InUse, Free, Small
<1>5. TypeOK'
  BY <1>1, <1>2, <1>3 DEF IInv, TypeOK
<1>6. LengthsOK' /\ ObjectsOK' /\ MapCovered'
  BY <1>1, <1>2, <1>4 DEF IInv, LengthsOK, ObjectsOK, MapCovered, Covered
<1>7. \A t \in SpanIds \ {s} : _isUse'[t] = _isUse[t]
  BY <1>1 DEF IInv, TypeOK
<1>8. ListsOK'
  BY <1>1, <1>2, <1>7, Ids DEF IInv, ListsOK, TypeOK
<1>9. ExtentsOK'
  <2>1. ASSUME NEW t \in Live \ {s}
        PROVE  _id[t] + n[t] <= _id[s]
    <3>1. Disjoint(s, t)
      BY <1>2, <2>1 DEF IInv, ExtentsOK
    <3>2. _id[t] \in Nat /\ n[t] \in Nat \ {0} /\ _id[t] + n[t] <= Page(mark)
      BY <2>1, LiveSpan
    <3>3. Page(mark) \in Nat /\ Page(brk) \in Nat
      BY <1>3, PageBounds
    <3> QED BY <1>2, <1>3, <3>1, <3>2, <3>3 DEF Disjoint
  <2> QED BY <1>1, <1>3, <1>4, <2>1 DEF IInv, ExtentsOK, Disjoint
<1>10. MapEndsOK'
  BY <1>1, <1>2, <1>4, <1>7, Ids DEF IInv, MapEndsOK, Last, Small
<1>11. MapExact'
  BY <1>1, <1>4 DEF IInv, MapExact, PagesOf
<1>12. RoomOK' /\ RelOK' /\ BreakOK'
  BY <1>1, <1>3 DEF RoomOK, RelOK, BreakOK
<1>13. IInv'
  BY <1>5, <1>6, <1>8, <1>9, <1>10, <1>11, <1>12 DEF IInv
<1>14. PagesKept
  BY <1>1, <1>4, SamePages
<1>15. s \in Held /\ Held' = Held \ {s}
  BY <1>1, <1>2, <1>4, Ids DEF Held
<1>16. Heap!ReleaseSpan
  BY <1>1, <1>15, TakesBack
<1> QED BY <1>13, <1>14, <1>16

\* The beginning of a call, and whatever others do to the break, leaves the spans
\* alone; the span of a Release is no longer its caller's.
LEMMA OtherSteps ==
  ASSUME IInv, BreakRespected,
         \/ \E k \in Buckets \cup LargeSizes : NewSpan(k)
         \/ \E s \in SpanIds : Release(s)
         \/ Sbrk \/ OtherSbrk \/ OtherBrk
         \/ UNCHANGED vars
  PROVE  IInv' /\ PagesKept /\ (Heap!ReleaseSpan \/ HeldRuns' = HeldRuns)
<1>1. UNCHANGED <<_id, n, _isUse, _spanList, _spanMap, made, allocremain, pool, mark>>
  BY DEF NewSpan, Release, Sbrk, OtherSbrk, OtherBrk, vars, spanVars, poolVars, brkVars
<1>2. Live' = Live /\ Small' = Small /\ InUse' = InUse
  BY <1>1 DEF Live, InUse, Free, Small
<1>a. /\ want \in Buckets \cup LargeSizes \cup {0} /\ rel \in SmallIds \cup {None}
      /\ brk \in Nat /\ mark \in Nat /\ mark <= brk
      /\ ptr \in Nat \cup {Nowhere} /\ theirPtr \in Nat \cup {Nowhere}
      /\ rel # None => _isUse[rel] /\ want = 0
      /\ want # 0 => Fits(want) \/ Page(brk) + Needs(want) <= HeapPages
  BY DEF IInv, TypeOK, RelOK, RoomOK, BreakOK
<1>b. Fits(want)' <=> \E step \in want' .. MaxPages : _spanList[step] # {}
  BY <1>1 DEF Fits
<1>c. NoObject' <=> NoObject
  BY <1>1 DEF NoObject
<1>4. /\ want' \in Buckets \cup LargeSizes \cup {0} /\ rel' \in SmallIds \cup {None}
      /\ brk' \in Nat /\ ptr' \in Nat \cup {Nowhere} /\ theirPtr' \in Nat \cup {Nowhere}
      /\ RelOK' /\ RoomOK' /\ BreakOK' /\ (rel' = rel \/ (rel = None /\ rel' \in InUse))
  <2>1. CASE \E k \in Buckets \cup LargeSizes : NewSpan(k)
    <3>1. PICK k \in Buckets \cup LargeSizes : NewSpan(k)
      BY <2>1
    <3>2. /\ UNCHANGED <<brk, ptr, theirPtr, rel>> /\ rel = None /\ want = 0 /\ want' = k
          /\ Page(brk) + Needs(k) <= HeapPages
      BY <3>1 DEF NewSpan, Idle, brkVars
    <3>3. RoomOK'
      BY <3>2, <1>1, <1>b, <1>c DEF RoomOK, Needs, Fits
    <3>4. BreakOK' /\ RelOK'
      BY <3>2, <1>1, <1>a DEF IInv, BreakOK, RelOK
    <3> QED BY <3>2, <3>3, <3>4, <1>a
  <2>2. CASE \E s \in SpanIds : Release(s)
    <3>1. PICK s \in SpanIds : Release(s)
      BY <2>2
    <3>2. /\ s \in InUse /\ n[s] <= MaxPages /\ rel' = s /\ rel = None /\ want = 0 /\ want' = 0
          /\ UNCHANGED <<brk, ptr, theirPtr>>
      BY <3>1 DEF Release, Idle, brkVars
    <3>3. s \in SmallIds
      BY <3>2, LiveSpan, HeldIsLive, Ids, Numbers
    <3> QED BY <1>1, <1>a, <3>2, <3>3 DEF RelOK, RoomOK, InUse, IInv, BreakOK
  <2>3. CASE Sbrk
    <3>1. /\ UNCHANGED <<brk, theirPtr, want, rel>> /\ ptr' = brk /\ want # 0 /\ theirPtr = Nowhere
          /\ want \in Buckets => ~ Fits(want) \/ (NoObject /\ _spanList[want] = {})
      BY <2>3 DEF Sbrk, BreakRespected
    <3>2. RoomOK' /\ RelOK'
      BY <3>1, <1>1, <1>a, <1>b, <1>c DEF RoomOK, RelOK, Needs, Fits
    <3>3. BreakOK'
      BY <3>1, <1>1, <1>a, <1>b, <1>c DEF BreakOK, Fits
    <3> QED BY <3>1, <3>2, <3>3, <1>a
  <2>4. CASE OtherSbrk
    <3>1. /\ UNCHANGED <<brk, ptr, want, rel>> /\ theirPtr' = brk /\ ptr = Nowhere
      BY <2>4 DEF OtherSbrk, BreakRespected
    <3>2. RoomOK' /\ RelOK'
      BY <3>1, <1>1, <1>a, <1>b, <1>c DEF RoomOK, RelOK, Needs, Fits
    <3>3. BreakOK'
      BY <3>1, <1>1, <1>a DEF BreakOK
    <3> QED BY <3>1, <3>2, <3>3, <1>a
  <2>5. CASE OtherBrk
    <3>1. /\ UNCHANGED <<ptr, want, rel>> /\ theirPtr' = Nowhere /\ theirPtr = brk /\ ptr = Nowhere
      BY <2>5 DEF OtherBrk, IInv, BreakOK
    <3>2. /\ brk' \in Nat /\ mark <= brk'
          /\ brk' <= brk \/ Page(brk') + Needs(want) <= HeapPages
      <4>1. CASE brk' = brk
        BY <4>1, <1>a
      <4>2. ASSUME NEW gap \in Gaps, brk' = theirPtr + gap,
                   Page(theirPtr + gap) + Needs(want) <= HeapPages
            PROVE  brk' \in Nat /\ mark <= brk' /\ (brk' <= brk \/ Page(brk') + Needs(want) <= HeapPages)
        BY <4>2, <3>1, <1>a, Numbers
      <4>3. ASSUME NEW gap \in Gaps, brk' = theirPtr - gap, mark <= theirPtr - gap
            PROVE  brk' \in Nat /\ mark <= brk' /\ (brk' <= brk \/ Page(brk') + Needs(want) <= HeapPages)
        BY <4>3, <3>1, <1>a, Numbers
      <4> QED BY <2>5, <4>1, <4>2, <4>3 DEF OtherBrk
    <3>3. RoomOK'
      <4>1. Needs(want)' = Needs(want) /\ (Fits(want)' <=> Fits(want))
        BY <3>1, <1>b, <1>c, <1>1 DEF Needs, Fits
      <4>2. CASE want = 0 \/ Fits(want)
        BY <4>1, <4>2, <3>1 DEF RoomOK
      <4>3. CASE want # 0 /\ ~ Fits(want)
        <5>1. Needs(want) \in Nat
          BY <1>a, <4>3, Numbers DEF Needs
        <5>2. brk' <= brk => Page(brk') <= Page(brk)
          BY <3>2, <1>a, PageMonotone
        <5>3. Page(brk') + Needs(want) <= HeapPages
          BY <5>1, <5>2, <3>2, <4>3, <1>a, PageBounds, Numbers
        <5> QED BY <4>1, <5>3 DEF RoomOK
      <4> QED BY <4>2, <4>3
    <3>4. BreakOK' /\ RelOK'
      BY <3>1, <3>2, <1>1, <1>a DEF BreakOK, RelOK
    <3> QED BY <3>1, <3>2, <3>3, <3>4, <1>a
  <2>6. CASE UNCHANGED vars
    <3>1. UNCHANGED <<brk, ptr, theirPtr, want, rel>>
      BY <2>6 DEF vars, brkVars
    <3>2. RoomOK' /\ RelOK'
      BY <3>1, <1>1, <1>a, <1>b, <1>c DEF RoomOK, RelOK, Needs, Fits
    <3>3. BreakOK'
      BY <3>1, <1>1, <1>b, <1>c DEF IInv, BreakOK, Fits
    <3> QED BY <3>1, <3>2, <3>3, <1>a
  <2> QED BY <2>1, <2>2, <2>3, <2>4, <2>5, <2>6
<1>5. TypeOK'
  BY <1>1, <1>4 DEF IInv, TypeOK
<1>6. LengthsOK' /\ ListsOK' /\ ObjectsOK' /\ MapCovered' /\ MapEndsOK'
  BY <1>1, <1>2 DEF IInv, LengthsOK, ListsOK, ObjectsOK, MapCovered, Covered, MapEndsOK, Last
<1>7. ExtentsOK'
  BY <1>1, <1>2 DEF IInv, ExtentsOK, Disjoint
<1>8. MapExact'
  <2>1. InUse \ {rel'} \subseteq InUse \ {rel}
    BY <1>4, Ids DEF InUse
  <2> QED BY <1>1, <1>2, <2>1 DEF IInv, MapExact, PagesOf
<1>9. IInv'
  BY <1>4, <1>5, <1>6, <1>7, <1>8 DEF IInv
<1>10. PagesKept
  BY <1>1, <1>2, SamePages
<1>11. CASE rel' = rel
  <2>1. Held' = Held
    BY <1>2, <1>11 DEF Held
  <2> QED BY <1>1, <1>9, <1>10, <2>1, SameRuns
<1>12. CASE rel = None /\ rel' \in InUse
  <2>1. rel' \in Held /\ Held' = Held \ {rel'}
    BY <1>2, <1>12, Ids DEF Held, InUse
  <2> QED BY <1>1, <1>9, <1>10, <2>1, TakesBack
<1> QED BY <1>4, <1>11, <1>12

-----------------------------------------------------------------------------
(* The theorems.                                                             *)

\* Every step keeps the invariant and the pages, and is a step of PageHeap or
\* hands nothing out.
LEMMA StepKeeps ==
  ASSUME IInv, BreakRespected, [Next]_vars
  PROVE  IInv' /\ PagesKept /\ (Heap!Next \/ HeldRuns' = HeldRuns)
<1>1. CASE TakeExact \/ TakeSplit \/ Grow \/ NewLarge
  BY <1>1, TakeExactStep, TakeSplitStep, GrowStep, NewLargeStep DEF Heap!Next
<1>2. CASE Chunk \/ MergePrev \/ ReleaseEnd
  BY <1>2, ChunkStep, MergePrevStep, ReleaseEndStep
<1>3. CASE \E s \in SpanIds : ReleaseLarge(s)
  BY <1>3, ReleaseLargeStep DEF Heap!Next
<1>4. CASE \/ \E k \in Buckets \cup LargeSizes : NewSpan(k)
           \/ \E s \in SpanIds : Release(s)
           \/ Sbrk \/ OtherSbrk \/ OtherBrk
           \/ UNCHANGED vars
  BY <1>4, OtherSteps DEF Heap!Next
<1> QED BY <1>1, <1>2, <1>3, <1>4 DEF Next

\* In no reachable state do the spans, the buckets and _spanMap contradict each other.
THEOREM Invariance ==
  ASSUME BreakRespected
  PROVE  Spec => []IInv
<1>1. IInv /\ [Next]_vars => IInv'
  BY StepKeeps
<1> QED BY <1>1, InitIInv, PTL DEF Spec

\* The type invariant of PageCache.
THEOREM TypeCorrect ==
  ASSUME BreakRespected
  PROVE  Spec => []TypeOK
<1>1. IInv => TypeOK
  BY DEF IInv
<1> QED BY <1>1, Invariance, PTL

\* No page belongs to two spans and every span lies below the program break,
\* however NewSpan and ReleaseSpanToPageCache split, merge and recycle, and wherever
\* in a page others leave the break, as long as they respect the two calls of SystemAlloc.
THEOREM PagesHaveOneSpan ==
  ASSUME BreakRespected
  PROVE  Spec => []SpansDisjoint
<1>1. IInv => SpansDisjoint
  <2> SUFFICES ASSUME IInv PROVE SpansDisjoint
    OBVIOUS
  <2>1. ASSUME NEW s \in Live
        PROVE  n[s] > 0 /\ Addr(_id[s] + n[s]) <= brk
    <3>1. /\ _id[s] \in Nat /\ n[s] \in Nat \ {0} /\ _id[s] + n[s] <= Page(mark)
          /\ mark \in Nat /\ brk \in Nat /\ mark <= brk
      BY LiveSpan DEF IInv, TypeOK, BreakOK
    <3>2. Addr(_id[s] + n[s]) <= mark /\ Addr(_id[s] + n[s]) \in Nat
      BY <3>1, AddrBelow, PageOfAddr
    <3> QED BY <3>1, <3>2
  <2> QED BY <2>1 DEF IInv, ExtentsOK, SpansDisjoint
<1> QED BY <1>1, Invariance, PTL

\* Each bucket holds free spans of its length, and a Span object is a span or in
\* _objPool's free list, never both, however often it is recycled.
THEOREM BucketsAndPool ==
  ASSUME BreakRespected
  PROVE  Spec => []BucketsExact
<1>1. IInv => BucketsExact
  <2> SUFFICES ASSUME IInv PROVE BucketsExact
    OBVIOUS
  <2>1. pool \subseteq SmallIds /\ made \in Nat /\ made <= MaxSpans /\ SmallIds = 1 .. MaxSpans
        /\ MaxSpans \in Nat
    BY SizesAssumption DEF IInv, TypeOK, ObjectsOK, SmallIds
  <2>2. pool \cap Live = {}
    BY <2>1 DEF IInv, ObjectsOK
  <2>3. ASSUME NEW s
        PROVE  s \in pool \cup (Live \cap SmallIds) <=> s \in 1 .. made
    <3>1. s \in 1 .. made <=> s \in SmallIds /\ s <= made
      BY <2>1
    <3> QED BY <2>1, <3>1 DEF IInv, ObjectsOK
  <2> QED BY <2>2, <2>3 DEF IInv, ListsOK, BucketsExact
<1> QED BY <1>1, Invariance, PTL

\* MapToSpan leads from every page of a span that a caller holds to that span,
\* whatever stale entries _spanMap keeps elsewhere.
THEOREM MapLeadsToSpan ==
  ASSUME BreakRespected
  PROVE  Spec => []MapExact
<1>1. IInv => MapExact
  BY DEF IInv
<1> QED BY <1>1, Invariance, PTL

\* The backward merge never follows a stale entry of _objPool's: what it finds at
\* the page before the released span (PageCache.hpp:159) is a span that ends there.
THEOREM MergeFindsLiveSpan ==
  ASSUME BreakRespected
  PROVE  Spec => []NeighbourIsLive
<1>1. IInv => NeighbourIsLive
  <2> SUFFICES ASSUME IInv, rel # None, PrevId \in Pages, _spanMap[PrevId] \in SmallIds
               PROVE  /\ _spanMap[PrevId] \in Live
                      /\ _id[_spanMap[PrevId]] + n[_spanMap[PrevId]] - 1 = PrevId
    BY DEF NeighbourIsLive
  <2>1. rel \in Live /\ _id[rel] \in Nat /\ n[rel] \in Nat \ {0}
    BY HeldIsLive, LiveSpan
  <2>2. PICK t \in Small : _id[t] <= PrevId /\ PrevId < _id[t] + n[t]
    BY DEF IInv, MapCovered, Covered
  <2>3. t \in Live /\ _id[t] \in Nat /\ n[t] \in Nat \ {0}
    BY <2>2, LiveSpan DEF Small
  <2>4. t # rel
    BY <2>1, <2>2 DEF PrevId
  <2>5. Disjoint(t, rel)
    BY <2>1, <2>3, <2>4 DEF IInv, ExtentsOK
  <2>6. Last(t) = PrevId
    BY <2>1, <2>2, <2>3, <2>5 DEF Disjoint, PrevId, Last
  <2>7. _spanMap[PrevId] = t
    BY <2>6 DEF IInv, MapEndsOK
  <2> QED BY <2>3, <2>6, <2>7 DEF Last
<1> QED BY <1>1, Invariance, PTL

\* "Then merge backwards" (PageCache.hpp:190) never happens: in no state does a
\* release find, at the page it takes for the one after its span, something the
\* second loop could merge.
THEOREM SecondLoopNeverMerges ==
  ASSUME BreakRespected
  PROVE  Spec => [](rel # None => ~ CanMerge(NextId))
<1>1. IInv => (rel # None => ~ CanMerge(NextId))
  BY NextPageIsOwn
<1> QED BY <1>1, Invariance, PTL

\* Pages once taken for the buckets stay in a span: NewSpan's splits, the merges and
\* the recycling of Span objects lose none.
THEOREM PagesNotLost ==
  ASSUME BreakRespected
  PROVE  Spec => NoPageLost
<1>1. IInv /\ IInv' /\ PagesKept => SmallPages \subseteq SmallPages'
  <2> SUFFICES ASSUME IInv, IInv', PagesKept, NEW p \in SmallPages
               PROVE  p \in SmallPages'
    OBVIOUS
  <2>1. PICK s \in Small : p \in PagesOf(s)
    BY DEF SmallPages, Small
  <2>2. p \in Nat /\ Covered(p)
    BY <2>1, PagesIn DEF Covered, Small
  <2>3. PICK t \in Small' : _id'[t] <= p /\ p < _id'[t] + n'[t]
    BY <2>2 DEF PagesKept, Covered
  <2>4. t \in SpanIds
    BY <2>3, Ids DEF Small
  <2>5. p \in PagesOf(t)'
    BY <2>2, <2>3, <2>4 DEF PagesOf, IInv, TypeOK
  <2> QED BY <2>3, <2>5 DEF SmallPages, Small
<1>2. IInv /\ [Next]_vars => [SmallPages \subseteq SmallPages']_vars
  BY <1>1, StepKeeps
<1> QED BY <1>2, Invariance, PTL DEF Spec, NoPageLost

\* A release does not end while a free span that fits lies directly before the
\* released one: the first merge loop finds it by its last page.
THEOREM BackwardMergeComplete ==
  ASSUME BreakRespected
  PROVE  Spec => MergesBackward
<1>1. ASSUME IInv, ReleaseEnd, NEW s \in Free, _id[s] + n[s] = _id[rel]
      PROVE  n[s] + n[rel] > MaxPages
  <2> SUFFICES ASSUME n[s] + n[rel] <= MaxPages PROVE FALSE
    <3>1. s \in SpanIds /\ rel \in SpanIds
      BY <1>1, HeldIsLive, LiveSpan DEF ReleaseEnd, Live
    <3> QED BY <3>1, Numbers, <1>1 DEF IInv, TypeOK
  <2>1. /\ s \in Live /\ s \in Small /\ _id[s] \in Nat /\ n[s] \in Nat \ {0}
        /\ rel \in Live /\ _id[rel] \in Nat /\ n[rel] \in Nat \ {0}
    BY <1>1, HeldIsLive, LiveSpan DEF ReleaseEnd, Live, Small, Free, IInv, TypeOK
  <2>2. PrevId = Last(s) /\ Last(s) \in Pages /\ n[s] # MaxPages
    BY <1>1, <2>1, PagesIn, Numbers DEF PrevId, Last
  <2>3. _spanMap[PrevId] = s
    BY <1>1, <2>1, <2>2 DEF IInv, MapEndsOK
  <2>4. ~ _isUse[s] /\ s # None
    BY <1>1, Ids DEF IInv, TypeOK, ListsOK, Free
  <2>5. CanMerge(PrevId)
    BY <2>2, <2>3, <2>4 DEF CanMerge
  <2> QED BY <1>1, <2>5, ReleaseEndLinks
<1>2. ASSUME IInv, [Next]_vars, rel # None, rel' = None
      PROVE  ReleaseEnd
  <2>1. rel' # rel
    BY <1>2
  <2> QED BY <1>2, <2>1 DEF Next, NewSpan, Sbrk, Chunk, TakeExact, TakeSplit, Grow, NewLarge,
               ReleaseLarge, Release, MergePrev, OtherSbrk, OtherBrk, Idle, vars
<1>3. IInv /\ [Next]_vars =>
        [(rel # None /\ rel' = None) =>
           \A s \in Free : _id[s] + n[s] = _id[rel] => n[s] + n[rel] > MaxPages]_vars
  BY <1>1, <1>2
<1> QED BY <1>3, Invariance, PTL DEF Spec, MergesBackward

\* The page cache hands out runs that nobody holds and takes back held ones only: every
\* step of it is one of PageHeap's, or changes nothing there.
THEOREM Refinement ==
  ASSUME BreakRespected
  PROVE  Spec => ImplementsPageHeap
<1>1. Init => Heap!Init
  BY DEF Init, Heap!Init, HeldRuns, InUse
<1>2. IInv /\ [Next]_vars => [Heap!Next]_HeldRuns
  BY StepKeeps
<1> QED BY <1>1, <1>2, Invariance, PTL DEF Spec, ImplementsPageHeap, Heap!Spec
=============================================================================
