----------------------------- MODULE PageCache -----------------------------
(***************************************************************************)
(* PageCache of TCmalloc/TCmallocSRC/PageCache.hpp: the bottom layer of the *)
(* allocator.  It takes memory from the program break in chunks of          *)
(* NPAGES - 1 pages, splits free spans to serve NewSpan and merges them in   *)
(* ReleaseSpanToPageCache.                                                  *)
(*                                                                         *)
(* SystemAlloc reads the break, sbrk(0), and moves it to where it should be, *)
(* brk(ptr + length), in two calls.  malloc and TLSPool do the same without  *)
(* _pageMtx; they are one other user of the break here, whose steps fall     *)
(* anywhere between those of PageCache, also between its two calls.  The     *)
(* break is counted in units that a page has PageUnits of: the others move   *)
(* it by such units, and nothing aligns it to a page.                        *)
(*                                                                         *)
(* Every operation runs under _pageMtx from its first step to its last: want *)
(* and rel say which one holds the mutex.  Span objects are the numbers     *)
(* 1 .. MaxSpans (those of _objPool) and MaxSpans + 1 .. MaxSpans + MaxLarge  *)
(* (those "new" makes for a request above NPAGES - 1 pages).  The order of    *)
(* spans inside a bucket is left open: PopFront takes any of them.          *)
(***************************************************************************)
EXTENDS Integers, FiniteSets

CONSTANTS
  MaxPages,        \* NPAGES - 1: the longest span kept in a bucket
  PoolPages,       \* pages of one chunk of _objPool (1024 * 128 bytes)
  SpansPerChunk,   \* Span objects that fit such a chunk
  PageUnits,       \* units in a page: the break need not be aligned to one
  Gaps,            \* how many units others take from the break, or give back, at a time
  OneAtTheBreak,   \* TRUE: nobody reads the break between the two calls with
                   \* which another moves it
  LargeSizes,      \* lengths above MaxPages that callers ask for
  LastLargeFirst,  \* TRUE: callers free a large span only at the heap's top
  HeapPages,       \* bound: no growth beyond this page
  MaxSpans,        \* bound: Span objects the pool constructs
  MaxLarge         \* bound: large spans that exist at a time

ASSUME SizesAssumption ==
  /\ MaxPages \in Nat \ {0} /\ PoolPages \in Nat \ {0}
  /\ SpansPerChunk \in Nat \ {0} /\ PageUnits \in Nat \ {0}
  /\ Gaps \subseteq Nat
  /\ LargeSizes \subseteq {k \in Nat : k > MaxPages}
  /\ LastLargeFirst \in BOOLEAN /\ OneAtTheBreak \in BOOLEAN
  /\ HeapPages \in Nat /\ MaxSpans \in Nat /\ MaxLarge \in Nat

VARIABLES
  brk,        \* the program break, in units
  ptr,        \* what sbrk(0) told the SystemAlloc in progress, Nowhere if none
  theirPtr,   \* what sbrk(0) told another user of the break who is about to move it
  mark,       \* where PageCache's last call left the break: others own what is above
  _id, n, _isUse,   \* the fields of each Span object
  _spanList,  \* bucket k: the free spans of k pages
  _spanMap,   \* page number -> Span object, None where there is no entry
  made,       \* Span objects _objPool has constructed
  allocremain,   \* _objPool: objects that its chunk still has room for
  pool,       \* Span objects in _objPool's free list
  want,       \* pages of the NewSpan call in progress, 0 if none
  rel         \* Span of the Release call in progress, None if none

spanVars == <<_id, n, _isUse>>
poolVars == <<made, allocremain, pool>>
brkVars == <<brk, ptr, theirPtr, mark>>
vars == <<brkVars, spanVars, _spanList, _spanMap, poolVars, want, rel>>

None     == 0
Nowhere  == -1
Pages    == 0 .. HeapPages - 1
SmallIds == 1 .. MaxSpans
LargeIds == MaxSpans + 1 .. MaxSpans + MaxLarge
SpanIds  == SmallIds \cup LargeIds
Buckets  == 1 .. MaxPages

PagesOf(s) == _id[s] .. _id[s] + n[s] - 1
InUse == {s \in SpanIds : _isUse[s]}
Free  == UNION {_spanList[k] : k \in Buckets}

\* (PAGE_ID)ptr >> PAGE_SHIFT, and _id << PAGE_SHIFT.
Page(b) == b \div PageUnits
Addr(p) == p * PageUnits

Idle == want = 0 /\ rel = None

Init ==
  /\ brk \in 0 .. PageUnits - 1 /\ mark = brk
  /\ ptr = Nowhere /\ theirPtr = Nowhere
  /\ _id = [s \in SpanIds |-> 0]
  /\ n = [s \in SpanIds |-> 0]
  /\ _isUse = [s \in SpanIds |-> FALSE]
  /\ _spanList = [k \in Buckets |-> {}]
  /\ _spanMap = [p \in Pages |-> None]
  /\ made = 0 /\ allocremain = 0 /\ pool = {}
  /\ want = 0 /\ rel = None

-----------------------------------------------------------------------------
(* ObjectPool<Span>::New.  A recycled object comes back with the fields it  *)
(* had; otherwise the next one of the chunk is made, and a chunk that is used  *)
(* up has been replaced before (Chunk).                                      *)

NoObject == pool = {} /\ allocremain = 0

New(s) ==
  IF pool # {}
  THEN s \in pool /\ pool' = pool \ {s} /\ UNCHANGED <<made, allocremain>>
  ELSE s = made + 1 /\ made' = s /\ allocremain' = allocremain - 1 /\ pool' = pool

\* ObjectPool<Span>::Delete: the object goes to the pool's free list.
Delete(s) == pool' = pool \cup {s}

Fits(k) == \E step \in k .. MaxPages : _spanList[step] # {}

MapAllEnds(map, first, last, s) ==
  [p \in Pages |-> IF p \in {first, last} THEN s ELSE map[p]]

MapAllShort(map, first, last, s) ==
  [p \in Pages |-> IF p \in first .. last - 1 THEN s ELSE map[p]]

MapAll(map, first, last, s) ==
  [p \in Pages |-> IF p \in first .. last THEN s ELSE map[p]]

MapEnds(map, s, first, last) == [map EXCEPT ![first] = s, ![last] = s]

\* Pages that a call of NewSpan(k) may still take from the break for a span.
Needs(k) ==
  IF k > MaxPages THEN k
  ELSE IF k = 0 \/ Fits(k) THEN 0
  ELSE MaxPages + (IF NoObject THEN PoolPages ELSE 0)

\* A call of NewSpan begins.  The bounds: the heap has room for the growth and
\* there are Span objects left.
NewSpan(k) ==
  /\ Idle /\ k \in Buckets \cup LargeSizes
  /\ Page(brk) + Needs(k) <= HeapPages
  /\ IF k \in Buckets THEN made + 2 <= MaxSpans ELSE LargeIds \ InUse # {}
  /\ want' = k
  /\ UNCHANGED <<brkVars, spanVars, _spanList, _spanMap, poolVars, rel>>

-----------------------------------------------------------------------------
(* SystemAlloc.  NewSpan calls it for a large span, for a chunk of pages when  *)
(* nothing fits, and, inside _objPool.New, for a chunk of Span objects.       *)

\* ptr = sbrk(0).
Sbrk ==
  /\ want # 0 /\ ptr = Nowhere
  /\ want \in Buckets => ~ Fits(want) \/ (NoObject /\ _spanList[want] = {})
  /\ OneAtTheBreak => theirPtr = Nowhere
  /\ ptr' = brk
  /\ UNCHANGED <<brk, theirPtr, mark, spanVars, _spanList, _spanMap, poolVars, want, rel>>

BrkUnshifted(kpage) ==
  /\ ptr # Nowhere
  /\ brk' = ptr + kpage /\ mark' = brk'
  /\ ptr' = Nowhere /\ theirPtr' = theirPtr

\* brk(ptr + (kpage << PAGE_SHIFT)): the break goes there, wherever it is by now.
Brk(kpage) ==
  /\ ptr # Nowhere
  /\ brk' = ptr + Addr(kpage) /\ mark' = brk'
  /\ ptr' = Nowhere /\ theirPtr' = theirPtr

\* A new chunk of _objPool.
Chunk ==
  /\ want \in Buckets /\ NoObject
  /\ Brk(PoolPages)
  /\ allocremain' = SpansPerChunk
  /\ UNCHANGED <<spanVars, _spanList, _spanMap, made, pool, want, rel>>

\* The bucket has a span: take it and map each of its pages.  The caller sets
\* _isUse before it unlocks _pageMtx, so that belongs to the step.
TakeExact ==
  /\ want \in Buckets
  /\ \E s \in _spanList[want] :
       /\ _spanList' = [_spanList EXCEPT ![want] = @ \ {s}]
       /\ _spanMap' = MapAll(_spanMap, _id[s], _id[s] + n[s] - 1, s)
       /\ _isUse' = [_isUse EXCEPT ![s] = TRUE]
  /\ want' = 0
  /\ UNCHANGED <<brkVars, _id, n, poolVars, rel>>

\* A longer bucket, the nearest, has a span s: a new Span object r takes its
\* first pages, the remainder goes to the bucket of its new length.
TakeSplit ==
  /\ want \in Buckets /\ _spanList[want] = {} /\ ~ NoObject
  /\ \E step \in want + 1 .. MaxPages, r \in SmallIds : \E s \in _spanList[step] :
       /\ \A k \in want + 1 .. step - 1 : _spanList[k] = {}
       /\ New(r)
       /\ n' = [n EXCEPT ![r] = want, ![s] = @ - want]
       /\ _id' = [_id EXCEPT ![r] = _id[s], ![s] = @ + want]
       /\ _spanList' = [_spanList EXCEPT ![step] = @ \ {s},
                                         ![step - want] = @ \cup {s}]
       /\ _spanMap' = MapAll(MapEnds(_spanMap, s, _id[s] + want, _id[s] + n[s] - 1),
                             _id[s], _id[s] + want - 1, r)
       /\ _isUse' = [_isUse EXCEPT ![r] = TRUE]
  /\ want' = 0
  /\ UNCHANGED <<brkVars, rel>>

\* Nothing fits: a chunk of NPAGES - 1 pages from the break becomes one span
\* of the last bucket, not mapped yet, and NewSpan calls itself again.
Grow ==
  /\ want \in Buckets /\ ~ Fits(want) /\ ~ NoObject
  /\ Brk(MaxPages)
  /\ \E s \in SmallIds :
       /\ New(s)
       /\ n' = [n EXCEPT ![s] = MaxPages]
       /\ _id' = [_id EXCEPT ![s] = Page(ptr)]
       /\ _spanList' = [_spanList EXCEPT ![MaxPages] = @ \cup {s}]
  /\ UNCHANGED <<_isUse, _spanMap, want, rel>>

\* NewSpan above NPAGES - 1 pages: straight from the break, with a Span from
\* "new", and only the first page is mapped.
NewLarge ==
  /\ want \in LargeSizes
  /\ Brk(want)
  /\ \E s \in LargeIds \ InUse :
       /\ _id' = [_id EXCEPT ![s] = Page(ptr)]
       /\ n' = [n EXCEPT ![s] = want]
       /\ _isUse' = [_isUse EXCEPT ![s] = TRUE]
       /\ _spanMap' = [_spanMap EXCEPT ![Page(ptr)] = s]
  /\ want' = 0
  /\ UNCHANGED <<_spanList, poolVars, rel>>

-----------------------------------------------------------------------------
\* ReleaseSpanToPageCache of a large span: brk(the address of its first page),
\* which is below what SystemAlloc returned if that was no page boundary; delete.
\* Its entry in _spanMap stays.  LastLargeFirst is an assumption on the callers.
ReleaseLarge(s) ==
  /\ Idle /\ s \in InUse /\ n[s] > MaxPages
  /\ LastLargeFirst => _id[s] + n[s] = Page(brk)
  /\ OneAtTheBreak => theirPtr = Nowhere
  /\ brk' = Addr(_id[s]) /\ mark' = brk'
  /\ _isUse' = [_isUse EXCEPT ![s] = FALSE]
  /\ UNCHANGED <<ptr, theirPtr, _id, n, _spanList, _spanMap, poolVars, want, rel>>

ReleaseAnyLength(s) ==
  /\ Idle /\ s \in InUse
  /\ rel' = s
  /\ UNCHANGED <<brkVars, spanVars, _spanList, _spanMap, poolVars, want>>

\* ReleaseSpanToPageCache of a span from a bucket begins.
Release(s) ==
  /\ Idle /\ s \in InUse /\ n[s] <= MaxPages
  /\ rel' = s
  /\ UNCHANGED <<brkVars, spanVars, _spanList, _spanMap, poolVars, want>>

PrevIdOwnPage == _id[rel]

PrevId == _id[rel] - 1

\* "find the page after this span": it is the span's own last page.
NextId == _id[rel] + n[rel] - 1

CanMergeAnyLength(p) ==
  /\ p \in Pages /\ _spanMap[p] # None
  /\ ~ _isUse[_spanMap[p]]

CanMergeInUse(p) ==
  /\ p \in Pages /\ _spanMap[p] # None
  /\ n[_spanMap[p]] + n[rel] <= MaxPages

\* The conditions of a merge.  Those of a deleted large span, whose entry stays,
\* are read from freed memory: until malloc gives it to someone, _isUse there is
\* still true and nothing is merged, which here its length refuses.
CanMerge(p) ==
  /\ p \in Pages /\ _spanMap[p] # None
  /\ ~ _isUse[_spanMap[p]]
  /\ n[_spanMap[p]] + n[rel] <= MaxPages

AbsorbKeepsObject(s, first) ==
  /\ n' = [n EXCEPT ![rel] = @ + n[s]]
  /\ _id' = [_id EXCEPT ![rel] = first]
  /\ _spanList' = _spanList
  /\ Delete(s)

AbsorbForgetsPages(s, first) ==
  /\ _spanList' = [_spanList EXCEPT ![n[s]] = @ \ {s}]
  /\ Delete(s)
  /\ UNCHANGED <<n, _id>>

\* The span found is unlinked from its bucket, its pages are added to rel and
\* its object goes back to _objPool.
Absorb(s, first) ==
  /\ n' = [n EXCEPT ![rel] = @ + n[s]]
  /\ _id' = [_id EXCEPT ![rel] = first]
  /\ _spanList' = [_spanList EXCEPT ![n[s]] = @ \ {s}]
  /\ Delete(s)

\* One turn of the first loop: merge with the span that ends before rel.
MergePrev ==
  /\ rel # None /\ CanMerge(PrevId)
  /\ Absorb(_spanMap[PrevId], _id[_spanMap[PrevId]])
  /\ UNCHANGED <<brkVars, _isUse, _spanMap, made, allocremain, want, rel>>

\* The first loop is done: either a turn of the second loop, or, when its
\* conditions fail, the span is linked, marked free and its two ends mapped.
ReleaseEnd ==
  /\ rel # None /\ ~ CanMerge(PrevId)
  /\ IF CanMerge(NextId)
     THEN /\ Absorb(_spanMap[NextId], _id[rel])
          /\ UNCHANGED <<_isUse, _spanMap, rel>>
     ELSE /\ _spanList' = [_spanList EXCEPT ![n[rel]] = @ \cup {rel}]
          /\ _isUse' = [_isUse EXCEPT ![rel] = FALSE]
          /\ _spanMap' = MapEnds(_spanMap, rel, _id[rel], _id[rel] + n[rel] - 1)
          /\ rel' = None
          /\ UNCHANGED <<_id, n, pool>>
  /\ UNCHANGED <<brkVars, made, allocremain, want>>

-----------------------------------------------------------------------------
\* Another user of the break, malloc or TLSPool, which holds no lock of
\* PageCache's, reads it ...
OtherSbrk ==
  /\ theirPtr = Nowhere
  /\ OneAtTheBreak => ptr = Nowhere
  /\ theirPtr' = brk
  /\ UNCHANGED <<brk, ptr, mark, spanVars, _spanList, _spanMap, poolVars, want, rel>>

\* ... and moves it up, or down again over what it took itself, or not at all.
OtherBrk ==
  /\ theirPtr # Nowhere
  /\ \/ brk' = brk
     \/ \E gap \in Gaps : /\ Page(theirPtr + gap) + Needs(want) <= HeapPages
                         /\ brk' = theirPtr + gap
     \/ \E gap \in Gaps : /\ mark <= theirPtr - gap
                         /\ brk' = theirPtr - gap
  /\ theirPtr' = Nowhere
  /\ UNCHANGED <<ptr, mark, spanVars, _spanList, _spanMap, poolVars, want, rel>>

Locked == Sbrk \/ Chunk \/ TakeExact \/ TakeSplit \/ Grow \/ NewLarge
            \/ MergePrev \/ ReleaseEnd

Next ==
  \/ \E k \in Buckets \cup LargeSizes : NewSpan(k)
  \/ \E s \in SpanIds : Release(s)
  \/ \E s \in SpanIds : ReleaseLarge(s)
  \/ Sbrk \/ Chunk
  \/ TakeExact \/ TakeSplit \/ Grow \/ NewLarge
  \/ MergePrev \/ ReleaseEnd
  \/ OtherSbrk \/ OtherBrk

\* The thread that holds _pageMtx keeps running, and so does the other user of
\* the break.  Strong for the former: OneAtTheBreak is no lock that could be
\* withheld from it, it only leaves out executions.
Spec == Init /\ [][Next]_vars /\ SF_vars(Locked) /\ WF_vars(OtherBrk)
-----------------------------------------------------------------------------
TypeOK ==
  /\ brk \in Nat /\ mark \in Nat
  /\ ptr \in Nat \cup {Nowhere} /\ theirPtr \in Nat \cup {Nowhere}
  /\ _id \in [SpanIds -> Nat] /\ n \in [SpanIds -> Nat]
  /\ _isUse \in [SpanIds -> BOOLEAN]
  /\ _spanList \in [Buckets -> SUBSET SmallIds]
  /\ _spanMap \in [Pages -> SpanIds \cup {None}]
  /\ made \in Nat /\ allocremain \in Nat /\ pool \subseteq SmallIds
  /\ want \in Buckets \cup LargeSizes \cup {0}
  /\ rel \in SmallIds \cup {None}

Live == InUse \cup Free

Disjoint(s, t) == _id[s] + n[s] <= _id[t] \/ _id[t] + n[t] <= _id[s]

\* SystemAlloc "opens kpages * 8*1024 bytes" (Common.hpp:369), and they stay
\* open: no page belongs to two spans, in use or free, and all of them lie below
\* the program break, however spans are split, merged and their objects recycled
\* and whoever else moves the break.  It needs OneAtTheBreak.  It says nothing of
\* the first page of a chunk or a large span, which the shift of line 108 begins
\* below what SystemAlloc returned when the break was no multiple of a page: that
\* part of it is not PageCache's.
SpansDisjoint ==
  /\ \A s, t \in Live : s # t => Disjoint(s, t)
  /\ \A s \in Live : n[s] > 0 /\ Addr(_id[s] + n[s]) <= brk

\* A bucket holds free spans of its own length, a span is in one bucket at
\* most, and no object is at the same time a span and in _objPool's free list
\* (Erase and Delete in ReleaseSpanToPageCache, New in NewSpan).
BucketsExact ==
  /\ \A k \in Buckets : \A s \in _spanList[k] : n[s] = k /\ ~ _isUse[s]
  /\ pool \cap Live = {}
  /\ pool \cup (Live \cap SmallIds) = 1 .. made

\* MapToSpan leads from every page of a span a caller holds to that span, which is
\* what ConCurrentFree and ReleaseBackSpan find a block's span with.  A large
\* span has its first page mapped only.
MapExact ==
  \A s \in InUse \ {rel} :
    IF n[s] <= MaxPages THEN \A p \in PagesOf(s) : _spanMap[p] = s
                        ELSE _spanMap[_id[s]] = s

\* _spanMap keeps entries of spans that were merged away.  None of them is ever
\* consulted: when a release looks at the page before its span and finds an
\* object of _objPool's, it is a span that exists and ends at that page.  The
\* entry of a deleted large span can be met there (line 148): its object is gone.
NeighbourIsLive ==
  (rel # None /\ PrevId \in Pages /\ _spanMap[PrevId] \in SmallIds)
    => LET s == _spanMap[PrevId]
       IN  s \in Live /\ _id[s] + n[s] - 1 = PrevId

\* Pages once taken for the buckets stay in a span, in use or free: splitting,
\* merging and recycling lose none of them (NewSpan, ReleaseSpanToPageCache).
SmallPages == UNION {PagesOf(s) : s \in Live \cap SmallIds}
NoPageLost == [][SmallPages \subseteq SmallPages']_vars

\* A call that holds _pageMtx finishes: NewSpan's recursion finds the span it
\* has just added, and the merge loops run out of neighbours.
CallsReturn == (want # 0 \/ rel # None) ~> Idle

\* The runs the callers hold; a span being released is no longer theirs.
HeldRuns == {[id |-> _id[s], n |-> n[s]] : s \in InUse \ {rel}}

Heap == INSTANCE PageHeap WITH
          Pages <- Pages, Lengths <- Buckets \cup LargeSizes, used <- HeldRuns

\* The page cache hands out runs of pages that no caller holds and takes back held
\* ones only: it implements PageHeap, for as long as OneAtTheBreak holds.
ImplementsPageHeap == Heap!Spec

\* When a release ends, no free span that would still fit a bucket together
\* with the released one lies directly before it: the first merge loop finds
\* every such span, however the two came to be neighbours.
MergesBackward ==
  [][(rel # None /\ rel' = None) =>
       \A s \in Free : _id[s] + n[s] = _id[rel] => n[s] + n[rel] > MaxPages]_vars

\* "Then merge backwards ... find the page after the current span"
\* (PageCache.hpp:190-193): a release leaves no free span directly after the
\* released one that would still fit a bucket together with it.
MergesForward ==
  [][(rel # None /\ rel' = None) =>
       \A s \in Free : s # rel /\ _id[s] = _id[rel] + n[rel]
                         => n[s] + n[rel] > MaxPages]_vars

\* Memory handed out stays below the program break, whatever the order in
\* which large spans are freed.
HeldBelowBreak == \A s \in InUse : Addr(_id[s] + n[s]) <= brk
=============================================================================
