----------------------------- MODULE TcMalloc -----------------------------
(***************************************************************************)
(* ThreadCache and CentralCache (TCmalloc/TCmallocSRC) over the page heap:   *)
(* ConCurrentAlloc and ConCurrentFree of requests up to MAX_BYTES by several *)
(* threads.  PageCache is represented by the module it implements, PageHeap.  *)
(*                                                                         *)
(* A step is what a thread does between two lock operations.  A section     *)
(* under _pageMtx never waits for another lock, so it is one step; a bucket *)
(* lock is a variable, since ReleaseBackSpan holds it over many steps.      *)
(* A block is its address; a span is named by its first page; the order of   *)
(* blocks in a free list, and of spans in a bucket, is left open.           *)
(***************************************************************************)
EXTENDS Integers, FiniteSets

CONSTANTS
  Threads,
  NoThread,       \* an unlocked bucket's holder
  Sizes,          \* the aligned block sizes in use, one bucket each
  NumMoveSize,    \* size -> most blocks a fetch may move (ClassSize)
  NumMovePages,   \* size -> pages of the spans cut into such blocks
  PageBytes,      \* 1 << PAGE_SHIFT
  HeapPages,      \* bound: pages of the heap
  MaxLive         \* bound: blocks the program holds at a time

ASSUME SizesAssumption ==
  /\ NoThread \notin Threads
  /\ Sizes \subseteq Nat \ {0} /\ PageBytes \in Nat \ {0} /\ HeapPages \in Nat \ {0}
  /\ NumMoveSize \in [Sizes -> Nat \ {0}]
  /\ NumMovePages \in [Sizes -> Nat \ {0}]
  /\ MaxLive \in Nat

VARIABLES
  used,                           \* PageHeap: the runs handed out
  _objSize, _useCount, _freelist, \* the fields of the span at each first page
  _freelists,                     \* CentralCache: size -> spans linked
  holder,                         \* size -> the thread that holds the bucket's _mtx
  tls,                            \* threads whose pTLSthreadcahe is set
  cache, _size, _maxSize,         \* ThreadCache: the FreeList of each size
  live,                           \* blocks the program holds
  pc, arg                         \* where each thread is, and with what

heapVars  == <<used, _objSize>>
spanVars  == <<_useCount, _freelist, _freelists>>
cacheVars == <<tls, cache, _size, _maxSize>>
vars == <<heapVars, spanVars, holder, cacheVars, live, pc, arg>>

Pages == 0 .. HeapPages - 1

Heap == INSTANCE PageHeap WITH Lengths <- {NumMovePages[c] : c \in Sizes}

Lesser(a, b) == IF a < b THEN a ELSE b

BlocksAtUnitSteps(p, c) ==
  LET bytes == NumMovePages[c] * PageBytes
  IN  {p * PageBytes + i : i \in 0 .. (bytes + c - 1) \div c - 1}

\* The addresses at which GetOneSpan starts a block: every multiple of the
\* size below the end of the span.
Blocks(p, c) ==
  LET bytes == NumMovePages[c] * PageBytes
  IN  {p * PageBytes + i * c : i \in 0 .. (bytes + c - 1) \div c - 1}

\* MapToSpan: the first page of the run the address lies in.
MapToSpan(b) == (CHOOSE r \in used : b \div PageBytes \in Heap!PagesOf(r)).id

RunAt(p) == CHOOSE r \in used : r.id = p

\* What a list of blocks gives up when size blocks are unlinked from its front,
\* the order being left open; never more than it has.
PopRang(list, size) ==
  {s \in SUBSET list : Cardinality(s) = Lesser(size, Cardinality(list))}

NoArg == [size |-> 0, batch |-> 0, span |-> 0, blocks |-> {}]

Init ==
  /\ used = {}
  /\ _objSize = [p \in Pages |-> 0]
  /\ _useCount = [p \in Pages |-> 0]
  /\ _freelist = [p \in Pages |-> {}]
  /\ _freelists = [c \in Sizes |-> {}]
  /\ holder = [c \in Sizes |-> NoThread]
  /\ tls = {}
  /\ cache = [t \in Threads |-> [c \in Sizes |-> {}]]
  /\ _size = [t \in Threads |-> [c \in Sizes |-> 0]]
  /\ _maxSize = [t \in Threads |-> [c \in Sizes |-> 1]]
  /\ live = {}
  /\ pc = [t \in Threads |-> "idle"]
  /\ arg = [t \in Threads |-> NoArg]

Goto(t, label, a) ==
  /\ pc' = [pc EXCEPT ![t] = label]
  /\ arg' = [arg EXCEPT ![t] = a]

\* Calls the program may still start: the bound MaxLive counts the blocks it
\* holds and those it is asking for.
MayAlloc ==
  Cardinality(live)
    + Cardinality({t \in Threads : pc[t] \in {"fetch", "grow", "link"}}) < MaxLive

-----------------------------------------------------------------------------
(* ConCurrentAlloc, ThreadCache::Allocate.                                 *)

\* The thread's own list has a block.
AllocateHit(t, c) ==
  /\ pc[t] = "idle" /\ MayAlloc
  /\ \E b \in cache[t][c] :
       /\ cache' = [cache EXCEPT ![t][c] = @ \ {b}]
       /\ _size' = [_size EXCEPT ![t][c] = @ - 1]
       /\ live' = live \cup {b}
  /\ UNCHANGED <<heapVars, spanVars, holder, tls, _maxSize, pc, arg>>

AllocateMissUncapped(t, c) ==
  /\ pc[t] = "idle" /\ MayAlloc
  /\ cache[t][c] = {}
  /\ tls' = tls \cup {t}
  /\ _maxSize' = [_maxSize EXCEPT ![t][c] = @ + 1]
  /\ Goto(t, "fetch", [NoArg EXCEPT !.size = c, !.batch = _maxSize[t][c]])
  /\ UNCHANGED <<heapVars, spanVars, holder, cache, _size, live>>

\* It is empty: GetBatchFromCentralCache chooses how many blocks to fetch and
\* lets the next fetch ask for one more.
AllocateMiss(t, c) ==
  /\ pc[t] = "idle" /\ MayAlloc
  /\ cache[t][c] = {}
  /\ tls' = tls \cup {t}
  /\ LET batch == Lesser(_maxSize[t][c], NumMoveSize[c])
     IN  /\ _maxSize' = [_maxSize EXCEPT ![t][c] = IF @ = batch THEN @ + 1 ELSE @]
         /\ Goto(t, "fetch", [NoArg EXCEPT !.size = c, !.batch = batch])
  /\ UNCHANGED <<heapVars, spanVars, holder, cache, _size, live>>

TakeUncounted(t, p, free) ==
  LET c   == arg[t].size
      num == Lesser(arg[t].batch, Cardinality(free))
  IN  \E taken \in PopRang(free, num) : \E first \in taken :
        /\ _freelist' = [_freelist EXCEPT ![p] = free \ taken]
        /\ _useCount' = _useCount
        /\ cache' = [cache EXCEPT ![t][c] = @ \cup (taken \ {first})]
        /\ _size' = [_size EXCEPT ![t][c] = @ + num - 1]
        /\ live' = live \cup {first}
        /\ Goto(t, "idle", NoArg)

TakeCountsBatch(t, p, free) ==
  LET c   == arg[t].size
      num == Lesser(arg[t].batch, Cardinality(free))
  IN  \E taken \in PopRang(free, num) : \E first \in taken :
        /\ _freelist' = [_freelist EXCEPT ![p] = free \ taken]
        /\ _useCount' = [_useCount EXCEPT ![p] = @ + arg[t].batch]
        /\ cache' = [cache EXCEPT ![t][c] = @ \cup (taken \ {first})]
        /\ _size' = [_size EXCEPT ![t][c] = @ + num - 1]
        /\ live' = live \cup {first}
        /\ Goto(t, "idle", NoArg)

TakeCachesFirst(t, p, free) ==
  LET c   == arg[t].size
      num == Lesser(arg[t].batch, Cardinality(free))
  IN  \E taken \in PopRang(free, num) : \E first \in taken :
        /\ _freelist' = [_freelist EXCEPT ![p] = free \ taken]
        /\ _useCount' = [_useCount EXCEPT ![p] = @ + num]
        /\ cache' = [cache EXCEPT ![t][c] = @ \cup taken]
        /\ _size' = [_size EXCEPT ![t][c] = @ + num - 1]
        /\ live' = live \cup {first}
        /\ Goto(t, "idle", NoArg)

TakeCountsFromZero(t, p, free) ==
  LET c   == arg[t].size
      num == Lesser(arg[t].batch, Cardinality(free))
  IN  \E taken \in PopRang(free, num) : \E first \in taken :
        /\ _freelist' = [_freelist EXCEPT ![p] = free \ taken]
        /\ _useCount' = [_useCount EXCEPT ![p] = @ + num - 1]
        /\ cache' = [cache EXCEPT ![t][c] = @ \cup (taken \ {first})]
        /\ _size' = [_size EXCEPT ![t][c] = @ + num - 1]
        /\ live' = live \cup {first}
        /\ Goto(t, "idle", NoArg)

\* FetchRangObj takes up to batch blocks of span p, the first for the caller,
\* the others for the thread's list; PushRang counts them.  free is what the
\* span's list holds.
Take(t, p, free) ==
  LET c   == arg[t].size
      num == Lesser(arg[t].batch, Cardinality(free))
  IN  \E taken \in PopRang(free, num) : \E first \in taken :
        /\ _freelist' = [_freelist EXCEPT ![p] = free \ taken]
        /\ _useCount' = [_useCount EXCEPT ![p] = @ + num]
        /\ cache' = [cache EXCEPT ![t][c] = @ \cup (taken \ {first})]
        /\ _size' = [_size EXCEPT ![t][c] = @ + num - 1]
        /\ live' = live \cup {first}
        /\ Goto(t, "idle", NoArg)

FetchHitUnlocked(t) ==
  /\ pc[t] = "fetch"
  /\ \E p \in _freelists[arg[t].size] :
       _freelist[p] # {} /\ Take(t, p, _freelist[p])
  /\ UNCHANGED <<heapVars, _freelists, holder, tls, _maxSize>>

\* Under the bucket's lock: a span of the bucket has free blocks.
FetchHit(t) ==
  /\ pc[t] = "fetch" /\ holder[arg[t].size] = NoThread
  /\ \E p \in _freelists[arg[t].size] :
       _freelist[p] # {} /\ Take(t, p, _freelist[p])
  /\ UNCHANGED <<heapVars, _freelists, holder, tls, _maxSize>>

\* Under the bucket's lock: no span has any; GetOneSpan unlocks.
FetchNone(t) ==
  /\ pc[t] = "fetch" /\ holder[arg[t].size] = NoThread
  /\ \A p \in _freelists[arg[t].size] : _freelist[p] = {}
  /\ Goto(t, "grow", arg[t])
  /\ UNCHANGED <<heapVars, spanVars, holder, cacheVars, live>>

GrowSpanKeepsSize(t) ==
  /\ pc[t] = "grow"
  /\ Heap!NewSpan
  /\ LET c == arg[t].size
     IN  \E run \in used' \ used :
           /\ run.n = NumMovePages[c]
           /\ _freelist' = [_freelist EXCEPT ![run.id] = Blocks(run.id, c)]
           /\ Goto(t, "link", [arg[t] EXCEPT !.span = run.id])
  /\ UNCHANGED <<_objSize, _useCount, _freelists, holder, cacheVars, live>>

\* Under _pageMtx: NewSpan, _objSize; then the span, still private to the
\* thread, is cut into blocks.
GrowSpan(t) ==
  /\ pc[t] = "grow"
  /\ Heap!NewSpan
  /\ LET c == arg[t].size
     IN  \E run \in used' \ used :
           /\ run.n = NumMovePages[c]
           /\ _objSize' = [_objSize EXCEPT ![run.id] = c]
           /\ _freelist' = [_freelist EXCEPT ![run.id] = Blocks(run.id, c)]
           /\ Goto(t, "link", [arg[t] EXCEPT !.span = run.id])
  /\ UNCHANGED <<_useCount, _freelists, holder, cacheVars, live>>

\* Under the bucket's lock again: the new span is linked and FetchRangObj goes
\* on with it.
LinkSpan(t) ==
  /\ pc[t] = "link" /\ holder[arg[t].size] = NoThread
  /\ _freelists' = [_freelists EXCEPT ![arg[t].size] = @ \cup {arg[t].span}]
  /\ Take(t, arg[t].span, _freelist[arg[t].span])
  /\ UNCHANGED <<heapVars, holder, tls, _maxSize>>

-----------------------------------------------------------------------------
(* ConCurrentFree, ThreadCache::Deallocate, CentralCache::ReleaseBackSpan.  *)

\* MapToSpan under _pageMtx.  The program frees only blocks it holds, from
\* threads that have allocated (ConCurrentFree follows a null cache otherwise).
FreeLookup(t) ==
  /\ pc[t] = "idle" /\ t \in tls
  /\ \E b \in live :
       /\ live' = live \ {b}
       /\ Goto(t, "free", [NoArg EXCEPT !.span = MapToSpan(b), !.blocks = {b}])
  /\ UNCHANGED <<heapVars, spanVars, holder, cacheVars>>

\* _objSize is read with no lock held.  The block is pushed; a list that has
\* reached _maxSize is popped whole and goes to the central cache.
FreePush(t) ==
  /\ pc[t] = "free"
  /\ LET c    == _objSize[arg[t].span]
         full == _size[t][c] + 1 >= _maxSize[t][c]
         list == cache[t][c] \cup arg[t].blocks
     IN  IF full
         THEN \E popped \in PopRang(list, _maxSize[t][c]) :
                /\ cache' = [cache EXCEPT ![t][c] = list \ popped]
                /\ _size' = [_size EXCEPT ![t][c] = @ + 1 - _maxSize[t][c]]
                /\ Goto(t, "relLock", [NoArg EXCEPT !.size = c, !.blocks = popped])
         ELSE /\ cache' = [cache EXCEPT ![t][c] = list]
              /\ _size' = [_size EXCEPT ![t][c] = @ + 1]
              /\ Goto(t, "idle", NoArg)
  /\ UNCHANGED <<heapVars, spanVars, holder, tls, _maxSize, live>>

\* ReleaseBackSpan locks the bucket, first or again after a span's release.
RelLock(t) ==
  /\ pc[t] = "relLock" /\ holder[arg[t].size] = NoThread
  /\ holder' = [holder EXCEPT ![arg[t].size] = t]
  /\ Goto(t, "relLoop", arg[t])
  /\ UNCHANGED <<heapVars, spanVars, cacheVars, live>>

\* One turn of its loop: a block goes back into its span (MapToSpan takes and
\* leaves _pageMtx).  The last one back takes the span out of the bucket, and
\* the bucket is unlocked.
RelPut(t) ==
  /\ pc[t] = "relLoop"
  /\ \E b \in arg[t].blocks :
       LET c    == arg[t].size
           p    == MapToSpan(b)
           rest == [arg[t] EXCEPT !.blocks = @ \ {b}]
       IN  /\ _useCount' = [_useCount EXCEPT ![p] = @ - 1]
           /\ IF _useCount[p] = 1
              THEN /\ _freelists' = [_freelists EXCEPT ![c] = @ \ {p}]
                   /\ _freelist' = [_freelist EXCEPT ![p] = {}]
                   /\ holder' = [holder EXCEPT ![c] = NoThread]
                   /\ Goto(t, "relPage", [rest EXCEPT !.span = p])
              ELSE /\ _freelist' = [_freelist EXCEPT ![p] = @ \cup {b}]
                   /\ Goto(t, "relLoop", rest)
                   /\ UNCHANGED <<_freelists, holder>>
  /\ UNCHANGED <<heapVars, cacheVars, live>>

\* ReleaseSpanToPageCache, with no bucket locked.
RelPage(t) ==
  /\ pc[t] = "relPage"
  /\ used' = used \ {RunAt(arg[t].span)}
  /\ Goto(t, "relLock", [arg[t] EXCEPT !.span = 0])
  /\ UNCHANGED <<_objSize, spanVars, holder, cacheVars, live>>

RelDoneKeepsLock(t) ==
  /\ pc[t] = "relLoop" /\ arg[t].blocks = {}
  /\ Goto(t, "idle", NoArg)
  /\ UNCHANGED <<heapVars, spanVars, holder, cacheVars, live>>

\* The list is used up.
RelDone(t) ==
  /\ pc[t] = "relLoop" /\ arg[t].blocks = {}
  /\ holder' = [holder EXCEPT ![arg[t].size] = NoThread]
  /\ Goto(t, "idle", NoArg)
  /\ UNCHANGED <<heapVars, spanVars, cacheVars, live>>

\* What a thread does once it is inside a call.
Step(t) ==
  \/ FetchHit(t) \/ FetchNone(t) \/ GrowSpan(t) \/ LinkSpan(t)
  \/ FreePush(t) \/ RelLock(t) \/ RelPut(t) \/ RelPage(t) \/ RelDone(t)

Next == \E t \in Threads :
  \/ \E c \in Sizes : AllocateHit(t, c) \/ AllocateMiss(t, c)
  \/ FreeLookup(t)
  \/ Step(t)

\* A thread inside a call that can take its next step for good takes it.
Spec == Init /\ [][Next]_vars /\ \A t \in Threads : WF_vars(Step(t))

-----------------------------------------------------------------------------
Labels == {"idle", "fetch", "grow", "link", "free", "relLock", "relLoop", "relPage"}

Addresses == 0 .. HeapPages * PageBytes - 1

TypeOK ==
  /\ used \subseteq Heap!Runs
  /\ _objSize \in [Pages -> Sizes \cup {0}]
  /\ _useCount \in [Pages -> Nat]
  /\ _freelist \in [Pages -> SUBSET Addresses]
  /\ _freelists \in [Sizes -> SUBSET Pages]
  /\ holder \in [Sizes -> Threads \cup {NoThread}]
  /\ tls \subseteq Threads
  /\ cache \in [Threads -> [Sizes -> SUBSET Addresses]]
  /\ _size \in [Threads -> [Sizes -> Nat]]
  /\ _maxSize \in [Threads -> [Sizes -> Nat]]
  /\ live \subseteq Addresses
  /\ pc \in [Threads -> Labels]
  /\ arg \in [Threads -> [size : Sizes \cup {0}, batch : Nat,
                          span : Pages, blocks : SUBSET Addresses]]

\* The blocks a span has given out: held by the program, cached, or on their
\* way back.
Out == live \cup (UNION {cache[t][c] : t \in Threads, c \in Sizes})
            \cup (UNION {arg[t].blocks : t \in Threads})

\* Between the fetch and the return every block of a linked span is in exactly
\* one place, and _useCount counts those outside the span's list: a span is
\* released (CentralCache.hpp:188) neither early nor never.
UseCountExact ==
  \A c \in Sizes : \A p \in _freelists[c] :
    LET out == Blocks(p, c) \cap Out
    IN  /\ _freelist[p] = Blocks(p, c) \ out
        /\ _useCount[p] = Cardinality(out)
        /\ _objSize[p] = c

\* Each block is in one place only: no thread's list, returning list or the
\* program holds a block that another of them holds.
OneHolder ==
  /\ \A t \in Threads, c \in Sizes : cache[t][c] \cap live = {}
  /\ \A t \in Threads : arg[t].blocks \cap live = {}
  /\ \A t, u \in Threads, c \in Sizes : cache[t][c] \cap arg[u].blocks = {}
  /\ \A t, u \in Threads, c, d \in Sizes :
       <<t, c>> # <<u, d>> => cache[t][c] \cap cache[u][d] = {}
  /\ \A t, u \in Threads : t # u => arg[t].blocks \cap arg[u].blocks = {}

\* The page cache gets a span back only when none of its blocks is out: every
\* block that is out lies in a run still handed out, in no span on its way to
\* ReleaseSpanToPageCache.
OutBlocksHaveSpan ==
  \A b \in Out :
    /\ \E r \in used : b \div PageBytes \in Heap!PagesOf(r)
    /\ \A t \in Threads : pc[t] = "relPage" => MapToSpan(b) # arg[t].span

\* The _objSize that ConCurrentFree reads after it has left _pageMtx is the
\* size the block was cut with, though other threads release and reuse spans.
FreedAtOwnSize ==
  \A t \in Threads : pc[t] = "free" =>
    /\ _objSize[arg[t].span] \in Sizes
    /\ arg[t].blocks \subseteq Blocks(arg[t].span, _objSize[arg[t].span])

\* The slow-start bound: a thread's list stays below _maxSize between calls,
\* which exceeds the largest batch by one at most, and _size is its length.
\* PopRang's "assert(size >= _size)" (Common.hpp:237) follows.
CacheBounded ==
  \A t \in Threads, c \in Sizes :
    /\ _size[t][c] = Cardinality(cache[t][c])
    /\ _size[t][c] < _maxSize[t][c]
    /\ _maxSize[t][c] <= NumMoveSize[c] + 1

SizeAt(b) == _objSize[MapToSpan(b)]

\* The bytes of two blocks the program holds do not overlap.
LiveDisjoint ==
  \A a, b \in live : a < b => a + SizeAt(a) <= b

\* While a thread is in ReleaseBackSpan's loop nobody else touches the spans
\* of that bucket: the lock that GetOneSpan and the loop give up in between
\* is held again whenever a list is used.
BucketOwned ==
  [][\A c \in Sizes, t \in Threads : (holder[c] = t /\ pc'[t] = pc[t] /\ arg'[t] = arg[t]) =>
       /\ _freelists'[c] = _freelists[c]
       /\ \A p \in _freelists[c] : _freelist'[p] = _freelist[p]]_vars

\* The bound HeapPages is met: the heap has no free run of the length t asks for.
HeapFull(t) ==
  /\ pc[t] = "grow"
  /\ \A p \in Pages :
       LET run == [id |-> p, n |-> NumMovePages[arg[t].size]]
       IN  Heap!PagesOf(run) \subseteq Pages => \E r \in used : Heap!Overlap(r, run)

\* Whenever every thread is inside a call, some call returns, unless the bounded
\* heap is full: no bucket stays locked for good and no loop goes round for good.
\* _pageMtx is no lock here: what runs under it waits for nobody, so whoever takes
\* it gives it back.
SomeCallReturns ==
  (\A t \in Threads : pc[t] # "idle") ~> (\E t \in Threads : pc[t] = "idle" \/ HeapFull(t))
=============================================================================
