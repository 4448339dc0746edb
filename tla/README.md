# MylittleCodeHouse in TLA+

A verification development for the C++ programs of this repository that carry
state worth checking: first of all the three-layer memory allocator in
`src/TCmalloc/TCmallocSRC`, then two producer/consumer queues, a thread pool, and
seven small programs of threads, processes and sockets.
The modules are model-checked with TLC on small instances; with TLAPS every invariant and
action property of these runs, and the three refinements, are proved for all parameters.

## 1. The system

The repository is a collection of programs, independent of each other but for
the allocator's layers.

| component | state | operations | hard because |
|---|---|---|---|
| Size classes, `Common.hpp` | none | `Round_up`, `Index`, `NumMoveSize`, `NumMovePages` | limits of five groups, 256 KiB |
| Page cache, `PageCache.hpp` | `_spanList[129]`, `_spanMap`, `_objPool`, the program break | `NewSpan`, `MapToSpan`, `ReleaseSpanToPageCache` | spans are split, merged and recycled; `_spanMap` keeps stale entries; others move the break, which nothing aligns |
| Central cache, `CentralCache.hpp` | per bucket: spans, a lock; per span: free blocks, `_useCount` | `FetchRangObj`, `GetOneSpan`, `ReleaseBackSpan` | the bucket lock is given up in the middle of both operations |
| Thread cache, `ThreadCache.hpp`, `Concurrentalloc.hpp` | per thread and bucket: a list, `_size`, `_maxSize` | `ConCurrentAlloc`, `ConCurrentFree` | blocks are freed by other threads than allocated them; `_objSize` is read without a lock |
| Pool of thread caches, `SystemAlloc` | `_memory`, `allocremain`, the break | `ObjectPool::New` | no lock at all; the break is read and moved in two calls |
| Ring queue, `循环队列版生产者消费者模型/` | array, two positions, two semaphores, two mutexes | `push`, `pop` | the two ends run side by side |
| Blocking queue, `生产者消费者模型/` | queue, mutex, two condition variables | `push`, `pop` | lost and spurious wakeups |
| Thread pool, `线程池/` | task queue, mutex, condition variable, the singleton | `getThreadPool`, `run`, `push_task`, `routine` | wakeups; creation under a double check |
| Ticket sellers, `多线程抢票程序/` | a counter and a mutex | `Ticketsbook`, `main` | a decrement of two accesses; one unlock too many in `src2.cc`; an uninitialised id in `src.cc` |
| Condition-variable program, `条件变量/` | `quit`, mutex, condition variable | `func_1` .. `func_4`, `main` | `quit` is tested outside the mutex |
| Process pool, `ProcessPool/` | a pipe for each child, the ends each process has open | `sendAndWakeup`, `WaitCommand`, `main` | inherited descriptors decide who sees the end of a pipe |
| Named pipe, `fifo/` | the fifo, its readers and writers, what is unread | server: `mkfifo` .. `unlink`, `GetMessage`; client: `open`, `write` | several readers; the fifo outlives a killed server |
| Shared memory, `shm/` | the segment of a key and who has it attached | server: `shmget` .. `IPC_RMID`; client: `shmget` .. `shmdt` | the segment outlives a killed server; removal under attached clients |
| TCP echo server, `TCP通信/` | listen queue, sockets and who holds a copy, children | `start`, `serviceread` | a connection ends only with its last copy; failed forks, resets |
| UDP echo, `UDP通讯/` | one buffer; datagrams under way | server: `start`; client: `sendto`, `recvfrom` | lost, repeated and late datagrams, no timeout |
| Calculator, shell | - | - | not modelled, see section 7 |

How they interact: `ConCurrentAlloc` takes a block from the calling thread's
cache; on a miss the thread cache fetches a batch from the central cache under the
bucket's lock; when no span of the bucket has a block, the central cache gives up
the bucket lock, takes `_pageMtx` and asks the page cache for a span.  Freeing goes
the other way: the address leads through `_spanMap` to its span and so to its
size; a list that has become as long as `_maxSize` goes back to the central
cache, and a span whose `_useCount` falls to 0 to the page cache, again with the
bucket lock given up for the call.  All memory comes from the program break
through `SystemAlloc`.  In the queues and the pool threads meet at a mutex and
condition variables or semaphores only; processes meet at descriptors they inherit, at
a name in the file system, at a key, or over the network.

What makes each component correct is in section 4, what can go wrong with it is
listed line by line under `hazards` in `PROJECT.json`.

## 2. The modules

| module | models | corresponds to the code |
|---|---|---|
| `SizeClass` | the arithmetic of `ClassSize` | an operator for each function, the same branches; a second statement of the table to compare with |
| `MCSizeClass` | - | walks the request size over all values |
| `PageHeap` | abstract: what the page cache promises | hands out a free run of pages, takes a run back |
| `PageCache` | `NewSpan`, `ReleaseSpanToPageCache`, `ObjectPool<Span>`, `SystemAlloc`, another user of the break | variables have the code's names; `want` and `rel` say which operation holds `_pageMtx`; `sbrk` and `brk` are steps of their own, `ptr` and `theirPtr` what the first returned |
| `TcMalloc`, `MCTcMalloc` | thread caches and central cache over `PageHeap` | an action is what a thread does between two lock operations |
| `TlsPool` | `ObjectPool<ThreadCache>::New` without a lock, `SystemAlloc` | an action is one statement on a shared variable or one system call |
| `BoundedFifo` | abstract: a bounded first-in first-out queue | promised by both queues |
| `RingQueue` | `RQ<T>` | an action is one semaphore or mutex call, one access to the array or a position |
| `BlockingQueue` | `BlockingQueue<T>` | an action is what a thread does from getting the mutex to giving it up |
| `ThreadPool` | `run`, `push_task`, `routine` | the same |
| `PoolSingleton` | `getThreadPool` | an action is one access to the pointer or one mutex call |
| `Tickets` | `src.cc` and `src2.cc` (`twice`) | an action is one mutex call, the test, the load or the store, one join of `main`, or the end of the process |
| `CondVar` | `mycond.cc` | an action is one access to `quit`, one broadcast, one join, or a worker's section under the mutex |
| `ProcessPool` | `ProcessPool.c++` | an action is one system call on a pipe, a fork, or the end of a process |
| `FifoServer` | `server.cxx`, `client.cxx` | an action is one system call; children of a server are a number, as they are alike |
| `SharedMemory` | `shmServer.c++`, `shmClient.c++` | an action is one system call |
| `TcpServer` | `tcp_server.hpp` and its clients | an action is one system call of the parent or of a child; a child has its client's name |
| `UdpEcho` | `udp_server.hpp`, `udp_client.cc` | an action is a turn of the server's loop, or a half of the client's |
| `MCPrograms` | - | gives TLC `ThreadPool` and the seven modules above, one of them in each initial state |
| `SizeClassProofs`, `PageCacheProofs`, `TcMallocProofs`, `RingQueueProofs`, `BlockingQueueProofs`, `ProgramsProofs` | - | theorems about `MCSizeClass`, `PageCache`, `TcMalloc`, `RingQueue`, `BlockingQueue` and `MCPrograms` (section 5) |

`PageCache` implements `PageHeap`, and `TcMalloc` is built on `PageHeap`
(`Heap == INSTANCE PageHeap`), so the allocator is checked as two layers, each
small enough for TLC.  `RingQueue` and `BlockingQueue` implement `BoundedFifo`.
The last eight programs have nothing in common, so `MCPrograms` composes them by a
choice: `program` says which one runs, and the variables of the others keep their
initial values.  Each module states its own `Init`, `Next` and properties;
`MCPrograms` adds fairness and gathers properties of the same kind.

Decisions a reader should know of:

* **Sections under `_pageMtx`.**  A section never waits for another lock
  while it holds `_pageMtx`, so nobody can see inside it, except through the program
  break, which `malloc` and `TLSPool` move without that mutex.  In `PageCache` an operation
  is therefore several steps: `NewSpan`, `Sbrk`, `Chunk`, `Sbrk`, `Grow`, `TakeSplit`, say;
  or `Release`, `MergePrev` turn by turn, `ReleaseEnd`.  In `TcMalloc`
  a section is one step and `_pageMtx` no lock at all; that nobody locks a bucket under it
  is read off the code (`MapToSpan` at `CentralCache.hpp:206` is the nesting the other way
  round), so `SomeCallReturns` is about the bucket locks.
* **The program break.**  `SystemAlloc` reads the break, `sbrk(0)`, and sets it,
  `brk(ptr + length)`.  `PageCache` has both calls (`Sbrk`; `Brk`, in `Chunk`, `Grow` and
  `NewLarge`), and so has the other user of the break (`OtherSbrk`, `OtherBrk`), who
  moves it up, or down over what is its own, at any time.  `OneAtTheBreak` leaves out the executions in
  which one of them reads it between the two calls of the other.  No lock of the code sees to
  that: with FALSE spans lose their memory (run `page_cache_race`), and what
  is promised about them is promised with TRUE, as in a program whose allocations are not
  concurrent or whose `malloc` and `TLSPool` have grown before.
* **Pages.**  The break is counted in units, `PageUnits` to a page, and starts anywhere
  in its page, as nothing aligns it to 8 KiB (the kernel and `malloc` use 4 KiB).  `ptr >> PAGE_SHIFT`
  (`Page`) then begins a chunk or a large span up to a page below what `sbrk`
  returned, and giving a large span back, `_id << PAGE_SHIFT` (`Addr`), takes the break
  as far below.  Spans stay disjoint and end below the break all the same
  (`SpansDisjoint`); the first page of such a span is partly another's memory, which the
  code does not notice and no property denies.
* **The caller's assignment `_isUse = true`** (`CentralCache.hpp:53`,
  `Concurrentalloc.hpp:27`) happens before `_pageMtx` is given up and is part of the
  step that takes the span.
* **Lists are sets.**  `SpanList` and `FreeList` are last-in first-out.  The
  models let `PopFront` and `Pop` take any member, which includes the order
  of the code and keeps the state space small.  Linking pointers are therefore not
  modelled, and neither is the overwriting of a block's first word.
* **Span objects are recycled.**  `_objPool` is `made` (constructed so far),
  `allocremain` (counted in objects) and `pool` (its free list).  A recycled object keeps its old fields, as `New`
  runs no constructor on it; only `_id`, over which `Delete` writes its list pointer,
  is lost, and each caller of `New` assigns it.  No property reads the `_id` of
  an object in the pool.  `TcMalloc` has no objects: `_objSize`, `_useCount` and `_freelist` are fields
  of a span's first page there, and `GrowSpan` leaves `_useCount` as the last span that
  began there left it, 0, as a recycled object would.
* **Requests above 256 KiB** bypass the thread caches.  Up to 128 pages they are
  `PageCache`'s `NewSpan`/`Release`; above that `NewLarge`/`ReleaseLarge`.
* **Large spans** give their memory back by lowering the break.  `LastLargeFirst`
  says whether callers free them only at the top of the heap; with FALSE the code
  fails (run `page_cache_large_any`).  The entry of a deleted large span stays in
  `_spanMap` (line 148).  Should a bucket span later begin at the next page, a release
  of it reads that entry's object after `delete`; states of run `page_cache` do.  The model keeps the length of the deleted object, so that no merge
  follows; what the code reads there is what `malloc` has left.  `NeighbourIsLive` is
  about all other entries.
* **The builds** have no `-O` flag, so `ObjectPool::Delete`, which lacks a
  `return`, simply returns; a thread that locks a normal mutex twice waits for
  itself (`PoolSingleton`).
* **Faults.**  A process of `ProcessPool`, `FifoServer` or `SharedMemory` may be killed between
  any two of its calls: its descriptors are closed and its attachments end, while a fifo
  or a segment stays.  `fork` may fail in `FifoServer` and `TcpServer`, whose code does
  not look (`ProcessPool` asserts, which is a kill of `main`).  TCP clients may
  shut down or reset at any time, UDP datagrams may be lost, repeated or overtaken.
* **`src.cc`'s thread function has no `return`**; as with `Delete`, the builds meant are
  those in which it returns all the same.  Its `main` joins `t2`, which it never set:
  `JoinUninitialised` returns, crashes the process, or is not obliged to return at all.
* **`ThreadPool` is the pool as designed**, with its instance at hand; that the code
  never gets that far is `PoolSingleton`'s finding.

## 3. Runs

Passing runs (`tlc -config X.cfg M` in this directory):

| run | module, cfg | what it shows |
|---|---|---|
| `size_class` | `MCSizeClass` | all 253952 sizes the code serves: own bucket, bucket numbers contiguous, waste of at most a ninth, span length in range |
| `page_cache` | `PageCache` | 550 000 states, with large spans freed last-in first-out and a break that others move: spans disjoint, buckets exact, map exact, no stale entry of a merged span followed, no page lost, backward merging complete, calls finish, `PageHeap` implemented |
| `tcmalloc` | `MCTcMalloc`, `TcMalloc.cfg` | 250 000 states: counts exact, one holder per block, spans released neither early nor never, lists bounded, no bucket lock kept |
| `ring_queue`, `blocking_queue` | `RingQueue`, `BlockingQueue` | two producers and two consumers; bounded FIFO, items keep flowing |
| `programs` | `MCPrograms` | 126 000 states of eight programs: tasks executed once and none forgotten (`ThreadPool`), tickets sold once and all of them (`Tickets`), threads that leave and a `main` that joins them (`Tickets`, `CondVar`), ends of pipes (`ProcessPool`), names that lead to the running server (`FifoServer`, `SharedMemory`), connections accepted and ended (`TcpServer`), a server that ends (`FifoServer`), lines answered (`UdpEcho`) |

Runs that show a disagreement between code and comment (each is a finding in
`PROJECT.json`):

| run | shows |
|---|---|
| `page_cache_forward` | a released span is never merged with the one after it |
| `page_cache_race` | another user of the break who has read it before a growth takes it below the new span |
| `page_cache_large_any` | freeing a large span lowers the break below memory in use |
| `tcmalloc_odd` | the last block of a span may reach beyond it; two live blocks then overlap |
| `tls_pool` | two threads that allocate for the first time together may share a `ThreadCache` |
| `pool_singleton` | `getThreadPool` never returns |

Seen while modelling and not the subject of a run: the constructor of `RQ`
ignores its capacity; `ConProd.cc` creates a `BlockingQueue<int>` and uses it as a
`BlockingQueue<Task>`; the result of `brk` is not looked at; `main` of `src.cc` joins an
uninitialised id and never its second thread; sizes of 253953 .. 262144 bytes
abort in `Index` and size 0 has bucket 2^64 - 1, though `Allocate` admits both
(`size_class` walks the sizes that have a bucket); a span's first page may begin below
the memory obtained for it.  In the small programs:

* `src2.cc` unlocks the mutex of the sellers once too often, so two sellers may
  decrement at once and tickets are sold twice (`EachTicketOnce` is about `src.cc`).
* A worker of `mycond.cc` between its test of `quit` and its wait misses the last
  broadcast, and `main` then joins it for ever (`JoinsUnlessCaught` names the exception).
* A child of the process pool never looks at `quit`: at the end of its pipe it reads
  the end again and again, and `main`'s clean-up after its endless loop never runs.
* A fifo or a segment that a killed server has left keeps every later server from
  starting.
* A client that opens the fifo after the children have read the end of the file loses
  what it writes, or waits in `open` for ever; a client of the shared memory does not
  notice that `shmat` failed and aborts at `shmdt`.
* The TCP server answers a client that has sent nothing from an uninitialised
  buffer; the UDP server answers an empty datagram with the last line of anyone.

**Bounds.**  `PageCache.cfg`: spans of up to 3 pages (the code: 128) are enough for an exact
fit, a split, a merge of two and of three spans, and one refused because the sum
is too long; 8 heap pages leave room for two growths with a pool chunk, or one growth
beside a large span of 4 pages, with a page to spare for others, so that spans meet both
inside a chunk and across two; two units to a page make the break aligned or not; pool chunks of 4
`Span` objects (the code: 2048) and 5 objects put the pool's growth between two
growths of the heap and are enough to recycle objects; one large span exists at a time
(two in `PageCacheLargeAny.cfg`, where their order matters).
`TcMalloc.cfg`: two threads and two buckets,
one with spans of two blocks and one with spans of one, so that a list leaves its span
empty or half full and a span's pages are reused for the other size; `MaxLive = 2`
lets one thread hold a block while the other's list goes back.  Two heap pages let two spans of one bucket
exist, or one of each, and make either bucket wait for the other's page; what the safety
properties say of more spans is proved (section 5).  The queues have
capacity 2: full, empty and neither.
`MCPrograms.cfg`: three sellers and two tickets (one seller too many at the last ticket),
three workers and two rounds, three children (one before and one after another) with
pipes of two commands and four commands in all, two runs of each server program (one finds what
the other has left) with two clients and three readers, two TCP clients on a listen queue of one (so that
it is full while a child is busy), three lines of two UDP clients, three pool threads and
four tasks.  Bounds are constants in the guards of
`NewSpan`, `OtherBrk` (`HeapPages`, `MaxSpans`, `MaxLarge`), `MayAlloc`
(`MaxLive`), `HeapFull` (`HeapPages` of `TcMalloc`, which leaves a thread in `GrowSpan`), `push_task` (`MaxTasks`), `Choose` (`MaxSent`), `Send` (`MaxSends`) and
`SendLine` (`MaxLines`); `MaxUnread`, `PipeSize` and `backlog` are limits of the kernel.

**Deadlock** is checked for the queues, which never stop.  It is off where a bound or the
program's own end stops the model.

## 4. Properties

The ones that say most:

* `SpansDisjoint`, `NoPageLost`, `BucketsExact`, `MapExact` (`PageCache`): every page
  the allocator owns is in exactly one span and below the break, whoever else moves it between two calls of `SystemAlloc`, and the map leads to it.
* `NeighbourIsLive` (`PageCache`): `_spanMap` is never cleared, yet no release
  follows the stale entry of a span that was merged away.
* `UseCountExact`, `OneHolder`, `OutBlocksHaveSpan` (`TcMalloc`): although
  both central operations give up the bucket lock halfway, a block is in one
  place, and a span is released when and only when all its blocks are back.
* `FreedAtOwnSize` (`TcMalloc`): the unlocked read of `_objSize` yields the size
  the block was cut with, since the block being freed keeps its span in use.
* `CacheBounded` (`TcMalloc`): why `PopRang`'s assertion never fails.
* `NoLostWakeup` (`BlockingQueue`, `ThreadPool`): the count argument that
  makes one signal for each operation enough.
* `EofFromTheLast`, `DeadChildNoticed` (`ProcessPool`): who has which end of which pipe
  open, through forks and kills.
* `PathMatchesServer`, `KeyMatchesServer` (`FifoServer`, `SharedMemory`): the exclusive creation
  works as a lock, through kills and restarts.
* `WaitsOnlyIfLost`, `EchoesOwnLine` (`UdpEcho`): one shared buffer and a client that takes any
  datagram for its answer, on a network that repeats and reorders.
* `ClientSeesEnd`, `NewClientAccepted` (`TcpServer`), `ServerEnds` (`FifoServer`): nobody is
  kept waiting by a copy of a descriptor somebody forgot.
* `IndicesAgree`, `SlotsAccounted`, `SlotNotShared` (`RingQueue`): the positions, which
  no semaphore guards, agree with the semaphores.

Every property of a passing run has a mutant in `PROJECT.json`: an operator that
changes one definition as a plausible bug would, with which the property
fails.  The mutants stand in the modules directly before the definition they vary.

**Fairness.**  `PageCache`: the thread that holds `_pageMtx` goes on, and so does the other
user of the break between its two calls.  The former is strong fairness: `OneAtTheBreak` disables `Sbrk` for as
long as the other is between its calls, again and again, which is no lock in the code but
the exclusion of some executions.  `TcMalloc`:
a thread inside a call takes its next step if it can for good; nobody is
obliged to call.  Queues and pool: the threads loop for ever (`while(true)`), each weakly
fair; nothing is assumed of the choice among waiters or of spurious wakeups, and
nobody is obliged to push to the pool.  Small programs: each thread and each process of a
server is weakly fair; no client is obliged to connect, send, quit or answer, no
fault to happen, and `src.cc`'s join of an uninitialised id not to return.  `PoolSingleton`: a caller that can go on
does.  Weak fairness for each thread is what the scheduler of the operating
system gives; the C++ and POSIX mutexes promise no order, and no property needs one.
`ItemsFlow` and `SomeCallReturns` therefore speak of some thread, not of each.

## 5. Proofs

`tlapm M.tla` checks each module from nothing.  A theorem holds for every value of
the constants that the assumption of the component's module allows; TLC evaluates
those assumptions in the runs.

| module | theorems (property) | holds for |
|---|---|---|
| `SizeClassProofs` | `SizesServed` (`SizeServed`), `WasteWithinTenth` (`Waste`) | every size 1 .. 253952; every size |
| `PageCacheProofs` | `TypeCorrect`, `PagesHaveOneSpan` (`SpansDisjoint`), `BucketsAndPool` (`BucketsExact`), `MapLeadsToSpan` (`MapExact`), `MergeFindsLiveSpan` (`NeighbourIsLive`), `PagesNotLost` (`NoPageLost`), `BackwardMergeComplete` (`MergesBackward`), `SecondLoopNeverMerges`, `Refinement` (`ImplementsPageHeap`) | any number of buckets, pages, `Span` objects, any chunk, page size and gap; large spans freed at the heap's top and one user at the break at a time (`BreakRespected`) |
| `TcMallocProofs` | `TypeCorrect`, `UseCounted` (`UseCountExact`), `EachBlockOnce` (`OneHolder`), `SlowStart` (`CacheBounded`), `SpansOutlive` (`OutBlocksHaveSpan`), `OwnSize` (`FreedAtOwnSize`), `BucketHeld` (`BucketOwned`), `BlocksDisjoint` (`LiveDisjoint`) | any threads, sizes, batches and span lengths; the last one where `SizesDivide` |
| `RingQueueProofs` | `TypeCorrect`, `EverySlotAccounted` (`SlotsAccounted`), `PositionsAgree` (`IndicesAgree`), `NoSlotShared` (`SlotNotShared`), `Refinement` (`ImplementsFifo`) | any capacity, finite sets of threads |
| `BlockingQueueProofs` | `TypeCorrect`, `WakeupsSuffice` (`NoLostWakeup`), `Refinement` (`ImplementsFifo`) | any capacity, finite sets of threads |
| `ProgramsProofs` | `TypeCorrect`, `TicketsSold` (`EachTicketOnce`), `PipesEnd` (`PipeEnds`), `NamesMatch` (`NameMatchesServer`), `LinesAnswer` (`LinesAnswered`), `TasksOnce` (`EachTaskOnce`), `WakeupKept` (`NoLostWakeup`) | any number of sellers, children, servers, clients, pool threads, tasks |

Each module but the first has an inductive invariant `IInv` (`AllInv` in
`ProgramsProofs`), a theorem `Invariance` that it always holds, one lemma for each
action, and derives the properties from it.

**What is assumed of the constants.**  Threads of the queues are finite sets, because
the invariants count them; the heap has a page and a TCP server a client, since
`Init` of those modules picks one; servers and clients of the shared memory are
different processes; a ticket program has a seller.  `BreakRespected` has two halves: no large spans or `LastLargeFirst`, which
run `page_cache_large_any` shows to be needed, and `OneAtTheBreak`, which run `page_cache_race` does.  `SizesDivide`, each size divides the spans
cut for it, is what run `tcmalloc_odd` shows to be needed: of all the properties of the two upper
layers only `LiveDisjoint` depends on it.

**Size classes.**  `Nth` lists the 208 classes in increasing order.  Rounding up
lands on an entry (`RoundsToEntry`), an entry is its own rounding and `Index` is its
place (`EntryIsFixed`), and the rank of an entry, which the property counts, is its
place too (`RankIsPlace`, by a bijection).

**Page cache.**  `SpansDisjoint` is not inductive: a merge adds to the released span
the pages of whatever `_spanMap` names, so the map must be right where a merge
looks.  It is not right everywhere (merged spans leave entries behind), which is
why the invariant has two parts about it: `MapCovered`, a page with an entry of
`_objPool`'s lies in some span, and `MapEndsOK`, the entry of a span's *last* page
is that span, unless the span is a chunk nobody has asked for yet.  The page before the
released span is covered by a span `t` (`MapCovered`); since `t` and the released span are
disjoint (`ExtentsOK`) that page is the last of `t`; so its entry is `t`
(`MapEndsOK`).  The same two parts show that the first loop finds every free
neighbour (`MergesBackward`) and that the second loop finds nothing (`SecondLoopNeverMerges`,
the general form of the finding `page_cache_forward`: the page it looks at is
the last of the released span, which is in use).  Entries of large spans stay
behind too; `MapCovered` says of them only that they name an object of a large
span's length, which no merge accepts.  The other parts say that objects of
buckets are free and of the bucket's length (`ListsOK`, `LengthsOK`), that `New` returns
no object in use (`ObjectsOK`), and that a call under way fits the heap
(`RoomOK`).  `BreakOK` is about the break: the spans end at or below `mark`, where PageCache left it
last, the others stay above, and what a `sbrk(0)` has returned is still the break when its
`brk` comes, which is where `OneAtTheBreak` is used.  Spans end at page
boundaries not above `mark`, so a chunk taken at an unaligned break, whose page is rounded
down, begins at such a boundary or after it (`PageMonotone`, `PageOfAddr`), and ends not
above the new break (`AddrBelow`).  Each action's lemma also says what the step does to the runs handed out: one
more that overlaps none (`HandsOut`), one fewer (`TakesBack`), or the same; this
is the refinement of `PageHeap`.

**Thread and central cache.**  `UseCountExact`, `OneHolder` and `CacheBounded` are
parts of the invariant but not inductive by themselves.  `AtHome` says that every
block outside belongs to a *linked* span of the size of the list it is in, and
`PrivateOK` that a span between `NewSpan` and its linking, or between its unlinking and the
page cache, is in the hands of one thread, which is why the bucket lock may be
given up there; `UnlinkedUnused` that a span nobody has linked has no block out.  With
`RunsApart` (what `PageHeap` promises) blocks of two spans differ.  The unlocked read of
`_objSize` is right since the block being freed is at home (`InHand`), so its span is linked
and stays so.  `FetchOK` carries the batch a thread asked for through the steps in which it
holds no lock, up to the insertion that `CacheBounded` is about; `HolderOK` ties
the lock to the thread in the loop.

**Queues.**  `IndicesAgree` speaks of positions modulo the capacity; `Aligned` says the
same without the remainder, the write position being one turn behind or not, and is
inductive together with `SlotsAccounted` and `Turn` (the mutexes).  `BoundedFifo` is
implemented under a mapping that reads the queue off the ring from the oldest slot; a
push of `RQ` shows when the item is stored, a pop when it is taken, and lemmas state what each step does to
that sequence.  In the blocking queue `NoLostWakeup` is inductive with the types.

**Programs.**  The invariants of the eight programs speak of disjoint variables, so
each is proved by itself and `AllInv` puts them together: a step of `MCPrograms` is a
step of one program and leaves the others alone.  Worth knowing: in `src.cc` a decrement stores
what it has just loaded (`TicketsInv`), which the second unlock of `src2.cc` breaks, and a seller leaves only when all tickets are sold; in the pool
of threads tasks are taken in the order they were pushed (`TasksInOrder`), and while
a thread sleeps there are at least as many threads on their way to the queue as tasks in
it (`Awake`).

## 6. Only model-checked

The seven liveness properties: `CallsReturn` (`PageCache`), `SomeCallReturns` (`TcMalloc`),
`ItemsFlow` (both queues), and `EveryTaskRuns`, `ThreadsJoin` and `ClientsServed` (`MCPrograms`).
They rest on fairness, hence on `ENABLED`, which TLAPS cannot handle.  `TlsPool` and `PoolSingleton` are
the subjects of violations and have no theorem.

## 7. Not modelled, and the plan

Not modelled:

* linking pointers inside blocks, a `brk` that fails, the benchmark and unit test drivers;
* the destructor of the pool, which no program calls;
* `main` of `ProcessPool.c++` after its endless loop;
* `tcp_client.cc`, an empty `main`, and the text of messages and answers;
* the network calculator: `CalServer.cc` stops in the middle of a statement (line 76) and
  does not compile, the copy under `VSCodeProject` neither, and the thread routine serves no
  request yet;
* the shell, which runs one command after another, and the course exercises (data
  structures, games, `.txt` solutions), which are single-threaded and used by nothing.

Plan, in this order:

1. An abstract allocator (a set of live blocks that do not overlap, handed out and taken
   back) and the proof that `TcMalloc` implements it where `SizesDivide`.
2. The findings in general: `getThreadPool` returns to nobody (`PoolSingleton`), for any callers, and a
   second unlock is what separates `src2.cc` from `src.cc`.
3. The safety half of the liveness properties as theorems: a call that holds `_pageMtx` always has
   a step (`CallsReturn`), and who holds a bucket lock never waits for another.
4. `TlsPool` in the place of `PageCache`'s other user of the break, and `TcMalloc` over the
   real `PageCache` instead of `PageHeap` for one bucket.
5. That a span's first page may reach below the memory obtained for it, as a run of its own,
   and likewise the worker of `mycond.cc` that misses the last broadcast.
