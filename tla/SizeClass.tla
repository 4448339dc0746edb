----------------------------- MODULE SizeClass -----------------------------
(***************************************************************************)
(* The size-class arithmetic of the allocator: ClassSize in                *)
(* TCmalloc/TCmallocSRC/Common.hpp.  Everything here is a pure function of a *)
(* request size; MCSizeClass walks it over every size.                      *)
(***************************************************************************)
EXTENDS Integers, FiniteSets

MAX_BYTES    == 256 * 1024
MAX_LISTNODE == 208
NPAGES       == 129
PAGE_SIZE    == 8 * 1024                     \* 1 << PAGE_SHIFT

\* (allocsize + align - 1) & ~(align - 1): for the powers of two the code
\* passes, the least multiple of align that is not below allocsize.
_Round_up(allocsize, align) == ((allocsize + align - 1) \div align) * align

AlignmentNoKiBGroup(allocsize) ==
  CASE allocsize <= 128                              -> 8
    [] allocsize > 128 /\ allocsize <= 1024          -> 16
    [] allocsize > 1024 /\ allocsize <= 8 * 1024     -> 128
    [] OTHER                                         -> PAGE_SIZE

Alignment(allocsize) ==
  CASE allocsize <= 128                              -> 8
    [] allocsize > 128 /\ allocsize <= 1024          -> 16
    [] allocsize > 1024 /\ allocsize <= 8 * 1024     -> 128
    [] allocsize > 8 * 1024 /\ allocsize <= 64 * 1024 -> 1024
    [] OTHER                                         -> PAGE_SIZE

Round_up(allocsize) == _Round_up(allocsize, Alignment(allocsize))

\* Index asserts alignsize < 256 * 1024 before anything else.
IndexAsserts(alignsize) == alignsize < MAX_BYTES

IndexNoRebase(alignsize) ==
  CASE alignsize <= 128                              -> alignsize \div 8 - 1
    [] alignsize > 128 /\ alignsize <= 1024          -> alignsize \div 16 + 16 - 1
    [] alignsize > 1024 /\ alignsize <= 8 * 1024     -> alignsize \div 128 + 72 - 1
    [] alignsize > 8 * 1024 /\ alignsize <= 64 * 1024 -> alignsize \div 1024 + 128 - 1
    [] OTHER                                         -> alignsize \div 8192 + 184 - 1

\* The bucket of an aligned size.  size_t wraps: the value -1 that size 0
\* yields stands for its residue 2^64 - 1.
Index(alignsize) ==
  CASE alignsize <= 128                              -> alignsize \div 8 - 1
    [] alignsize > 128 /\ alignsize <= 1024          -> (alignsize - 128) \div 16 + 16 - 1
    [] alignsize > 1024 /\ alignsize <= 8 * 1024     -> (alignsize - 1024) \div 128 + 72 - 1
    [] alignsize > 8 * 1024 /\ alignsize <= 64 * 1024 ->
          (alignsize - 8 * 1024) \div 1024 + 128 - 1
    [] OTHER                                         -> (alignsize - 64 * 1024) \div 8192 + 184 - 1

\* How many blocks a thread cache may fetch at once: MAX_BYTES / size,
\* clamped to [2, 512].
NumMoveSize(size) ==
  IF size = 0 THEN 0
  ELSE LET num == MAX_BYTES \div size
       IN  CASE num > 512 -> 512
             [] num < 2   -> 2
             [] OTHER     -> num

NumMovePagesNoFloor(size) == (NumMoveSize(size) * size) \div PAGE_SIZE

\* How many pages the central cache asks for to serve such a fetch.
NumMovePages(size) ==
  LET npages == (NumMoveSize(size) * size) \div PAGE_SIZE
  IN  IF npages = 0 THEN 1 ELSE npages

SpanBytes(size) == NumMovePages(size) * PAGE_SIZE

-----------------------------------------------------------------------------
(* What the tables promise, stated without the code's formulas.            *)

ClassSizes ==
  {8 * k : k \in 1..16} \cup {128 + 16 * k : k \in 1..56}
    \cup {1024 + 128 * k : k \in 1..56} \cup {8192 + 1024 * k : k \in 1..56}
    \cup {65536 + 8192 * k : k \in 1..24}

\* A request is rounded to one of the 208 sizes of the table, never down, and
\* rounding the result again (as Deallocate does with the _objSize the span
\* recorded) changes nothing: a block is freed into the list it was allocated
\* from.  The number of that list is the rank of the size in the table, so no
\* two sizes share a list and none is skipped (list_group, Common.hpp:125).
FreedIntoItsOwnBucket(size) ==
  LET aligned == Round_up(size)
  IN  /\ aligned >= size
      /\ aligned \in ClassSizes
      /\ IndexAsserts(aligned)
      /\ Round_up(aligned) = aligned
      /\ Index(aligned) = Cardinality({c \in ClassSizes : c < aligned})

\* "At most about 10% internal fragmentation" (Common.hpp:40): above the
\* first group, no more than one ninth of a block is padding.
WasteBounded(size) ==
  size > 128 => 9 * (Round_up(size) - size) <= Round_up(size)

\* A span the central cache asks for is one the page cache serves from its
\* buckets, and it holds at least one whole block of the size.
SpanServesClass(size) ==
  LET aligned == Round_up(size)
  IN  /\ NumMovePages(aligned) \in 1 .. NPAGES - 1
      /\ SpanBytes(aligned) >= aligned
=============================================================================
