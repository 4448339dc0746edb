\* Buckets of up to 3 pages, two heap growths beside each other or a growth beside
\* a large span of 4 pages, freed only at the heap's top; pool chunks of a page
\* and four Span objects, and pages of two units, of which the other user of the
\* break takes or gives back one at a time, so that the break is aligned or not.
CONSTANTS
  MaxPages = 3
  PoolPages = 1
  SpansPerChunk = 4
  PageUnits = 2
  Gaps = {1}
  OneAtTheBreak = TRUE
  LargeSizes = {4}
  LastLargeFirst = TRUE
  HeapPages = 8
  MaxSpans = 5
  MaxLarge = 1
SPECIFICATION Spec
INVARIANTS TypeOK SpansDisjoint BucketsExact MapExact NeighbourIsLive
PROPERTIES NoPageLost MergesBackward CallsReturn ImplementsPageHeap
CHECK_DEADLOCK FALSE
