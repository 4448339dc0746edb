\* Another user of the break, TLSPool say, reads it between PageCache's two calls
\* or the other way round; no large spans.
CONSTANTS
  MaxPages = 2
  PoolPages = 1
  SpansPerChunk = 4
  PageUnits = 1
  Gaps = {1}
  OneAtTheBreak = FALSE
  LargeSizes = {}
  LastLargeFirst = TRUE
  HeapPages = 9
  MaxSpans = 4
  MaxLarge = 0
SPECIFICATION Spec
INVARIANT SpansDisjoint
CHECK_DEADLOCK FALSE
