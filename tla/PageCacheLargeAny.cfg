\* Large spans freed in any order, as Unittest.cc frees them, by a program whose
\* only user of the break is PageCache.
CONSTANTS
  MaxPages = 2
  PoolPages = 1
  SpansPerChunk = 4
  PageUnits = 1
  Gaps = {}
  OneAtTheBreak = TRUE
  LargeSizes = {3}
  LastLargeFirst = FALSE
  HeapPages = 9
  MaxSpans = 4
  MaxLarge = 2
SPECIFICATION Spec
INVARIANT HeldBelowBreak
CHECK_DEADLOCK FALSE
