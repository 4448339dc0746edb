\* The smallest heap in which a released span has a free span after it.
CONSTANTS
  MaxPages = 3
  PoolPages = 1
  SpansPerChunk = 3
  PageUnits = 1
  Gaps = {1}
  OneAtTheBreak = TRUE
  LargeSizes = {}
  LastLargeFirst = TRUE
  HeapPages = 5
  MaxSpans = 5
  MaxLarge = 0
SPECIFICATION Spec
PROPERTY MergesForward
CHECK_DEADLOCK FALSE
