\* Two threads, two buckets: spans of two blocks and spans of one.
CONSTANTS
  Threads = {t1, t2}
  NoThread = NoThread
  Sizes <- SmallSizes
  NumMoveSize <- SmallMove
  NumMovePages <- SmallPages
  PageBytes = 4
  HeapPages = 2
  MaxLive = 2
SPECIFICATION Spec
INVARIANTS TypeOK UseCountExact OneHolder OutBlocksHaveSpan FreedAtOwnSize CacheBounded LiveDisjoint
PROPERTIES BucketOwned SomeCallReturns
CHECK_DEADLOCK FALSE
