\* Blocks of 3 units in spans of 4: a size that does not divide its span.
CONSTANTS
  Threads = {t1}
  NoThread = NoThread
  Sizes <- OddSizes
  NumMoveSize <- OddMove
  NumMovePages <- OddPages
  PageBytes = 4
  HeapPages = 2
  MaxLive = 4
SPECIFICATION Spec
INVARIANT LiveDisjoint
CHECK_DEADLOCK FALSE
