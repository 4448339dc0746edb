\* The first allocations of two threads meet.
CONSTANTS
  Threads = {t1, t2}
  PoolPages = 4
SPECIFICATION Spec
INVARIANT OwnCache
CHECK_DEADLOCK FALSE
