\* Every size the code can serve: 1 .. 248 KiB.
CONSTANTS
  MinSize = 1
  MaxSize = 253952
  Strip = 4096
SPECIFICATION Spec
INVARIANTS SizeServed Waste
CHECK_DEADLOCK FALSE
