---------------------------- MODULE MCSizeClass ----------------------------
(* Walks SizeClass over all request sizes between MinSize and MaxSize, in  *)
(* strips of Strip sizes that TLC explores side by side.                   *)
EXTENDS SizeClass

CONSTANTS MinSize, MaxSize, Strip

ASSUME WalkAssumption == MinSize \in Nat /\ MaxSize \in Nat /\ Strip \in Nat \ {0}

VARIABLE size

Init == size \in {MinSize + k * Strip : k \in 0 .. (MaxSize - MinSize) \div Strip}

NextSize == /\ size < MaxSize
            /\ (size - MinSize) % Strip # Strip - 1
            /\ size' = size + 1

Next == NextSize

Spec == Init /\ [][Next]_size

-----------------------------------------------------------------------------
\* Allocate, Deallocate and GetOneSpan agree on the size under the walk: a block
\* is freed into the list it was allocated from, the list of its size in the
\* table alone, and the page cache serves the span the list asks for.
SizeServed == FreedIntoItsOwnBucket(size) /\ SpanServesClass(size)

\* The padding stays within what Common.hpp:40 promises.
Waste == WasteBounded(size)
=============================================================================
