------------------------------ MODULE PageHeap ------------------------------
(***************************************************************************)
(* What PageCache promises the two layers above it, and all they rely on:   *)
(* NewSpan hands out a run of pages nobody else holds, and                 *)
(* ReleaseSpanToPageCache takes such a run back.                            *)
(***************************************************************************)
EXTENDS Integers

CONSTANTS Pages,        \* the page numbers of the heap
          Lengths       \* the lengths a caller may ask for, in pages

VARIABLE used           \* the runs handed out: set of [id, n]

Runs == [id : Pages, n : Lengths]

PagesOf(run) == run.id .. run.id + run.n - 1

Overlap(r, s) == r.id < s.id + s.n /\ s.id < r.id + r.n

Init == used = {}

NewSpan == \E run \in Runs :
  /\ PagesOf(run) \subseteq Pages
  /\ \A r \in used : ~ Overlap(r, run)
  /\ used' = used \cup {run}

ReleaseSpan == \E run \in used : used' = used \ {run}

Next == NewSpan \/ ReleaseSpan

Spec == Init /\ [][Next]_used
=============================================================================
