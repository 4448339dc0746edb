---------------------------- MODULE BoundedFifo ----------------------------
(* What both queues promise their callers: a first-in first-out queue of at  *)
(* most Capacity items, from which each pop hands the oldest one to one        *)
(* consumer.                                                                *)
EXTENDS Naturals, Sequences

CONSTANTS Items, Consumers, Capacity

VARIABLES queue,   \* the items pushed and not yet popped, oldest first
          out      \* consumer -> what its last pop wrote through *out

Init == queue = <<>> /\ out \in [Consumers -> Items]

Push(x) == /\ Len(queue) < Capacity
           /\ queue' = Append(queue, x)
           /\ UNCHANGED out

Pop(c) == /\ queue # <<>>
          /\ out' = [out EXCEPT ![c] = Head(queue)]
          /\ queue' = Tail(queue)

Next == (\E x \in Items : Push(x)) \/ (\E c \in Consumers : Pop(c))

Spec == Init /\ [][Next]_<<queue, out>>
=============================================================================
