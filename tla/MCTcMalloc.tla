---------------------------- MODULE MCTcMalloc ----------------------------
(* Small instances of TcMalloc: pages of 4 units, blocks of 2 and 4 units   *)
(* that divide a span, or of 3 units that do not.                           *)
EXTENDS TcMalloc

SmallSizes == {2, 4}
SmallMove  == [c \in SmallSizes |-> 2]
SmallPages == [c \in SmallSizes |-> 1]

OddSizes == {3}
OddMove  == [c \in OddSizes |-> 2]
OddPages == [c \in OddSizes |-> 1]
=============================================================================
