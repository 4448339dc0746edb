------------------------------ MODULE Tickets ------------------------------
(***************************************************************************)
(* The two ticket programs: src.cc (~ twice) and src2.cc (twice), whose        *)
(* selling branch unlocks the mutex and then falls through to a second unlock. *)
(* The mutex is a normal one: unlocking it frees it, whoever holds it.  The     *)
(* decrement of the shared counter is a load and a store.  (src.cc's thread     *)
(* function ends without a return statement; the builds meant are those in      *)
(* which it returns all the same.)                                           *)
(*                                                                         *)
(* main of src2.cc joins its threads in order.  main of src.cc writes the ids   *)
(* of its second and its third thread into t3 and joins t1, t2, which it has     *)
(* not initialised, and t3: nothing waits for the second thread, and the        *)
(* process ends with main.                                                    *)
(***************************************************************************)
EXTENDS Integers

CONSTANTS PTHREAD_NUMS,   \* the number of sellers
          Total           \* the initial value of tickets

TicketsAssumption == PTHREAD_NUMS \in Nat \ {0} /\ Total \in Nat

VARIABLES
  twice,     \* whether the program is src2.cc
  tickets,
  mutex,     \* whether the mutex is locked
  seller,    \* thread -> the statement it is at
  loaded,    \* thread -> the value its decrement has read
  sold,      \* how many times a ticket was sold
  joins,     \* calls of pthread_join that main has returned from
  ended      \* the process: "no": it runs; main has "returned"; it has "crashed"

vars == <<twice, tickets, mutex, seller, loaded, sold, joins, ended>>

Sellers == 1 .. PTHREAD_NUMS

Init ==
  /\ twice \in BOOLEAN
  /\ tickets = Total
  /\ mutex = FALSE
  /\ seller = [t \in Sellers |-> "lock"]
  /\ loaded = [t \in Sellers |-> 0]
  /\ sold = 0 /\ joins = 0 /\ ended = "no"

Goto(t, from, to) == seller[t] = from /\ seller' = [seller EXCEPT ![t] = to]

LockIgnored(t) ==
  /\ Goto(t, "lock", "test")
  /\ mutex' = TRUE
  /\ UNCHANGED <<tickets, loaded, sold>>

Lock(t) ==
  /\ Goto(t, "lock", "test")
  /\ ~ mutex /\ mutex' = TRUE
  /\ UNCHANGED <<tickets, loaded, sold>>

\* tickets > 0: sell one; otherwise leave.
Test(t) ==
  /\ Goto(t, "test", IF tickets > 0 THEN "load" ELSE "leave")
  /\ UNCHANGED <<tickets, mutex, loaded, sold>>

\* --tickets, as a load ...
Load(t) ==
  /\ Goto(t, "load", "store")
  /\ loaded' = [loaded EXCEPT ![t] = tickets]
  /\ UNCHANGED <<tickets, mutex, sold>>

\* ... and a store.
Store(t) ==
  /\ Goto(t, "store", "unlock")
  /\ tickets' = loaded[t] - 1
  /\ sold' = sold + 1
  /\ UNCHANGED <<mutex, loaded>>

Unlock(t) ==
  /\ Goto(t, "unlock", IF twice THEN "unlockAgain" ELSE "lock")
  /\ mutex' = FALSE
  /\ UNCHANGED <<tickets, loaded, sold>>

\* src2.cc:52, after the if and else.
UnlockAgain(t) ==
  /\ Goto(t, "unlockAgain", "lock")
  /\ mutex' = FALSE
  /\ UNCHANGED <<tickets, loaded, sold>>

LeaveLocked(t) ==
  /\ Goto(t, "leave", "done")
  /\ UNCHANGED <<tickets, mutex, loaded, sold>>

\* Unlock and break.
Leave(t) ==
  /\ Goto(t, "leave", "done")
  /\ mutex' = FALSE
  /\ UNCHANGED <<tickets, loaded, sold>>

Ticketsbook(t) ==
  /\ ended = "no"
  /\ Lock(t) \/ Test(t) \/ Load(t) \/ Store(t) \/ Unlock(t) \/ UnlockAgain(t) \/ Leave(t)
  /\ UNCHANGED <<twice, joins, ended>>

\* The threads main joins, one call after the other; src.cc's t3 is the last one.
Joined == IF twice THEN joins + 1 ELSE IF joins = 0 THEN 1 ELSE PTHREAD_NUMS
Calls  == IF twice THEN PTHREAD_NUMS ELSE 3

Join ==
  /\ ended = "no" /\ joins < Calls /\ (twice \/ joins # 1)
  /\ seller[Joined] = "done"
  /\ joins' = joins + 1
  /\ UNCHANGED <<twice, tickets, mutex, seller, loaded, sold, ended>>

\* src.cc:47, pthread_join of an uninitialised id: it returns sooner or later or
\* not at all, or the process dies of it.
JoinUninitialised ==
  /\ ended = "no" /\ ~ twice /\ joins = 1
  /\ \/ joins' = 2 /\ ended' = ended
     \/ joins' = joins /\ ended' = "crashed"
  /\ UNCHANGED <<twice, tickets, mutex, seller, loaded, sold>>

Return ==
  /\ ended = "no" /\ joins = Calls
  /\ ended' = "returned"
  /\ UNCHANGED <<twice, tickets, mutex, seller, loaded, sold, joins>>

Next == Join \/ JoinUninitialised \/ Return \/ \E t \in Sellers : Ticketsbook(t)

-----------------------------------------------------------------------------
TypeOK ==
  /\ twice \in BOOLEAN /\ mutex \in BOOLEAN
  /\ tickets \in Int /\ sold \in Nat
  /\ loaded \in [Sellers -> Int]
  /\ joins \in Nat /\ ended \in {"no", "returned", "crashed"}
  /\ seller \in [Sellers -> {"lock", "test", "load", "store", "unlock", "unlockAgain",
                             "leave", "done"}]

\* In src.cc no ticket is sold twice and none beyond the last, whichever threads
\* meet at the counter: "locking keeps the shared resource from being affected
\* by re-entry" (src.cc:9).  And when main is past its first join all of them are
\* sold: its return, or its crash, stops no sale of the thread it does not wait for.
EachTicketOnce ==
  ~ twice => LET selling == {t \in Sellers : seller[t] \in {"load", "store"}}
             IN  /\ sold + tickets = Total
                 /\ tickets >= 0
                 /\ \A t \in selling : tickets > 0 /\ mutex
                 /\ \A t, u \in selling : t = u
                 /\ joins > 0 => sold = Total

\* src2.cc: main joins every thread and returns, although the second unlock frees
\* the mutex under others.  src.cc: every thread leaves its loop, unless the process
\* ends before; main may wait for ever at its second join.
MainJoins ==
  /\ twice ~> (ended = "returned" /\ \A t \in Sellers : seller[t] = "done")
  /\ \A t \in Sellers : <>(seller[t] = "done" \/ ended # "no")
=============================================================================
