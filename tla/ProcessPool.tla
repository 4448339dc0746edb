---------------------------- MODULE ProcessPool ----------------------------
(***************************************************************************)
(* The process pool (ProcessPool.c++): main creates a pipe and forks a child  *)
(* PROCESS_NUM times, then writes commands to children it chooses at random.  *)
(* A child inherits every descriptor main has open: the write ends of all      *)
(* earlier pipes too, which nobody closes in it.  Any process may be killed;   *)
(* the loop of main has no other end, so its statements after it (closing the *)
(* write ends, waiting for the children) never run and are not modelled.       *)
(***************************************************************************)
EXTENDS Naturals

CONSTANTS PROCESS_NUM,
          PipeSize,    \* how many commands a pipe takes before write blocks
          MaxSent      \* bound on the commands sent

PoolAssumption ==
  PROCESS_NUM \in Nat \ {0} /\ PipeSize \in Nat \ {0} /\ MaxSent \in Nat

Children == 1 .. PROCESS_NUM
Parent   == 0
Procs    == {Parent} \cup Children

VARIABLES
  parent,    \* main: "fork", "close" (the read end), "choose", "write" or "dead"
  slot,      \* the child main forks or writes to
  readers,   \* pipe -> the processes that have its read end open
  writers,   \* pipe -> the processes that have its write end open
  pipe,      \* pipe -> commands in it
  child,     \* "none", "close" (its write end), "wait", "run", "spin" or "dead"
  sent

vars == <<parent, slot, readers, writers, pipe, child, sent>>

Init ==
  /\ parent = "fork" /\ slot = 1 /\ sent = 0
  /\ readers = [c \in Children |-> {}] /\ writers = [c \in Children |-> {}]
  /\ pipe = [c \in Children |-> 0]
  /\ child = [c \in Children |-> "none"]

NotInherited(ends) == [ends EXCEPT ![slot] = {Parent, slot}]

\* The processes that have an end open after a fork of slot: the two of its own
\* pipe main has just created, the others as main has them.
Inherit(ends) ==
  [c \in Children |-> IF c = slot THEN {Parent, c}
                      ELSE IF Parent \in ends[c] THEN ends[c] \cup {slot} ELSE ends[c]]

Fork ==
  /\ parent = "fork" /\ parent' = "close"
  /\ readers' = Inherit(readers)
  /\ writers' = Inherit(writers)
  /\ child' = [child EXCEPT ![slot] = "close"]
  /\ UNCHANGED <<slot, pipe, sent>>

CloseReadForgotten ==
  /\ parent = "close"
  /\ IF slot = PROCESS_NUM THEN parent' = "choose" /\ UNCHANGED slot
                           ELSE parent' = "fork" /\ slot' = slot + 1
  /\ UNCHANGED <<readers, writers, pipe, child, sent>>

\* main closes the read end and goes on with the next child.
CloseRead ==
  /\ parent = "close"
  /\ readers' = [readers EXCEPT ![slot] = @ \ {Parent}]
  /\ IF slot = PROCESS_NUM THEN parent' = "choose" /\ UNCHANGED slot
                           ELSE parent' = "fork" /\ slot' = slot + 1
  /\ UNCHANGED <<writers, pipe, child, sent>>

Choose ==
  /\ parent = "choose" /\ parent' = "write" /\ sent < MaxSent
  /\ slot' \in Children
  /\ UNCHANGED <<readers, writers, pipe, child, sent>>

\* The ends that are open once p is gone.
Without(ends, p) == [c \in Children |-> ends[c] \ {p}]

\* sendAndWakeup: the write blocks while the pipe is full.
Write ==
  /\ parent = "write" /\ readers[slot] # {} /\ pipe[slot] < PipeSize
  /\ pipe' = [pipe EXCEPT ![slot] = @ + 1]
  /\ sent' = sent + 1
  /\ parent' = "choose"
  /\ UNCHANGED <<slot, readers, writers, child>>

\* The same write when nobody can read any more: SIGPIPE ends main.
BrokenPipe ==
  /\ parent = "write" /\ readers[slot] = {}
  /\ parent' = "dead"
  /\ readers' = Without(readers, Parent) /\ writers' = Without(writers, Parent)
  /\ UNCHANGED <<slot, pipe, child, sent>>

CloseWrite(c) ==
  /\ child[c] = "close" /\ child' = [child EXCEPT ![c] = "wait"]
  /\ writers' = [writers EXCEPT ![c] = @ \ {c}]
  /\ UNCHANGED <<parent, slot, readers, pipe, sent>>

\* WaitCommand reads a command ...
WaitCommand(c) ==
  /\ child[c] = "wait" /\ pipe[c] > 0
  /\ pipe' = [pipe EXCEPT ![c] = @ - 1]
  /\ child' = [child EXCEPT ![c] = "run"]
  /\ UNCHANGED <<parent, slot, readers, writers, sent>>

\* ... or the end of the file: quit is set, which nobody looks at, and the
\* child reads the end of the file again and again ("spin").
EndOfFile(c) ==
  /\ child[c] = "wait" /\ pipe[c] = 0 /\ writers[c] = {}
  /\ child' = [child EXCEPT ![c] = "spin"]
  /\ UNCHANGED <<parent, slot, readers, writers, pipe, sent>>

\* callbacks[command]().
Run(c) ==
  /\ child[c] = "run" /\ child' = [child EXCEPT ![c] = "wait"]
  /\ UNCHANGED <<parent, slot, readers, writers, pipe, sent>>

\* A signal ends a process; its descriptors are closed.
KillChild(c) ==
  /\ child[c] \notin {"none", "dead"} /\ child' = [child EXCEPT ![c] = "dead"]
  /\ readers' = Without(readers, c) /\ writers' = Without(writers, c)
  /\ UNCHANGED <<parent, slot, pipe, sent>>

KillParent ==
  /\ parent # "dead" /\ parent' = "dead"
  /\ readers' = Without(readers, Parent) /\ writers' = Without(writers, Parent)
  /\ UNCHANGED <<slot, pipe, child, sent>>

ParentStep == Fork \/ CloseRead \/ Choose \/ Write \/ BrokenPipe
ChildStep(c) == CloseWrite(c) \/ WaitCommand(c) \/ EndOfFile(c) \/ Run(c)

Next == ParentStep \/ KillParent \/ \E c \in Children : ChildStep(c) \/ KillChild(c)

-----------------------------------------------------------------------------
TypeOK ==
  /\ parent \in {"fork", "close", "choose", "write", "dead"}
  /\ slot \in Children /\ sent \in 0 .. MaxSent
  /\ readers \in [Children -> SUBSET Procs] /\ writers \in [Children -> SUBSET Procs]
  /\ pipe \in [Children -> 0 .. PipeSize]
  /\ child \in [Children -> {"none", "close", "wait", "run", "spin", "dead"}]

\* A child reads the end of its pipe only when main and every child forked after
\* it are gone: the later children keep the write ends they inherited.
EofFromTheLast ==
  \A c \in Children : child[c] = "spin" =>
    /\ parent = "dead"
    /\ \A d \in Children : d > c => child[d] \in {"none", "dead"}

\* main is never left blocked on the pipe of a child that is dead: since no other
\* process has its read end, the write raises SIGPIPE instead.
DeadChildNoticed ==
  (parent = "write" /\ child[slot] = "dead") => readers[slot] = {}
=============================================================================
