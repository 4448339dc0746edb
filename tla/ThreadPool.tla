----------------------------- MODULE ThreadPool -----------------------------
(***************************************************************************)
(* ThreadPool<T> (ThreadPool.hpp, LockGuard.hpp, Thread.hpp): run starts     *)
(* nums_ threads one by one, push_task queues a task, each thread executes   *)
(* routine for ever.  A step is what a thread does while it holds mutex_, or  *)
(* the execution of one task outside it.  How the one instance is obtained   *)
(* is PoolSingleton's subject.                                              *)
(***************************************************************************)
EXTENDS Integers, Sequences, FiniteSets

CONSTANTS nums_,      \* threads in the pool, numbered 1 .. nums_
          MaxTasks    \* bound: tasks pushed, named 1, 2, ... in that order

PoolAssumption == nums_ \in Nat \ {0} /\ MaxTasks \in Nat

VARIABLES
  taskq_,
  pushed,      \* tasks pushed so far
  started,     \* threads run has started: 1 .. started
  pc,          \* "new", "enter": about to get mutex_, "wait": on cond_, "task"
  task,        \* thread -> the task it executes, 0 if none
  executed     \* task -> how often it has been executed

vars == <<taskq_, pushed, started, pc, task, executed>>

TP_   == 1 .. nums_
Tasks == 1 .. MaxTasks
cond_ == {w \in TP_ : pc[w] = "wait"}

Init ==
  /\ taskq_ = <<>> /\ pushed = 0 /\ started = 0
  /\ pc = [w \in TP_ |-> "new"]
  /\ task = [w \in TP_ |-> 0]
  /\ executed = [k \in Tasks |-> 0]

StartOneMore ==
  /\ started <= nums_
  /\ started' = started + 1
  /\ pc' = [pc EXCEPT ![started'] = "enter"]
  /\ UNCHANGED <<taskq_, pushed, task, executed>>

\* One turn of run's loop: Thread::start, and routine begins.
Start ==
  /\ started < nums_
  /\ started' = started + 1
  /\ pc' = [pc EXCEPT ![started'] = "enter"]
  /\ UNCHANGED <<taskq_, pushed, task, executed>>

PushSilently ==
  /\ pushed < MaxTasks
  /\ pushed' = pushed + 1
  /\ taskq_' = Append(taskq_, pushed')
  /\ UNCHANGED <<started, pc, task, executed>>

\* push_task: the queue grows and one waiter, whichever, is signalled.
push_task ==
  /\ pushed < MaxTasks
  /\ pushed' = pushed + 1
  /\ taskq_' = Append(taskq_, pushed')
  /\ IF cond_ = {} THEN pc' = pc
                   ELSE \E w \in cond_ : pc' = [pc EXCEPT ![w] = "enter"]
  /\ UNCHANGED <<started, task, executed>>

Wait(w) ==
  /\ pc[w] = "enter" /\ taskq_ = <<>>
  /\ pc' = [pc EXCEPT ![w] = "wait"]
  /\ UNCHANGED <<taskq_, pushed, started, task, executed>>

TakeLeavesFront(w) ==
  /\ pc[w] = "enter" /\ taskq_ # <<>>
  /\ task' = [task EXCEPT ![w] = Head(taskq_)]
  /\ pc' = [pc EXCEPT ![w] = "task"]
  /\ UNCHANGED <<taskq_, pushed, started, executed>>

\* The queue has a task: take the front, unlock.
Take(w) ==
  /\ pc[w] = "enter" /\ taskq_ # <<>>
  /\ task' = [task EXCEPT ![w] = Head(taskq_)]
  /\ taskq_' = Tail(taskq_)
  /\ pc' = [pc EXCEPT ![w] = "task"]
  /\ UNCHANGED <<pushed, started, executed>>

\* task(name), without the mutex.
Execute(w) ==
  /\ pc[w] = "task"
  /\ executed' = [executed EXCEPT ![task[w]] = @ + 1]
  /\ task' = [task EXCEPT ![w] = 0]
  /\ pc' = [pc EXCEPT ![w] = "enter"]
  /\ UNCHANGED <<taskq_, pushed, started>>

SpuriousWake(w) ==
  /\ pc[w] = "wait"
  /\ pc' = [pc EXCEPT ![w] = "enter"]
  /\ UNCHANGED <<taskq_, pushed, started, task, executed>>

routine(w) == Wait(w) \/ Take(w) \/ Execute(w)

Next ==
  \/ Start \/ push_task
  \/ \E w \in TP_ : routine(w) \/ SpuriousWake(w)

-----------------------------------------------------------------------------
TypeOK ==
  /\ taskq_ \in Seq(Tasks) /\ pushed \in 0 .. MaxTasks /\ started \in 0 .. nums_
  /\ pc \in [TP_ -> {"new", "enter", "wait", "task"}]
  /\ task \in [TP_ -> Tasks \cup {0}]
  /\ executed \in [Tasks -> Nat]

\* Each task is in one place: waiting in the queue once, in the hands of one
\* thread, or executed once; no two threads execute the same task.
EachTaskOnce ==
  \A k \in Tasks :
    Cardinality({i \in 1 .. Len(taskq_) : taskq_[i] = k})
      + Cardinality({w \in TP_ : task[w] = k}) + executed[k]
        = IF k <= pushed THEN 1 ELSE 0

\* The one signal of push_task is never lost on a pool in which other threads
\* are busy, not started or woken for nothing: while threads wait on cond_, as
\* many are on their way to the queue as it has tasks.
NoLostWakeup ==
  cond_ # {} => Len(taskq_) <= Cardinality({w \in TP_ : pc[w] = "enter"})

\* A task pushed, also one pushed before the threads were started, is executed.
EveryTaskRuns == \A k \in Tasks : pushed >= k ~> executed[k] = 1
=============================================================================
