----------------------------- MODULE MCPrograms -----------------------------
(***************************************************************************)
(* The programs of the repository that are a single module each, for TLC: an *)
(* initial state starts one of them, and the others, with which it has        *)
(* nothing in common, stay as they are.  The specification of a program on     *)
(* its own is the part of Spec in which program is its name.                   *)
(***************************************************************************)
EXTENDS Integers, Sequences

CONSTANTS Programs,
          PTHREAD_NUMS, Total,
          PTNUMS, Rounds,
          PROCESS_NUM, PipeSize, MaxSent,
          Servers, NoFifo, FifoClients, nums, MaxUnread,
          ShmServers, ShmClients, NoSegment,
          Peers, backlog, MaxSends,
          UdpClients, MaxLines, NoText,
          nums_, MaxTasks

VARIABLES program,
          twice, tickets, mutex, seller, loaded, sold, joins, ended,
          quit, cnt, main, joined, worker,
          parent, slot, readers, writers, pipe, child, sent,
          ipcPath, server, came, forked, reading, client, blocked, unread,
          key, attached, call, shmid,
          listensock, start, serversock, holds, serviceread, peer, sends, inbuf,
          lines, waiting, requests, replies, buff, lossy,
          taskq_, pushed, started, pc, task, executed

T == INSTANCE Tickets
C == INSTANCE CondVar
P == INSTANCE ProcessPool
F == INSTANCE FifoServer
S == INSTANCE SharedMemory
N == INSTANCE TcpServer
U == INSTANCE UdpEcho
L == INSTANCE ThreadPool

\* What the modules take for granted of their constants.
ASSUME ProgramsAssumption ==
  /\ T!TicketsAssumption /\ C!CondVarAssumption /\ P!PoolAssumption /\ F!FifoAssumption
  /\ S!ShmAssumption /\ N!TcpAssumption /\ U!UdpAssumption /\ L!PoolAssumption

TVars == <<twice, tickets, mutex, seller, loaded, sold, joins, ended>>
CVars == <<quit, cnt, main, joined, worker>>
PVars == <<parent, slot, readers, writers, pipe, child, sent>>
FVars == <<ipcPath, server, came, forked, reading, client, blocked, unread>>
SVars == <<key, attached, call, shmid>>
NVars == <<listensock, start, serversock, holds, serviceread, peer, sends, inbuf>>
UVars == <<lines, waiting, requests, replies, buff, lossy>>
LVars == <<taskq_, pushed, started, pc, task, executed>>

vars == <<program, TVars, CVars, PVars, FVars, SVars, NVars, UVars, LVars>>

Init ==
  /\ program \in Programs
  /\ T!Init /\ (program # "tickets" => ~ twice)
  /\ C!Init /\ P!Init /\ F!Init /\ S!Init /\ N!Init /\ U!Init /\ L!Init

\* Only p takes steps.
Alone(p) ==
  /\ program = p /\ UNCHANGED program
  /\ IF p = "tickets" THEN TRUE ELSE UNCHANGED TVars
  /\ IF p = "cond_var" THEN TRUE ELSE UNCHANGED CVars
  /\ IF p = "process_pool" THEN TRUE ELSE UNCHANGED PVars
  /\ IF p = "fifo" THEN TRUE ELSE UNCHANGED FVars
  /\ IF p = "shm" THEN TRUE ELSE UNCHANGED SVars
  /\ IF p = "tcp" THEN TRUE ELSE UNCHANGED NVars
  /\ IF p = "udp" THEN TRUE ELSE UNCHANGED UVars
  /\ IF p = "thread_pool" THEN TRUE ELSE UNCHANGED LVars

Next ==
  \/ Alone("tickets") /\ T!Next
  \/ Alone("cond_var") /\ C!Next
  \/ Alone("process_pool") /\ P!Next
  \/ Alone("fifo") /\ F!Next
  \/ Alone("shm") /\ S!Next
  \/ Alone("tcp") /\ N!Next
  \/ Alone("udp") /\ U!Next
  \/ Alone("thread_pool") /\ L!Next

\* A thread or a process that is not waiting for another goes on.  Nothing obliges
\* a client to send or to quit, anyone to push a task, a signal to come, or the join
\* of an uninitialised thread to return.
Fairness ==
  /\ \A t \in T!Sellers : WF_vars(Alone("tickets") /\ T!Ticketsbook(t))
  /\ WF_vars(Alone("tickets") /\ (T!Join \/ T!Return))
  /\ WF_vars(Alone("cond_var") /\ C!MainStep)
  /\ \A w \in C!W : WF_vars(Alone("cond_var") /\ C!func(w))
  /\ \A s \in Servers : /\ WF_vars(Alone("fifo") /\ F!ServerStep(s))
                        /\ WF_vars(Alone("fifo") /\ F!ChildStep(s))
  /\ WF_vars(Alone("tcp") /\ N!ParentStep)
  /\ \A c \in Peers : WF_vars(Alone("tcp") /\ N!ChildStep(c))
  /\ WF_vars(Alone("thread_pool") /\ L!Start)
  /\ \A w \in L!TP_ : WF_vars(Alone("thread_pool") /\ L!routine(w))

Spec == Init /\ [][Next]_vars /\ Fairness

-----------------------------------------------------------------------------
TypeOK ==
  /\ T!TypeOK /\ C!TypeOK /\ P!TypeOK /\ F!TypeOK
  /\ S!TypeOK /\ N!TypeOK /\ U!TypeOK /\ L!TypeOK

\* src.cc: no ticket is sold twice and none beyond the last, and main's end stops no
\* sale.
EachTicketOnce == T!EachTicketOnce

\* ProcessPool.c++: a child sees the end of its pipe only when main and the
\* later children are gone, and main never blocks on the pipe of a dead child.
PipeEnds == P!EofFromTheLast /\ P!DeadChildNoticed

\* server.cxx and shmServer.c++: the name in the file system, or the key, leads to
\* what the running server has created, and no other server removes it.
NameMatchesServer == F!PathMatchesServer /\ S!KeyMatchesServer

\* udp_server.hpp: a client waits in vain only for a lost datagram, and a line that
\* is not empty is answered with a line of its client.
LinesAnswered == U!WaitsOnlyIfLost /\ U!EchoesOwnLine

\* ThreadPool.hpp: each task pushed is queued, in a thread's hands or executed, once.
EachTaskOnce == L!EachTaskOnce

\* ThreadPool.hpp: the one signal of push_task is never lost.
NoLostWakeup == L!NoLostWakeup

\* ThreadPool.hpp: a task pushed at any time is executed at last.
EveryTaskRuns == L!EveryTaskRuns

\* src2.cc: main joins all threads and returns; src.cc, whose main joins an
\* uninitialised id and never its second thread: the threads leave while the process
\* lasts; mycond.cc: a worker leaves, and main joins all, unless the last broadcast
\* catches it between test and wait.
ThreadsJoin == (program = "tickets" => T!MainJoins) /\ C!JoinsUnlessCaught

\* server.cxx: a server whose clients are gone stops and removes the fifo;
\* tcp_server.hpp: every connection is accepted, and ends for a client that is done.
ClientsServed == F!ServerEnds /\ N!NewClientAccepted /\ N!ClientSeesEnd
=============================================================================
