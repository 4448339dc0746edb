\* Two or three of everything: enough for one process to meet another that is
\* ahead of it or behind it.  A program stops when its users do.
CONSTANTS
  PTHREAD_NUMS = 3
  Total = 2
  PTNUMS = 3
  Rounds = 2
  PROCESS_NUM = 3
  PipeSize = 2
  MaxSent = 4
  Servers = {s1, s2}
  NoFifo = NoFifo
  FifoClients = {f1, f2}
  nums = 3
  MaxUnread = 2
  ShmServers = {m1, m2}
  ShmClients = {n1, n2}
  NoSegment = NoSegment
  Peers = {p1, p2}
  backlog = 1
  MaxSends = 2
  UdpClients = {u1, u2}
  MaxLines = 3
  NoText = NoText
  nums_ = 3
  MaxTasks = 4
  Programs = {"tickets", "cond_var", "process_pool", "fifo", "shm", "tcp", "udp",
              "thread_pool"}
SPECIFICATION Spec
PROPERTIES ThreadsJoin ClientsServed EveryTaskRuns
INVARIANTS TypeOK EachTicketOnce PipeEnds NameMatchesServer LinesAnswered
           EachTaskOnce NoLostWakeup
CHECK_DEADLOCK FALSE
