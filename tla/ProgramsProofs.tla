--------------------------- MODULE ProgramsProofs ---------------------------
(***************************************************************************)
(* Proofs about the programs of MCPrograms, for any number of threads,       *)
(* processes, clients and tasks.  Each program has an invariant of its own    *)
(* over its own variables; the last section puts them together.              *)
(***************************************************************************)
EXTENDS MCPrograms, FiniteSetTheorems, SequenceTheorems, TLAPS

-----------------------------------------------------------------------------
(* The ticket programs                                                       *)

\* Where a thread holds the mutex of src.cc, and where it may not be there.
Holding == {"test", "load", "store", "unlock", "leave"}

\* In src.cc the mutex is locked by the one thread that is between lock and
\* unlock, a decrement stores what it has just loaded, and a thread that leaves has
\* seen that all tickets are sold.
TicketsInv ==
  /\ T!TypeOK
  /\ ~ twice =>
       /\ \A t \in T!Sellers : seller[t] # "unlockAgain"
       /\ \A t \in T!Sellers : seller[t] \in Holding => mutex
       /\ \A t, u \in T!Sellers : seller[t] \in Holding /\ seller[u] \in Holding => t = u
       /\ \A t \in T!Sellers : seller[t] \in {"load", "store"} => tickets > 0
       /\ \A t \in T!Sellers : seller[t] = "store" => loaded[t] = tickets
       /\ \A t \in T!Sellers : seller[t] \in {"leave", "done"} => tickets = 0
       /\ sold + tickets = Total /\ tickets >= 0
       /\ joins > 0 => sold = Total

\* Nobody holds the mutex, nothing is sold.
LEMMA TicketsInit == T!Init => TicketsInv
<1>1. Total \in Nat
  BY ProgramsAssumption DEF T!TicketsAssumption
<1> SUFFICES ASSUME T!Init PROVE TicketsInv
  OBVIOUS
<1>2. T!TypeOK
  <2>1. twice \in BOOLEAN /\ mutex \in BOOLEAN
    BY Zenon DEF T!Init
  <2>2. /\ tickets \in Int /\ sold \in Nat /\ loaded \in [T!Sellers -> Int]
        /\ seller \in [T!Sellers -> {"lock", "test", "load", "store", "unlock", "unlockAgain",
                                   "leave", "done"}]
    BY <1>1 DEF T!Init
  <2>3. joins \in Nat /\ ended \in {"no", "returned", "crashed"}
    BY DEF T!Init
  <2> QED BY <2>1, <2>2, <2>3 DEF T!TypeOK
<1>3. sold + tickets = Total /\ tickets >= 0 /\ joins = 0
  BY <1>1 DEF T!Init
<1>4. \A t \in T!Sellers : seller[t] = "lock"
  BY DEF T!Init
<1> QED BY <1>2, <1>3, <1>4 DEF TicketsInv, Holding

\* A seller of src.cc acts under the mutex; one of src2.cc only keeps the types.  main
\* of src.cc is past its first join when the first thread has left.
LEMMA TicketsStep ==
  ASSUME TicketsInv, T!Next \/ UNCHANGED TVars
  PROVE  TicketsInv'
<1> USE DEF TicketsInv, T!TypeOK, Holding, T!Goto
<1>1. CASE UNCHANGED TVars
  BY <1>1 DEF TVars
<1>2. ASSUME NEW t \in T!Sellers, T!Ticketsbook(t)
      PROVE  TicketsInv'
  <2>1. CASE T!Lock(t)
    BY <1>2, <2>1 DEF T!Ticketsbook, T!Lock
  <2>2. CASE T!Test(t)
    BY <1>2, <2>2 DEF T!Ticketsbook, T!Test
  <2>3. CASE T!Load(t)
    BY <1>2, <2>3 DEF T!Ticketsbook, T!Load
  <2>4. CASE T!Store(t)
    BY <1>2, <2>4 DEF T!Ticketsbook, T!Store
  <2>5. CASE T!Unlock(t)
    BY <1>2, <2>5 DEF T!Ticketsbook, T!Unlock
  <2>6. CASE T!UnlockAgain(t)
    BY <1>2, <2>6 DEF T!Ticketsbook, T!UnlockAgain
  <2>7. CASE T!Leave(t)
    BY <1>2, <2>7 DEF T!Ticketsbook, T!Leave
  <2> QED BY <1>2, <2>1, <2>2, <2>3, <2>4, <2>5, <2>6, <2>7 DEF T!Ticketsbook
<1>3. CASE T!Join
  <2>1. PTHREAD_NUMS \in T!Sellers /\ 1 \in T!Sellers
    BY ProgramsAssumption DEF T!TicketsAssumption, T!Sellers
  <2> QED BY <1>3, <2>1 DEF T!Join, T!Joined
<1>4. CASE T!JoinUninitialised
  BY <1>4 DEF T!JoinUninitialised
<1>5. CASE T!Return
  BY <1>5 DEF T!Return
<1> QED BY <1>1, <1>2, <1>3, <1>4, <1>5 DEF T!Next

-----------------------------------------------------------------------------
(* The condition-variable program                                            *)

\* main joins no more threads than there are.
CondVarInv == C!TypeOK /\ (main # "done" => joined < PTNUMS)

\* main has joined nobody.
LEMMA CondVarInit == C!Init => CondVarInv
<1>1. PTNUMS \in Nat \ {0} /\ Rounds \in Nat
  BY ProgramsAssumption DEF C!CondVarAssumption
<1> SUFFICES ASSUME C!Init PROVE CondVarInv
  OBVIOUS
<1>2. quit \in BOOLEAN
  BY Zenon DEF C!Init
<1>3. cnt \in 0 .. Rounds /\ joined \in 0 .. PTNUMS /\ joined < PTNUMS
  BY <1>1 DEF C!Init
<1>4. main = "rounds" /\ worker = [w \in C!W |-> "test"]
  BY DEF C!Init
<1> QED BY <1>2, <1>3, <1>4 DEF CondVarInv, C!TypeOK

\* main counts its joins up to the number of threads and is done.
LEMMA CondVarStep ==
  ASSUME CondVarInv, C!Next \/ UNCHANGED CVars
  PROVE  CondVarInv'
<1> USE DEF CondVarInv, C!TypeOK, C!Goto
<1>a. PTNUMS \in Nat \ {0} /\ Rounds \in Nat
  BY ProgramsAssumption DEF C!CondVarAssumption
<1>1. CASE UNCHANGED CVars
  BY <1>1 DEF CVars
<1>2. CASE C!WakeAll
  BY <1>2, <1>a DEF C!WakeAll, C!Broadcast
<1>3. CASE C!SetQuit
  BY <1>3 DEF C!SetQuit
<1>4. CASE C!WakeLast
  BY <1>4 DEF C!WakeLast, C!Broadcast
<1>5. CASE C!Join
  BY <1>5, <1>a DEF C!Join
<1>6. ASSUME NEW w \in C!W, C!func(w) \/ C!SpuriousWake(w)
      PROVE  CondVarInv'
  BY <1>6 DEF C!func, C!TestQuit, C!LockAndWait, C!Work, C!SpuriousWake
<1> QED BY <1>1, <1>2, <1>3, <1>4, <1>5, <1>6 DEF C!Next, C!MainStep

-----------------------------------------------------------------------------
(* The named-pipe programs                                                   *)

\* The fifo at the path is that of the one server that runs, or of one that was
\* killed, and a server forks no more children than it should.
FifoInv ==
  /\ F!TypeOK /\ F!PathMatchesServer
  /\ \A s \in Servers : server[s] \in {"mkfifo", "open", "fork"} => forked[s] < nums
  /\ \A s \in Servers : reading[s] <= forked[s]

\* There is no fifo at the path and no server.
LEMMA FifoInit == F!Init => FifoInv
<1>1. NoFifo \notin Servers /\ nums \in Nat \ {0} /\ MaxUnread \in Nat
  BY ProgramsAssumption DEF F!FifoAssumption
<1> SUFFICES ASSUME F!Init PROVE FifoInv
  OBVIOUS
<1>2. came \in [Servers -> BOOLEAN]
  BY Zenon DEF F!Init
<1>3. F!TypeOK
  BY <1>1, <1>2 DEF F!Init, F!TypeOK
<1>4. F!PathMatchesServer
  BY <1>1 DEF F!Init, F!PathMatchesServer, F!Running
<1>5. \A s \in Servers : forked[s] = 0 /\ reading[s] = 0
  BY DEF F!Init
<1> QED BY <1>1, <1>3, <1>4, <1>5 DEF FifoInv

\* The path is taken by mkfifo, which fails if it is there, and freed by its own server.
LEMMA FifoStep ==
  ASSUME FifoInv, F!Next \/ UNCHANGED FVars
  PROVE  FifoInv'
<1> USE DEF FifoInv, F!TypeOK, F!PathMatchesServer, F!Running
<1>a. NoFifo \notin Servers /\ nums \in Nat \ {0} /\ MaxUnread \in Nat
  BY ProgramsAssumption DEF F!FifoAssumption
<1>1. CASE UNCHANGED FVars
  BY <1>1 DEF FVars
<1>2. ASSUME NEW s \in Servers, F!ServerStep(s) \/ F!ChildStep(s) \/ F!Kill(s) \/ F!KillChild(s)
      PROVE  FifoInv'
  <2>1. CASE F!Mkfifo(s)
    BY <1>a, <2>1 DEF F!Mkfifo, F!At
  <2>2. CASE F!OpenRead(s)
    BY <1>a, <2>2 DEF F!OpenRead, F!At
  <2>3. CASE F!Fork(s)
    <3>1. PICK k \in {0, 1} : reading' = [reading EXCEPT ![s] = @ + k]
      BY <2>3 DEF F!Fork
    <3>2. /\ reading'[s] = reading[s] + k /\ forked'[s] = forked[s] + 1
          /\ \A u \in Servers : u # s => /\ reading'[u] = reading[u] /\ forked'[u] = forked[u]
                                         /\ server'[u] = server[u]
          /\ server[s] = "fork" /\ server'[s] = IF forked'[s] = nums THEN "wait" ELSE "fork"
          /\ UNCHANGED <<ipcPath, came, client, blocked, unread>>
      BY <2>3, <3>1 DEF F!Fork
    <3>3. forked'[s] \in 0 .. nums /\ reading'[s] \in 0 .. nums /\ reading'[s] <= forked'[s]
      BY <3>1, <3>2, <1>a
    <3>4. F!TypeOK'
      BY <2>3, <3>1, <3>2, <3>3 DEF F!Fork
    <3>5. F!PathMatchesServer'
      BY <3>2
    <3>6. \A u \in Servers : server'[u] \in {"mkfifo", "open", "fork"} => forked'[u] < nums
      BY <3>2, <3>3, <1>a
    <3>7. \A u \in Servers : reading'[u] <= forked'[u]
      BY <3>2, <3>3
    <3> QED BY <3>4, <3>5, <3>6, <3>7
  <2>4. CASE F!WaitAll(s)
    BY <1>a, <2>4 DEF F!WaitAll, F!At
  <2>5. CASE F!Unlink(s)
    BY <1>a, <2>5 DEF F!Unlink, F!At
  <2>6. CASE F!GetMessage(s)
    <3>1. PICK rest \in 0 .. unread[s] - 1 : unread' = [unread EXCEPT ![s] = rest]
      BY <2>6 DEF F!GetMessage
    <3>2. rest \in 0 .. MaxUnread
      BY <3>1, <1>a
    <3> QED BY <2>6, <3>1, <3>2 DEF F!GetMessage
  <2>7. CASE F!EndOfFile(s) \/ F!KillChild(s)
    BY <1>a, <2>7 DEF F!EndOfFile, F!KillChild
  <2>8. CASE F!Kill(s)
    BY <1>a, <2>8 DEF F!Kill
  <2> QED BY <1>2, <2>1, <2>2, <2>3, <2>4, <2>5, <2>6, <2>7, <2>8 DEF F!ServerStep, F!ChildStep
<1>3. ASSUME NEW c \in FifoClients, F!OpenWrite(c) \/ F!WriteLine(c) \/ F!KillClient(c)
      PROVE  FifoInv'
  <2>1. CASE F!OpenWrite(c)
    <3>1. UNCHANGED <<ipcPath, server, forked, reading, unread>>
      BY <2>1 DEF F!OpenWrite
    <3>2. /\ client' \in [FifoClients -> Servers \cup {"new", "gone"}]
          /\ came' \in [Servers -> BOOLEAN] /\ blocked' \subseteq FifoClients
      <4>1. CASE ipcPath = NoFifo
        BY <4>1, <2>1 DEF F!OpenWrite
      <4>2. CASE ipcPath # NoFifo
        <5>1. /\ client' = [client EXCEPT ![c] = ipcPath]
              /\ came' = [came EXCEPT ![ipcPath] = TRUE]
              /\ blocked' = blocked \/ blocked' = blocked \cup {c}
          BY ONLY <4>2, <2>1 DEF F!OpenWrite
        <5>2. ipcPath \in Servers
          BY <4>2
        <5>3. came' \in [Servers -> BOOLEAN]
          BY <5>1, <5>2, Zenon
        <5> QED BY <5>1, <5>2, <5>3
      <4> QED BY <4>1, <4>2
    <3> QED BY <3>1, <3>2
  <2>2. CASE F!WriteLine(c)
    BY <1>a, <2>2 DEF F!WriteLine
  <2>3. CASE F!KillClient(c)
    BY <1>a, <2>3 DEF F!KillClient
  <2> QED BY <1>3, <2>1, <2>2, <2>3
<1> QED BY <1>1, <1>2, <1>3 DEF F!Next

-----------------------------------------------------------------------------
(* The shared-memory programs                                                *)

\* A client attaches and detaches only a segment it has found.
ShmInv ==
  /\ S!TypeOK /\ S!KeyMatchesServer
  /\ \A c \in ShmClients : call[c] \in {"shmat", "shmdt"} => shmid[c] \in ShmServers

\* The key leads nowhere.
LEMMA ShmInit == S!Init => ShmInv
<1>1. NoSegment \notin ShmServers /\ ShmServers \cap ShmClients = {}
  BY ProgramsAssumption DEF S!ShmAssumption
<1> QED BY <1>1 DEF S!Init, ShmInv, S!TypeOK, S!KeyMatchesServer, S!Running, S!Processes

\* The key is taken by a shmget that is exclusive, and freed by the server that made it.
LEMMA ShmStep ==
  ASSUME ShmInv, S!Next \/ UNCHANGED SVars
  PROVE  ShmInv'
<1> USE DEF ShmInv, S!TypeOK, S!KeyMatchesServer, S!Running, S!Processes, S!At
<1>a. NoSegment \notin ShmServers /\ ShmServers \cap ShmClients = {}
  BY ProgramsAssumption DEF S!ShmAssumption
<1>1. CASE UNCHANGED SVars
  BY <1>1 DEF SVars
<1>2. ASSUME NEW s \in ShmServers,
             S!Create(s) \/ S!ServerAttach(s) \/ S!ServerDetach(s) \/ S!Remove(s)
      PROVE  ShmInv'
  <2>1. CASE S!Create(s)
    BY <1>a, <2>1 DEF S!Create
  <2>2. CASE S!ServerAttach(s)
    BY <1>a, <2>2 DEF S!ServerAttach
  <2>3. CASE S!ServerDetach(s)
    BY <1>a, <2>3 DEF S!ServerDetach
  <2>4. CASE S!Remove(s)
    BY <1>a, <2>4 DEF S!Remove
  <2> QED BY <1>2, <2>1, <2>2, <2>3, <2>4
<1>3. ASSUME NEW c \in ShmClients, S!Find(c) \/ S!ClientAttach(c) \/ S!ClientDetach(c)
      PROVE  ShmInv'
  <2>1. CASE S!Find(c)
    BY <1>a, <2>1 DEF S!Find
  <2>2. CASE S!ClientAttach(c)
    BY <1>a, <2>2 DEF S!ClientAttach
  <2>3. CASE S!ClientDetach(c)
    BY <1>a, <2>3 DEF S!ClientDetach
  <2> QED BY <1>3, <2>1, <2>2, <2>3
<1>4. ASSUME NEW p \in ShmServers \cup ShmClients, S!Kill(p)
      PROVE  ShmInv'
  BY <1>a, <1>4 DEF S!Kill
<1> QED BY <1>1, <1>2, <1>3, <1>4 DEF S!Next

-----------------------------------------------------------------------------
(* The UDP echo programs                                                     *)

\* What a client waits for is on its way unless it is lost, and no answer carries
\* another client's line.
UdpInv == U!TypeOK /\ U!WaitsOnlyIfLost /\ U!EchoesOwnLine

\* Nothing is on its way and nobody waits.
LEMMA UdpInit == U!Init => UdpInv
<1>1. MaxLines \in Nat
  BY ProgramsAssumption DEF U!UdpAssumption
<1> QED BY <1>1 DEF U!Init, UdpInv, U!TypeOK, U!WaitsOnlyIfLost, U!EchoesOwnLine

\* A datagram moves on, or is lost, and lossy tells so from then on.
LEMMA UdpStep ==
  ASSUME UdpInv, U!Next \/ UNCHANGED UVars
  PROVE  UdpInv'
<1> USE DEF UdpInv, U!TypeOK, U!WaitsOnlyIfLost, U!EchoesOwnLine
<1>a. MaxLines \in Nat
  BY ProgramsAssumption DEF U!UdpAssumption
<1>1. CASE UNCHANGED UVars
  BY <1>1 DEF UVars
<1>2. ASSUME NEW c \in UdpClients, U!SendLine(c)
      PROVE  UdpInv'
  <2>1. PICK e \in BOOLEAN : requests' = requests \cup {[from |-> c, line |-> lines', empty |-> e]}
    BY <1>2 DEF U!SendLine
  <2>2. lines' = lines + 1 /\ lines' \in 1 .. MaxLines
    BY <1>2, <1>a DEF U!SendLine
  <2>3. [from |-> c, line |-> lines', empty |-> e] \in U!Request
    BY <2>1, <2>2 DEF U!Request
  <2>4. U!TypeOK'
    BY <1>2, <2>1, <2>2, <2>3 DEF U!SendLine
  <2>5. U!WaitsOnlyIfLost'
    <3> DEFINE d == [from |-> c, line |-> lines', empty |-> e]
    <3>1. d.from = c /\ d.line = lines' /\ requests' = requests \cup {d}
      BY <2>1
    <3> HIDE DEF d
    <3>2. waiting'[c] = lines' /\ \A u \in UdpClients : u # c => waiting'[u] = waiting[u]
      BY <1>2 DEF U!SendLine
    <3>3. UNCHANGED <<replies, lossy>>
      BY <1>2 DEF U!SendLine
    <3> QED BY <3>1, <3>2, <3>3
  <2>6. U!EchoesOwnLine'
    BY <1>2 DEF U!SendLine
  <2> QED BY <2>4, <2>5, <2>6
<1>3. ASSUME NEW c \in UdpClients, U!ReceiveReply(c)
      PROVE  UdpInv'
  <2>1. PICK d \in replies : d.to = c /\ replies' \in {replies, replies \ {d}}
    BY <1>3 DEF U!ReceiveReply, U!Received
  <2> QED BY <1>3, <2>1, <1>a DEF U!ReceiveReply
<1>4. ASSUME NEW d \in requests, U!Echo(d)
      PROVE  UdpInv'
  <2>1. requests' \in {requests, requests \ {d}} /\ d \in U!Request
    BY <1>4 DEF U!Echo, U!Received
  <2>2. buff' = (IF d.empty THEN buff ELSE d.from) /\ buff' \in UdpClients \cup {NoText}
    BY <1>4, <2>1 DEF U!Echo, U!Request
  <2> DEFINE r == [to |-> d.from, empty |-> d.empty, text |-> buff']
  <2>3. r \in U!Reply
    BY <2>1, <2>2 DEF U!Request, U!Reply
  <2>4. r.to = d.from /\ (~ r.empty => r.text = r.to)
    BY <2>2
  <2>5. replies' = replies \cup {r} /\ UNCHANGED <<lines, waiting, lossy>>
    BY <1>4 DEF U!Echo
  <2> HIDE DEF r
  <2>6. U!TypeOK'
    BY <2>1, <2>2, <2>3, <2>5
  <2>7. U!WaitsOnlyIfLost'
    BY <2>1, <2>4, <2>5
  <2>8. U!EchoesOwnLine'
    BY <2>4, <2>5
  <2> QED BY <2>6, <2>7, <2>8
<1>5. CASE U!Lose
  <2>1. CASE \E d \in requests : /\ requests' = requests \ {d}
                                 /\ lossy' = lossy \cup {d.from} /\ UNCHANGED replies
    BY <1>5, <2>1 DEF U!Lose, U!Request
  <2>2. CASE \E d \in replies : /\ replies' = replies \ {d}
                                /\ lossy' = lossy \cup {d.to} /\ UNCHANGED requests
    BY <1>5, <2>2 DEF U!Lose, U!Reply
  <2> QED BY <1>5, <2>1, <2>2 DEF U!Lose
<1> QED BY <1>1, <1>2, <1>3, <1>4, <1>5 DEF U!Next

-----------------------------------------------------------------------------
(* The process pool                                                          *)

\* Who has which end open.  main, while it lives, has the write ends of all pipes
\* so far, and a read end only between fork and close; a child has the write ends
\* of the earlier pipes until it dies, and no read end but its own.
PoolInv ==
  /\ P!TypeOK /\ (parent = "write" => sent < MaxSent)
  /\ parent = "fork" => \A c \in P!Children : c >= slot => child[c] = "none"
  /\ parent = "close" => \A c \in P!Children : c > slot => child[c] = "none"
  /\ \A c \in P!Children : child[c] # "none" /\ parent # "dead" => P!Parent \in writers[c]
  /\ \A c, d \in P!Children :
       child[c] # "none" /\ child[d] \notin {"none", "dead"} /\ d > c => d \in writers[c]
  /\ P!EofFromTheLast
  /\ \A c \in P!Children : readers[c] \subseteq {P!Parent, c}
  /\ \A c \in P!Children : P!Parent \in readers[c] => parent = "close" /\ c = slot
  /\ \A c \in P!Children : child[c] = "dead" => c \notin readers[c]

\* No process but main, and no pipe.
LEMMA PoolInit == P!Init => PoolInv
<1>1. PROCESS_NUM \in Nat \ {0} /\ PipeSize \in Nat \ {0} /\ MaxSent \in Nat
  BY ProgramsAssumption DEF P!PoolAssumption
<1> QED BY <1>1 DEF P!Init, PoolInv, P!TypeOK, P!EofFromTheLast, P!Children, P!Procs, P!Parent

\* A fork adds to the ends main has open one more process, the child.
LEMMA PoolFork ==
  ASSUME PoolInv, P!Fork
  PROVE  PoolInv'
<1> USE DEF PoolInv, P!TypeOK, P!EofFromTheLast, P!Procs, P!Parent
<1>a. P!Children \subseteq Nat \ {0} /\ slot \in P!Children
  BY DEF P!Children
<1>1. /\ parent = "fork" /\ parent' = "close" /\ child' = [child EXCEPT ![slot] = "close"]
      /\ UNCHANGED <<slot, pipe, sent>>
  BY DEF P!Fork
<1>2. \A c \in P!Children :
        /\ readers'[c] = IF c = slot THEN {0, c} ELSE readers[c]
        /\ writers'[c] = IF c = slot THEN {0, c}
                         ELSE IF 0 \in writers[c] THEN writers[c] \cup {slot} ELSE writers[c]
  BY <1>1 DEF P!Fork, P!Inherit
<1>3. \A c \in P!Children : readers'[c] \subseteq P!Procs /\ writers'[c] \subseteq P!Procs
  <2>1. \A c \in P!Children : readers[c] \subseteq P!Procs /\ writers[c] \subseteq P!Procs
    OBVIOUS
  <2>2. \A c \in P!Children : {0, c} \subseteq P!Procs /\ {slot} \subseteq P!Procs
    BY <1>a
  <2> SUFFICES ASSUME NEW c \in P!Children
               PROVE  readers'[c] \subseteq P!Procs /\ writers'[c] \subseteq P!Procs
    OBVIOUS
  <2>3. CASE c = slot
    <3>1. readers'[c] = {0, c} /\ writers'[c] = {0, c}
      BY <2>3, <1>2
    <3> QED BY <2>2, <3>1
  <2>4. CASE c # slot
    <3>1. readers'[c] = readers[c] /\ writers'[c] \subseteq writers[c] \cup {slot}
      BY <2>4, <1>2
    <3> QED BY <2>1, <2>2, <3>1
  <2> QED BY <2>3, <2>4
<1>4. readers' \in [P!Children -> SUBSET P!Procs] /\ writers' \in [P!Children -> SUBSET P!Procs]
  BY <1>3 DEF P!Fork, P!Inherit
<1>5. P!TypeOK'
  BY <1>1, <1>4
<1>6. /\ \A c \in P!Children : child'[c] = IF c = slot THEN "close" ELSE child[c]
      /\ \A c \in P!Children : c >= slot => child[c] = "none"
  BY <1>1
<1>7. \A c \in P!Children : c > slot => child'[c] = "none"
  BY <1>a, <1>6
<1>8. \A c \in P!Children : child'[c] # "none" => 0 \in writers'[c]
  <2> SUFFICES ASSUME NEW c \in P!Children, child'[c] # "none" PROVE 0 \in writers'[c]
    OBVIOUS
  <2>1. CASE c = slot
    BY <2>1, <1>2
  <2>2. CASE c # slot
    <3>1. child[c] # "none"
      BY <2>2, <1>6
    <3>2. 0 \in writers[c]
      BY <3>1, <1>1
    <3> QED BY <2>2, <3>2, <1>2
  <2> QED BY <2>1, <2>2
<1>9. \A c, d \in P!Children :
        child'[c] # "none" /\ child'[d] \notin {"none", "dead"} /\ d > c => d \in writers'[c]
  <2> SUFFICES ASSUME NEW c \in P!Children, NEW d \in P!Children,
                      child'[c] # "none", child'[d] \notin {"none", "dead"}, d > c
               PROVE  d \in writers'[c]
    OBVIOUS
  <2>1. c # slot /\ child[c] # "none"
    BY <1>a, <1>6
  <2>2. writers'[c] = writers[c] \cup {slot}
    BY <1>1, <1>2, <2>1
  <2>3. CASE d = slot
    BY <2>2, <2>3
  <2>4. CASE d # slot
    BY <2>1, <2>2, <2>4, <1>6
  <2> QED BY <2>3, <2>4
<1>10. P!EofFromTheLast'
  BY <1>1, <1>6
<1>11. \A c \in P!Children : /\ readers'[c] \subseteq {0, c}
                             /\ 0 \in readers'[c] => c = slot
                             /\ child'[c] = "dead" => c \notin readers'[c]
  BY <1>1, <1>2, <1>6
<1> QED BY <1>1, <1>5, <1>7, <1>8, <1>9, <1>10, <1>11

\* What the steps of a child have in common: it stays a child, drops ends and opens
\* none, drops one of another's pipe only when it dies, and finds the end of its pipe
\* only when nobody has the write end.
LEMMA PoolChild ==
  ASSUME PoolInv, NEW c \in P!Children, UNCHANGED <<parent, slot, sent>>, P!TypeOK',
         child[c] \notin {"none", "dead"}, child'[c] # "none",
         \A d \in P!Children : d # c => child'[d] = child[d],
         \A d \in P!Children : readers'[d] \subseteq readers[d],
         \A d \in P!Children : writers[d] \ {c} \subseteq writers'[d],
         child'[c] # "dead" => \A d \in P!Children : d # c => writers'[d] = writers[d],
         child'[c] = "dead" => c \notin readers'[c],
         child'[c] = "spin" => child[c] = "spin" \/ writers[c] = {}
  PROVE  PoolInv'
<1>a. P!Children \subseteq Nat \ {0} /\ slot \in P!Children
  BY DEF PoolInv, P!TypeOK, P!Children
<1>1. parent' = "write" => sent' < MaxSent
  BY DEF PoolInv
<1>2. /\ parent' = "fork" => \A d \in P!Children : d >= slot' => child'[d] = "none"
      /\ parent' = "close" => \A d \in P!Children : d > slot' => child'[d] = "none"
  BY DEF PoolInv
<1>3. \A d \in P!Children : child'[d] # "none" /\ parent' # "dead" => P!Parent \in writers'[d]
  BY <1>a DEF PoolInv, P!Parent
<1>4. \A d, e \in P!Children :
        child'[d] # "none" /\ child'[e] \notin {"none", "dead"} /\ e > d => e \in writers'[d]
  <2> SUFFICES ASSUME NEW d \in P!Children, NEW e \in P!Children, child'[d] # "none",
                      child'[e] \notin {"none", "dead"}, e > d
               PROVE  e \in writers'[d]
    OBVIOUS
  <2>1. child[d] # "none" /\ child[e] \notin {"none", "dead"}
    OBVIOUS
  <2>2. e \in writers[d]
    BY <2>1 DEF PoolInv
  <2>3. CASE e # c
    BY <2>2, <2>3
  <2>4. CASE e = c
    <3>1. d # c /\ child'[c] # "dead"
      BY <1>a, <2>4
    <3> QED BY <2>2, <3>1
  <2> QED BY <2>3, <2>4
<1>5. P!EofFromTheLast'
  <2> SUFFICES ASSUME NEW d \in P!Children, child'[d] = "spin"
               PROVE  /\ parent = "dead"
                      /\ \A e \in P!Children : e > d => child'[e] \in {"none", "dead"}
    BY DEF P!EofFromTheLast
  <2>1. CASE child[d] = "spin"
    BY <2>1 DEF PoolInv, P!EofFromTheLast
  <2>2. CASE child[d] # "spin"
    <3>1. d = c /\ writers[d] = {} /\ child[d] # "none"
      BY <2>2
    <3>2. parent = "dead"
      BY <3>1 DEF PoolInv
    <3>3. \A e \in P!Children : e > d => child[e] \in {"none", "dead"} /\ e # c
      BY <1>a, <3>1 DEF PoolInv
    <3> QED BY <3>2, <3>3
  <2> QED BY <2>1, <2>2
<1>6. \A d \in P!Children :
        /\ readers'[d] \subseteq {P!Parent, d}
        /\ P!Parent \in readers'[d] => parent' = "close" /\ d = slot'
  BY DEF PoolInv
<1>7. \A d \in P!Children : child'[d] = "dead" => d \notin readers'[d]
  BY DEF PoolInv
<1> QED BY <1>1, <1>2, <1>3, <1>4, <1>5, <1>6, <1>7 DEF PoolInv, P!Parent

\* A child closes, reads, runs a command, or dies.
LEMMA PoolChildStep ==
  ASSUME PoolInv, NEW c \in P!Children, P!ChildStep(c) \/ P!KillChild(c)
  PROVE  PoolInv'
<1>a. PROCESS_NUM \in Nat \ {0} /\ PipeSize \in Nat \ {0} /\ P!Children = 1 .. PROCESS_NUM
  BY ProgramsAssumption DEF P!PoolAssumption, P!Children
<1>b. P!TypeOK
  BY DEF PoolInv
<1>1. CASE P!CloseWrite(c)
  <2>1. /\ child[c] = "close"
        /\ child' = [child EXCEPT ![c] = "wait"]
        /\ writers' = [writers EXCEPT ![c] = @ \ {c}]
        /\ UNCHANGED <<parent, slot, readers, pipe, sent>>
    BY <1>1, <1>a, <1>b DEF P!CloseWrite, P!TypeOK
  <2>2. P!TypeOK'
    BY <1>a, <1>b, <2>1 DEF P!TypeOK
  <2>3. \A d \in P!Children : child'[d] = IF d = c THEN "wait" ELSE child[d]
    BY <1>b, <2>1 DEF P!TypeOK
  <2>4. \A d \in P!Children : /\ readers'[d] = readers[d]
                             /\ writers'[d] = IF d = c THEN writers[d] \ {c} ELSE writers[d]
    BY <1>b, <2>1 DEF P!TypeOK
  <2> QED BY <2>1, <2>2, <2>3, <2>4, PoolChild
<1>2. CASE P!WaitCommand(c)
  <2>1. /\ child[c] = "wait"
        /\ child' = [child EXCEPT ![c] = "run"]
        /\ pipe[c] - 1 \in 0 .. PipeSize
        /\ pipe' = [pipe EXCEPT ![c] = pipe[c] - 1]
        /\ UNCHANGED <<parent, slot, readers, writers, sent>>
    BY <1>2, <1>a, <1>b DEF P!WaitCommand, P!TypeOK
  <2>2. P!TypeOK'
    BY <1>a, <1>b, <2>1 DEF P!TypeOK
  <2>3. \A d \in P!Children : child'[d] = IF d = c THEN "run" ELSE child[d]
    BY <1>b, <2>1 DEF P!TypeOK
  <2>4. readers' = readers /\ writers' = writers
    BY <2>1
  <2> QED BY <2>1, <2>2, <2>3, <2>4, PoolChild
<1>3. CASE P!EndOfFile(c)
  <2>1. /\ child[c] = "wait" /\ writers[c] = {}
        /\ child' = [child EXCEPT ![c] = "spin"]
        /\ UNCHANGED <<parent, slot, readers, writers, pipe, sent>>
    BY <1>3, <1>a, <1>b DEF P!EndOfFile, P!TypeOK
  <2>2. P!TypeOK'
    BY <1>a, <1>b, <2>1 DEF P!TypeOK
  <2>3. \A d \in P!Children : child'[d] = IF d = c THEN "spin" ELSE child[d]
    BY <1>b, <2>1 DEF P!TypeOK
  <2>4. readers' = readers /\ writers' = writers
    BY <2>1
  <2> QED BY <2>1, <2>2, <2>3, <2>4, PoolChild
<1>4. CASE P!Run(c)
  <2>1. /\ child[c] = "run"
        /\ child' = [child EXCEPT ![c] = "wait"]
        /\ UNCHANGED <<parent, slot, readers, writers, pipe, sent>>
    BY <1>4, <1>a, <1>b DEF P!Run, P!TypeOK
  <2>2. P!TypeOK'
    BY <1>a, <1>b, <2>1 DEF P!TypeOK
  <2>3. \A d \in P!Children : child'[d] = IF d = c THEN "wait" ELSE child[d]
    BY <1>b, <2>1 DEF P!TypeOK
  <2>4. readers' = readers /\ writers' = writers
    BY <2>1
  <2> QED BY <2>1, <2>2, <2>3, <2>4, PoolChild
<1>5. CASE P!KillChild(c)
  <2>1. /\ child[c] \notin {"none", "dead"}
        /\ child' = [child EXCEPT ![c] = "dead"]
        /\ readers' = [d \in P!Children |-> readers[d] \ {c}]
        /\ writers' = [d \in P!Children |-> writers[d] \ {c}]
        /\ UNCHANGED <<parent, slot, pipe, sent>>
    BY <1>5, <1>a, <1>b DEF P!KillChild, P!Without, P!TypeOK
  <2>2. P!TypeOK'
    BY <1>a, <1>b, <2>1 DEF P!TypeOK
  <2>3. \A d \in P!Children : child'[d] = IF d = c THEN "dead" ELSE child[d]
    BY <1>b, <2>1 DEF P!TypeOK
  <2>4. \A d \in P!Children : /\ readers'[d] = readers[d] \ {c}
                             /\ writers'[d] = writers[d] \ {c}
    BY <2>1
  <2> QED BY <2>1, <2>2, <2>3, <2>4, PoolChild
<1> QED BY <1>1, <1>2, <1>3, <1>4, <1>5 DEF P!ChildStep

\* A fork copies the ends main has open; every other step only closes some.
LEMMA PoolStep ==
  ASSUME PoolInv, P!Next \/ UNCHANGED PVars
  PROVE  PoolInv'
<1> USE DEF PoolInv, P!TypeOK, P!EofFromTheLast, P!Procs, P!Parent
<1>a. /\ PROCESS_NUM \in Nat \ {0} /\ PipeSize \in Nat \ {0} /\ MaxSent \in Nat
      /\ P!Children = 1 .. PROCESS_NUM
  BY ProgramsAssumption DEF P!PoolAssumption, P!Children
<1>1. CASE UNCHANGED PVars
  BY <1>1 DEF PVars
<1>2. CASE P!Fork
  BY <1>2, PoolFork
<1>3. CASE P!CloseRead
  BY <1>3, <1>a DEF P!CloseRead
<1>4. CASE P!Choose
  BY <1>4, <1>a DEF P!Choose
<1>5. CASE P!Write
  <2>1. /\ parent = "write" /\ parent' = "choose" /\ sent' = sent + 1
        /\ pipe[slot] + 1 \in 0 .. PipeSize /\ pipe' = [pipe EXCEPT ![slot] = pipe[slot] + 1]
        /\ UNCHANGED <<slot, readers, writers, child>>
    BY <1>5, <1>a DEF P!Write
  <2>2. sent' \in 0 .. MaxSent
    BY <2>1, <1>a
  <2> QED BY <2>1, <2>2
<1>6. CASE P!BrokenPipe \/ P!KillParent
  <2>1. /\ parent' = "dead" /\ UNCHANGED <<slot, pipe, child, sent>>
        /\ readers' = P!Without(readers, 0) /\ writers' = P!Without(writers, 0)
    BY <1>6 DEF P!BrokenPipe, P!KillParent
  <2>2. /\ readers' \in [P!Children -> SUBSET P!Procs]
        /\ writers' \in [P!Children -> SUBSET P!Procs]
        /\ \A c \in P!Children : /\ readers'[c] = readers[c] \ {0}
                                 /\ writers'[c] = writers[c] \ {0}
    BY <2>1 DEF P!Without
  <2>3. P!TypeOK'
    BY <2>1, <2>2
  <2>4. \A c, d \in P!Children :
          child'[c] # "none" /\ child'[d] \notin {"none", "dead"} /\ d > c => d \in writers'[c]
    BY <2>1, <2>2, <1>a
  <2> QED BY <2>1, <2>2, <2>3, <2>4
<1>7. ASSUME NEW c \in P!Children, P!ChildStep(c) \/ P!KillChild(c)
      PROVE  PoolInv'
  BY <1>7, PoolChildStep
<1> QED BY <1>1, <1>2, <1>3, <1>4, <1>5, <1>6, <1>7 DEF P!Next, P!ParentStep

\* main never writes to a pipe only a dead child could have read.
LEMMA PoolNotices == PoolInv => P!DeadChildNoticed
  BY DEF PoolInv, P!DeadChildNoticed, P!TypeOK

-----------------------------------------------------------------------------
(* The TCP echo server                                                       *)

\* No more is unread than was sent.
TcpInv == N!TypeOK /\ \A c \in Peers : inbuf[c] <= sends[c]

\* No connection.
LEMMA TcpInit == N!Init => TcpInv
<1>1. Peers # {} /\ backlog \in Nat /\ MaxSends \in Nat
  BY ProgramsAssumption DEF N!TcpAssumption
<1>2. (CHOOSE c \in Peers : TRUE) \in Peers
  BY <1>1
<1> QED BY <1>1, <1>2 DEF N!Init, TcpInv, N!TypeOK

\* Parent, children and clients each change their own end of a connection.
LEMMA TcpStep ==
  ASSUME TcpInv, N!Next \/ UNCHANGED NVars
  PROVE  TcpInv'
<1> USE DEF TcpInv, N!TypeOK
<1>a. backlog \in Nat /\ MaxSends \in Nat
  BY ProgramsAssumption DEF N!TcpAssumption
<1>1. CASE UNCHANGED NVars
  BY <1>1 DEF NVars
<1>2. CASE N!Accept
  BY <1>2, <1>a DEF N!Accept
<1>3. CASE N!Fork
  BY <1>3, <1>a DEF N!Fork
<1>4. CASE N!ForkFails \/ N!Close
  BY <1>4, <1>a DEF N!ForkFails, N!Close
<1>5. ASSUME NEW c \in Peers, N!Connect(c) \/ N!Send(c) \/ N!Shut(c) \/ N!Reset(c)
      PROVE  TcpInv'
  <2>1. CASE N!Connect(c)
    BY <2>1, <1>a DEF N!Connect
  <2>2. CASE N!Send(c)
    BY <2>2, <1>a DEF N!Send
  <2>3. CASE N!Shut(c)
    BY <2>3, <1>a DEF N!Shut
  <2>4. CASE N!Reset(c)
    BY <2>4, <1>a DEF N!Reset
  <2> QED BY <1>5, <2>1, <2>2, <2>3, <2>4
<1>6. ASSUME NEW c \in Peers, N!ChildStep(c)
      PROVE  TcpInv'
  <2>1. CASE N!Read(c)
    <3>1. PICK rest \in 0 .. inbuf[c] - 1 : inbuf' = [inbuf EXCEPT ![c] = rest]
      BY <2>1 DEF N!Read
    <3>2. rest \in 0 .. MaxSends /\ rest <= sends[c]
      BY <3>1, <1>a
    <3> QED BY <2>1, <3>1, <3>2 DEF N!Read
  <2>2. CASE N!ReadEnd(c)
    BY <2>2, <1>a DEF N!ReadEnd
  <2>3. CASE N!WriteExit(c)
    BY <2>3, <1>a DEF N!WriteExit
  <2> QED BY <1>6, <2>1, <2>2, <2>3 DEF N!ChildStep
<1> QED BY <1>1, <1>2, <1>3, <1>4, <1>5, <1>6 DEF N!Next, N!ParentStep

-----------------------------------------------------------------------------
(* The thread pool                                                           *)

\* The tasks up to this one have been taken from the queue.
Front == pushed - Len(taskq_)

\* The threads on their way to the queue.
Entering == {w \in L!TP_ : pc[w] = "enter"}

\* The queue holds the last tasks pushed, in order; one thread executes each of
\* the others, or has.
TasksInOrder ==
  /\ Front \in Nat
  /\ \A i \in 1 .. Len(taskq_) : taskq_[i] = Front + i
  /\ \A k \in L!Tasks : k > Front => executed[k] = 0 /\ \A w \in L!TP_ : task[w] # k
  /\ \A k \in L!Tasks : k <= Front =>
       \/ executed[k] = 1 /\ \A w \in L!TP_ : task[w] # k
       \/ executed[k] = 0 /\ \E w \in L!TP_ : task[w] = k
  /\ \A w, u \in L!TP_ : task[w] = task[u] /\ task[w] # 0 => w = u

\* While threads wait, as many are on their way as the queue has tasks.
Awake == L!cond_ # {} => Len(taskq_) <= Cardinality(Entering)

ThreadsInv ==
  /\ L!TypeOK
  /\ \A w \in L!TP_ : pc[w] = "new" <=> w > started
  /\ \A w \in L!TP_ : pc[w] = "task" <=> task[w] # 0
  /\ TasksInOrder
  /\ Awake

\* What ThreadPool counts with is the library's cardinality.
LEMMA SameCardinality == \A A : L!Cardinality(A) = Cardinality(A)
BY DEF L!Cardinality, Cardinality, L!IsFiniteSet, IsFiniteSet

\* The queue is empty and no thread started.
LEMMA ThreadsInit == L!Init => ThreadsInv
<1>1. nums_ \in Nat \ {0} /\ MaxTasks \in Nat
  BY ProgramsAssumption DEF L!PoolAssumption
<1> SUFFICES ASSUME L!Init PROVE ThreadsInv
  OBVIOUS
<1>2. L!TypeOK
  BY <1>1 DEF L!Init, L!TypeOK
<1>3. /\ \A w \in L!TP_ : pc[w] = "new" /\ task[w] = 0 /\ w > started
  BY <1>1 DEF L!Init, L!TP_
<1>4. TasksInOrder
  <2>1. Len(taskq_) = 0 /\ Front = 0
    <3>1. taskq_ = <<>> /\ pushed = 0
      BY DEF L!Init
    <3>2. Len(taskq_) = 0
      BY <3>1
    <3>3. pushed - Len(taskq_) = 0
      <4>1. \A a, b : a = 0 /\ b = 0 => a - b = 0
        OBVIOUS
      <4> QED BY <4>1, <3>1, <3>2, Zenon
    <3> QED BY <3>2, <3>3, Zenon DEF Front
  <2>2. \A k \in L!Tasks : executed[k] = 0 /\ k > 0
    BY <1>1 DEF L!Init, L!Tasks
  <2>3. \A i \in 1 .. Len(taskq_) : FALSE
    BY <2>1
  <2>4. \A k \in L!Tasks : k > Front /\ ~ (k <= Front)
    BY <2>1, <2>2, <1>1 DEF L!Tasks
  <2> QED BY <2>1, <2>2, <2>3, <2>4, <1>3 DEF TasksInOrder
<1>5. Awake
  BY <1>3 DEF Awake, L!cond_
<1> QED BY <1>2, <1>3, <1>4, <1>5 DEF ThreadsInv

\* The threads on their way to the queue are finitely many.
LEMMA EnteringType ==
  IsFiniteSet(Entering) /\ Cardinality(Entering) \in Nat
<1>1. nums_ \in Nat
  BY ProgramsAssumption DEF L!PoolAssumption
<1>2. IsFiniteSet(L!TP_)
  BY <1>1, FS_Interval DEF L!TP_
<1>3. Entering \subseteq L!TP_
  BY DEF Entering
<1>4. IsFiniteSet(Entering)
  BY <1>2, <1>3, FS_Subset
<1> QED BY <1>4, FS_CardinalityType

\* One more is on its way.
LEMMA EnteringGains ==
  ASSUME NEW w \in L!TP_, pc[w] # "enter", L!TypeOK, pc' = [pc EXCEPT ![w] = "enter"]
  PROVE  Cardinality(Entering') = Cardinality(Entering) + 1
<1>1. Entering' = Entering \cup {w} /\ w \notin Entering
  BY DEF Entering, L!TypeOK
<1> QED BY <1>1, EnteringType, FS_AddElement

\* One that was on its way takes a task.
LEMMA EnteringLoses ==
  ASSUME NEW w \in L!TP_, pc[w] = "enter", L!TypeOK, NEW to, to # "enter",
         pc' = [pc EXCEPT ![w] = to]
  PROVE  Cardinality(Entering') = Cardinality(Entering) - 1
<1>1. Entering' = Entering \ {w} /\ w \in Entering
  BY DEF Entering, L!TypeOK
<1> QED BY <1>1, EnteringType, FS_RemoveElement

\* A thread goes to the queue, which does not change.
LEMMA EntersKeepsWakeup ==
  ASSUME ThreadsInv, NEW w \in L!TP_, pc[w] # "enter", pc' = [pc EXCEPT ![w] = "enter"],
         taskq_' = taskq_
  PROVE  Awake'
<1> USE DEF ThreadsInv
<1>1. L!cond_' \subseteq L!cond_
  BY DEF L!cond_, L!TypeOK
<1>2. Cardinality(Entering') = Cardinality(Entering) + 1
  BY EnteringGains
<1>3. Len(taskq_) \in Nat
  BY DEF L!TypeOK
<1>4. L!cond_ # {} => Len(taskq_) <= Cardinality(Entering)
  BY DEF Awake
<1>5. L!cond_' # {} => Len(taskq_') <= Cardinality(Entering')
  BY <1>1, <1>2, <1>3, <1>4, EnteringType
<1> QED BY <1>5 DEF Awake

\* Start, and a wake-up for nothing: no task moves.
LEMMA ThreadEnters ==
  ASSUME ThreadsInv, NEW w \in L!TP_, pc[w] # "enter", pc[w] # "task",
         pc' = [pc EXCEPT ![w] = "enter"],
         UNCHANGED <<taskq_, pushed, task, executed>>,
         started' \in 0 .. nums_,
         \A u \in L!TP_ : pc'[u] = "new" <=> u > started'
  PROVE  ThreadsInv'
<1>1. Awake'
  BY EntersKeepsWakeup
<1>2. TasksInOrder'
  BY DEF ThreadsInv, TasksInOrder, Front
<1>3. L!TypeOK'
  BY DEF ThreadsInv, L!TypeOK
<1>4. \A u \in L!TP_ : pc'[u] = "task" <=> task'[u] # 0
  BY DEF ThreadsInv, L!TypeOK
<1> QED BY <1>1, <1>2, <1>3, <1>4 DEF ThreadsInv

\* push_task appends the next task and signals a waiter if there is one.
LEMMA PushStep ==
  ASSUME ThreadsInv, L!push_task
  PROVE  ThreadsInv'
<1> USE DEF ThreadsInv, L!TypeOK
<1>a. MaxTasks \in Nat /\ L!Tasks = 1 .. MaxTasks
  BY ProgramsAssumption DEF L!PoolAssumption, L!Tasks
<1>1. /\ pushed < MaxTasks /\ pushed' = pushed + 1 /\ taskq_' = Append(taskq_, pushed + 1)
      /\ UNCHANGED <<started, task, executed>>
  BY DEF L!push_task
<1>2. /\ pushed + 1 \in L!Tasks /\ pushed' \in 0 .. MaxTasks
      /\ taskq_' \in Seq(L!Tasks) /\ Len(taskq_') = Len(taskq_) + 1 /\ Len(taskq_) \in Nat
      /\ \A i \in 1 .. Len(taskq_) : taskq_'[i] = taskq_[i]
      /\ taskq_'[Len(taskq_) + 1] = pushed + 1
  <2>1. pushed + 1 \in L!Tasks /\ pushed' \in 0 .. MaxTasks
    BY <1>1, <1>a
  <2> QED BY <2>1, <1>1
<1>3. Front' = Front /\ Front + Len(taskq_) = pushed
  BY <1>1, <1>2 DEF Front
<1>4. TasksInOrder'
  <2>1. \A i \in 1 .. Len(taskq_') : taskq_'[i] = Front' + i
    <3> SUFFICES ASSUME NEW i \in 1 .. Len(taskq_') PROVE taskq_'[i] = Front' + i
      OBVIOUS
    <3>1. CASE i \in 1 .. Len(taskq_)
      BY <3>1, <1>2, <1>3 DEF TasksInOrder
    <3>2. CASE i = Len(taskq_) + 1
      <4>1. Front + i = pushed + 1
        BY <3>2, <1>2, <1>3 DEF TasksInOrder
      <4> QED BY <4>1, <3>2, <1>2, <1>3
    <3> QED BY <3>1, <3>2, <1>2
  <2> QED BY <2>1, <1>1, <1>3 DEF TasksInOrder
<1>5. CASE L!cond_ = {}
  <2>1. pc' = pc
    BY <1>5 DEF L!push_task
  <2>2. Awake'
    BY <2>1, <1>5 DEF Awake, Entering, L!cond_
  <2> QED BY <2>1, <2>2, <1>1, <1>2, <1>4
<1>6. CASE L!cond_ # {}
  <2>1. PICK w \in L!cond_ : pc' = [pc EXCEPT ![w] = "enter"]
    BY <1>6 DEF L!push_task
  <2>2. w \in L!TP_ /\ pc[w] = "wait"
    BY DEF L!cond_
  <2>3. Len(taskq_) <= Cardinality(Entering)
    BY <1>6 DEF Awake
  <2>4. Cardinality(Entering') = Cardinality(Entering) + 1
    BY <2>1, <2>2, EnteringGains
  <2>5. Len(taskq_') <= Cardinality(Entering')
    BY <2>3, <2>4, <1>2, EnteringType
  <2>6. Awake'
    BY <2>5 DEF Awake
  <2> QED BY <2>1, <2>2, <2>6, <1>1, <1>2, <1>4
<1> QED BY <1>5, <1>6

\* A thread takes the task at the front.
LEMMA TakeStep ==
  ASSUME ThreadsInv, NEW w \in L!TP_, L!Take(w)
  PROVE  ThreadsInv'
<1> USE DEF ThreadsInv, L!TypeOK
<1>a. MaxTasks \in Nat /\ L!Tasks = 1 .. MaxTasks
  BY ProgramsAssumption DEF L!PoolAssumption, L!Tasks
<1>1. /\ pc[w] = "enter" /\ taskq_ # <<>> /\ task[w] = 0
      /\ task' = [task EXCEPT ![w] = Head(taskq_)] /\ taskq_' = Tail(taskq_)
      /\ pc' = [pc EXCEPT ![w] = "task"]
      /\ UNCHANGED <<pushed, started, executed>>
  BY DEF L!Take
<1>2. /\ Len(taskq_) \in Nat \ {0} /\ Head(taskq_) = taskq_[1] /\ Head(taskq_) \in L!Tasks
      /\ taskq_' \in Seq(L!Tasks) /\ Len(taskq_') = Len(taskq_) - 1
      /\ \A i \in 1 .. Len(taskq_') : taskq_'[i] = taskq_[i + 1]
  BY <1>1, HeadTailProperties
<1>3. Front' = Front + 1 /\ Front \in Nat /\ Head(taskq_) = Front + 1
  BY <1>1, <1>2 DEF Front, TasksInOrder
<1>4. task'[w] = Front + 1 /\ \A u \in L!TP_ : u # w => task'[u] = task[u]
  BY <1>1, <1>3
<1>5. TasksInOrder'
  <2>1. \A i \in 1 .. Len(taskq_') : taskq_'[i] = Front' + i
    <3> SUFFICES ASSUME NEW i \in 1 .. Len(taskq_') PROVE taskq_'[i] = Front' + i
      OBVIOUS
    <3>1. i + 1 \in 1 .. Len(taskq_) /\ taskq_'[i] = taskq_[i + 1]
      BY <1>2
    <3>2. taskq_[i + 1] = Front + (i + 1)
      BY <3>1 DEF TasksInOrder
    <3> QED BY <3>1, <3>2, <1>2, <1>3
  <2>2. Front + 1 \in L!Tasks
    BY <1>2, <1>3
  <2>3. executed[Front + 1] = 0 /\ \A u \in L!TP_ : task[u] # Front + 1
    BY <2>2, <1>3 DEF TasksInOrder
  <2>4. ASSUME NEW k \in L!Tasks, k > Front'
        PROVE  executed'[k] = 0 /\ \A u \in L!TP_ : task'[u] # k
    BY <2>4, <1>1, <1>3, <1>4, <1>a DEF TasksInOrder
  <2>5. ASSUME NEW k \in L!Tasks, k <= Front'
        PROVE  \/ executed'[k] = 1 /\ \A u \in L!TP_ : task'[u] # k
               \/ executed'[k] = 0 /\ \E u \in L!TP_ : task'[u] = k
    <3>1. CASE k = Front + 1
      BY <3>1, <2>3, <1>1, <1>4
    <3>2. CASE k # Front + 1
      <4>1. k <= Front
        BY <3>2, <2>5, <1>3, <1>a
      <4>2. \/ executed[k] = 1 /\ \A u \in L!TP_ : task[u] # k
            \/ executed[k] = 0 /\ \E u \in L!TP_ : task[u] = k
        BY <4>1 DEF TasksInOrder
      <4>3. k # 0
        BY <1>a
      <4> QED BY <4>2, <4>3, <3>2, <1>1, <1>4
    <3> QED BY <3>1, <3>2
  <2>6. \A u, v \in L!TP_ : task'[u] = task'[v] /\ task'[u] # 0 => u = v
    BY <2>3, <1>4 DEF TasksInOrder
  <2> QED BY <2>1, <2>4, <2>5, <2>6, <1>3 DEF TasksInOrder
<1>6. Awake'
  <2>1. L!cond_' = L!cond_
    BY <1>1 DEF L!cond_
  <2>2. L!cond_ # {} => Len(taskq_) <= Cardinality(Entering)
    BY DEF Awake
  <2>3. Cardinality(Entering') = Cardinality(Entering) - 1
    BY <1>1, EnteringLoses
  <2>4. L!cond_' # {} => Len(taskq_') <= Cardinality(Entering')
    BY <2>1, <2>2, <2>3, <1>2, EnteringType
  <2> QED BY <2>4 DEF Awake
<1>7. L!TypeOK'
  BY <1>1, <1>2
<1>8. \A u \in L!TP_ : /\ pc'[u] = "new" <=> u > started'
                       /\ pc'[u] = "task" <=> task'[u] # 0
  BY <1>1, <1>3, <1>4
<1> QED BY <1>5, <1>6, <1>7, <1>8

\* A thread executes its task.
LEMMA ExecuteStep ==
  ASSUME ThreadsInv, NEW w \in L!TP_, L!Execute(w)
  PROVE  ThreadsInv'
<1> USE DEF ThreadsInv, L!TypeOK
<1>a. MaxTasks \in Nat /\ L!Tasks = 1 .. MaxTasks
  BY ProgramsAssumption DEF L!PoolAssumption, L!Tasks
<1> DEFINE k == task[w]
<1>1. /\ pc[w] = "task" /\ k \in L!Tasks /\ k # 0
      /\ executed' = [executed EXCEPT ![k] = executed[k] + 1]
      /\ task' = [task EXCEPT ![w] = 0]
      /\ pc' = [pc EXCEPT ![w] = "enter"]
      /\ UNCHANGED <<taskq_, pushed, started>>
  BY DEF L!Execute
<1>2. /\ \A u \in L!TP_ : task'[u] = IF u = w THEN 0 ELSE task[u]
      /\ \A j \in L!Tasks : executed'[j] = IF j = k THEN executed[k] + 1 ELSE executed[j]
      /\ \A u \in L!TP_ : u # w => task[u] # k
      /\ executed' \in [L!Tasks -> Nat] /\ task' \in [L!TP_ -> L!Tasks \cup {0}]
  BY <1>1 DEF TasksInOrder
<1>3. k <= Front /\ executed[k] = 0 /\ Front' = Front
  <2>1. ~ (k > Front)
    BY <1>1 DEF TasksInOrder
  <2>2. k <= Front
    BY <2>1, <1>1, <1>a DEF TasksInOrder
  <2> QED BY <2>2, <1>1 DEF TasksInOrder, Front
<1>4. TasksInOrder'
  <2>1. ASSUME NEW j \in L!Tasks, j > Front'
        PROVE  executed'[j] = 0 /\ \A u \in L!TP_ : task'[u] # j
    <3>1. j # k /\ j # 0
      BY <2>1, <1>1, <1>3, <1>a DEF TasksInOrder
    <3> QED BY <3>1, <2>1, <1>2, <1>3 DEF TasksInOrder
  <2>2. ASSUME NEW j \in L!Tasks, j <= Front'
        PROVE  \/ executed'[j] = 1 /\ \A u \in L!TP_ : task'[u] # j
               \/ executed'[j] = 0 /\ \E u \in L!TP_ : task'[u] = j
    <3>1. j # 0
      BY <1>a
    <3>2. CASE j = k
      BY <3>1, <3>2, <1>2, <1>3
    <3>3. CASE j # k
      <4>1. \/ executed[j] = 1 /\ \A u \in L!TP_ : task[u] # j
            \/ executed[j] = 0 /\ \E u \in L!TP_ : task[u] = j
        BY <2>2, <1>3 DEF TasksInOrder
      <4> QED BY <4>1, <3>1, <3>3, <1>2
    <3> QED BY <3>2, <3>3
  <2>3. \A u, v \in L!TP_ : task'[u] = task'[v] /\ task'[u] # 0 => u = v
    BY <1>2 DEF TasksInOrder
  <2>4. Front' \in Nat /\ \A i \in 1 .. Len(taskq_') : taskq_'[i] = Front' + i
    BY <1>1, <1>3 DEF TasksInOrder
  <2> QED BY <2>1, <2>2, <2>3, <2>4 DEF TasksInOrder
<1>5. Awake'
  BY <1>1, EntersKeepsWakeup
<1>6. L!TypeOK'
  BY <1>1, <1>2
<1>7. \A u \in L!TP_ : /\ pc'[u] = "new" <=> u > started'
                       /\ pc'[u] = "task" <=> task'[u] # 0
  BY <1>1, <1>2
<1> QED BY <1>4, <1>5, <1>6, <1>7

\* Every step of the pool: starting, pushing, and a thread's turn.
LEMMA ThreadsStep ==
  ASSUME ThreadsInv, L!Next \/ UNCHANGED LVars
  PROVE  ThreadsInv'
<1>a. nums_ \in Nat \ {0} /\ L!TP_ = 1 .. nums_
  BY ProgramsAssumption DEF L!PoolAssumption, L!TP_
<1>1. CASE UNCHANGED LVars
  BY <1>1 DEF LVars, ThreadsInv, L!TypeOK, TasksInOrder, Front, Awake, Entering, L!cond_
<1>2. CASE L!Start
  <2>1. /\ started' = started + 1 /\ started' \in 1 .. nums_
        /\ pc' = [pc EXCEPT ![started'] = "enter"] /\ UNCHANGED <<taskq_, pushed, task, executed>>
    BY <1>2, <1>a DEF L!Start, ThreadsInv, L!TypeOK
  <2>2. PICK w \in L!TP_ : w = started + 1 /\ w = started'
    BY <2>1, <1>a
  <2>3. pc[w] = "new"
    BY <2>2, <1>a DEF ThreadsInv, L!TypeOK
  <2>4. \A u \in L!TP_ : pc'[u] = "new" <=> u > started'
    BY <2>1, <2>2, <1>a DEF ThreadsInv, L!TypeOK
  <2>5. pc' = [pc EXCEPT ![w] = "enter"] /\ started' \in 0 .. nums_
    BY <2>1, <2>2, <1>a
  <2> QED BY <2>1, <2>3, <2>4, <2>5, ThreadEnters
<1>3. CASE L!push_task
  BY <1>3, PushStep
<1>4. ASSUME NEW w \in L!TP_, L!routine(w) \/ L!SpuriousWake(w)
      PROVE  ThreadsInv'
  <2>1. CASE L!Wait(w)
    <3>1. /\ pc[w] = "enter" /\ taskq_ = <<>> /\ pc' = [pc EXCEPT ![w] = "wait"]
          /\ UNCHANGED <<taskq_, pushed, started, task, executed>>
      BY <2>1 DEF L!Wait
    <3>2. Awake'
      <4>1. Len(taskq_') = 0
        BY <3>1
      <4>2. 0 <= Cardinality(Entering')
        <5>1. IsFiniteSet(L!TP_)
          BY <1>a, FS_Interval
        <5>2. Entering' \subseteq L!TP_
          BY DEF Entering, L!TP_
        <5>3. Cardinality(Entering') \in Nat
          BY <5>1, <5>2, FS_Subset, FS_CardinalityType
        <5> QED BY <5>3
      <4> QED BY <4>1, <4>2 DEF Awake
    <3>3. TasksInOrder'
      BY <3>1 DEF ThreadsInv, TasksInOrder, Front
    <3> QED BY <3>1, <3>2, <3>3 DEF ThreadsInv, L!TypeOK
  <2>2. CASE L!Take(w)
    BY <2>2, TakeStep
  <2>3. CASE L!Execute(w)
    BY <2>3, ExecuteStep
  <2>4. CASE L!SpuriousWake(w)
    <3>1. /\ pc[w] = "wait" /\ pc' = [pc EXCEPT ![w] = "enter"]
          /\ UNCHANGED <<taskq_, pushed, started, task, executed>>
      BY <2>4 DEF L!SpuriousWake
    <3>2. /\ started' \in 0 .. nums_
          /\ \A u \in L!TP_ : pc'[u] = "new" <=> u > started'
      BY <3>1 DEF ThreadsInv, L!TypeOK
    <3> QED BY <3>1, <3>2, ThreadEnters
  <2> QED BY <1>4, <2>1, <2>2, <2>3, <2>4 DEF L!routine
<1> QED BY <1>1, <1>2, <1>3, <1>4 DEF L!Next

\* The tasks k in the queue, and the threads with task k.
Queued(k) == {i \in 1 .. Len(taskq_) : taskq_[i] = k}
InHand(k) == {w \in L!TP_ : task[w] = k}

\* A task is queued, in a thread's hands or executed, and once.
LEMMA CountedOnce == ThreadsInv => L!EachTaskOnce
<1> SUFFICES ASSUME ThreadsInv, NEW k \in L!Tasks
             PROVE  Cardinality(Queued(k)) + Cardinality(InHand(k)) + executed[k]
                      = IF k <= pushed THEN 1 ELSE 0
  BY SameCardinality DEF L!EachTaskOnce, Queued, InHand
<1>a. k \in Nat \ {0} /\ Len(taskq_) \in Nat /\ pushed \in Nat /\ Front \in Nat
      /\ Front + Len(taskq_) = pushed
  BY ProgramsAssumption DEF L!PoolAssumption, L!Tasks, ThreadsInv, L!TypeOK, TasksInOrder, Front
<1>b. \A i \in 1 .. Len(taskq_) : taskq_[i] = Front + i
  BY DEF ThreadsInv, TasksInOrder
<1>c. Cardinality({}) = 0 /\ \A x : Cardinality({x}) = 1
  BY FS_EmptySet, FS_Singleton
<1>1. CASE k <= Front
  <2>1. Queued(k) = {} /\ k <= pushed
    BY <1>1, <1>a, <1>b DEF Queued
  <2>2. CASE executed[k] = 1 /\ \A w \in L!TP_ : task[w] # k
    <3>1. InHand(k) = {}
      BY <2>2 DEF InHand
    <3>2. Cardinality(InHand(k)) = 0 /\ Cardinality(Queued(k)) = 0
      BY <2>1, <3>1, <1>c, Zenon
    <3> QED BY <2>1, <2>2, <3>2
  <2>3. CASE executed[k] = 0 /\ \E w \in L!TP_ : task[w] = k
    <3>1. PICK w \in L!TP_ : task[w] = k
      BY <2>3
    <3>2. InHand(k) = {w}
      BY <3>1, <1>a DEF ThreadsInv, TasksInOrder, InHand
    <3>3. Cardinality(InHand(k)) = 1 /\ Cardinality(Queued(k)) = 0
      BY <2>1, <3>2, <1>c, Zenon
    <3> QED BY <2>1, <2>3, <3>3
  <2> QED BY <1>1, <2>2, <2>3 DEF ThreadsInv, TasksInOrder
<1>2. CASE k > Front
  <2>1. InHand(k) = {} /\ executed[k] = 0
    BY <1>2 DEF ThreadsInv, TasksInOrder, InHand
  <2>2. CASE k <= pushed
    <3>1. Queued(k) = {k - Front}
      BY <2>2, <1>2, <1>a, <1>b DEF Queued
    <3>2. Cardinality(InHand(k)) = 0 /\ Cardinality(Queued(k)) = 1
      BY <2>1, <3>1, <1>c, Zenon
    <3> QED BY <2>1, <2>2, <3>2
  <2>3. CASE k > pushed
    <3>1. Queued(k) = {} /\ ~ (k <= pushed)
      BY <2>3, <1>a, <1>b DEF Queued
    <3> QED BY <2>1, <3>1, <1>c
  <2> QED BY <2>2, <2>3, <1>a
<1> QED BY <1>1, <1>2, <1>a

\* As many threads are on their way as the queue has tasks.
LEMMA SignalKept == ThreadsInv => L!NoLostWakeup
BY SameCardinality DEF ThreadsInv, Awake, Entering, L!NoLostWakeup

-----------------------------------------------------------------------------
(* All of them                                                               *)

AllInv ==
  /\ TicketsInv /\ CondVarInv /\ PoolInv /\ FifoInv
  /\ ShmInv /\ TcpInv /\ UdpInv /\ ThreadsInv

\* A step of the composition is a step of one program and leaves the others alone.
LEMMA EachAlone ==
  ASSUME Next \/ UNCHANGED vars
  PROVE  /\ T!Next \/ UNCHANGED TVars
         /\ C!Next \/ UNCHANGED CVars
         /\ P!Next \/ UNCHANGED PVars
         /\ F!Next \/ UNCHANGED FVars
         /\ S!Next \/ UNCHANGED SVars
         /\ N!Next \/ UNCHANGED NVars
         /\ U!Next \/ UNCHANGED UVars
         /\ L!Next \/ UNCHANGED LVars
<1>1. CASE UNCHANGED vars
  <2>1. /\ UNCHANGED TVars /\ UNCHANGED CVars /\ UNCHANGED PVars /\ UNCHANGED FVars
        /\ UNCHANGED SVars /\ UNCHANGED NVars /\ UNCHANGED UVars /\ UNCHANGED LVars
    BY <1>1, Zenon DEF vars
  <2> QED BY <2>1, Zenon
<1>2. CASE Alone("tickets") /\ T!Next
  BY <1>2 DEF Alone
<1>3. CASE Alone("cond_var") /\ C!Next
  BY <1>3 DEF Alone
<1>4. CASE Alone("process_pool") /\ P!Next
  BY <1>4 DEF Alone
<1>5. CASE Alone("fifo") /\ F!Next
  BY <1>5 DEF Alone
<1>6. CASE Alone("shm") /\ S!Next
  BY <1>6 DEF Alone
<1>7. CASE Alone("tcp") /\ N!Next
  BY <1>7 DEF Alone
<1>8. CASE Alone("udp") /\ U!Next
  BY <1>8 DEF Alone
<1>9. CASE Alone("thread_pool") /\ L!Next
  BY <1>9 DEF Alone
<1> QED BY <1>1, <1>2, <1>3, <1>4, <1>5, <1>6, <1>7, <1>8, <1>9, Zenon DEF Next

\* No program leaves its invariant, whatever the others have done.
THEOREM Invariance == Spec => []AllInv
<1>1. Init => AllInv
  BY TicketsInit, CondVarInit, PoolInit, FifoInit, ShmInit, TcpInit, UdpInit, ThreadsInit,
     Zenon DEF Init, AllInv
<1>2. AllInv /\ [Next]_vars => AllInv'
  <2> SUFFICES ASSUME AllInv, Next \/ UNCHANGED vars PROVE AllInv'
    BY Zenon
  <2>1. /\ T!Next \/ UNCHANGED TVars
        /\ C!Next \/ UNCHANGED CVars
        /\ P!Next \/ UNCHANGED PVars
        /\ F!Next \/ UNCHANGED FVars
        /\ S!Next \/ UNCHANGED SVars
        /\ N!Next \/ UNCHANGED NVars
        /\ U!Next \/ UNCHANGED UVars
        /\ L!Next \/ UNCHANGED LVars
    BY EachAlone, Zenon
  <2>2. TicketsInv' /\ CondVarInv' /\ PoolInv' /\ FifoInv'
    BY <2>1, TicketsStep, CondVarStep, PoolStep, FifoStep, Zenon DEF AllInv
  <2>3. ShmInv' /\ TcpInv' /\ UdpInv' /\ ThreadsInv'
    BY <2>1, ShmStep, TcpStep, UdpStep, ThreadsStep, Zenon DEF AllInv
  <2> QED BY <2>2, <2>3, Zenon DEF AllInv
<1> QED BY <1>1, <1>2, PTL DEF Spec

\* Every variable of every program keeps to its type.
THEOREM TypeCorrect == Spec => []TypeOK
<1>1. AllInv => TypeOK
  BY Zenon DEF AllInv, TypeOK, TicketsInv, CondVarInv, PoolInv, FifoInv, ShmInv, TcpInv, UdpInv,
     ThreadsInv
<1> QED BY <1>1, Invariance, PTL

\* src.cc: under the one mutex every ticket is sold once, and all are before main can
\* get past its first join, for any number of sellers
\* and tickets.
THEOREM TicketsSold == Spec => []EachTicketOnce
<1>1. AllInv => EachTicketOnce
  BY DEF AllInv, TicketsInv, T!TypeOK, Holding, EachTicketOnce, T!EachTicketOnce
<1> QED BY <1>1, Invariance, PTL

\* ProcessPool.c++: end of file comes to a child only when main and all later
\* children are gone, and main, about to write, finds a dead child's pipe closed.
THEOREM PipesEnd == Spec => []PipeEnds
<1>1. AllInv => PipeEnds
  <2> SUFFICES ASSUME PoolInv PROVE PipeEnds
    BY Zenon DEF AllInv
  <2>1. P!EofFromTheLast
    BY Zenon DEF PoolInv
  <2> QED BY <2>1, PoolNotices, Zenon DEF PipeEnds
<1> QED BY <1>1, Invariance, PTL

\* server.cxx and shmServer.c++: the path and the key lead to what the running
\* server made, for any number of servers one after the other.
THEOREM NamesMatch == Spec => []NameMatchesServer
<1>1. AllInv => NameMatchesServer
  BY Zenon DEF AllInv, FifoInv, ShmInv, NameMatchesServer
<1> QED BY <1>1, Invariance, PTL

\* udp_server.hpp: only a lost datagram leaves a client waiting, and a line comes
\* back to the client that sent it.
THEOREM LinesAnswer == Spec => []LinesAnswered
<1>1. AllInv => LinesAnswered
  BY Zenon DEF AllInv, UdpInv, LinesAnswered
<1> QED BY <1>1, Invariance, PTL

\* ThreadPool.hpp: no task is lost or executed twice, for any number of threads.
THEOREM TasksOnce == Spec => []EachTaskOnce
<1>1. AllInv => EachTaskOnce
  BY CountedOnce, Zenon DEF AllInv, EachTaskOnce
<1> QED BY <1>1, Invariance, PTL

\* ThreadPool.hpp: one signal for a task is enough, for any number of threads.
THEOREM WakeupKept == Spec => []NoLostWakeup
<1>1. AllInv => NoLostWakeup
  BY SignalKept, Zenon DEF AllInv, NoLostWakeup
<1> QED BY <1>1, Invariance, PTL
===========================================================================
