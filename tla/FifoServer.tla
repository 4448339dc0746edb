----------------------------- MODULE FifoServer -----------------------------
(***************************************************************************)
(* The named-pipe programs (server.cxx, client.cxx).  A server creates the    *)
(* fifo at ipcPath, opens it, forks nums children that read messages until     *)
(* the end of the file, waits for them and removes the fifo.  It may be        *)
(* started more than once, and killed at any point, which leaves the fifo      *)
(* behind.  Clients write for ever, until they are killed.                     *)
(***************************************************************************)
EXTENDS Naturals

CONSTANTS Servers,   \* the runs of the server program
          NoFifo,
          FifoClients,
          nums,      \* children of a server
          MaxUnread  \* messages a pipe holds before write blocks

FifoAssumption == NoFifo \notin Servers /\ nums \in Nat \ {0} /\ MaxUnread \in Nat

VARIABLES
  ipcPath,   \* the server whose fifo is at the path, or NoFifo
  server,    \* its next call, "failed", "killed" or "done"
  came,      \* server -> whether a client has opened its fifo
  forked,    \* server -> how often it has called fork
  reading,   \* server -> how many children are in GetMessage
  client,    \* client -> the server whose fifo it writes, "new" or "gone"
  blocked,   \* the clients whose open has not returned yet
  unread     \* server -> messages in its pipe

vars == <<ipcPath, server, came, forked, reading, client, blocked, unread>>

Init ==
  /\ ipcPath = NoFifo
  /\ server = [s \in Servers |-> "mkfifo"]
  /\ came = [s \in Servers |-> FALSE]
  /\ forked = [s \in Servers |-> 0] /\ reading = [s \in Servers |-> 0]
  /\ unread = [s \in Servers |-> 0]
  /\ client = [c \in FifoClients |-> "new"] /\ blocked = {}

Writers(s) == {c \in FifoClients : client[c] = s}

At(s, from, to) == server[s] = from /\ server' = [server EXCEPT ![s] = to]

Replace(s) ==
  /\ At(s, "mkfifo", "open") /\ ipcPath' = s
  /\ UNCHANGED <<came, forked, reading, client, blocked, unread>>

\* mkfifo fails when there is a file at the path, whoever has left it there.
Mkfifo(s) ==
  /\ \/ ipcPath = NoFifo /\ ipcPath' = s /\ At(s, "mkfifo", "open")
     \/ ipcPath # NoFifo /\ UNCHANGED ipcPath /\ At(s, "mkfifo", "failed")
  /\ UNCHANGED <<came, forked, reading, client, blocked, unread>>

\* open for reading returns once a client has opened the fifo for writing, one
\* that has quit since included; then the clients' opens return.
OpenRead(s) ==
  /\ came[s] /\ At(s, "open", "fork")
  /\ blocked' = blocked \ Writers(s)
  /\ UNCHANGED <<ipcPath, came, forked, reading, client, unread>>

\* A fork that fails is not noticed.
Fork(s) ==
  /\ server[s] = "fork"
  /\ forked' = [forked EXCEPT ![s] = @ + 1]
  /\ reading' \in {reading, [reading EXCEPT ![s] = @ + 1]}
  /\ server' = [server EXCEPT ![s] = IF forked'[s] = nums THEN "wait" ELSE "fork"]
  /\ UNCHANGED <<ipcPath, came, client, blocked, unread>>

\* A child takes what one read finds, one or several messages.
GetMessage(s) ==
  /\ reading[s] > 0
  /\ \E rest \in 0 .. unread[s] - 1 : unread' = [unread EXCEPT ![s] = rest]
  /\ UNCHANGED <<ipcPath, server, came, forked, reading, client, blocked>>

\* As if the server had opened the fifo for writing as well.
EndOfFileOnceServerLeft(s) ==
  /\ reading[s] > 0 /\ unread[s] = 0 /\ Writers(s) = {} /\ server[s] \notin {"fork", "wait"}
  /\ reading' = [reading EXCEPT ![s] = @ - 1]
  /\ UNCHANGED <<ipcPath, server, came, forked, client, blocked, unread>>

\* A child finds the end of the file: nothing to read and no client.
EndOfFile(s) ==
  /\ reading[s] > 0 /\ unread[s] = 0 /\ Writers(s) = {}
  /\ reading' = [reading EXCEPT ![s] = @ - 1]
  /\ UNCHANGED <<ipcPath, server, came, forked, client, blocked, unread>>

\* All children have been waited for, and close(fd) gives up the last read end.
WaitAll(s) ==
  /\ reading[s] = 0 /\ At(s, "wait", "unlink")
  /\ UNCHANGED <<ipcPath, came, forked, reading, client, blocked, unread>>

\* unlink removes whatever is at the path.
Unlink(s) ==
  /\ At(s, "unlink", "done") /\ ipcPath' = NoFifo
  /\ UNCHANGED <<came, forked, reading, client, blocked, unread>>

\* The server is killed; its children go on reading.
Kill(s) ==
  /\ server[s] \in {"open", "fork", "wait", "unlink"}
  /\ server' = [server EXCEPT ![s] = "killed"]
  /\ UNCHANGED <<ipcPath, came, forked, reading, client, blocked, unread>>

KillChild(s) ==
  /\ reading[s] > 0
  /\ reading' = [reading EXCEPT ![s] = @ - 1]
  /\ UNCHANGED <<ipcPath, server, came, forked, client, blocked, unread>>

HasReader(s) == reading[s] > 0 \/ server[s] \in {"fork", "wait"}

\* client.cxx: open fails without a fifo and blocks while nobody reads it.
OpenWrite(c) ==
  /\ client[c] = "new"
  /\ \/ /\ ipcPath = NoFifo
        /\ client' = [client EXCEPT ![c] = "gone"]
        /\ UNCHANGED <<came, blocked>>
     \/ /\ ipcPath # NoFifo
        /\ client' = [client EXCEPT ![c] = ipcPath]
        /\ came' = [came EXCEPT ![ipcPath] = TRUE]
        /\ blocked' = IF HasReader(ipcPath) THEN blocked ELSE blocked \cup {c}
  /\ UNCHANGED <<ipcPath, server, forked, reading, unread>>

\* A line is written; when nobody can read it any more, SIGPIPE ends the client.
WriteLine(c) ==
  \E s \in Servers :
    /\ client[c] = s /\ c \notin blocked
    /\ \/ /\ HasReader(s) /\ unread[s] < MaxUnread
          /\ unread' = [unread EXCEPT ![s] = @ + 1] /\ UNCHANGED client
       \/ /\ ~ HasReader(s)
          /\ client' = [client EXCEPT ![c] = "gone"] /\ UNCHANGED unread
    /\ UNCHANGED <<ipcPath, server, came, forked, reading, blocked>>

KillClient(c) ==
  /\ client[c] \in Servers /\ client' = [client EXCEPT ![c] = "gone"]
  /\ blocked' = blocked \ {c}
  /\ UNCHANGED <<ipcPath, server, came, forked, reading, unread>>

ServerStep(s) == Mkfifo(s) \/ OpenRead(s) \/ Fork(s) \/ WaitAll(s) \/ Unlink(s)
ChildStep(s)  == GetMessage(s) \/ EndOfFile(s)

Next ==
  \/ \E s \in Servers : ServerStep(s) \/ ChildStep(s) \/ Kill(s) \/ KillChild(s)
  \/ \E c \in FifoClients : OpenWrite(c) \/ WriteLine(c) \/ KillClient(c)

-----------------------------------------------------------------------------
TypeOK ==
  /\ ipcPath \in Servers \cup {NoFifo}
  /\ server \in [Servers -> {"mkfifo", "open", "fork", "wait", "unlink", "done",
                             "failed", "killed"}]
  /\ came \in [Servers -> BOOLEAN]
  /\ forked \in [Servers -> 0 .. nums] /\ reading \in [Servers -> 0 .. nums]
  /\ client \in [FifoClients -> Servers \cup {"new", "gone"}]
  /\ blocked \subseteq FifoClients
  /\ unread \in [Servers -> 0 .. MaxUnread]

Running(s) == server[s] \in {"open", "fork", "wait", "unlink"}

\* The file serves as a lock: the path leads to the fifo of the running server,
\* so two never run side by side and unlink removes the server's own fifo; a
\* fifo without its server is one that a killed server has left.
PathMatchesServer ==
  \A s \in Servers : /\ Running(s) => ipcPath = s
                     /\ ipcPath = s => Running(s) \/ server[s] = "killed"

\* Once its clients are gone for good, a server stops and removes the fifo.
ServerEnds ==
  \A s \in Servers :
    server[s] = "wait" ~> (server[s] \in {"done", "killed"} \/ Writers(s) # {})
=============================================================================
