---------------------------- MODULE SharedMemory ----------------------------
(***************************************************************************)
(* The shared-memory programs (shmServer.c++, shmClient.c++).  A server       *)
(* creates the segment of the key, attaches and detaches it and removes it;    *)
(* a client looks the key up, attaches the segment and detaches it.  Between   *)
(* the calls both sleep for seconds, and either may be killed.  Neither uses   *)
(* the memory.                                                                *)
(***************************************************************************)
CONSTANTS ShmServers,   \* the runs of the server program
          ShmClients,
          NoSegment

ShmAssumption == NoSegment \notin ShmServers /\ ShmServers \cap ShmClients = {}

VARIABLES
  key,       \* the server whose segment the key names, or NoSegment
  attached,  \* server -> the processes its segment is attached to
  call,      \* process -> its next call, or how it ended
  shmid      \* client -> the server whose segment it has found, or NoSegment

vars == <<key, attached, call, shmid>>

Processes == ShmServers \cup ShmClients

Init ==
  /\ key = NoSegment
  /\ attached = [s \in ShmServers |-> {}]
  /\ call = [p \in Processes |-> "shmget"]
  /\ shmid = [c \in ShmClients |-> NoSegment]

At(p, from, to) == call[p] = from /\ call' = [call EXCEPT ![p] = to]

GetOrCreate(s) ==
  /\ key' = s /\ At(s, "shmget", "shmat")
  /\ UNCHANGED <<attached, shmid>>

\* IPC_CREAT | IPC_EXCL: fails when the key has a segment, whoever has left it.
Create(s) ==
  /\ \/ key = NoSegment /\ key' = s /\ At(s, "shmget", "shmat")
     \/ key # NoSegment /\ UNCHANGED key /\ At(s, "shmget", "failed")
  /\ UNCHANGED <<attached, shmid>>

ServerAttach(s) ==
  /\ At(s, "shmat", "shmdt")
  /\ attached' = [attached EXCEPT ![s] = @ \cup {s}]
  /\ UNCHANGED <<key, shmid>>

ServerDetach(s) ==
  /\ At(s, "shmdt", "remove")
  /\ attached' = [attached EXCEPT ![s] = @ \ {s}]
  /\ UNCHANGED <<key, shmid>>

\* IPC_RMID takes the key away from the segment, attached or not.
Remove(s) ==
  /\ At(s, "remove", "done") /\ key' = NoSegment
  /\ UNCHANGED <<attached, shmid>>

\* shmget without IPC_CREAT.
Find(c) ==
  /\ shmid' = [shmid EXCEPT ![c] = key]
  /\ At(c, "shmget", IF key = NoSegment THEN "failed" ELSE "shmat")
  /\ UNCHANGED <<key, attached>>

\* shmat fails when the segment is gone: removed, and no process attached to it any
\* more.  It returns -1 then, which the client compares with nullptr: it goes on with
\* or without the segment.
ClientAttach(c) ==
  /\ At(c, "shmat", "shmdt")
  /\ attached' = IF key = shmid[c] \/ attached[shmid[c]] # {}
                 THEN [attached EXCEPT ![shmid[c]] = @ \cup {c}] ELSE attached
  /\ UNCHANGED <<key, shmid>>

\* shmdt of an address that is not attached fails, and the assertion aborts.
ClientDetach(c) ==
  /\ At(c, "shmdt", IF c \in attached[shmid[c]] THEN "done" ELSE "aborted")
  /\ attached' = [attached EXCEPT ![shmid[c]] = @ \ {c}]
  /\ UNCHANGED <<key, shmid>>

\* A killed process is detached; the segment stays.
Kill(p) ==
  /\ call[p] \in {"shmat", "shmdt", "remove"}
  /\ call' = [call EXCEPT ![p] = "killed"]
  /\ attached' = [s \in ShmServers |-> attached[s] \ {p}]
  /\ UNCHANGED <<key, shmid>>

Next ==
  \/ \E s \in ShmServers : Create(s) \/ ServerAttach(s) \/ ServerDetach(s) \/ Remove(s)
  \/ \E c \in ShmClients : Find(c) \/ ClientAttach(c) \/ ClientDetach(c)
  \/ \E p \in Processes : Kill(p)

-----------------------------------------------------------------------------
TypeOK ==
  /\ key \in ShmServers \cup {NoSegment}
  /\ attached \in [ShmServers -> SUBSET Processes]
  /\ call \in [Processes -> {"shmget", "shmat", "shmdt", "remove", "done", "failed",
                               "aborted", "killed"}]
  /\ shmid \in [ShmClients -> ShmServers \cup {NoSegment}]

Running(s) == call[s] \in {"shmat", "shmdt", "remove"}

\* The key names the segment of the running server, so two never share it and
\* none removes another's; a segment without its server is one that a killed
\* server has left.  "The client need not delete it, the server will"
\* (shmClient.c++:47).
KeyMatchesServer ==
  \A s \in ShmServers : /\ Running(s) => key = s
                        /\ key = s => Running(s) \/ call[s] = "killed"
=============================================================================
