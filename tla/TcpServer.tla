----------------------------- MODULE TcpServer -----------------------------
(***************************************************************************)
(* The TCP echo server (tcp_server.hpp): the parent accepts a connection,     *)
(* forks a child for it and closes its own copy of the socket; the child      *)
(* reads until the client is done, answers once and exits.  fork may fail,    *)
(* which the code does not look at.  A client connects once, sends, and shuts  *)
(* its side down, or resets the connection; none is obliged to.                *)
(***************************************************************************)
EXTENDS Naturals, Sequences

CONSTANTS Peers,     \* the clients
          backlog,
          MaxSends   \* bound on what a client sends

TcpAssumption == Peers # {} /\ backlog \in Nat /\ MaxSends \in Nat

VARIABLES
  listensock,  \* connections that have not been accepted, oldest first
  start,       \* the parent's statement: "accept", "fork" or "close"
  serversock,  \* the connection the parent has accepted last
  holds,       \* client -> the processes that have its socket open: "parent" and,
               \* named after their clients, children
  serviceread, \* client -> its child: "none", "read", "write" or "done"
  peer,        \* client -> "new", "open", "shut" or "reset"
  sends,       \* client -> what it has sent in all
  inbuf        \* client -> what is sent and not read

vars == <<listensock, start, serversock, holds, serviceread, peer, sends, inbuf>>

Init ==
  /\ listensock = <<>> /\ start = "accept" /\ serversock = CHOOSE c \in Peers : TRUE
  /\ holds = [c \in Peers |-> {}]
  /\ serviceread = [c \in Peers |-> "none"]
  /\ peer = [c \in Peers |-> "new"]
  /\ sends = [c \in Peers |-> 0] /\ inbuf = [c \in Peers |-> 0]

Queued(c) == \E i \in 1 .. Len(listensock) : listensock[i] = c

\* The clients, and the kernel that queues up to backlog connections.
Connect(c) ==
  /\ peer[c] = "new" /\ Len(listensock) < backlog
  /\ peer' = [peer EXCEPT ![c] = "open"]
  /\ listensock' = Append(listensock, c)
  /\ UNCHANGED <<start, serversock, holds, serviceread, sends, inbuf>>

Send(c) ==
  /\ peer[c] = "open" /\ sends[c] < MaxSends
  /\ sends' = [sends EXCEPT ![c] = @ + 1]
  /\ inbuf' = [inbuf EXCEPT ![c] = @ + 1]
  /\ UNCHANGED <<listensock, start, serversock, holds, serviceread, peer>>

Shut(c) ==
  /\ peer[c] = "open" /\ peer' = [peer EXCEPT ![c] = "shut"]
  /\ UNCHANGED <<listensock, start, serversock, holds, serviceread, sends, inbuf>>

\* A reset discards what has not been read.
Reset(c) ==
  /\ peer[c] \in {"open", "shut"} /\ peer' = [peer EXCEPT ![c] = "reset"]
  /\ inbuf' = [inbuf EXCEPT ![c] = 0]
  /\ UNCHANGED <<listensock, start, serversock, holds, serviceread, sends>>

\* An accept that fails is repeated and changes nothing.
Accept ==
  /\ start = "accept" /\ listensock # <<>>
  /\ serversock' = Head(listensock) /\ listensock' = Tail(listensock)
  /\ holds' = [holds EXCEPT ![Head(listensock)] = {"parent"}]
  /\ start' = "fork"
  /\ UNCHANGED <<serviceread, peer, sends, inbuf>>

\* The child inherits every socket the parent has open.
Fork ==
  /\ start = "fork" /\ start' = "close"
  /\ holds' = [c \in Peers |-> IF "parent" \in holds[c] THEN holds[c] \cup {serversock}
                                                     ELSE holds[c]]
  /\ serviceread' = [serviceread EXCEPT ![serversock] = "read"]
  /\ UNCHANGED <<listensock, serversock, peer, sends, inbuf>>

ForkFailsContinue ==
  /\ start = "fork" /\ start' = "accept"
  /\ UNCHANGED <<listensock, serversock, holds, serviceread, peer, sends, inbuf>>

\* Without a child the parent goes on all the same.
ForkFails ==
  /\ start = "fork" /\ start' = "close"
  /\ UNCHANGED <<listensock, serversock, holds, serviceread, peer, sends, inbuf>>

CloseAfterService ==
  /\ start = "close" /\ serviceread[serversock] # "read"
  /\ start' = "accept"
  /\ holds' = [holds EXCEPT ![serversock] = @ \ {"parent"}]
  /\ UNCHANGED <<listensock, serversock, serviceread, peer, sends, inbuf>>

\* The parent closes its copy and goes back to accept.
Close ==
  /\ start = "close" /\ start' = "accept"
  /\ holds' = [holds EXCEPT ![serversock] = @ \ {"parent"}]
  /\ UNCHANGED <<listensock, serversock, serviceread, peer, sends, inbuf>>

\* One read takes all there is, or a part of it.
Read(c) ==
  /\ serviceread[c] = "read" /\ inbuf[c] > 0
  /\ \E rest \in 0 .. inbuf[c] - 1 : inbuf' = [inbuf EXCEPT ![c] = rest]
  /\ UNCHANGED <<listensock, start, serversock, holds, serviceread, peer, sends>>

\* The read that returns 0; after a reset one that fails comes before it, which
\* the loop passes over.
ReadEnd(c) ==
  /\ serviceread[c] = "read" /\ inbuf[c] = 0 /\ peer[c] \in {"shut", "reset"}
  /\ serviceread' = [serviceread EXCEPT ![c] = "write"]
  /\ UNCHANGED <<listensock, start, serversock, holds, peer, sends, inbuf>>

\* The answer, which nobody receives after a reset, and exit(0).
WriteExit(c) ==
  /\ serviceread[c] = "write"
  /\ serviceread' = [serviceread EXCEPT ![c] = "done"]
  /\ holds' = [d \in Peers |-> holds[d] \ {c}]
  /\ UNCHANGED <<listensock, start, serversock, peer, sends, inbuf>>

ParentStep  == Accept \/ Fork \/ ForkFails \/ Close
ChildStep(c) == Read(c) \/ ReadEnd(c) \/ WriteExit(c)

Next ==
  \/ ParentStep
  \/ \E c \in Peers : Connect(c) \/ Send(c) \/ Shut(c) \/ Reset(c) \/ ChildStep(c)

-----------------------------------------------------------------------------
TypeOK ==
  /\ listensock \in Seq(Peers) /\ Len(listensock) <= backlog
  /\ start \in {"accept", "fork", "close"} /\ serversock \in Peers
  /\ holds \in [Peers -> SUBSET (Peers \cup {"parent"})]
  /\ serviceread \in [Peers -> {"none", "read", "write", "done"}]
  /\ peer \in [Peers -> {"new", "open", "shut", "reset"}]
  /\ sends \in [Peers -> 0 .. MaxSends] /\ inbuf \in [Peers -> 0 .. MaxSends]

\* "If the first client does not quit, the server cannot connect a new one ...
\* so it takes a fork" (tcp_server.hpp:73, 107): whatever the clients before it
\* do, a connection is accepted.
NewClientAccepted == \A c \in Peers : Queued(c) ~> ~ Queued(c)

\* A client that has finished sending sees its connection end, since no copy of
\* its socket stays open in the parent, in its child or in a later child, and
\* also when the fork has failed.
ClientSeesEnd ==
  \A c \in Peers : peer[c] = "shut" ~> (~ Queued(c) /\ holds[c] = {})
=============================================================================
