------------------------------ MODULE UdpEcho ------------------------------
(***************************************************************************)
(* The UDP echo programs (udp_server.hpp, udp_client.cc) over a network that  *)
(* loses, duplicates and reorders datagrams.  A client sends a line, possibly *)
(* an empty one, and waits for one datagram without a timeout.  The server     *)
(* has a single buffer, which an empty datagram leaves as it was.             *)
(***************************************************************************)
EXTENDS Naturals

CONSTANTS UdpClients,
          MaxLines,   \* bound on the lines the clients send in all
          NoText

UdpAssumption == MaxLines \in Nat

VARIABLES
  lines,    \* how many lines have been sent
  waiting,  \* client -> the line it waits for in recvfrom, or 0
  requests, \* datagrams on their way to the server
  replies,  \* datagrams on their way to a client
  buff,     \* whose line the server's buffer holds, NoText before the first
  lossy     \* the clients that have lost a datagram in either direction

vars == <<lines, waiting, requests, replies, buff, lossy>>

Request == [from : UdpClients, line : 1 .. MaxLines, empty : BOOLEAN]
Reply   == [to : UdpClients, empty : BOOLEAN, text : UdpClients \cup {NoText}]
           \* empty: that of the line it answers; text: whose line it carries

Init ==
  /\ lines = 0 /\ waiting = [c \in UdpClients |-> 0]
  /\ requests = {} /\ replies = {} /\ lossy = {}
  /\ buff = NoText

\* What is left of a set of datagrams when d is received: d may come again.
Received(net, d) == {net, net \ {d}}

SendLine(c) ==
  /\ waiting[c] = 0 /\ lines < MaxLines
  /\ lines' = lines + 1
  /\ waiting' = [waiting EXCEPT ![c] = lines']
  /\ \E e \in BOOLEAN :
       requests' = requests \cup {[from |-> c, line |-> lines', empty |-> e]}
  /\ UNCHANGED <<replies, buff, lossy>>

\* recvfrom of any reply ends the wait.
ReceiveReply(c) ==
  /\ waiting[c] # 0 /\ waiting' = [waiting EXCEPT ![c] = 0]
  /\ \E d \in replies : d.to = c /\ replies' \in Received(replies, d)
  /\ UNCHANGED <<lines, requests, buff, lossy>>

NoEchoOfEmpty(d) ==
  /\ requests' \in Received(requests, d)
  /\ IF d.empty THEN UNCHANGED <<buff, replies>>
     ELSE /\ buff' = d.from
          /\ replies' = replies \cup {[to |-> d.from, empty |-> d.empty, text |-> buff']}
  /\ UNCHANGED <<lines, waiting, lossy>>

EchoBeforeReceive(d) ==
  /\ requests' \in Received(requests, d)
  /\ buff' = IF d.empty THEN buff ELSE d.from
  /\ replies' = replies \cup {[to |-> d.from, empty |-> d.empty, text |-> buff]}
  /\ UNCHANGED <<lines, waiting, lossy>>

\* One turn of the server's loop: an empty datagram is answered with what the
\* buffer holds.  (A recvfrom that fails leaves the peer of the turn before in its
\* slot and sends the same answer again, which is a copy of it.)
Echo(d) ==
  /\ requests' \in Received(requests, d)
  /\ buff' = IF d.empty THEN buff ELSE d.from
  /\ replies' = replies \cup {[to |-> d.from, empty |-> d.empty, text |-> buff']}
  /\ UNCHANGED <<lines, waiting, lossy>>

Lose ==
  /\ \/ \E d \in requests : /\ requests' = requests \ {d}
                            /\ lossy' = lossy \cup {d.from} /\ UNCHANGED replies
     \/ \E d \in replies : /\ replies' = replies \ {d}
                           /\ lossy' = lossy \cup {d.to} /\ UNCHANGED requests
  /\ UNCHANGED <<lines, waiting, buff>>

Next ==
  \/ \E c \in UdpClients : SendLine(c) \/ ReceiveReply(c)
  \/ \E d \in requests : Echo(d)
  \/ Lose

-----------------------------------------------------------------------------
TypeOK ==
  /\ lines \in 0 .. MaxLines /\ waiting \in [UdpClients -> 0 .. MaxLines]
  /\ lossy \subseteq UdpClients
  /\ requests \subseteq Request /\ replies \subseteq Reply
  /\ buff \in UdpClients \cup {NoText}

\* A client waits in vain only when the network has lost one of its datagrams: the
\* server answers each, empty ones too, and whatever copies and late answers a
\* client has taken before, its line or an answer is still on its way.
WaitsOnlyIfLost ==
  \A c \in UdpClients : waiting[c] # 0 =>
    \/ c \in lossy
    \/ \E d \in requests : d.from = c /\ d.line = waiting[c]
    \/ \E d \in replies : d.to = c

\* Although all clients share the server's buffer, the answer to a line that is
\* not empty is a line of that client.
EchoesOwnLine == \A d \in replies : ~ d.empty => d.text = d.to
=============================================================================
