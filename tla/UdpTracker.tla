----------------------------- MODULE UdpTracker -----------------------------
(***************************************************************************)
(* class UdpTracker on its UdpClient: the two exchanges of an Announce,    *)
(* connect and announce, with one UDP tracker over a network that loses,   *)
(* duplicates, delays and reorders datagrams.                              *)
(*                                                                         *)
(* net is the set of all datagrams ever sent: one of them may be received  *)
(* any number of times, in any order, or never.  Each Announce has its own *)
(* socket; the system may give it a port that an earlier socket had, and   *)
(* answers meant for that one may still be on the way.  rand() is assumed  *)
(* to give every request another transaction id.                           *)
(***************************************************************************)
EXTENDS Integers

CONSTANTS
    Trackers,   \* hosts
    Ports,      \* local ports the system may give to a socket
    PeersOf     \* the peers a tracker announces

VARIABLES
    place,            \* where the client is in Announce
    current,          \* host: the tracker that is asked
    server_address,   \* of UdpClient: where the next request goes
    port,             \* the local port of sockfd
    transaction_id,
    connection_id,
    answer,           \* the peers of the TrackerResponse
    net,
    faults            \* history: trackers whose exchange the network or the tracker spoiled

udpVars == <<place, current, server_address, port, transaction_id, connection_id,
             answer, net, faults>>

\* A tracker's connection ids name the tracker; None is the id in a connect.
None == "none"

Request(action, id) ==
    [to |-> server_address, from |-> port, action |-> action,
     txid |-> transaction_id + 1, id |-> id, peers |-> {}]

Answer(m, action, id, peers) ==
    [to |-> m.from, from |-> m.to, action |-> action, txid |-> m.txid,
     id |-> id, peers |-> peers]

Spoiled == faults' = faults \cup {current}

-----------------------------------------------------------------------------
\* A tracker gets a request: it answers, or refuses (busy, connection id expired
\* or not its own).
Respond(m) ==
    /\ m \in net
    /\ m.to \in Trackers
    /\ \/ m.action = "connect" /\ net' = net \cup {Answer(m, "connect", m.to, {})}
       \/ /\ m.action = "announce" /\ m.id = m.to
          /\ net' = net \cup {Answer(m, "announce", None, PeersOf[m.to])}
       \/ net' = net \cup {Answer(m, "error", None, {})}
    /\ UNCHANGED <<place, current, server_address, port, transaction_id,
                   connection_id, answer, faults>>

\* Slip: one socket, and so one port and one address, for all trackers.
SlipKeepAddress(t) ==
    /\ current' = t
    /\ \/ place' = "Connect" /\ UNCHANGED faults
       \/ place' = "Thrown" /\ faults' = faults \cup {t}
    /\ UNCHANGED <<server_address, port, transaction_id, connection_id, answer, net>>

\* The constructors: a socket with a receive timeout; the host name may not
\* resolve, which throws.
Open(t) ==
    /\ current' = t
    /\ \/ /\ place' = "Connect"
          /\ server_address' = t
          /\ port' \in Ports
          /\ UNCHANGED faults
       \/ /\ place' = "Thrown"
          /\ faults' = faults \cup {t}
          /\ UNCHANGED <<server_address, port>>
    /\ UNCHANGED <<transaction_id, connection_id, answer, net>>

\* sendto of SendReceive, with a fresh transaction id.
Send(from, to, action, id) ==
    /\ place = from
    /\ place' = to
    /\ net' = net \cup {Request(action, id)}
    /\ transaction_id' = transaction_id + 1
    /\ UNCHANGED <<current, server_address, port, connection_id, answer, faults>>

SendConnect  == Send("Connect", "AwaitConnect", "connect", None)
SendAnnounce == Send("Announce", "AwaitAnnounce", "announce", connection_id)

\* Slip: the action is compared, the transaction id is not.
SlipAnyTransaction(m, action) == m.action = action

\* What Connect and AnnounceWithConnection look at.  An answer to a connect is
\* too short for an announce, an error has an action of its own.
Matches(m, action) == m.action = action /\ m.txid = transaction_id

\* The answer the client waits for, which no check in the code can change.
Genuine(m, action) ==
    m.from = current /\ m.action = action /\ m.txid = transaction_id

(***************************************************************************)
(* recvfrom takes the first datagram that comes, whoever sent it, and      *)
(* makes its sender server_address; if it is not the one waited for, the   *)
(* exchange is over: the code throws and does not receive again.           *)
(***************************************************************************)
Receive(m, from, action) ==
    /\ place = from
    /\ m \in net
    /\ m.to = port
    /\ server_address' = m.from
    /\ IF Genuine(m, action) THEN UNCHANGED faults ELSE Spoiled
    /\ UNCHANGED <<current, port, transaction_id, net>>

ReceiveConnect(m) ==
    /\ Receive(m, "AwaitConnect", "connect")
    /\ IF Matches(m, "connect")
       THEN place' = "Announce" /\ connection_id' = m.id
       ELSE place' = "Thrown" /\ UNCHANGED connection_id
    /\ UNCHANGED answer

ReceiveAnnounce(m) ==
    /\ Receive(m, "AwaitAnnounce", "announce")
    /\ IF Matches(m, "announce")
       THEN place' = "Answered" /\ answer' = m.peers
       ELSE place' = "Thrown" /\ UNCHANGED answer
    /\ UNCHANGED connection_id

\* Slip: no SO_RCVTIMEO.
SlipNoTimeout == FALSE

\* SO_RCVTIMEO passes before anything comes.
Timeout ==
    /\ place \in {"AwaitConnect", "AwaitAnnounce"}
    /\ place' = "Thrown"
    /\ Spoiled
    /\ UNCHANGED <<current, server_address, port, transaction_id, connection_id,
                   answer, net>>

Exchange ==
    \/ SendConnect
    \/ SendAnnounce
    \/ \E m \in net : ReceiveConnect(m) \/ ReceiveAnnounce(m)
    \/ Timeout
=============================================================================
