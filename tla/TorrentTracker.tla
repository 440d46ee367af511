--------------------------- MODULE TorrentTracker ---------------------------
(***************************************************************************)
(* class TorrentTracker: UpdatePeers asks the tracker of its URL and, if   *)
(* that is a UDP tracker, the fallback trackers after it, until one has    *)
(* peers.  An exception of one tracker leads to the next.                  *)
(***************************************************************************)
EXTENDS UdpTracker, Sequences

CONSTANTS
    Http,        \* the trackers that are asked over HTTP
    Urls,        \* bound: the URLs UpdatePeers is tried with
    kBackupUdpTrackers

ASSUME TrackersAssumption ==
    /\ Http \subseteq Trackers
    /\ Urls \subseteq Trackers
    /\ kBackupUdpTrackers \in Seq(Trackers \ Http)
    /\ Ports \cap Trackers = {}
    /\ None \notin Trackers
    /\ DOMAIN PeersOf = Trackers

VARIABLES
    tracker_url,
    i,          \* trackers tried so far
    peers,
    outcome     \* of UpdatePeers: "running", "returned" or "thrown"

loopVars == <<tracker_url, i, peers, outcome>>
vars == <<udpVars, loopVars>>

IsUdpTracker(t) == t \notin Http

\* Counted from 0.  A backup that is the URL itself is not in the code's list; here
\* it is, and the loop passes over it (Skip).
all_trackers ==
    [k \in 0 .. (IF IsUdpTracker(tracker_url) THEN Len(kBackupUdpTrackers) ELSE 0) |->
        IF k = 0 THEN tracker_url ELSE kBackupUdpTrackers[k]]

IsRepeated == i > 0 /\ all_trackers[i] = tracker_url

Init ==
    /\ tracker_url \in Urls
    /\ i = 0 /\ peers = {} /\ outcome = "running"
    /\ place = "Next"
    /\ current = tracker_url
    /\ server_address = tracker_url
    /\ port \in Ports
    /\ transaction_id = 0
    /\ connection_id = None
    /\ answer = {}
    /\ net = {}
    /\ faults = {}

-----------------------------------------------------------------------------
\* Slip: the last tracker of the list is left out.
SlipOffByOne == i + 1 \in DOMAIN all_trackers /\ peers = {}

MoreToTry == i \in DOMAIN all_trackers /\ peers = {}

Skip ==
    /\ place = "Next" /\ outcome = "running"
    /\ MoreToTry /\ IsRepeated
    /\ i' = i + 1
    /\ UNCHANGED <<udpVars, tracker_url, peers, outcome>>

TryTracker ==
    /\ place = "Next" /\ outcome = "running"
    /\ MoreToTry /\ ~IsRepeated
    /\ UNCHANGED loopVars
    /\ \/ IsUdpTracker(all_trackers[i]) /\ Open(all_trackers[i])
       \/ /\ ~IsUdpTracker(all_trackers[i])
          /\ place' = "Http" /\ current' = all_trackers[i]
          /\ UNCHANGED <<server_address, port, transaction_id, connection_id,
                         answer, net, faults>>

(***************************************************************************)
(* UpdatePeersHttp, one call with a timeout of the library.  It throws on  *)
(* any failure, also when the answer has no peers.                         *)
(***************************************************************************)
UpdatePeersHttp ==
    /\ place = "Http"
    /\ \/ /\ PeersOf[current] # {}
          /\ place' = "Answered" /\ answer' = PeersOf[current]
          /\ UNCHANGED faults
       \/ /\ place' = "Thrown" /\ Spoiled
          /\ UNCHANGED answer
    /\ UNCHANGED <<loopVars, current, server_address, port, transaction_id,
                   connection_id, net>>

\* peers.clear() and the peers of the answer, of which there may be none.
UpdatePeers ==
    /\ place = "Answered"
    /\ place' = "Next"
    /\ peers' = answer
    /\ i' = i + 1
    /\ UNCHANGED <<tracker_url, outcome, current, server_address, port,
                   transaction_id, connection_id, answer, net, faults>>

\* An exception of one tracker is caught inside the loop.
Catch ==
    /\ place = "Thrown"
    /\ place' = "Next"
    /\ i' = i + 1
    /\ UNCHANGED <<tracker_url, peers, outcome, current, server_address, port,
                   transaction_id, connection_id, answer, net, faults>>

\* After the loop: an exception if no tracker had peers.
Finish ==
    /\ place = "Next" /\ outcome = "running"
    /\ ~MoreToTry
    /\ outcome' = IF peers = {} THEN "thrown" ELSE "returned"
    /\ UNCHANGED <<udpVars, tracker_url, i, peers>>

Client ==
    \/ Skip
    \/ TryTracker
    \/ UpdatePeersHttp
    \/ UpdatePeers
    \/ Catch
    \/ Finish
    \/ Exchange /\ UNCHANGED loopVars

Network == \E m \in net : Respond(m) /\ UNCHANGED loopVars

\* The call is over; answers may still be on the way.
Over == outcome # "running" /\ UNCHANGED vars

Next == Client \/ Network \/ Over

Spec == Init /\ [][Next]_vars

\* The thread runs, and every wait of it has a timeout.
FairSpec == Spec /\ WF_vars(Client)

-----------------------------------------------------------------------------
(***************************************************************************)
(* Properties.                                                             *)
(***************************************************************************)
Places == {"Next", "Http", "Connect", "AwaitConnect", "Announce", "AwaitAnnounce",
           "Answered", "Thrown"}

AllPeers == UNION {PeersOf[t] : t \in Trackers}

\* Every variable has its type; the loop never counts past the end of its list.
TypeOK ==
    /\ place \in Places
    /\ {tracker_url, current, server_address} \subseteq Trackers
    /\ port \in Ports
    /\ transaction_id \in Nat
    /\ connection_id \in Trackers \cup {None}
    /\ i \in Nat /\ \A k \in 0 .. i - 1 : k \in DOMAIN all_trackers
    /\ answer \subseteq AllPeers /\ peers \subseteq AllPeers
    /\ faults \subseteq Trackers
    /\ outcome \in {"running", "returned", "thrown"}

\* recvfrom overwrites the address of the tracker with that of whoever sent the
\* datagram (UdpClient.cpp:75): all the same the announce goes to the tracker that
\* is being asked, with a connection id this tracker gave out.
AnnounceToConnected ==
    place = "Announce" => server_address = current /\ connection_id = current

\* The peers UpdatePeers returns are those of the tracker it tried last, whatever
\* late or repeated answers of other trackers arrive at the same port.
PeersAreGenuine == peers # {} => peers = PeersOf[current]

\* Failover is complete: UpdatePeers throws only after every tracker in the list
\* that has peers was asked and its exchange failed for a reason outside the code.
ThrowsOnlyAfterAll ==
    outcome = "thrown" =>
        \A k \in DOMAIN all_trackers :
            PeersOf[all_trackers[k]] = {} \/ all_trackers[k] \in faults

\* UpdatePeers returns or throws, however silent the trackers are.
UpdatePeersEnds == <>(outcome # "running")
=============================================================================
