--------------------------- MODULE PeerCollection ---------------------------
(***************************************************************************)
(* The cycle of DownloadFromTracker with the bytes that go to the trackers *)
(* and come back: every step is one of TrackerCycle, given the peers that  *)
(* UdpTracker (UdpPackets) and ParseCompactBinaryPeers (CompactPeers) make *)
(* of the answers.  The trackers keep to their protocols, or fail; an HTTP *)
(* tracker sends whole peers, and their list is found (see Session).       *)
(***************************************************************************)
EXTENDS TrackerCycle, UdpPackets, CompactPeers

CONSTANTS Http   \* the trackers that are asked over HTTP

VARIABLES
    named,      \* history: the peers the trackers named in this cycle
    recorded    \* history: what a UDP tracker read of the announce, and its id

answerVars == <<named, recorded>>
collectVars == <<cycleVars, answerVars>>

CollectInit == CycleInit /\ named = {} /\ recorded = <<>>

-----------------------------------------------------------------------------
NextCycle ==
    /\ Cycle
    /\ named' = {} /\ recorded' = <<>>

\* Announce of UdpTracker, at this tracker or one it falls back on; both requests are
\* answered.
AskUdp(id, r, s, compact) ==
    /\ place = "Ask" /\ i < Len(trackers) /\ trackers[i + 1] \notin Http
    /\ LET connected == ConnectAnswer(ConnectRequest(r), id)
           request   == AnnounceRequest(ConnectionId(connected), s, length)
           response  == AnnounceAnswer(request, compact)
       IN  /\ UpdatePeers(IF Accepted(connected, 0, r, 16) /\ Accepted(response, 1, s, 20)
                          THEN PeersIn(response) ELSE <<>>)
           /\ recorded' = [as |-> Announced(request), id |-> id]
    /\ named' = named \cup Swarm(compact)

\* ParseTrackerResponse takes these peers from an answer that means those.
AskHttp(peers, meant) ==
    /\ place = "Ask" /\ i < Len(trackers) /\ trackers[i + 1] \in Http
    /\ UpdatePeers(peers)
    /\ named' = named \cup meant
    /\ UNCHANGED recorded

\* Steps to which the trackers have nothing to say.
Unasked ==
    /\ \/ Fails \/ FillStorage \/ UpdatePeersThrows \/ Merge \/ Report
       \/ RunWithoutConnections \/ RunDownloadMultithread \/ EndDownload
       \/ \E k \in Pieces : SaveQueued(k)
    /\ UNCHANGED answerVars

\* What stol makes of a length, a tracker of a connection, and rand() of a transaction.
Lengths == 0 .. Values(8) \div 2 - 1
Ids     == 0 .. Values(8) - 1
Randoms == 0 .. Values(4) \div 2 - 1

Prepare ==
    /\ \/ LoadTorrentFile
       \/ \E l \in Lengths, p \in Nat \ {0}, n \in Nat : BeginStorage(l, p, n)
       \/ \E announce \in STRING : EndStorage(announce)
    /\ UNCHANGED answerVars

CollectNext ==
    \/ Prepare \/ Unasked \/ NextCycle
    \/ \E compact \in Seq(Byte) :
          /\ Len(compact) % 6 = 0
          /\ AskHttp(ParseCompactBinaryPeers(compact), Swarm(compact))
    \/ \E id \in Ids, r, s \in Randoms, compact \in Seq(Byte) :
          AskUdp(id, r, s, compact)

CollectSpec == CollectInit /\ [][CollectNext]_collectVars

-----------------------------------------------------------------------------
(***************************************************************************)
(* Properties.                                                             *)
(***************************************************************************)

\* What a UDP tracker reads of the announce is what the client means: its own session,
\* its hash, identity and port, and the whole length of the torrent as left
\* (UdpTracker.cpp:89-101, TorrentTracker.cpp:160).
RecordedAsMeant == recorded # <<>> => recorded.as = Meant(recorded.id, length)

\* Trackers of both protocols name the same peer, repeat themselves, fail: the download
\* starts with every peer that they named in this cycle, and with one connection to each
\* (two threads on one remote peer would starve each other; TorrentClient.cpp:183).
StartsWithEveryPeerOnce ==
    place = "Run" =>
        /\ ToSet(all_peers) = named
        /\ \A j, k \in DOMAIN all_peers : all_peers[j] = all_peers[k] => j = k
=============================================================================
