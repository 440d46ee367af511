------------------------------ MODULE Session ------------------------------
(***************************************************************************)
(* The main thread with its data: the torrent file from which everything   *)
(* is computed, and the bytes that go to the trackers and come back.       *)
(* Every step is one of PeerCollection, given the values that              *)
(* LoadTorrentFile (TorrentFile) and ParseTrackerResponse (TrackerReply)   *)
(* make.                                                                   *)
(***************************************************************************)
EXTENDS PeerCollection, TorrentFile, TrackerReply

CONSTANTS
    Torrents,         \* bound: the torrent files, as values
    Replies,          \* bound: the answers of HTTP trackers, as values
    Swarms,           \* bound: the peers a UDP tracker knows, six letters each
    ConnectionIds,    \* bound: ids a UDP tracker gives
    TransactionIds,   \* bound: values of rand()
    MaxNumber         \* bound: numbers in torrent files

stol(text) == CHOOSE n \in 0 .. MaxNumber : ToString(n) = text

ASSUME FilesAssumption ==
    \A file_value \in Torrents :
        /\ IsTorrent(file_value)
        /\ stol(ValueAt(ValueAt(file_value, "info"), "length").of) \in Lengths
        /\ stol(ValueAt(ValueAt(file_value, "info"), "piece length").of) \in Nat \ {0}

ASSUME TrackersAssumption ==
    /\ \A reply \in Replies : IsReply(reply)
    /\ \A swarm \in Swarms : BytesOf(swarm) \in Seq(Byte)
    /\ ConnectionIds \subseteq Ids /\ TransactionIds \subseteq Randoms

VARIABLES
    torrent,        \* the file, until it is closed
    torrent_file    \* what LoadTorrentFile made of it, until it is used up

fileVars == <<torrent, torrent_file>>
vars == <<collectVars, fileVars>>

Init ==
    /\ CollectInit
    /\ torrent \in Torrents
    /\ torrent_file = NoTorrentFile

-----------------------------------------------------------------------------
Load ==
    /\ LoadTorrentFile
    /\ torrent_file' = Loaded(torrent.text)
    /\ UNCHANGED <<torrent, answerVars>>

\* What is used from here on are the sizes and the announced tracker.
ConstructStorage ==
    /\ BeginStorage(stol(torrent_file.length), stol(torrent_file.piece_length),
                    Len(torrent_file.piece_hashes))
    /\ torrent' = Dict(<<>>)
    /\ torrent_file' = [NoTorrentFile EXCEPT !.announce = torrent_file.announce]
    /\ UNCHANGED answerVars

BeginCycle ==
    /\ EndStorage(torrent_file.announce)
    /\ torrent_file' = NoTorrentFile
    /\ UNCHANGED <<torrent, answerVars>>

\* A reply with peers: whole ones in compact form, and nothing has failed.
HasPeers(reply) ==
    /\ ValueAt(reply, "failure reason").of = ""
    /\ LET peers == ValueAt(reply, "peers") IN peers.kind = "str" /\ IsCompact(peers.of)

\* What ParseTrackerResponse takes from a reply, and what the reply means.
Answers ==
    {[peers |-> ParseTrackerResponse(reply.text),
      named |-> IF HasPeers(reply) THEN Swarm(BytesOf(ValueAt(reply, "peers").of)) ELSE {}] :
        reply \in Replies}

Ask ==
    \/ \E id \in ConnectionIds, r, s \in TransactionIds, swarm \in Swarms :
          AskUdp(id, r, s, BytesOf(swarm)) /\ UNCHANGED fileVars
    \/ \E answer \in Answers : AskHttp(answer.peers, answer.named) /\ UNCHANGED fileVars

\* Steps that have all they need in PeerCollection.
Main == (Unasked \/ NextCycle) /\ UNCHANGED fileVars

Over == place = "Exit" /\ UNCHANGED vars

Next == Load \/ ConstructStorage \/ BeginCycle \/ Ask \/ Main \/ Over

Spec == Init /\ [][Next]_vars

\* The thread goes on (every call in the cycle returns), and some tracker, if it is
\* asked again and again, some time answers with the peers of a swarm.  Said of the
\* steps of TrackerCycle, which are enabled whenever those above are.
FairSpec ==
    /\ Spec
    /\ WF_cycleVars(LoadTorrentFile)
    /\ WF_vars(ConstructStorage \/ BeginCycle)
    /\ WF_vars(Main)
    /\ SF_cycleVars(\E swarm \in Swarms \ {""} :
          UpdatePeers(ParseCompactBinaryPeers(BytesOf(swarm))))

-----------------------------------------------------------------------------
(***************************************************************************)
(* Properties.                                                             *)
(***************************************************************************)

\* LoadTorrentFile takes from the list of all strings in the file what the file says
\* (ReadRight, in module TorrentFile), though names and comments may be called like keys
\* (all but "pieces", see the README).
LoadedAsWritten == place = "Construct" => ReadRight(torrent, torrent_file)

\* The cycle does not give up while trackers are silent for a while: with a tracker
\* that some time answers, the process gets to a download, or ends.
ReachesDownload == <>(place \in {"Run", "Exit"})
=============================================================================
