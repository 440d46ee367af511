---------------------------- MODULE TrackerCycle ----------------------------
(***************************************************************************)
(* The main thread from main() to the exit code: DownloadTorrent, the      *)
(* constructor of PieceStorage, and the cycle of DownloadFromTracker that  *)
(* collects peers from all trackers and runs the download with them.  One  *)
(* call of TorrentTracker::UpdatePeers is one step here (TorrentTracker    *)
(* has its own steps): it returns peers or throws.  Of the download (see   *)
(* TorrentClient) only the saves are seen.  What the trackers answer is in *)
(* PeerCollection, the torrent file in Session.                            *)
(***************************************************************************)
EXTENDS FileLayout, SequencesExt

CONSTANTS kTrackers   \* the constant list of trackers

VARIABLES
    place,
    queued,          \* the pieces in the queue
    trackers,        \* those of this torrent, sorted, each once
    i,               \* trackers asked in this cycle
    all_peers,
    retry_count,
    is_terminated,
    outcome          \* of the process: "running", "success", "fatal" or "crashed"

askVars == <<i, all_peers>>
cycleVars == <<layoutVars, place, queued, trackers, askVars, retry_count, is_terminated,
               outcome>>

CycleInit ==
    /\ LayoutInit
    /\ place = "Load"
    /\ queued = {} /\ trackers = <<>>
    /\ i = 0 /\ all_peers = <<>>
    /\ retry_count = 0
    /\ is_terminated = FALSE
    /\ outcome = "running"

max_retries == 10

IsDownloadComplete == saved = Pieces

-----------------------------------------------------------------------------
LoadTorrentFile ==
    /\ place = "Load" /\ place' = "Construct"
    /\ UNCHANGED <<layoutVars, queued, trackers, askVars, retry_count, is_terminated, outcome>>

\* The file cannot be read, or the output file cannot be opened; main catches.
Fails ==
    /\ \/ place = "Load"
       \/ place = "Storage" /\ offset = 0 /\ \A k \in Pieces : Made(k)
    /\ place' = "Exit" /\ outcome' = "fatal"
    /\ UNCHANGED <<layoutVars, queued, trackers, askVars, retry_count, is_terminated>>

\* The constructor of PieceStorage: sizes, pieces, zeros.
BeginStorage(l, p, n) ==
    /\ place = "Construct" /\ place' = "Storage"
    /\ Construct(l, p, n)
    /\ UNCHANGED <<queued, trackers, askVars, retry_count, is_terminated, outcome>>

FillStorage ==
    /\ place = "Storage"
    /\ WriteChunk \/ \E k \in Pieces : PushBlock(k)
    /\ UNCHANGED <<place, queued, trackers, askVars, retry_count, is_terminated, outcome>>

\* All pieces are queued; the announced tracker and the constant ones are sorted (the
\* order is a fixed one) and each is kept once.
EndStorage(announce) ==
    /\ place = "Storage" /\ offset >= length /\ \A k \in Pieces : Made(k)
    /\ place' = "Cycle"
    /\ queued' = Pieces
    /\ trackers' = SetToSeq({announce} \cup kTrackers)
    /\ UNCHANGED <<layoutVars, askVars, retry_count, is_terminated, outcome>>

\* Slip: the counter of the trackers is not reset.
SlipKeepCount ==
    /\ place = "Cycle"
    /\ place' = IF ~is_terminated /\ ~IsDownloadComplete THEN "Ask" ELSE "Report"
    /\ all_peers' = <<>>
    /\ UNCHANGED <<layoutVars, queued, trackers, i, retry_count, is_terminated, outcome>>

\* The head of the cycle; all_peers is a local of its body.
Cycle ==
    /\ place = "Cycle"
    /\ place' = IF ~is_terminated /\ ~IsDownloadComplete THEN "Ask" ELSE "Report"
    /\ i' = 0 /\ all_peers' = <<>>
    /\ UNCHANGED <<layoutVars, queued, trackers, retry_count, is_terminated, outcome>>

UpdatePeers(peers) ==
    /\ place = "Ask" /\ i < Len(trackers)
    /\ all_peers' = all_peers \o peers
    /\ i' = i + 1
    /\ UNCHANGED <<layoutVars, place, queued, trackers, retry_count, is_terminated, outcome>>

\* The exception is printed and the next tracker is asked.
UpdatePeersThrows == UpdatePeers(<<>>)

\* Some order of addresses: a.ip < b.ip compares their texts.
Less(a, b) == \E k \in DOMAIN a : a[k] < b[k] /\ \A j \in 1 .. k - 1 : a[j] = b[j]

Before(a, b) == Less(a.ip, b.ip) \/ (a.ip = b.ip /\ a.port < b.port)

Same(a, b) == a.ip = b.ip /\ a.port = b.port

\* std::sort: how many elements come before an element, it included.
Rank(s, k) ==
    Cardinality({j \in DOMAIN s : Before(s[j], s[k]) \/ (~Before(s[k], s[j]) /\ j <= k)})

Sorted(s) == [r \in DOMAIN s |-> s[CHOOSE k \in DOMAIN s : Rank(s, k) = r]]

\* std::unique: an element equal to the one before it goes.
Unique(s) ==
    LET kept[n \in 0 .. Len(s)] ==
            IF n = 0 THEN <<>>
            ELSE IF n > 1 /\ Same(s[n - 1], s[n]) THEN kept[n - 1]
            ELSE Append(kept[n - 1], s[n])
    IN  kept[Len(s)]

\* Slip: equal peers are only found next to each other, and nothing sorts them.
SlipUnsorted(s) == Unique(s)

SortAndUnique(s) == Unique(Sorted(s))

\* All trackers were asked.  Without peers the code sleeps and starts over; an empty
\* queue with pieces missing is filled again.
Merge ==
    /\ place = "Ask" /\ i = Len(trackers)
    /\ all_peers' = SortAndUnique(all_peers)
    /\ place' = IF all_peers = <<>> THEN "Cycle" ELSE "Run"
    /\ LET refill == all_peers # <<>> /\ queued = {} /\ ~IsDownloadComplete IN
       /\ queued' = IF refill THEN Pieces \ saved ELSE queued
       /\ retry_count' = IF refill THEN retry_count + 1 ELSE retry_count
    /\ UNCHANGED <<layoutVars, trackers, i, is_terminated, outcome>>

(***************************************************************************)
(* RunDownloadMultithread.  If no PeerConnect could be made it returns at  *)
(* once; else it terminates the client when every piece is saved.  After   *)
(* it the code gives up if it has refilled the queue often enough, or      *)
(* waits and starts over.                                                  *)
(***************************************************************************)
AfterRun == IF ~IsDownloadComplete /\ retry_count >= max_retries THEN "Report" ELSE "Cycle"

RunWithoutConnections ==
    /\ place = "Run"
    /\ place' = AfterRun
    /\ UNCHANGED <<layoutVars, queued, trackers, askVars, retry_count, is_terminated, outcome>>

RunDownloadMultithread ==
    /\ place = "Run" /\ place' = "Download"
    /\ UNCHANGED <<layoutVars, queued, trackers, askVars, retry_count, is_terminated, outcome>>

\* A peer thread has taken a piece from the queue, and saves it.
SaveQueued(k) ==
    /\ place = "Download" /\ k \in queued
    /\ SavePiece(k)
    /\ queued' = queued \ {k}
    /\ UNCHANGED <<place, trackers, askVars, retry_count, is_terminated, outcome>>

EndDownload ==
    /\ place = "Download" /\ IsDownloadComplete
    /\ is_terminated' = TRUE
    /\ place' = AfterRun
    /\ UNCHANGED <<layoutVars, queued, trackers, askVars, retry_count, outcome>>

\* The report of DownloadTorrent divides by the number of pieces.  If it comes back,
\* main prints "Download completed successfully!", whatever was downloaded.
Report ==
    /\ place = "Report"
    /\ place' = "Exit"
    /\ outcome' = IF total_piece_count = 0 THEN "crashed" ELSE "success"
    /\ UNCHANGED <<layoutVars, queued, trackers, askVars, retry_count, is_terminated>>

Addresses == [ip : [1 .. 4 -> Nat], port : Nat]

CycleNext ==
    \/ LoadTorrentFile \/ Fails
    \/ \E l, n \in Nat, p \in Nat \ {0} : BeginStorage(l, p, n)
    \/ FillStorage
    \/ \E announce \in STRING : EndStorage(announce)
    \/ Cycle
    \/ \E peers \in Seq(Addresses) : UpdatePeers(peers)
    \/ Merge
    \/ RunWithoutConnections \/ RunDownloadMultithread
    \/ \E k \in Pieces : SaveQueued(k)
    \/ EndDownload \/ Report

CycleSpec == CycleInit /\ [][CycleNext]_cycleVars

-----------------------------------------------------------------------------
(***************************************************************************)
(* Properties.                                                             *)
(***************************************************************************)

\* main says "Download completed successfully!" without asking (main.cpp:68): when it
\* does, every piece was handed to a write, and if none of the writes failed the file has
\* its length and every byte of it comes from its piece, wherever blocks, chunks and saves
\* ended.  If one failed, main says it all the same: CompleteAndValid in StorageWorkers.
SuccessIsComplete ==
    outcome = "success" =>
        /\ IsDownloadComplete
        /\ ~file_bad => /\ DOMAIN file = 0 .. length - 1
                        /\ \A p \in DOMAIN file : file[p] = p \div piece_length
=============================================================================
