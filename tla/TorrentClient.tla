--------------------------- MODULE TorrentClient ----------------------------
(***************************************************************************)
(* class TorrentClient: RunDownloadMultithread, with the peer threads it   *)
(* starts, and the end of DownloadTorrent.  The main thread watches the    *)
(* storage, forces a requeue in endgame, and on completion terminates the  *)
(* peers, joins their threads and closes the file.                         *)
(*                                                                         *)
(* Terminate touches the members of a PeerConnect whose thread is running, *)
(* without a lock.  It is modelled in two steps (the test of               *)
(* piece_is_in_progress, then its use), and where both threads are at work *)
(* on the same members the outcome may be a crash.                         *)
(***************************************************************************)
EXTENDS PeerConnect

VARIABLES
    main,          \* where the main thread is
    to_terminate,  \* the peers Terminate was not called on yet
    victim         \* the peers (one or none) Terminate is at work on

mainVars == <<main, to_terminate, victim>>
vars == <<queue, saved, disk, file_open, file_bad,
          blocks, pc, resume, piece, is_terminated, is_choked, block_is_pending,
          total_failures, pieces_availability, connected, crashed,
          main, to_terminate, victim>>

MainPlaces == {"Monitor", "Requeue", "Terminate", "Return", "Finished"}

Init ==
    /\ StorageInit
    /\ PeerInit
    /\ main = "Monitor"
    /\ to_terminate = Peers
    /\ victim = {}

Held == {piece[p] : p \in Peers} \ {NoObject}

-----------------------------------------------------------------------------
(***************************************************************************)
(* The monitor loop.  It ends on completion only: the other half of its    *)
(* condition, TorrentClient::is_terminated, is set after it.               *)
(***************************************************************************)
\* Slip: the loop ends when the queue is empty.
SlipEndsOnEmptyQueue ==
    /\ main = "Monitor"
    /\ QueueIsEmpty
    /\ main' = "Terminate"
    /\ UNCHANGED <<storageVars, peerVars, to_terminate, victim>>

MonitorEnds ==
    /\ main = "Monitor"
    /\ IsDownloadComplete
    /\ main' = "Terminate"
    /\ UNCHANGED <<storageVars, peerVars, to_terminate, victim>>

\* Missing never grows, so endgame_mode, once set, is what Endgame says.
DecideRequeue ==
    /\ main = "Monitor"
    /\ ~IsDownloadComplete
    /\ Endgame
    /\ QueueIsEmpty
    /\ main' = "Requeue"
    /\ UNCHANGED <<storageVars, peerVars, to_terminate, victim>>

Requeue ==
    /\ main = "Requeue"
    /\ ForceRequeueMissingPieces(Held)
    /\ blocks' = [o \in Objects |-> IF o \in Held THEN blocks[o] ELSE Reset]
    /\ main' = "Monitor"
    /\ UNCHANGED <<controlVars, piece, flagVars, linkVars, crashed, to_terminate, victim>>

-----------------------------------------------------------------------------
(***************************************************************************)
(* PeerConnect::Terminate, called by the main thread on every peer.        *)
(***************************************************************************)
CloseConnection(p) ==
    /\ connected' = [connected EXCEPT ![p] = FALSE]
    /\ to_terminate' = to_terminate \ {p}
    /\ victim' = {}
    /\ main' = "Terminate"

Terminate(p) ==
    /\ main = "Terminate"
    /\ p \in to_terminate
    /\ is_terminated' = [is_terminated EXCEPT ![p] = TRUE]
    /\ \/ /\ HoldsIncompletePiece(p)
          /\ victim' = {p}
          /\ main' = "Return"
          /\ UNCHANGED <<connected, to_terminate>>
       \/ /\ ~HoldsIncompletePiece(p)
          /\ CloseConnection(p)
    /\ UNCHANGED <<storageVars, blocks, controlVars, piece, flagVars, total_failures, crashed>>

\* Every piece is saved by now, so that Enqueue returns early.
ReturnVictimsPiece(p) ==
    /\ main = "Return"
    /\ p \in victim
    /\ InProgress(p) # NoObject
    /\ IsPieceAlreadySaved(Index(piece[p]))
    /\ blocks' = [blocks EXCEPT ![piece[p]] = Reset]
    /\ piece' = [piece EXCEPT ![p] = NoObject]
    /\ CloseConnection(p)
    /\ UNCHANGED <<storageVars, controlVars, flagVars, is_terminated, total_failures, crashed>>

\* The peer thread let go of the piece after the test, so that the pointer is
\* null now, or it is at work on the same members: undefined behaviour.
TerminateRaces(p) ==
    /\ main = "Return"
    /\ p \in victim
    /\ crashed' = TRUE
    /\ UNCHANGED <<storageVars, blocks, controlVars, piece, flagVars, linkVars, mainVars>>

\* Slip: the threads are detached, not joined.
SlipDetach ==
    /\ main = "Terminate"
    /\ to_terminate = {}
    /\ CloseOutputFile
    /\ main' = "Finished"
    /\ UNCHANGED <<peerVars, to_terminate, victim>>

\* join waits for every thread; then CloseOutputFile, and the program reports.
JoinAndClose ==
    /\ main = "Terminate"
    /\ to_terminate = {}
    /\ \A p \in Peers : pc[p] = "Done"
    /\ CloseOutputFile
    /\ main' = "Finished"
    /\ UNCHANGED <<peerVars, to_terminate, victim>>

MainStep ==
    /\ ~crashed
    /\ \/ MonitorEnds
       \/ DecideRequeue
       \/ Requeue
       \/ JoinAndClose
       \/ \E p \in Peers : Terminate(p) \/ ReturnVictimsPiece(p) \/ TerminateRaces(p)

-----------------------------------------------------------------------------
\* The process is gone, regularly or not.  Nothing else may stop it: the monitor
\* loop goes on for ever when all peers were given up.
Ended ==
    /\ main = "Finished" \/ crashed
    /\ UNCHANGED vars

\* The monitor loop goes round without anything to do.
Wait ==
    /\ main = "Monitor" /\ ~crashed
    /\ ~IsDownloadComplete
    /\ UNCHANGED vars

Next ==
    \/ MainStep
    \/ \E p \in Peers : PeerStep(p) /\ UNCHANGED mainVars
    \/ Wait
    \/ Ended

Spec == Init /\ [][Next]_vars

-----------------------------------------------------------------------------
(***************************************************************************)
(* Fairness.  Threads are scheduled, so that every thread goes on as long  *)
(* as it need not wait for the network.  Remote peers owe nothing, except  *)
(* that the honest ones answer.  The queue is polled by the main thread    *)
(* and by threads without a piece: if it is empty again and again, some    *)
(* look of the monitor loop finds it empty; if it has a piece again and    *)
(* again when an honest peer's thread asks, that thread gets one.          *)
(***************************************************************************)
ThreadStep(p) == ~crashed /\ LocalStep(p) /\ UNCHANGED mainVars
WholeStep(p)  == PeerStep(p) /\ UNCHANGED mainVars

Scheduling == WF_vars(MainStep) /\ \A p \in Peers : WF_vars(ThreadStep(p))
Polling    ==
    /\ SF_vars(DecideRequeue /\ ~crashed)
    /\ \A p \in Honest : SF_vars(Pop(p) /\ ~crashed /\ UNCHANGED mainVars)
Answers    == \A p \in Honest : WF_vars(WholeStep(p))

FairSpec == Spec /\ Scheduling /\ Polling /\ Answers

\* As TimedSpec, but for the wait for the handshake on an open socket: that is a
\* recv without a timeout, and the remote peer may never answer.
SilentHandshake(p) == pc[p] = "Handshake" /\ connected[p]
HandshakeSpec == Spec /\ Scheduling
                      /\ \A p \in Peers : WF_vars(WholeStep(p) /\ ~SilentHandshake(p))

\* As if every wait for a remote peer had a timeout.
TimedSpec == Spec /\ Scheduling /\ \A p \in Peers : WF_vars(WholeStep(p))

-----------------------------------------------------------------------------
(***************************************************************************)
(* Properties.                                                             *)
(***************************************************************************)

\* Every variable has its type.
TypeOK ==
    /\ StorageTypeOK
    /\ PeerTypeOK
    /\ main \in MainPlaces
    /\ to_terminate \subseteq Peers
    /\ victim \subseteq Peers

\* block_is_pending says whether one block of the piece in progress is pending,
\* and never are there two: else the thread would wait for a block it did not
\* ask for, or never ask for the rest.
PendingBlocks(p) ==
    IF InProgress(p) = NoObject THEN {}
    ELSE {b \in Blocks : blocks[piece[p]][b] = "pending"}

PendingTracksBlock ==
    \A p \in Peers :
        pc[p] \in {"Loop", "Request", "Receive"} /\ ~is_terminated[p] =>
            Cardinality(PendingBlocks(p)) = IF block_is_pending[p] THEN 1 ELSE 0

\* The unprotected accesses of Terminate cannot hurt the download: when they can
\* happen at all, all pieces are saved.
CrashOnlyAfterCompletion == crashed => IsDownloadComplete

\* A thread that ended took no piece with it.
DoneHoldsNothing == \A p \in Peers : pc[p] = "Done" => piece[p] = NoObject

\* Before completion a thread ends for one reason only: max_total_failures
\* failures since its last successful handshake.
GivesUpOnlyAfterFailures ==
    \A p \in Peers :
        pc[p] = "Done" /\ ~IsDownloadComplete => total_failures[p] >= MaxFailures

\* When the program reports success every thread has ended, every piece was saved
\* and, if no write failed, every region of the closed file is right.
FinishedIntact ==
    main = "Finished" =>
        /\ \A p \in Peers : pc[p] = "Done"
        /\ ~file_open
        /\ Missing = {}
        /\ ~file_bad => \A i \in Pieces : disk[i] = "good"

\* The peer threads and the main thread keep to the protocol of StorageWorkers:
\* ownership of objects, Enqueue in two halves, save only after the hash check.
Stage(p) ==
    IF piece[p] = NoObject THEN "idle"
    ELSE IF pc[p] = "Enqueue" THEN "requeueing"
    ELSE IF pc[p] = "Save" THEN "verified"
    ELSE "working"

Content(o) ==
    IF HashMatches(blocks[o]) THEN "good"
    ELSE IF AllBlocksRetrieved(blocks[o]) THEN "bad"
    ELSE IF blocks[o] = Reset THEN "blank"
    ELSE "partial"

Storage == INSTANCE StorageWorkers WITH
    Workers <- Peers,
    held <- piece,
    stage <- [p \in Peers |-> Stage(p)],
    content <- [o \in Objects |-> Content(o)]

ImplementsStorageWorkers == Storage!Spec

\* As long as one peer is honest the download completes, whatever the others do,
\* if they are too few to keep endgame from starting.
Completes == <>IsDownloadComplete

\* If no wait for a remote peer lasts for ever, the program ends after the last
\* piece was saved: no thread is left behind for join to wait for.
EndsAfterCompletion == IsDownloadComplete ~> (main = "Finished" \/ crashed)

\* "Configurable timeouts" (README.md:11): the same, with the timeouts the code
\* has.  Not so: a thread that connects after its peer was terminated clears
\* force_close_ and may wait for a handshake for ever.
TimeoutsSuffice == EndsAfterCompletion

\* "Configurable timeouts and retries" (README.md:11), "Waiting 30s before next
\* tracker cycle..." (TorrentClient.cpp:234): when all peers were given up, the
\* client starts over with new peers.  Not so: the monitor loop has no way out.
RetriesWhenPeersGaveUp == (\A p \in Peers : pc[p] = "Done") ~> main # "Monitor"
=============================================================================
