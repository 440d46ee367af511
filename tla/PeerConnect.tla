---------------------------- MODULE PeerConnect -----------------------------
(***************************************************************************)
(* class PeerConnect: the thread that downloads from one peer.  A step is  *)
(* what the thread does up to its next lock of PieceStorage or its next    *)
(* wait for the network.  pc[p] names the place in the code:               *)
(*                                                                         *)
(*   Run         head of the loop of Run                                   *)
(*   Connect, Handshake, Bitfield   the three waits of EstablishConnection *)
(*   Loop        head of the loop of MainLoop                              *)
(*   GetPiece, Judge   GetNextAvailablePiece, without a piece and with one *)
(*               in a local variable                                       *)
(*   NoPiece     MainLoop after GetNextAvailablePiece returned nullptr     *)
(*   Request     MainLoop with a piece, before a request                   *)
(*   Receive     waiting in ReceiveData for a message                      *)
(*   Check, Save a piece is complete: before HashMatches, before the save  *)
(*   Enqueue     between the check and the push of PieceStorage::Enqueue;  *)
(*               resume[p] is where the caller goes on                     *)
(*   Disconnect  HandleConnectionError after the piece was given back      *)
(*   Exit, Close Terminate at the end of Run                               *)
(*   Done        the thread has ended                                      *)
(*                                                                         *)
(* The remote peer is not modelled: it may send any message or fail at any *)
(* moment.  Members of Honest are peers that do what they should.          *)
(***************************************************************************)
EXTENDS PieceStorage, Piece

CONSTANTS
    Peers,             \* one PeerConnect and one thread each
    Honest,            \* peers that have all pieces and always answer correctly
    Bitfields,         \* bound: the sets of pieces a BITFIELD message may announce
    EndgameThreshold,  \* 10 in the code
    MaxFailures        \* max_total_failures, 20 in the code

ASSUME PeersAssumption ==
    /\ IsFiniteSet(Peers)
    /\ Honest \subseteq Peers
    /\ Bitfields \subseteq SUBSET Pieces
    /\ EndgameThreshold \in Nat
    /\ MaxFailures \in Nat \ {0}

VARIABLES
    blocks,               \* the blocks of every Piece object
    pc, resume,           \* control state of the peer threads
    piece,                \* piece_is_in_progress, or the local pointer (see InProgress)
    is_terminated,        \* PeerConnect::is_terminated
    is_choked,
    block_is_pending,
    total_failures,       \* local of Run
    pieces_availability,  \* what the peer announced, kept across reconnections
    connected,            \* socket is open and force_close_ is false
    crashed               \* a null PiecePtr was dereferenced: the process is gone

controlVars == <<pc, resume>>
flagVars    == <<is_choked, block_is_pending, pieces_availability>>
linkVars    == <<is_terminated, total_failures, connected>>
peerVars    == <<blocks, controlVars, piece, flagVars, linkVars, crashed>>

\* Size of a received bitfield in bytes; 0 until one was received.
BitfieldSize == (NumPieces + 7) \div 8

Places == {"Run", "Connect", "Handshake", "Bitfield", "Loop", "GetPiece", "Judge",
           "NoPiece", "Request", "Receive", "Check", "Save", "Enqueue",
           "Disconnect", "Exit", "Close", "Done"}

\* The places Enqueue is called from, named by where they continue.
Resumes == {"Loop", "GetPiece", "Disconnect", "Close"}

PeerInit ==
    /\ blocks = [o \in Objects |-> Reset]
    /\ pc = [p \in Peers |-> "Run"]
    /\ resume = [p \in Peers |-> "Loop"]
    /\ piece = [p \in Peers |-> NoObject]
    /\ is_terminated = [p \in Peers |-> FALSE]
    /\ is_choked = [p \in Peers |-> TRUE]
    /\ block_is_pending = [p \in Peers |-> FALSE]
    /\ total_failures = [p \in Peers |-> 0]
    /\ pieces_availability = [p \in Peers |-> [size |-> 0, bitfield |-> {}]]
    /\ connected = [p \in Peers |-> FALSE]
    /\ crashed = FALSE

PeerTypeOK ==
    /\ blocks \in [Objects -> BlockLists]
    /\ pc \in [Peers -> Places]
    /\ resume \in [Peers -> Resumes]
    /\ piece \in [Peers -> Objects \cup {NoObject}]
    /\ is_terminated \in [Peers -> BOOLEAN]
    /\ is_choked \in [Peers -> BOOLEAN]
    /\ block_is_pending \in [Peers -> BOOLEAN]
    /\ total_failures \in [Peers -> 0 .. MaxFailures]
    /\ pieces_availability \in [Peers -> [size : {0, BitfieldSize}, bitfield : SUBSET Pieces]]
    /\ connected \in [Peers -> BOOLEAN]
    /\ crashed \in BOOLEAN

-----------------------------------------------------------------------------
(***************************************************************************)
(* Parts of actions.                                                       *)
(***************************************************************************)
Go(p, place) == pc' = [pc EXCEPT ![p] = place]

\* A step that only decides where to go on.
Branch(p, place) ==
    /\ Go(p, place)
    /\ UNCHANGED <<storageVars, blocks, resume, piece, flagVars, linkVars, crashed>>

\* What a test of the member piece_is_in_progress sees: the object popped in
\* GetNextAvailablePiece is in a local variable until the function returns.
InProgress(p) ==
    IF pc[p] = "Judge" \/ (pc[p] = "Enqueue" /\ resume[p] = "GetPiece")
    THEN NoObject ELSE piece[p]

HoldsIncompletePiece(p) ==
    InProgress(p) # NoObject /\ ~AllBlocksRetrieved(blocks[InProgress(p)])

\* Reset and Enqueue, up to the point where Enqueue knows whether the index is
\* saved: then it returns and the caller drops the object; else it will push.
StartEnqueue(p, next) ==
    /\ blocks' = [blocks EXCEPT ![piece[p]] = Reset]
    /\ \/ /\ IsPieceAlreadySaved(Index(piece[p]))
          /\ piece' = [piece EXCEPT ![p] = NoObject]
          /\ Go(p, next)
          /\ UNCHANGED resume
       \/ /\ ~IsPieceAlreadySaved(Index(piece[p]))
          /\ resume' = [resume EXCEPT ![p] = next]
          /\ Go(p, "Enqueue")
          /\ UNCHANGED piece

\* Give back a piece in progress, then go to next.
ReturnPiece(p, next) ==
    \/ HoldsIncompletePiece(p) /\ StartEnqueue(p, next)
    \/ ~HoldsIncompletePiece(p) /\ Go(p, next) /\ UNCHANGED <<blocks, piece, resume>>

\* An exception inside the loop of MainLoop.  A terminated peer swallows it.
HandleConnectionError(p) ==
    \/ is_terminated[p] /\ Go(p, "Loop") /\ UNCHANGED <<blocks, piece, resume>>
    \/ ~is_terminated[p] /\ ReturnPiece(p, "Disconnect")

\* A method is called on a null piece_is_in_progress.
NullPiece(p) ==
    /\ piece[p] = NoObject
    /\ crashed' = TRUE
    /\ UNCHANGED <<storageVars, blocks, controlVars, piece, flagVars, linkVars>>

-----------------------------------------------------------------------------
(***************************************************************************)
(* Run and EstablishConnection.                                            *)
(***************************************************************************)
\* Slip: one failure too many.
SlipOneMoreFailure(p) ==
    /\ pc[p] = "Run"
    /\ Branch(p, IF is_terminated[p] \/ total_failures[p] > MaxFailures
                 THEN "Exit" ELSE "Connect")

\* Slip: the first failure is the last.
SlipGiveUpAtOnce(p) ==
    /\ pc[p] = "Run"
    /\ Branch(p, IF is_terminated[p] \/ total_failures[p] > 0 THEN "Exit" ELSE "Connect")

Run(p) ==
    /\ pc[p] = "Run"
    /\ Branch(p, IF is_terminated[p] \/ total_failures[p] >= MaxFailures
                 THEN "Exit" ELSE "Connect")

\* EstablishConnection catches every exception and returns false.
EstablishFails(p) ==
    /\ p \notin Honest \/ ~connected[p]
    /\ Go(p, "Run")
    /\ connected' = [connected EXCEPT ![p] = FALSE]
    /\ total_failures' = [total_failures EXCEPT ![p] = @ + 1]
    /\ UNCHANGED is_terminated

\* socket.EstablishConnection clears force_close_, whoever set it.
SocketConnects(p) ==
    /\ Go(p, "Handshake")
    /\ connected' = [connected EXCEPT ![p] = TRUE]
    /\ UNCHANGED <<is_terminated, total_failures>>

Connect(p) ==
    /\ pc[p] = "Connect"
    /\ SocketConnects(p) \/ (p \notin Honest /\ EstablishFails(p))
    /\ UNCHANGED <<storageVars, blocks, resume, piece, flagVars, crashed>>

PerformHandshake(p) ==
    /\ pc[p] = "Handshake"
    /\ \/ connected[p] /\ Go(p, "Bitfield") /\ UNCHANGED linkVars
       \/ EstablishFails(p)
    /\ UNCHANGED <<storageVars, blocks, resume, piece, flagVars, crashed>>

\* ReceiveBitfield takes exactly one message and forgets what it was unless it
\* is an UNCHOKE or a BITFIELD.
FirstMessage(p) ==
    /\ connected[p]
    /\ \/ /\ p \notin Honest
          /\ is_choked' = [is_choked EXCEPT ![p] = FALSE]
          /\ UNCHANGED pieces_availability
       \/ /\ \E bf \in IF p \in Honest THEN {Pieces} ELSE Bitfields :
                pieces_availability' =
                    [pieces_availability EXCEPT ![p] = [size |-> BitfieldSize, bitfield |-> bf]]
          /\ UNCHANGED is_choked
       \/ p \notin Honest /\ UNCHANGED <<is_choked, pieces_availability>>

\* INTERESTED is sent; Run clears its count and enters MainLoop.
SendInterested(p) ==
    /\ total_failures' = [total_failures EXCEPT ![p] = 0]
    /\ Go(p, "Loop")
    /\ UNCHANGED <<is_terminated, connected>>

ReceiveBitfield(p) ==
    /\ pc[p] = "Bitfield"
    /\ \/ FirstMessage(p) /\ (SendInterested(p) \/ EstablishFails(p))
       \/ EstablishFails(p) /\ UNCHANGED <<is_choked, pieces_availability>>
    /\ UNCHANGED <<storageVars, blocks, resume, piece, block_is_pending, crashed>>

-----------------------------------------------------------------------------
(***************************************************************************)
(* MainLoop, from its head to the wait for a message.                      *)
(***************************************************************************)
MainLoopEnds(p) == is_terminated[p] /\ Branch(p, "Run")

\* Timers are not modelled: both timeouts may pass at any moment.
InactivityTimeout(p) ==
    /\ ~is_terminated[p]
    /\ p \notin Honest
    /\ ReturnPiece(p, "Disconnect")
    /\ UNCHANGED <<storageVars, flagVars, crashed>>

\* Slip: block_is_pending stays set.
SlipTimeoutKeepsPending(p) ==
    /\ ~is_terminated[p]
    /\ block_is_pending[p]
    /\ piece[p] # NoObject
    /\ StartEnqueue(p, "Loop")
    /\ UNCHANGED <<storageVars, flagVars, crashed>>

BlockTimeout(p) ==
    /\ ~is_terminated[p]
    /\ p \notin Honest
    /\ block_is_pending[p]
    /\ piece[p] # NoObject
    /\ StartEnqueue(p, "Loop")
    /\ block_is_pending' = [block_is_pending EXCEPT ![p] = FALSE]
    /\ UNCHANGED <<storageVars, is_choked, pieces_availability, crashed>>

ChoosePiece(p) ==
    /\ ~is_terminated[p]
    /\ Branch(p, IF HoldsIncompletePiece(p) THEN "Request" ELSE "GetPiece")

Loop(p) ==
    /\ pc[p] = "Loop"
    /\ \/ MainLoopEnds(p)
       \/ InactivityTimeout(p)
       \/ BlockTimeout(p)
       \/ ChoosePiece(p)
    /\ UNCHANGED linkVars

\* The send may fail after the block was marked; the piece is then reset (and
\* the blocks of a terminated peer's piece do not matter any more).
RequestPiece(p) ==
    LET o == piece[p] IN
    /\ ~is_choked[p] /\ ~block_is_pending[p]
    /\ \E b \in Blocks :
        /\ IsFirstMissing(blocks[o], b)
        /\ \/ /\ connected[p]
              /\ blocks' = [blocks EXCEPT ![o] = MarkPending(@, b)]
              /\ block_is_pending' = [block_is_pending EXCEPT ![p] = TRUE]
              /\ Go(p, "Receive")
              /\ UNCHANGED <<piece, resume>>
           \/ /\ p \notin Honest \/ ~connected[p]
              /\ HandleConnectionError(p)
              /\ UNCHANGED block_is_pending

NothingToRequest(p) ==
    /\ is_choked[p] \/ block_is_pending[p] \/ \A b \in Blocks : blocks[piece[p]][b] # "missing"
    /\ Go(p, "Receive")
    /\ UNCHANGED <<blocks, piece, resume, block_is_pending>>

Request(p) ==
    /\ pc[p] = "Request"
    /\ \/ NullPiece(p)
       \/ /\ piece[p] # NoObject
          /\ RequestPiece(p) \/ NothingToRequest(p)
          /\ UNCHANGED <<storageVars, is_choked, pieces_availability, linkVars, crashed>>

-----------------------------------------------------------------------------
(***************************************************************************)
(* GetNextAvailablePiece.                                                  *)
(***************************************************************************)
Pop(p) ==
    /\ pc[p] = "GetPiece"
    /\ ~is_terminated[p]
    /\ \E o \in Objects :
          /\ GetNextPieceToDownload(o)
          /\ piece' = [piece EXCEPT ![p] = o]
    /\ Go(p, "Judge")
    /\ UNCHANGED <<blocks, resume, flagVars, linkVars, crashed>>

\* Slip: the loop does not look at is_terminated.
SlipAskForEver(p) ==
    /\ pc[p] = "GetPiece"
    /\ QueueIsEmpty /\ IsDownloadComplete
    /\ Branch(p, "NoPiece")

\* On an empty queue the thread asks again, without a pause, until the download is
\* complete.  (The two questions are one step: if a push comes between them, the
\* code goes on to NoPiece and MainLoop from there to the next Pop.)
FindNoPiece(p) ==
    /\ pc[p] = "GetPiece"
    /\ is_terminated[p] \/ (QueueIsEmpty /\ IsDownloadComplete)
    /\ Branch(p, "NoPiece")

IsPieceAvailable(p, i) ==
    i < 8 * pieces_availability[p].size /\ i \in pieces_availability[p].bitfield

\* Slip: off by one.
SlipEndgameLater == Cardinality(Missing) < EndgameThreshold

Endgame == Cardinality(Missing) <= EndgameThreshold

\* Slip: a piece the peer does not have is not given back.
SlipForgetPiece(p) ==
    /\ pc[p] = "Judge"
    /\ \/ /\ IsPieceAvailable(p, Index(piece[p])) \/ Endgame
          /\ Go(p, "Request")
          /\ UNCHANGED piece
       \/ /\ ~IsPieceAvailable(p, Index(piece[p])) /\ ~Endgame
          /\ Go(p, "GetPiece")
          /\ piece' = [piece EXCEPT ![p] = NoObject]
    /\ UNCHANGED <<storageVars, blocks, resume, flagVars, linkVars, crashed>>

\* In endgame a piece is tried even if the peer does not announce it.
Judge(p) ==
    /\ pc[p] = "Judge"
    /\ \/ /\ IsPieceAvailable(p, Index(piece[p])) \/ Endgame
          /\ Go(p, "Request")
          /\ UNCHANGED <<blocks, piece, resume>>
       \/ /\ ~IsPieceAvailable(p, Index(piece[p])) /\ ~Endgame
          /\ StartEnqueue(p, "GetPiece")
    /\ UNCHANGED <<storageVars, flagVars, linkVars, crashed>>

NoPiece(p) ==
    /\ pc[p] = "NoPiece"
    /\ Branch(p, IF QueueIsEmpty \/ is_terminated[p] THEN "Run" ELSE "Loop")

-----------------------------------------------------------------------------
(***************************************************************************)
(* ReceiveData and ProcessMessage.                                         *)
(***************************************************************************)
\* Time-out, closed connection, malformed message, unknown block.
ReceiveFails(p) ==
    /\ p \notin Honest \/ ~connected[p]
    /\ HandleConnectionError(p)
    /\ UNCHANGED flagVars

\* Slip: block_is_pending stays set.
SlipChokeKeepsPending(p) ==
    /\ is_choked' = [is_choked EXCEPT ![p] = TRUE]
    /\ ReturnPiece(p, "Loop")
    /\ UNCHANGED <<block_is_pending, pieces_availability>>

Choke(p) ==
    /\ p \notin Honest
    /\ is_choked' = [is_choked EXCEPT ![p] = TRUE]
    /\ block_is_pending' = [block_is_pending EXCEPT ![p] = FALSE]
    /\ ReturnPiece(p, "Loop")
    /\ UNCHANGED pieces_availability

Unchoke(p) ==
    /\ p \in Honest => is_choked[p]
    /\ is_choked' = [is_choked EXCEPT ![p] = FALSE]
    /\ Go(p, "Loop")
    /\ UNCHANGED <<blocks, piece, resume, block_is_pending, pieces_availability>>

\* SetPieceAvailability ignores the index if no bitfield was received.
Have(p, i) ==
    /\ p \notin Honest
    /\ i < 8 * pieces_availability[p].size
    /\ pieces_availability' = [pieces_availability EXCEPT ![p].bitfield = @ \cup {i}]
    /\ Go(p, "Loop")
    /\ UNCHANGED <<blocks, piece, resume, is_choked, block_is_pending>>

\* KEEPALIVE, other messages, and blocks of a piece that is not in progress.
Ignored(p) ==
    /\ p \notin Honest
    /\ Go(p, "Loop")
    /\ UNCHANGED <<blocks, piece, resume, flagVars>>

\* A block of the piece in progress, asked for (perhaps for an earlier object of
\* this index) or not; SaveBlock throws unless it is pending.
ReceiveBlock(p, b, bytes) ==
    LET o == piece[p] IN
    /\ o # NoObject
    /\ p \in Honest => CanSaveBlock(blocks[o], b) /\ bytes = "good"
    /\ \/ /\ CanSaveBlock(blocks[o], b)
          /\ blocks' = [blocks EXCEPT ![o] = SaveBlock(@, b, bytes)]
          /\ block_is_pending' = [block_is_pending EXCEPT ![p] = FALSE]
          /\ Go(p, IF AllBlocksRetrieved(SaveBlock(blocks[o], b, bytes))
                   THEN "Check" ELSE "Loop")
          /\ UNCHANGED <<piece, resume>>
       \/ /\ ~CanSaveBlock(blocks[o], b)
          /\ HandleConnectionError(p)
          /\ UNCHANGED block_is_pending
    /\ UNCHANGED <<is_choked, pieces_availability>>

Receive(p) ==
    /\ pc[p] = "Receive"
    /\ \/ ReceiveFails(p)
       \/ /\ connected[p]
          /\ \/ Choke(p)
             \/ Unchoke(p)
             \/ \E i \in Pieces : Have(p, i)
             \/ Ignored(p)
             \/ \E b \in Blocks, bytes \in Retrieved : ReceiveBlock(p, b, bytes)
    /\ UNCHANGED <<storageVars, linkVars, crashed>>

\* Slip: the hash is not looked at.
SlipSaveUnchecked(p) == pc[p] = "Check" /\ Branch(p, "Save")

\* A complete piece: a wrong hash sends it back, whoever sent the wrong bytes.
Check(p) ==
    /\ pc[p] = "Check"
    /\ \/ NullPiece(p)
       \/ /\ piece[p] # NoObject
          /\ \/ /\ HashMatches(blocks[piece[p]])
                /\ Go(p, "Save")
                /\ UNCHANGED <<blocks, piece, resume>>
             \/ /\ ~HashMatches(blocks[piece[p]])
                /\ StartEnqueue(p, "Loop")
          /\ UNCHANGED <<storageVars, flagVars, linkVars, crashed>>

\* PieceProcessed computes the hash a second time, over the same bytes.  Its
\* SavePieceToDisk does nothing for a null pointer.
Save(p) ==
    /\ pc[p] = "Save"
    /\ LET o == piece[p] IN
       \/ /\ o # NoObject
          /\ SavePieceToDisk(o, GetData(blocks[o]))
          /\ blocks' = [blocks EXCEPT ![o] = Reset]
          /\ piece' = [piece EXCEPT ![p] = NoObject]
       \/ o = NoObject /\ UNCHANGED <<storageVars, blocks, piece>>
    /\ Go(p, "Loop")
    /\ UNCHANGED <<resume, flagVars, linkVars, crashed>>

-----------------------------------------------------------------------------
(***************************************************************************)
(* The push of Enqueue, and the ways out.                                  *)
(***************************************************************************)
Enqueue(p) ==
    /\ pc[p] = "Enqueue"
    /\ \/ NullPiece(p)
       \/ /\ piece[p] # NoObject
          /\ PushToQueue(piece[p])
          /\ blocks' = [blocks EXCEPT ![piece[p]] = Reset]
          /\ piece' = [piece EXCEPT ![p] = NoObject]
          /\ Go(p, resume[p])
          /\ resume' = [resume EXCEPT ![p] = "Loop"]   \* no meaning from here on
          /\ UNCHANGED <<flagVars, linkVars, crashed>>

\* HandleConnectionError closes the socket; MainLoop rethrows and Run counts.
Disconnect(p) ==
    /\ pc[p] = "Disconnect"
    /\ block_is_pending' = [block_is_pending EXCEPT ![p] = FALSE]
    /\ connected' = [connected EXCEPT ![p] = FALSE]
    /\ total_failures' = [total_failures EXCEPT ![p] = IF is_terminated[p] THEN @ ELSE @ + 1]
    /\ Go(p, "Run")
    /\ UNCHANGED <<storageVars, blocks, resume, piece, is_choked, pieces_availability,
                   is_terminated, crashed>>

\* Slip: the piece in progress is not given back.
SlipKeepPiece(p) ==
    /\ pc[p] = "Exit"
    /\ is_terminated' = [is_terminated EXCEPT ![p] = TRUE]
    /\ Go(p, "Close")
    /\ UNCHANGED <<storageVars, blocks, resume, piece, flagVars, total_failures, connected,
                   crashed>>

\* The thread's own call of Terminate, at the end of Run.
Exit(p) ==
    /\ pc[p] = "Exit"
    /\ is_terminated' = [is_terminated EXCEPT ![p] = TRUE]
    /\ ReturnPiece(p, "Close")
    /\ UNCHANGED <<storageVars, flagVars, total_failures, connected, crashed>>

Close(p) ==
    /\ pc[p] = "Close"
    /\ connected' = [connected EXCEPT ![p] = FALSE]
    /\ Go(p, "Done")
    /\ UNCHANGED <<storageVars, blocks, resume, piece, flagVars, is_terminated,
                   total_failures, crashed>>

-----------------------------------------------------------------------------
\* Steps the thread takes by itself, and steps that wait for the remote peer.
LocalStep(p) ==
    \/ Run(p) \/ Loop(p) \/ Request(p)
    \/ Pop(p) \/ FindNoPiece(p) \/ Judge(p) \/ NoPiece(p)
    \/ Check(p) \/ Save(p) \/ Enqueue(p)
    \/ Disconnect(p) \/ Exit(p) \/ Close(p)

NetworkStep(p) ==
    Connect(p) \/ PerformHandshake(p) \/ ReceiveBitfield(p) \/ Receive(p)

PeerStep(p) == ~crashed /\ (LocalStep(p) \/ NetworkStep(p))
=============================================================================
