------------------------ MODULE TorrentClientProofs -------------------------
(***************************************************************************)
(* Proofs about TorrentClient, for any number of peers, pieces and blocks. *)
(* The client implements StorageWorkers, step by step; that is proved      *)
(* together with the client's own invariant, because each needs the other: *)
(* a thread saves verified bytes only if nobody else has its object, which *)
(* is known of StorageWorkers, and a step of the client is one of          *)
(* StorageWorkers only if the thread is where it should be with its piece. *)
(***************************************************************************)
EXTENDS TorrentClient, FiniteSetTheorems, SequenceTheorems, TLAPS

\* What is proved of StorageWorkers, for the threads of TorrentClient.
SP == INSTANCE StorageWorkersProofs WITH
    Workers <- Peers,
    held <- piece,
    stage <- [p \in Peers |-> Stage(p)],
    content <- [o \in Objects |-> Content(o)]

-----------------------------------------------------------------------------
\* The main thread has left the monitor loop.
Terminating == main \in {"Terminate", "Return", "Finished"}

\* Run has left its loop: the thread is in its own call of Terminate.
Leaving(p) ==
    pc[p] \in {"Exit", "Close", "Done"} \/ (pc[p] = "Enqueue" /\ resume[p] = "Close")

\* The places where a thread has no piece.
EmptyHanded == {"Connect", "Handshake", "Bitfield", "GetPiece", "NoPiece", "Disconnect",
                "Close", "Done"}

(***************************************************************************)
(* What is known of one peer thread: who terminated it; why it leaves; and *)
(* where it may have a piece, must have one (until the main thread takes   *)
(* it away) and has an incomplete one.                                     *)
(***************************************************************************)
PeerInv(p) ==
    /\ is_terminated[p] => Terminating \/ (Leaving(p) /\ pc[p] # "Exit")
    /\ Leaving(p) => total_failures[p] >= MaxFailures \/ IsDownloadComplete
    /\ pc[p] # "Run" /\ ~Leaving(p) => total_failures[p] < MaxFailures
    /\ pc[p] \in EmptyHanded => piece[p] = NoObject
    /\ pc[p] = "Run" /\ ~is_terminated[p] => piece[p] = NoObject
    /\ pc[p] = "Judge" => piece[p] # NoObject
    /\ pc[p] \in {"Request", "Check", "Save", "Enqueue"} /\ piece[p] = NoObject => Terminating
    /\ piece[p] # NoObject /\ pc[p] \notin {"Check", "Save"} =>
          ~AllBlocksRetrieved(blocks[piece[p]])

\* What is known of the main thread, the file and the process.
MainInv ==
    /\ Terminating => IsDownloadComplete
    /\ crashed => IsDownloadComplete
    /\ file_open <=> main # "Finished"
    /\ main = "Finished" => \A p \in Peers : pc[p] = "Done"

\* The inductive invariant, with that of StorageWorkers.
Inv ==
    /\ TypeOK
    /\ MainInv
    /\ \A p \in Peers : PeerInv(p)
    /\ SP!IInv

-----------------------------------------------------------------------------
(***************************************************************************)
(* Facts about the data and the instance SP.                               *)
(***************************************************************************)

\* What the instance SP is told of Peers.
LEMMA PeersFinite == SP!IsFiniteSet(Peers)
BY PeersAssumption DEF SP!IsFiniteSet, IsFiniteSet

\* The instance SP keeps the invariant of its own steps.
LEMMA StorageInvStep ==
  ASSUME SP!IInv, [SP!Next]_SP!vars
  PROVE  SP!IInv'
BY StorageAssumption, PeersFinite, SP!TypeStep, SP!OwnershipStep, SP!BlankStep,
   SP!StageStep, SP!SavedOnceStep, SP!ClosedStep, SP!NothingLostStep, SP!DiskStep
   DEF SP!IInv

\* A null pointer is no object.
LEMMA NoObjectIsNone == NoObject \notin Objects
BY StorageAssumption DEF NoObject, Objects, Pieces

\* A reset piece has blocks (there is at least one), and none of them retrieved.
LEMMA ResetIsBlank == Reset \in BlockLists /\ ~AllBlocksRetrieved(Reset) /\ ~HashMatches(Reset)
BY PieceAssumption
   DEF Reset, BlockLists, BlockStatus, AllBlocksRetrieved, Retrieved, Blocks, HashMatches

\* What the storage knows of p's piece, in the client's terms.
LEMMA ContentMeans ==
  ASSUME TypeOK, NEW o \in Objects
  PROVE  /\ Content(o) = "good" <=> HashMatches(blocks[o])
         /\ Content(o) = "blank" <=> blocks[o] = Reset
         /\ Content(o) \in {"blank", "partial"} <=> ~AllBlocksRetrieved(blocks[o])
         /\ Content(o) \in {"blank", "partial", "good", "bad"}
BY ResetIsBlank DEF Content, HashMatches

-----------------------------------------------------------------------------
(***************************************************************************)
(* What a step means to StorageWorkers.                                    *)
(***************************************************************************)

\* A peer thread touches its own members, and the blocks of its own piece.
LEMMA Locality ==
  ASSUME TypeOK, NEW p \in Peers, PeerStep(p)
  PROVE  /\ \A q \in Peers \ {p} :
               /\ pc'[q] = pc[q] /\ resume'[q] = resume[q] /\ piece'[q] = piece[q]
               /\ is_terminated'[q] = is_terminated[q]
               /\ total_failures'[q] = total_failures[q]
               /\ block_is_pending'[q] = block_is_pending[q]
         /\ \A o \in Objects \ {piece[p]} : blocks'[o] = blocks[o]
<1> DEFINE Frame ==
         /\ \A q \in Peers \ {p} :
               /\ pc'[q] = pc[q] /\ resume'[q] = resume[q] /\ piece'[q] = piece[q]
               /\ is_terminated'[q] = is_terminated[q]
               /\ total_failures'[q] = total_failures[q]
               /\ block_is_pending'[q] = block_is_pending[q]
         /\ \A o \in Objects \ {piece[p]} : blocks'[o] = blocks[o]
<1> USE DEF TypeOK, PeerTypeOK, Branch, Go, controlVars, flagVars, linkVars
<1>1. CASE Run(p) \/ Connect(p) \/ PerformHandshake(p) \/ ReceiveBitfield(p)
  BY <1>1
     DEF Run, Connect, PerformHandshake, ReceiveBitfield, EstablishFails, SocketConnects,
         SendInterested
<1>2. CASE Loop(p)
  BY <1>2
     DEF Loop, MainLoopEnds, InactivityTimeout, BlockTimeout, ChoosePiece, ReturnPiece,
         StartEnqueue
<1>3. CASE Request(p)
  BY <1>3
     DEF Request, NullPiece, RequestPiece, NothingToRequest, HandleConnectionError,
         ReturnPiece, StartEnqueue
<1>4. CASE Pop(p) \/ FindNoPiece(p) \/ Judge(p) \/ NoPiece(p)
  BY <1>4 DEF Pop, FindNoPiece, Judge, NoPiece, StartEnqueue
<1>5. CASE Receive(p)
  BY <1>5
     DEF Receive, ReceiveFails, Choke, Unchoke, Have, Ignored, ReceiveBlock,
         HandleConnectionError, ReturnPiece, StartEnqueue
<1>6. CASE Check(p) \/ Save(p) \/ Enqueue(p)
  BY <1>6 DEF Check, Save, Enqueue, NullPiece, StartEnqueue
<1>7. CASE Disconnect(p) \/ Exit(p) \/ Close(p)
  BY <1>7 DEF Disconnect, Exit, Close, ReturnPiece, StartEnqueue
<1> QED
  BY <1>1, <1>2, <1>3, <1>4, <1>5, <1>6, <1>7 DEF PeerStep, LocalStep, NetworkStep

\* What a stutter is to the storage.
LEMMA QuietStep ==
  ASSUME UNCHANGED <<storageVars, blocks, piece>>,
         \A p \in Peers : piece[p] # NoObject =>
             pc'[p] = pc[p] \/ {pc[p], pc'[p]} \cap {"Enqueue", "Save"} = {}
  PROVE  UNCHANGED SP!vars
<1>1. \A p \in Peers : Stage(p)' = Stage(p)
  BY DEF Stage
<1>2. \A o \in Objects : Content(o)' = Content(o)
  BY DEF Content
<1>3. UNCHANGED [p \in Peers |-> Stage(p)]
  BY <1>1
<1>4. UNCHANGED [o \in Objects |-> Content(o)]
  BY <1>2
<1> QED
  BY <1>3, <1>4 DEF SP!vars, storageVars

\* The stages of all threads, when only one thread went on.
LEMMA StageUpdate ==
  ASSUME NEW p \in Peers,
         \A q \in Peers \ {p} : pc'[q] = pc[q] /\ piece'[q] = piece[q]
  PROVE  [q \in Peers |-> Stage(q)]' = [[q \in Peers |-> Stage(q)] EXCEPT ![p] = Stage(p)']
<1>1. \A q \in Peers \ {p} : Stage(q)' = Stage(q)
  BY DEF Stage
<1> QED
  BY <1>1

\* The contents of all objects, when only one object changed.
LEMMA ContentUpdate ==
  ASSUME NEW x \in Objects, \A o \in Objects \ {x} : blocks'[o] = blocks[o]
  PROVE  [o \in Objects |-> Content(o)]' =
            [[o \in Objects |-> Content(o)] EXCEPT ![x] = Content(x)']
<1>1. \A o \in Objects \ {x} : Content(o)' = Content(o)
  BY DEF Content
<1> QED
  BY <1>1

\* The thread's piece and place change, and an object it lets go is reset.
LEMMA ReleaseStep ==
  ASSUME TypeOK, NEW p \in Peers, piece[p] # NoObject,
         blocks' = [blocks EXCEPT ![piece[p]] = Reset],
         piece' = [piece EXCEPT ![p] = NoObject],
         \A q \in Peers \ {p} : pc'[q] = pc[q]
  PROVE  SP!Release(p)
<1> USE DEF TypeOK, PeerTypeOK
<1>1. PICK x \in Objects : x = piece[p]
  OBVIOUS
<1>2. [q \in Peers |-> Stage(q)]' = [[q \in Peers |-> Stage(q)] EXCEPT ![p] = "idle"]
  <2>1. Stage(p)' = "idle"
    BY DEF Stage
  <2> QED
    BY <2>1, StageUpdate
<1>3. [o \in Objects |-> Content(o)]' = [[o \in Objects |-> Content(o)] EXCEPT ![x] = "blank"]
  <2>1. Content(x)' = "blank"
    BY <1>1, ResetIsBlank DEF Content
  <2>2. \A o \in Objects \ {x} : blocks'[o] = blocks[o]
    BY <1>1
  <2> QED
    BY <1>1, <2>1, <2>2, ContentUpdate
<1> QED
  BY <1>1, <1>2, <1>3 DEF SP!Release, SP!Blanked, SP!NoObject, NoObject

\* A piece is given up because its index is saved.
LEMMA DropStep ==
  ASSUME TypeOK, NEW p \in Peers, piece[p] # NoObject, IsPieceAlreadySaved(Index(piece[p])),
         blocks' = [blocks EXCEPT ![piece[p]] = Reset],
         piece' = [piece EXCEPT ![p] = NoObject],
         \A q \in Peers \ {p} : pc'[q] = pc[q],
         UNCHANGED storageVars
  PROVE  SP!DropSaved(p)
<1>1. SP!Release(p)
  BY ReleaseStep
<1> QED
  BY <1>1
     DEF SP!DropSaved, SP!IsPieceAlreadySaved, IsPieceAlreadySaved, SP!Saved, Saved,
         SP!Index, Index, SP!NoObject, NoObject, storageVars, SP!storageVars

\* Reset and the first half of Enqueue, with a piece in progress.
LEMMA StartEnqueueStep ==
  ASSUME TypeOK, NEW p \in Peers, NEW next \in Resumes,
         piece[p] # NoObject, pc[p] \notin {"Enqueue", "Save"},
         StartEnqueue(p, next), UNCHANGED storageVars
  PROVE  SP!DropSaved(p) \/ SP!BeginEnqueue(p)
<1> USE DEF TypeOK, PeerTypeOK
<1>1. CASE IsPieceAlreadySaved(Index(piece[p]))
  BY <1>1, DropStep DEF StartEnqueue, Go
<1>2. CASE ~IsPieceAlreadySaved(Index(piece[p]))
  <2>1. /\ blocks' = [blocks EXCEPT ![piece[p]] = Reset] /\ piece' = piece
        /\ pc' = [pc EXCEPT ![p] = "Enqueue"]
    BY <1>2 DEF StartEnqueue, Go
  <2>2. Stage(p) = "working" /\ Stage(p)' = "requeueing"
    BY <2>1 DEF Stage
  <2>3. [q \in Peers |-> Stage(q)]' = [[q \in Peers |-> Stage(q)] EXCEPT ![p] = "requeueing"]
    BY <2>1, <2>2, StageUpdate
  <2>4. [o \in Objects |-> Content(o)]' =
            [[o \in Objects |-> Content(o)] EXCEPT ![piece[p]] = "blank"]
    <3>1. PICK x \in Objects : x = piece[p]
      OBVIOUS
    <3>2. Content(x)' = "blank"
      BY <2>1, <3>1, ResetIsBlank DEF Content
    <3>3. \A o \in Objects \ {x} : blocks'[o] = blocks[o]
      BY <2>1, <3>1
    <3> QED
      BY <3>1, <3>2, <3>3, ContentUpdate
  <2>5. ~SP!IsPieceAlreadySaved(SP!Index(piece[p]))
    BY <1>2
       DEF SP!IsPieceAlreadySaved, IsPieceAlreadySaved, SP!Saved, Saved, SP!Index, Index
  <2>6. UNCHANGED <<SP!storageVars, piece>>
    BY <2>1 DEF SP!storageVars, storageVars
  <2> QED
    BY <2>2, <2>3, <2>4, <2>5, <2>6 DEF SP!BeginEnqueue, SP!Blanked
<1> QED
  BY <1>1, <1>2

\* Giving back a piece in progress, where there is one.
LEMMA ReturnPieceStep ==
  ASSUME TypeOK, NEW p \in Peers, NEW next \in Resumes,
         pc[p] \notin {"Enqueue", "Save", "Judge"},
         ReturnPiece(p, next), UNCHANGED storageVars
  PROVE  SP!WorkerStep(p) \/ UNCHANGED SP!vars
<1> USE DEF TypeOK, PeerTypeOK
<1>1. CASE HoldsIncompletePiece(p) /\ StartEnqueue(p, next)
  <2>1. piece[p] # NoObject
    BY <1>1 DEF HoldsIncompletePiece, InProgress
  <2> QED
    BY <1>1, <2>1, StartEnqueueStep DEF SP!WorkerStep
<1>2. CASE Go(p, next) /\ UNCHANGED <<blocks, piece, resume>>
  BY <1>2, QuietStep DEF Go, Resumes
<1> QED
  BY <1>1, <1>2 DEF ReturnPiece

\* HandleConnectionError gives the piece back, or a terminated peer does nothing.
LEMMA ConnectionErrorStep ==
  ASSUME TypeOK, NEW p \in Peers, pc[p] \in {"Request", "Receive"},
         HandleConnectionError(p), UNCHANGED storageVars
  PROVE  SP!WorkerStep(p) \/ UNCHANGED SP!vars
<1>1. CASE Go(p, "Loop") /\ UNCHANGED <<blocks, piece, resume>>
  BY <1>1, QuietStep DEF Go, TypeOK, PeerTypeOK
<1>2. CASE ReturnPiece(p, "Disconnect")
  BY <1>2, ReturnPieceStep DEF Resumes
<1> QED
  BY <1>1, <1>2 DEF HandleConnectionError

\* Blocks of a piece in progress change: MarkPending and SaveBlock.
LEMMA FillStep ==
  ASSUME TypeOK, NEW p \in Peers, piece[p] # NoObject, pc[p] \notin {"Enqueue", "Save"},
         ~AllBlocksRetrieved(blocks[piece[p]]),
         NEW bs \in BlockLists, bs # Reset,
         NEW place \in Places \ {"Enqueue", "Save"}, Go(p, place),
         blocks' = [blocks EXCEPT ![piece[p]] = bs], piece' = piece,
         UNCHANGED storageVars
  PROVE  SP!WorkerStep(p)
<1> USE DEF TypeOK, PeerTypeOK
<1>1. PICK x \in Objects : x = piece[p]
  OBVIOUS
<1>2. Content(x) \in {"blank", "partial"}
  BY <1>1, ContentMeans
<1>3. PICK c \in {"partial", "good", "bad"} : Content(x)' = c
  BY <1>1 DEF Content
<1>4. [o \in Objects |-> Content(o)]' = [[o \in Objects |-> Content(o)] EXCEPT ![x] = c]
  <2>1. \A o \in Objects \ {x} : blocks'[o] = blocks[o]
    BY <1>1
  <2> QED
    BY <1>3, <2>1, ContentUpdate
<1>5. \A q \in Peers : Stage(q)' = Stage(q)
  BY DEF Stage, Go
<1>6. Stage(p) = "working"
  BY DEF Stage
<1>7. UNCHANGED <<SP!storageVars, piece, [q \in Peers |-> Stage(q)]>>
  BY <1>5 DEF SP!storageVars, storageVars
<1>8. SP!Fill(p, c)
  BY <1>1, <1>2, <1>4, <1>6, <1>7 DEF SP!Fill
<1> QED
  BY <1>8 DEF SP!WorkerStep

\* GetNextPieceToDownload is called only by a thread without a piece: it is a Pop.
LEMMA PopStep ==
  ASSUME TypeOK, NEW p \in Peers, PeerInv(p), Pop(p)
  PROVE  SP!WorkerStep(p)
<1> USE DEF TypeOK, PeerTypeOK
<1>1. PICK o \in Objects : GetNextPieceToDownload(o) /\ piece' = [piece EXCEPT ![p] = o]
  BY DEF Pop
<1>2. pc[p] = "GetPiece" /\ pc' = [pc EXCEPT ![p] = "Judge"] /\ blocks' = blocks
  BY DEF Pop, Go
<1>3. Stage(p) = "idle" /\ Stage(p)' = "working"
  BY <1>1, <1>2, NoObjectIsNone DEF Stage, PeerInv, EmptyHanded
<1>4. [q \in Peers |-> Stage(q)]' = [[q \in Peers |-> Stage(q)] EXCEPT ![p] = "working"]
  BY <1>1, <1>2, <1>3, StageUpdate
<1>5. UNCHANGED [x \in Objects |-> Content(x)]
  BY <1>2 DEF Content
<1>6. o \in SP!Objects /\ SP!GetNextPieceToDownload(o)
  BY <1>1
     DEF SP!GetNextPieceToDownload, GetNextPieceToDownload, SP!Objects, Objects, SP!Pieces,
         Pieces
<1>7. SP!Pop(p)
  BY <1>1, <1>3, <1>4, <1>5, <1>6 DEF SP!Pop
<1> QED
  BY <1>7 DEF SP!WorkerStep

\* A complete piece with the right hash is verified, one with a wrong hash goes back.
LEMMA CheckStep ==
  ASSUME TypeOK, NEW p \in Peers, Check(p)
  PROVE  SP!WorkerStep(p) \/ UNCHANGED SP!vars
<1> USE DEF TypeOK, PeerTypeOK
<1>1. CASE NullPiece(p)
  BY <1>1, QuietStep DEF NullPiece, controlVars
<1>2. CASE piece[p] # NoObject /\ StartEnqueue(p, "Loop") /\ UNCHANGED storageVars
  BY <1>2, StartEnqueueStep DEF Check, Resumes, SP!WorkerStep
<1>3. CASE /\ piece[p] # NoObject /\ HashMatches(blocks[piece[p]]) /\ Go(p, "Save")
           /\ UNCHANGED <<blocks, piece, storageVars>>
  <2>1. Stage(p) = "working" /\ Stage(p)' = "verified"
    BY <1>3 DEF Check, Stage, Go
  <2>2. [q \in Peers |-> Stage(q)]' = [[q \in Peers |-> Stage(q)] EXCEPT ![p] = "verified"]
    BY <1>3, <2>1, StageUpdate DEF Go
  <2>3. Content(piece[p]) = "good" /\ piece[p] \in Objects
    BY <1>3 DEF Content
  <2>4. UNCHANGED <<SP!storageVars, piece, [x \in Objects |-> Content(x)]>>
    BY <1>3 DEF Content, SP!storageVars, storageVars
  <2>5. SP!Verify(p)
    BY <2>1, <2>2, <2>3, <2>4 DEF SP!Verify, SP!HashMatches
  <2> QED
    BY <2>5 DEF SP!WorkerStep
<1> QED
  BY <1>1, <1>2, <1>3 DEF Check

\* What is saved was verified and has not changed since (StageTellsContent).
LEMMA SaveStep ==
  ASSUME TypeOK, SP!StageTellsContent, NEW p \in Peers, Save(p)
  PROVE  SP!WorkerStep(p) \/ UNCHANGED SP!vars
<1> USE DEF TypeOK, PeerTypeOK
<1>1. CASE piece[p] = NoObject
  <2>1. UNCHANGED <<storageVars, blocks, piece>> /\ Go(p, "Loop")
    BY <1>1 DEF Save
  <2> QED
    BY <1>1, <2>1, QuietStep DEF Go
<1>2. CASE piece[p] # NoObject
  <2>1. /\ SavePieceToDisk(piece[p], GetData(blocks[piece[p]]))
        /\ pc' = [pc EXCEPT ![p] = "Loop"]
        /\ blocks' = [blocks EXCEPT ![piece[p]] = Reset]
        /\ piece' = [piece EXCEPT ![p] = NoObject]
    BY <1>2 DEF Save, Go
  <2>2. SP!Release(p)
    BY <1>2, <2>1, ReleaseStep
  <2>3. Stage(p) = "verified"
    BY <1>2 DEF Save, Stage
  <2>4. Content(piece[p]) = "good" /\ piece[p] \in Objects
    <3>1. [q \in Peers |-> Stage(q)][p] = "verified"
      BY <2>3
    <3>2. [o \in Objects |-> Content(o)][piece[p]] = "good"
      BY <3>1 DEF SP!StageTellsContent
    <3> QED
      BY <1>2, <3>2
  <2>5. GetData(blocks[piece[p]]) = "good" /\ SP!GetData(piece[p]) = "good"
    BY <2>4, ContentMeans DEF GetData, SP!GetData, HashMatches
  <2>6. SP!SavePieceToDisk(piece[p], SP!GetData(piece[p]))
    BY <2>1, <2>5
       DEF SavePieceToDisk, SP!SavePieceToDisk, WriteRegion, SP!WriteRegion,
           IsPieceAlreadySaved, SP!IsPieceAlreadySaved, Saved, SP!Saved, Index, SP!Index
  <2>7. SP!Save(p)
    BY <2>2, <2>3, <2>6 DEF SP!Save
  <2> QED
    BY <2>7 DEF SP!WorkerStep
<1> QED
  BY <1>1, <1>2

\* The push at the end of Enqueue.
LEMMA EnqueueStep ==
  ASSUME TypeOK, NEW p \in Peers, Enqueue(p)
  PROVE  SP!WorkerStep(p) \/ UNCHANGED SP!vars
<1> USE DEF TypeOK, PeerTypeOK
<1>1. CASE NullPiece(p)
  BY <1>1, QuietStep DEF NullPiece, controlVars
<1>2. CASE piece[p] # NoObject
  <2>1. /\ PushToQueue(piece[p]) /\ \A q \in Peers \ {p} : pc'[q] = pc[q]
        /\ blocks' = [blocks EXCEPT ![piece[p]] = Reset]
        /\ piece' = [piece EXCEPT ![p] = NoObject]
    BY <1>2 DEF Enqueue, NullPiece, Go
  <2>2. SP!Release(p)
    BY <1>2, <2>1, ReleaseStep
  <2>3. Stage(p) = "requeueing"
    BY <1>2 DEF Enqueue, Stage
  <2>4. SP!FinishEnqueue(p)
    BY <2>1, <2>2, <2>3 DEF SP!FinishEnqueue, SP!PushToQueue, PushToQueue
  <2> QED
    BY <2>4 DEF SP!WorkerStep
<1> QED
  BY <1>1, <1>2 DEF Enqueue

\* The head of MainLoop: a timeout may give the piece back.
LEMMA LoopStep ==
  ASSUME TypeOK, NEW p \in Peers, Loop(p)
  PROVE  SP!WorkerStep(p) \/ UNCHANGED SP!vars
<1> USE DEF TypeOK, PeerTypeOK
<1>1. CASE MainLoopEnds(p) \/ ChoosePiece(p)
  BY <1>1, QuietStep DEF Loop, MainLoopEnds, ChoosePiece, Branch, Go
<1>2. CASE InactivityTimeout(p)
  BY <1>2, ReturnPieceStep DEF Loop, InactivityTimeout, Resumes
<1>3. CASE BlockTimeout(p)
  BY <1>3, StartEnqueueStep DEF Loop, BlockTimeout, Resumes, SP!WorkerStep
<1> QED
  BY <1>1, <1>2, <1>3 DEF Loop

\* A request marks a block of an incomplete piece.
LEMMA RequestStep ==
  ASSUME TypeOK, NEW p \in Peers, PeerInv(p), Request(p)
  PROVE  SP!WorkerStep(p) \/ UNCHANGED SP!vars
<1> USE DEF TypeOK, PeerTypeOK
<1>1. CASE NullPiece(p)
  BY <1>1, QuietStep DEF NullPiece, controlVars
<1>2. CASE piece[p] # NoObject /\ NothingToRequest(p) /\ UNCHANGED storageVars
  BY <1>2, QuietStep DEF Request, NothingToRequest, Go
<1>3. CASE HandleConnectionError(p) /\ UNCHANGED storageVars
  BY <1>3, ConnectionErrorStep DEF Request
<1>4. ASSUME piece[p] # NoObject, UNCHANGED <<storageVars, piece>>, Go(p, "Receive"),
             NEW b \in Blocks, IsFirstMissing(blocks[piece[p]], b),
             blocks' = [blocks EXCEPT ![piece[p]] = MarkPending(@, b)]
      PROVE  SP!WorkerStep(p)
  <2>1. PICK bs : bs = MarkPending(blocks[piece[p]], b)
    OBVIOUS
  <2>2. bs \in BlockLists /\ bs # Reset
    BY <1>4, <2>1 DEF MarkPending, BlockLists, BlockStatus, Reset
  <2>3. ~AllBlocksRetrieved(blocks[piece[p]])
    BY <1>4 DEF IsFirstMissing, AllBlocksRetrieved, Retrieved
  <2>4. blocks' = [blocks EXCEPT ![piece[p]] = bs]
    BY <1>4, <2>1
  <2>5. "Receive" \in Places \ {"Enqueue", "Save"} /\ pc[p] \notin {"Enqueue", "Save"}
    BY DEF Places, Request
  <2> QED
    BY <1>4, <2>2, <2>3, <2>4, <2>5, FillStep
<1> QED
  BY <1>1, <1>2, <1>3, <1>4 DEF Request, RequestPiece

\* GetNextAvailablePiece keeps the popped piece or gives it back.
LEMMA JudgeStep ==
  ASSUME TypeOK, NEW p \in Peers, PeerInv(p), Judge(p)
  PROVE  SP!WorkerStep(p) \/ UNCHANGED SP!vars
<1> USE DEF TypeOK, PeerTypeOK
<1>1. pc[p] = "Judge" /\ piece[p] # NoObject /\ UNCHANGED storageVars
  BY DEF Judge, PeerInv
<1>2. CASE Go(p, "Request") /\ UNCHANGED <<blocks, piece>>
  BY <1>1, <1>2, QuietStep DEF Go
<1>3. CASE StartEnqueue(p, "GetPiece")
  BY <1>1, <1>3, StartEnqueueStep DEF Resumes, SP!WorkerStep
<1> QED
  BY <1>2, <1>3 DEF Judge

\* Whatever the remote peer sends: a block goes into an incomplete piece, or the piece
\* goes back, or the storage sees nothing of it.
LEMMA ReceiveStep ==
  ASSUME TypeOK, NEW p \in Peers, PeerInv(p), Receive(p)
  PROVE  SP!WorkerStep(p) \/ UNCHANGED SP!vars
<1> USE DEF TypeOK, PeerTypeOK
<1>1. pc[p] = "Receive" /\ UNCHANGED storageVars
  BY DEF Receive
<1>2. CASE HandleConnectionError(p)
  BY <1>1, <1>2, ConnectionErrorStep
<1>3. CASE Choke(p)
  BY <1>1, <1>3, ReturnPieceStep DEF Choke, Resumes
<1>4. CASE Go(p, "Loop") /\ UNCHANGED <<blocks, piece>>
  BY <1>1, <1>4, QuietStep DEF Go
<1>5. ASSUME NEW b \in Blocks, NEW bytes \in Retrieved, ReceiveBlock(p, b, bytes),
             CanSaveBlock(blocks[piece[p]], b)
      PROVE  SP!WorkerStep(p)
  <2>1. PICK bs : bs = SaveBlock(blocks[piece[p]], b, bytes)
    OBVIOUS
  <2>2. PICK place \in {"Check", "Loop"} : Go(p, place)
    BY <1>5 DEF ReceiveBlock
  <2>3. /\ piece[p] # NoObject /\ piece' = piece
        /\ blocks' = [blocks EXCEPT ![piece[p]] = bs]
    BY <1>5, <2>1 DEF ReceiveBlock
  <2>4. bs \in BlockLists /\ bs # Reset
    BY <2>1, <2>3 DEF SaveBlock, BlockLists, BlockStatus, Retrieved, Reset
  <2>5. ~AllBlocksRetrieved(blocks[piece[p]])
    BY <1>5 DEF CanSaveBlock, AllBlocksRetrieved, Retrieved
  <2>6. place \in Places \ {"Enqueue", "Save"}
    BY <2>2 DEF Places
  <2> QED
    BY <1>1, <2>2, <2>3, <2>4, <2>5, <2>6, FillStep
<1>6. ASSUME NEW b \in Blocks, NEW bytes \in Retrieved, ReceiveBlock(p, b, bytes),
             ~CanSaveBlock(blocks[piece[p]], b)
      PROVE  HandleConnectionError(p)
  BY <1>6 DEF ReceiveBlock
<1> QED
  BY <1>2, <1>3, <1>4, <1>5, <1>6 DEF Receive, ReceiveFails, Unchoke, Have, Ignored

\* Every step of a peer thread is a step of its worker, or none.
LEMMA PeerStepRefines ==
  ASSUME TypeOK, SP!StageTellsContent, NEW p \in Peers, PeerInv(p), PeerStep(p)
  PROVE  SP!WorkerStep(p) \/ UNCHANGED SP!vars
<1> USE DEF TypeOK, PeerTypeOK
<1>1. CASE Run(p) \/ FindNoPiece(p) \/ NoPiece(p)
  BY <1>1, QuietStep DEF Run, FindNoPiece, NoPiece, Branch, Go
<1>2. CASE Connect(p) \/ PerformHandshake(p) \/ ReceiveBitfield(p)
  BY <1>2, QuietStep
     DEF Connect, PerformHandshake, ReceiveBitfield, EstablishFails, SocketConnects,
         SendInterested, Go
<1>3. CASE Disconnect(p) \/ Close(p)
  BY <1>3, QuietStep DEF Disconnect, Close, Go
<1>4. CASE Exit(p)
  BY <1>4, ReturnPieceStep DEF Exit, Resumes
<1> QED
  BY <1>1, <1>2, <1>3, <1>4, LoopStep, RequestStep, PopStep, JudgeStep, ReceiveStep,
     CheckStep, SaveStep, EnqueueStep
     DEF PeerStep, LocalStep, NetworkStep

\* Every step of the main thread is one of the storage's, or of the worker it terminates.
LEMMA MainStepRefines ==
  ASSUME TypeOK, MainInv, MainStep
  PROVE  [SP!Next]_SP!vars
<1> USE DEF TypeOK, PeerTypeOK
<1>1. CASE MonitorEnds \/ DecideRequeue
  BY <1>1, QuietStep DEF MonitorEnds, DecideRequeue, peerVars, controlVars
<1>2. CASE Requeue
  <2>1. \A o \in Objects : Content(o)' = IF o \in Held THEN Content(o) ELSE "blank"
    BY <1>2, ResetIsBlank DEF Requeue, Content
  <2>2. UNCHANGED [q \in Peers |-> Stage(q)]
    BY <1>2 DEF Requeue, Stage, controlVars
  <2>3. SP!Held = Held
    BY DEF SP!Held, Held, SP!NoObject, NoObject
  <2>4. [o \in Objects |-> Content(o)]' =
          [o \in SP!Objects |->
              IF o \in SP!Held THEN [x \in Objects |-> Content(x)][o] ELSE "blank"]
    BY <2>1, <2>3 DEF SP!Objects, Objects, SP!Pieces, Pieces
  <2>5. SP!ForceRequeueMissingPieces(SP!Held)
    <3>1. SP!Missing = Missing
      BY DEF Missing, SP!Missing, Saved, SP!Saved, Pieces, SP!Pieces
    <3>2. SP!Cardinality(Missing) = Cardinality(Missing)
      BY DEF SP!Cardinality, Cardinality
    <3>3. SP!GetMissingPieces = GetMissingPieces
      BY <3>1, <3>2 DEF GetMissingPieces, SP!GetMissingPieces
    <3>4. ASSUME NEW i, NEW inUse PROVE SP!NewObject(i, inUse) = NewObject(i, inUse)
      BY DEF NewObject, SP!NewObject
    <3>5. ForceRequeueMissingPieces(Held)
      BY <1>2 DEF Requeue
    <3> QED
      BY <2>3, <3>1, <3>2, <3>3, <3>4, <3>5
         DEF ForceRequeueMissingPieces, SP!ForceRequeueMissingPieces
  <2>6. SP!ForceRequeue
    BY <1>2, <2>2, <2>4, <2>5 DEF SP!ForceRequeue, MainInv, Requeue
  <2> QED
    BY <2>6 DEF SP!Next
<1>3. CASE JoinAndClose
  <2>1. UNCHANGED <<piece, [q \in Peers |-> Stage(q)], [o \in Objects |-> Content(o)]>>
    BY <1>3 DEF JoinAndClose, peerVars, controlVars, Stage, Content
  <2>2. SP!Close
    BY <1>3, <2>1
       DEF JoinAndClose, SP!Close, SP!CloseOutputFile, CloseOutputFile, MainInv,
           Terminating, IsDownloadComplete, SP!IsDownloadComplete, SP!workerVars
  <2> QED
    BY <2>2 DEF SP!Next
<1>4. ASSUME NEW p \in Peers, Terminate(p) \/ TerminateRaces(p)
      PROVE  UNCHANGED SP!vars
  BY <1>4, QuietStep DEF Terminate, TerminateRaces, controlVars
<1>5. ASSUME NEW p \in Peers, ReturnVictimsPiece(p)
      PROVE  SP!DropSaved(p)
  BY <1>5, DropStep DEF ReturnVictimsPiece, InProgress, controlVars
<1> QED
  BY <1>1, <1>2, <1>3, <1>4, <1>5 DEF MainStep, SP!Next

\* Every step of TorrentClient is one of StorageWorkers, or none.
LEMMA NextRefines ==
  ASSUME TypeOK, MainInv, \A p \in Peers : PeerInv(p), SP!StageTellsContent, [Next]_vars
  PROVE  [SP!Next]_SP!vars
<1>1. CASE UNCHANGED vars
  BY <1>1, QuietStep DEF vars, storageVars
<1>2. ASSUME NEW p \in Peers, SP!WorkerStep(p) \/ UNCHANGED SP!vars
      PROVE  [SP!Next]_SP!vars
  BY <1>2 DEF SP!WorkerStep, SP!Next
<1> QED
  BY <1>1, <1>2, PeerStepRefines, MainStepRefines DEF Next, Wait, Ended

-----------------------------------------------------------------------------
(***************************************************************************)
(* Every step preserves the invariant; one lemma per part.                 *)
(***************************************************************************)

\* The saved list only grows, by an index it does not have.
LEMMA SavedStep ==
  ASSUME TypeOK, [Next]_vars
  PROVE  saved' = saved \/ \E i \in Pieces \ Saved : saved' = Append(saved, i)
<1> USE DEF TypeOK, PeerTypeOK
<1>1. ASSUME NEW p \in Peers, Save(p)
      PROVE  saved' = saved \/ \E i \in Pieces \ Saved : saved' = Append(saved, i)
  <2>1. CASE piece[p] = NoObject
    BY <1>1, <2>1 DEF Save, storageVars
  <2>2. CASE piece[p] # NoObject
    <3>1. Index(piece[p]) \in Pieces
      BY <2>2 DEF Objects, Index
    <3> QED
      BY <1>1, <2>2, <3>1 DEF Save, SavePieceToDisk, IsPieceAlreadySaved
  <2> QED
    BY <2>1, <2>2
<1>2. ASSUME NEW p \in Peers, PeerStep(p), ~Save(p)
      PROVE  saved' = saved
  BY <1>2
     DEF PeerStep, LocalStep, NetworkStep, Run, Connect, PerformHandshake, ReceiveBitfield,
         Loop, Request, Pop, FindNoPiece, Judge, NoPiece, Receive, Check, Enqueue,
         Disconnect, Exit, Close, Branch, NullPiece, MainLoopEnds, InactivityTimeout,
         BlockTimeout, ChoosePiece, GetNextPieceToDownload, PushToQueue, storageVars
<1>3. CASE MainStep
  BY <1>3
     DEF MainStep, MonitorEnds, DecideRequeue, Requeue, ForceRequeueMissingPieces,
         JoinAndClose, CloseOutputFile, Terminate, ReturnVictimsPiece, TerminateRaces,
         storageVars
<1> QED
  BY <1>1, <1>2, <1>3 DEF Next, Wait, Ended, vars

\* A complete download stays complete: no index is counted twice.
LEMMA CompleteStays ==
  ASSUME TypeOK, SP!IInv, [Next]_vars, IsDownloadComplete
  PROVE  IsDownloadComplete'
<1>1. SP!Saved = SP!Pieces
  <2>1. saved \in Seq(SP!Pieces) /\ SP!SavedOnce
    BY DEF SP!IInv, SP!TypeOK, SP!StorageTypeOK
  <2>2. SP!IsDownloadComplete
    BY DEF IsDownloadComplete, SP!IsDownloadComplete
  <2> QED
    BY <2>1, <2>2, SP!CountIsEnough, StorageAssumption, PeersFinite
<1>2. Saved = Pieces
  BY <1>1 DEF SP!Saved, Saved, SP!Pieces, Pieces
<1> QED
  BY <1>2, SavedStep DEF IsDownloadComplete

-----------------------------------------------------------------------------
\* Types of the peers' variables.
LEMMA PeerTypesStep ==
  ASSUME TypeOK, NEW p \in Peers, PeerInv(p), PeerStep(p)
  PROVE  PeerTypeOK'
<1> USE DEF TypeOK, PeerTypeOK
<1>0. Reset \in BlockLists /\ MaxFailures \in Nat
  BY ResetIsBlank, PeersAssumption
<1>a. Resumes \subseteq Places
  BY DEF Resumes, Places
<1>b. ASSUME NEW next \in Resumes, StartEnqueue(p, next)
      PROVE  /\ blocks' \in [Objects -> BlockLists] /\ pc' \in [Peers -> Places]
             /\ resume' \in [Peers -> Resumes] /\ piece' \in [Peers -> Objects \cup {NoObject}]
  <2>1. pc' = [pc EXCEPT ![p] = next] \/ pc' = [pc EXCEPT ![p] = "Enqueue"]
    BY <1>b DEF StartEnqueue, Go
  <2>2. "Enqueue" \in Places /\ next \in Places
    BY <1>a DEF Places
  <2>3. blocks' = [blocks EXCEPT ![piece[p]] = Reset]
    BY <1>b DEF StartEnqueue
  <2>4. resume' = resume \/ resume' = [resume EXCEPT ![p] = next]
    BY <1>b DEF StartEnqueue
  <2>5. piece' = piece \/ piece' = [piece EXCEPT ![p] = NoObject]
    BY <1>b DEF StartEnqueue
  <2>6. pc' \in [Peers -> Places]
    BY <2>1, <2>2
  <2>7. blocks' \in [Objects -> BlockLists]
    BY <1>0, <2>3
  <2> QED
    BY <2>4, <2>5, <2>6, <2>7
<1>c. ASSUME NEW next \in Resumes, ReturnPiece(p, next)
      PROVE  /\ blocks' \in [Objects -> BlockLists] /\ pc' \in [Peers -> Places]
             /\ resume' \in [Peers -> Resumes] /\ piece' \in [Peers -> Objects \cup {NoObject}]
  BY <1>a, <1>b, <1>c DEF ReturnPiece, Go
<1>d. ASSUME HandleConnectionError(p)
      PROVE  /\ blocks' \in [Objects -> BlockLists] /\ pc' \in [Peers -> Places]
             /\ resume' \in [Peers -> Resumes] /\ piece' \in [Peers -> Objects \cup {NoObject}]
  BY <1>c, <1>d DEF HandleConnectionError, Go, Resumes, Places
<1>e. {"Loop", "GetPiece", "Disconnect", "Close"} = Resumes
  BY DEF Resumes
<1>f. ASSUME total_failures[p] < MaxFailures
      PROVE  [total_failures EXCEPT ![p] = @ + 1] \in [Peers -> 0 .. MaxFailures]
  <2>1. total_failures[p] \in 0 .. MaxFailures
    OBVIOUS
  <2>2. total_failures[p] + 1 \in 0 .. MaxFailures
    BY <1>0, <1>f, <2>1
  <2> QED
    BY <2>2
<1>1. CASE Run(p) \/ FindNoPiece(p) \/ NoPiece(p)
  BY <1>1 DEF Run, FindNoPiece, NoPiece, Branch, Go, flagVars, linkVars, Places
<1>2. CASE Connect(p) \/ PerformHandshake(p)
  <2>1. total_failures[p] < MaxFailures
    BY <1>2 DEF Connect, PerformHandshake, PeerInv, Leaving
  <2>2. /\ total_failures' = total_failures
           \/ total_failures' = [total_failures EXCEPT ![p] = @ + 1]
        /\ connected' = connected \/ \E c \in BOOLEAN : connected' = [connected EXCEPT ![p] = c]
        /\ \E place \in {"Handshake", "Bitfield", "Run"} : pc' = [pc EXCEPT ![p] = place]
        /\ UNCHANGED <<blocks, resume, piece, flagVars, is_terminated, crashed>>
    BY <1>2 DEF Connect, PerformHandshake, EstablishFails, SocketConnects, Go, linkVars
  <2>3. pc' \in [Peers -> Places]
    BY <2>2 DEF Places
  <2> QED
    BY <1>f, <2>1, <2>2, <2>3 DEF flagVars
<1>3. CASE ReceiveBitfield(p)
  <2>1. /\ pc' \in [Peers -> Places] /\ total_failures' \in [Peers -> 0 .. MaxFailures]
        /\ connected' \in [Peers -> BOOLEAN]
        /\ UNCHANGED <<blocks, resume, piece, block_is_pending, is_terminated, crashed>>
    <3>1. total_failures[p] < MaxFailures
      BY <1>3 DEF ReceiveBitfield, PeerInv, Leaving
    <3>2. /\ \/ total_failures' = [total_failures EXCEPT ![p] = 0]
             \/ total_failures' = [total_failures EXCEPT ![p] = @ + 1]
          /\ connected' = connected \/ connected' = [connected EXCEPT ![p] = FALSE]
          /\ \E place \in {"Loop", "Run"} : pc' = [pc EXCEPT ![p] = place]
          /\ UNCHANGED <<blocks, resume, piece, block_is_pending, is_terminated, crashed>>
      BY <1>3 DEF ReceiveBitfield, EstablishFails, SendInterested, Go
    <3>3. pc' \in [Peers -> Places]
      BY <3>2 DEF Places
    <3>4. [total_failures EXCEPT ![p] = 0] \in [Peers -> 0 .. MaxFailures]
      BY <1>0
    <3> QED
      BY <1>f, <3>1, <3>2, <3>3, <3>4
  <2>2. is_choked' \in [Peers -> BOOLEAN]
    BY <1>3 DEF ReceiveBitfield, FirstMessage
  <2>3. pieces_availability' \in [Peers -> [size : {0, BitfieldSize}, bitfield : SUBSET Pieces]]
    BY <1>3, PeersAssumption DEF ReceiveBitfield, FirstMessage
  <2> QED
    BY <2>1, <2>2, <2>3
<1>4. CASE Loop(p)
  BY <1>4, <1>b, <1>c, <1>e
     DEF Loop, MainLoopEnds, InactivityTimeout, BlockTimeout, ChoosePiece, Branch, Go,
         flagVars, linkVars, Places
<1>5. CASE Request(p)
  <2>1. CASE NullPiece(p)
    BY <2>1 DEF NullPiece, controlVars, flagVars, linkVars
  <2>2. CASE NothingToRequest(p) /\ UNCHANGED <<is_choked, pieces_availability, linkVars, crashed>>
    BY <2>2 DEF NothingToRequest, Go, linkVars, Places
  <2>3. CASE /\ HandleConnectionError(p) /\ UNCHANGED block_is_pending
             /\ UNCHANGED <<is_choked, pieces_availability, linkVars, crashed>>
    BY <2>3, <1>d DEF linkVars
  <2>4. ASSUME piece[p] # NoObject, NEW b \in Blocks,
               blocks' = [blocks EXCEPT ![piece[p]] = MarkPending(@, b)],
               block_is_pending' = [block_is_pending EXCEPT ![p] = TRUE],
               Go(p, "Receive"), UNCHANGED <<piece, resume>>,
               UNCHANGED <<is_choked, pieces_availability, linkVars, crashed>>
        PROVE  PeerTypeOK'
    <3>1. MarkPending(blocks[piece[p]], b) \in BlockLists
      BY <2>4 DEF MarkPending, BlockLists, BlockStatus
    <3>2. blocks' \in [Objects -> BlockLists]
      BY <2>4, <3>1
    <3>3. pc' \in [Peers -> Places]
      BY <2>4 DEF Go, Places
    <3> QED
      BY <2>4, <3>2, <3>3 DEF linkVars
  <2> QED
    BY <1>5, <2>1, <2>2, <2>3, <2>4 DEF Request, RequestPiece
<1>6. CASE Pop(p)
  BY <1>6 DEF Pop, Go, flagVars, linkVars, Places
<1>7. CASE Judge(p)
  BY <1>7, <1>b, <1>e DEF Judge, Go, flagVars, linkVars, Places
<1>8. CASE Receive(p)
  <2>1. CASE HandleConnectionError(p) /\ UNCHANGED flagVars
    BY <1>8, <2>1, <1>d DEF Receive, flagVars, linkVars
  <2>2. CASE Choke(p)
    BY <1>8, <2>2, <1>c, <1>e DEF Receive, Choke, flagVars, linkVars
  <2>3. CASE Unchoke(p) \/ Ignored(p)
    BY <1>8, <2>3 DEF Receive, Unchoke, Ignored, Go, flagVars, linkVars, Places
  <2>4. ASSUME NEW i \in Pieces, Have(p, i) PROVE PeerTypeOK'
    <3>1. pieces_availability' \in [Peers -> [size : {0, BitfieldSize}, bitfield : SUBSET Pieces]]
      BY <2>4 DEF Have
    <3> QED
      BY <1>8, <2>4, <3>1 DEF Receive, Have, Go, flagVars, linkVars, Places
  <2>5. ASSUME NEW b \in Blocks, NEW bytes \in Retrieved, ReceiveBlock(p, b, bytes)
        PROVE  PeerTypeOK'
    <3>1. piece[p] # NoObject /\ UNCHANGED <<is_choked, pieces_availability, linkVars, crashed>>
      BY <1>8, <2>5 DEF Receive, ReceiveBlock
    <3>2. CASE HandleConnectionError(p) /\ UNCHANGED block_is_pending
      BY <3>1, <3>2, <1>d DEF linkVars
    <3>3. CASE /\ blocks' = [blocks EXCEPT ![piece[p]] = SaveBlock(@, b, bytes)]
               /\ block_is_pending' = [block_is_pending EXCEPT ![p] = FALSE]
               /\ \E place \in {"Check", "Loop"} : pc' = [pc EXCEPT ![p] = place]
               /\ UNCHANGED <<piece, resume>>
      <4>1. SaveBlock(blocks[piece[p]], b, bytes) \in BlockLists
        BY <3>1 DEF SaveBlock, BlockLists, BlockStatus
      <4>2. blocks' \in [Objects -> BlockLists]
        BY <3>3, <4>1
      <4>3. pc' \in [Peers -> Places]
        BY <3>3 DEF Places
      <4> QED
        BY <3>1, <3>3, <4>2, <4>3 DEF linkVars
    <3> QED
      BY <2>5, <3>2, <3>3 DEF ReceiveBlock, Go
  <2> QED
    BY <1>8, <2>1, <2>2, <2>3, <2>4, <2>5 DEF Receive, ReceiveFails
<1>9. CASE Check(p)
  BY <1>9, <1>b, <1>e DEF Check, NullPiece, Go, controlVars, flagVars, linkVars, Places
<1>10. CASE Save(p) \/ Enqueue(p)
  <2>1. CASE NullPiece(p)
    BY <2>1 DEF NullPiece, controlVars, flagVars, linkVars
  <2>2. CASE ~NullPiece(p)
    <3>1. /\ blocks' = blocks \/ blocks' = [blocks EXCEPT ![piece[p]] = Reset]
          /\ piece' = piece \/ piece' = [piece EXCEPT ![p] = NoObject]
          /\ resume' = resume \/ resume' = [resume EXCEPT ![p] = "Loop"]
          /\ \E place \in Resumes : pc' = [pc EXCEPT ![p] = place]
          /\ UNCHANGED <<flagVars, linkVars, crashed>>
      BY <1>e, <1>10, <2>2 DEF Save, Enqueue, Go
    <3>2. blocks' \in [Objects -> BlockLists]
      BY <1>0, <3>1
    <3>3. pc' \in [Peers -> Places]
      BY <1>a, <3>1
    <3> QED
      BY <1>e, <3>1, <3>2, <3>3 DEF flagVars, linkVars
  <2> QED
    BY <2>1, <2>2
<1>11. CASE Disconnect(p) \/ Close(p)
  <2>1. /\ \/ total_failures' = total_failures
           \/ /\ total_failures[p] < MaxFailures
              /\ total_failures' = [total_failures EXCEPT ![p] = @ + 1]
        /\ block_is_pending' = block_is_pending
           \/ block_is_pending' = [block_is_pending EXCEPT ![p] = FALSE]
        /\ connected' = [connected EXCEPT ![p] = FALSE]
        /\ \E place \in {"Run", "Done"} : pc' = [pc EXCEPT ![p] = place]
        /\ UNCHANGED <<blocks, resume, piece, is_choked, pieces_availability,
                       is_terminated, crashed>>
    BY <1>11 DEF Disconnect, Close, Go, PeerInv, Leaving, flagVars
  <2>2. pc' \in [Peers -> Places]
    BY <2>1 DEF Places
  <2> QED
    BY <1>f, <2>1, <2>2
<1>12. CASE Exit(p)
  BY <1>12, <1>c, <1>e DEF Exit, flagVars, linkVars
<1> QED
  BY <1>1, <1>2, <1>3, <1>4, <1>5, <1>6, <1>7, <1>8, <1>9, <1>10, <1>11, <1>12
     DEF PeerStep, LocalStep, NetworkStep

\* Types are kept.  Those of the storage come from SP!IInv, those of the peers from
\* PeerInv: total_failures does not pass its limit because a thread at the limit exits.
LEMMA TypeStep ==
  ASSUME Inv, [Next]_vars, SP!IInv'
  PROVE  TypeOK'
<1> DEFINE Typed == /\ PeerTypeOK' /\ main' \in MainPlaces
                    /\ to_terminate' \subseteq Peers /\ victim' \subseteq Peers
<1> USE DEF Inv
<1>1. StorageTypeOK'
  <2>1. SP!StorageTypeOK'
    BY DEF SP!IInv, SP!TypeOK
  <2> QED
    BY <2>1
       DEF SP!StorageTypeOK, StorageTypeOK, SP!Objects, Objects, SP!Pieces, Pieces,
           SP!Regions, Regions
<1>2. Typed
  <2>1. CASE UNCHANGED vars
    BY <2>1 DEF vars, TypeOK, PeerTypeOK
  <2>2. ASSUME NEW p \in Peers, PeerStep(p), UNCHANGED mainVars
        PROVE  Typed
    BY <2>2, PeerTypesStep DEF TypeOK, mainVars
  <2>3. CASE MainStep
    <3> USE DEF TypeOK, PeerTypeOK, MainPlaces, mainVars, controlVars, flagVars, linkVars
    <3>1. CASE MonitorEnds \/ DecideRequeue \/ JoinAndClose
      BY <3>1 DEF MonitorEnds, DecideRequeue, JoinAndClose, peerVars
    <3>2. CASE Requeue
      BY <3>2, ResetIsBlank DEF Requeue
    <3>3. ASSUME NEW p \in Peers, Terminate(p)
          PROVE  Typed
      BY <3>3 DEF Terminate, CloseConnection
    <3>4. ASSUME NEW p \in Peers, ReturnVictimsPiece(p)
          PROVE  Typed
      <4>1. /\ blocks' = [blocks EXCEPT ![piece[p]] = Reset]
            /\ piece' = [piece EXCEPT ![p] = NoObject]
        BY <3>4 DEF ReturnVictimsPiece
      <4>2. blocks' \in [Objects -> BlockLists]
        BY <4>1, ResetIsBlank
      <4> QED
        BY <3>4, <4>1, <4>2 DEF ReturnVictimsPiece, CloseConnection
    <3>5. ASSUME NEW p \in Peers, TerminateRaces(p)
          PROVE  Typed
      BY <3>5 DEF TerminateRaces
    <3> QED
      BY <2>3, <3>1, <3>2, <3>3, <3>4, <3>5 DEF MainStep
  <2> QED
    BY <2>1, <2>2, <2>3 DEF Next, Wait, Ended
<1> QED
  BY <1>1, <1>2 DEF TypeOK

-----------------------------------------------------------------------------
\* What a step keeps for a thread that neither made it nor was made to lose its piece.
LEMMA PeerInvFrame ==
  ASSUME TypeOK, NEW q \in Peers, PeerInv(q),
         pc'[q] = pc[q], resume'[q] = resume[q], piece'[q] = piece[q],
         is_terminated'[q] = is_terminated[q], total_failures'[q] = total_failures[q],
         piece[q] # NoObject => blocks'[piece[q]] = blocks[piece[q]],
         IsDownloadComplete => IsDownloadComplete', Terminating => Terminating'
  PROVE  PeerInv(q)'
BY DEF PeerInv, Leaving, AllBlocksRetrieved

\* Reset and the first half of Enqueue, at a place where no decision depends on the piece.
LEMMA StartEnqueueInv ==
  ASSUME TypeOK, NEW p \in Peers, PeerInv(p), NEW next \in Resumes, piece[p] # NoObject,
         StartEnqueue(p, next)
  PROVE  /\ \/ pc'[p] = next /\ piece'[p] = NoObject
            \/ pc'[p] = "Enqueue" /\ resume'[p] = next /\ piece'[p] = piece[p]
         /\ piece'[p] # NoObject => ~AllBlocksRetrieved(blocks'[piece'[p]])
<1> USE DEF TypeOK, PeerTypeOK
<1>1. blocks'[piece[p]] = Reset
  BY DEF StartEnqueue
<1>2. \/ pc'[p] = next /\ piece'[p] = NoObject
      \/ pc'[p] = "Enqueue" /\ resume'[p] = next /\ piece'[p] = piece[p]
  BY DEF StartEnqueue, Go
<1> QED
  BY <1>1, <1>2, ResetIsBlank

\* The same where the thread may have no piece.
LEMMA ReturnPieceInv ==
  ASSUME TypeOK, NEW p \in Peers, PeerInv(p), NEW next \in Resumes,
         pc[p] \notin {"Judge", "Enqueue", "Check", "Save"}, ReturnPiece(p, next)
  PROVE  /\ \/ pc'[p] = next /\ piece'[p] = NoObject
            \/ /\ pc'[p] = "Enqueue" /\ resume'[p] = next
               /\ piece'[p] = piece[p] /\ piece[p] # NoObject
         /\ piece'[p] # NoObject => ~AllBlocksRetrieved(blocks'[piece'[p]])
<1>1. HoldsIncompletePiece(p) <=> piece[p] # NoObject
  BY DEF HoldsIncompletePiece, InProgress, PeerInv
<1>2. CASE HoldsIncompletePiece(p) /\ StartEnqueue(p, next)
  BY <1>1, <1>2, StartEnqueueInv
<1>3. CASE ~HoldsIncompletePiece(p) /\ Go(p, next) /\ UNCHANGED piece
  BY <1>1, <1>3 DEF Go, TypeOK, PeerTypeOK
<1> QED
  BY <1>2, <1>3 DEF ReturnPiece

\* The same for HandleConnectionError.
LEMMA ConnectionErrorInv ==
  ASSUME TypeOK, NEW p \in Peers, PeerInv(p), pc[p] \in {"Request", "Receive"},
         HandleConnectionError(p)
  PROVE  /\ \/ pc'[p] = "Loop" /\ piece'[p] = piece[p]
            \/ pc'[p] = "Disconnect" /\ piece'[p] = NoObject
            \/ pc'[p] = "Enqueue" /\ resume'[p] = "Disconnect" /\ piece'[p] # NoObject
         /\ piece'[p] # NoObject => ~AllBlocksRetrieved(blocks'[piece'[p]])
<1>1. CASE Go(p, "Loop") /\ UNCHANGED <<blocks, piece>>
  BY <1>1 DEF Go, TypeOK, PeerTypeOK, PeerInv
<1>2. CASE ReturnPiece(p, "Disconnect")
  BY <1>2, ReturnPieceInv DEF Resumes
<1> QED
  BY <1>1, <1>2 DEF HandleConnectionError

\* An object comes from the queue without blocks.
LEMMA FrontIsBlank ==
  ASSUME TypeOK, SP!IInv, NEW o \in Objects, queue # <<>>, o = Head(queue)
  PROVE  blocks[o] = Reset
<1>1. o \in SP!Queued
  <2>1. queue \in Seq(Objects)
    BY DEF TypeOK, StorageTypeOK
  <2>2. 1 \in DOMAIN queue /\ o = queue[1]
    BY <2>1
  <2> QED
    BY <2>2 DEF SP!Queued
<1>2. Content(o) = "blank"
  BY <1>1 DEF SP!IInv, SP!QueuedAreBlank
<1> QED
  BY <1>2, ContentMeans

\* A step keeps what is known of the thread that makes it.
LEMMA OwnInvStep ==
  ASSUME TypeOK, MainInv, SP!IInv, NEW p \in Peers, PeerInv(p), PeerStep(p),
         UNCHANGED mainVars, IsDownloadComplete => IsDownloadComplete'
  PROVE  PeerInv(p)'
<1> USE DEF TypeOK, PeerTypeOK, Branch, Go, mainVars
<1>1. Terminating' = Terminating /\ (Terminating => IsDownloadComplete')
  BY DEF Terminating, MainInv
<1>2. {"Loop", "GetPiece", "Disconnect", "Close"} = Resumes
  BY DEF Resumes
\* Steps that leave the piece and its blocks alone.
<1>3. CASE Run(p) \/ FindNoPiece(p) \/ NoPiece(p)
  <2>1. UNCHANGED <<blocks, piece, resume, is_terminated, total_failures>>
    BY <1>3 DEF Run, FindNoPiece, NoPiece, linkVars
  <2>2. CASE Run(p)
    <3>1. pc[p] = "Run" /\ pc'[p] \in {"Exit", "Connect"}
          /\ (pc'[p] = "Exit" <=> is_terminated[p] \/ total_failures[p] >= MaxFailures)
      BY <2>2 DEF Run
    <3>2. total_failures[p] \in Nat /\ MaxFailures \in Nat
      BY PeersAssumption
    <3> QED
      BY <1>1, <2>1, <3>1, <3>2 DEF PeerInv, Leaving, EmptyHanded
  <2>3. CASE FindNoPiece(p) \/ NoPiece(p)
    <3>1. pc[p] \in {"GetPiece", "NoPiece"} /\ pc'[p] \in {"NoPiece", "Run", "Loop"}
      BY <2>3 DEF FindNoPiece, NoPiece
    <3> QED
      BY <1>1, <2>1, <3>1 DEF PeerInv, Leaving, EmptyHanded
  <2> QED
    BY <1>3, <2>2, <2>3
<1>4. CASE Connect(p) \/ PerformHandshake(p) \/ ReceiveBitfield(p)
  <2>1. pc[p] \in {"Connect", "Handshake", "Bitfield"} /\ piece[p] = NoObject /\ ~Leaving(p)
    BY <1>4 DEF Connect, PerformHandshake, ReceiveBitfield, PeerInv, Leaving, EmptyHanded
  <2>2. piece' = piece /\ is_terminated' = is_terminated
        /\ pc'[p] \in {"Run", "Handshake", "Bitfield", "Loop"}
    BY <1>4
       DEF Connect, PerformHandshake, ReceiveBitfield, EstablishFails, SocketConnects,
           SendInterested, linkVars
  <2>3. pc'[p] # "Run" => total_failures'[p] < MaxFailures
    BY <1>4, PeersAssumption
       DEF Connect, PerformHandshake, ReceiveBitfield, EstablishFails, SocketConnects,
           SendInterested, PeerInv, Leaving, linkVars
  <2> QED
    BY <1>1, <2>1, <2>2, <2>3 DEF PeerInv, Leaving, EmptyHanded
<1>5. CASE Loop(p)
  <2>1. is_terminated' = is_terminated /\ total_failures' = total_failures /\ ~Leaving(p)
        /\ pc[p] = "Loop"
    BY <1>5 DEF Loop, linkVars, Leaving
  <2>2. CASE MainLoopEnds(p) \/ ChoosePiece(p)
    <3>1. blocks' = blocks /\ piece' = piece /\ pc'[p] \in {"Run", "Request", "GetPiece"}
          /\ (pc'[p] = "Run" => is_terminated[p])
      BY <2>1, <2>2 DEF MainLoopEnds, ChoosePiece
    <3>2. /\ pc'[p] = "Request" => piece[p] # NoObject
          /\ pc'[p] = "GetPiece" => piece[p] = NoObject
      BY <2>1, <2>2 DEF MainLoopEnds, ChoosePiece, HoldsIncompletePiece, InProgress, PeerInv
    <3> QED
      BY <1>1, <2>1, <3>1, <3>2 DEF PeerInv, Leaving, EmptyHanded
  <2>3. CASE InactivityTimeout(p)
    <3>1. /\ \/ pc'[p] = "Disconnect" /\ piece'[p] = NoObject
             \/ pc'[p] = "Enqueue" /\ resume'[p] = "Disconnect" /\ piece'[p] # NoObject
          /\ piece'[p] # NoObject => ~AllBlocksRetrieved(blocks'[piece'[p]])
      BY <1>2, <2>1, <2>3, ReturnPieceInv DEF InactivityTimeout
    <3> QED
      BY <1>1, <2>1, <3>1 DEF PeerInv, Leaving, EmptyHanded
  <2>4. CASE BlockTimeout(p)
    <3>1. /\ \/ pc'[p] = "Loop" /\ piece'[p] = NoObject
             \/ pc'[p] = "Enqueue" /\ resume'[p] = "Loop" /\ piece'[p] # NoObject
          /\ piece'[p] # NoObject => ~AllBlocksRetrieved(blocks'[piece'[p]])
      BY <1>2, <2>1, <2>4, StartEnqueueInv DEF BlockTimeout
    <3> QED
      BY <1>1, <2>1, <3>1 DEF PeerInv, Leaving, EmptyHanded
  <2> QED
    BY <1>5, <2>2, <2>3, <2>4 DEF Loop
<1>6. CASE NullPiece(p)
  <2>1. UNCHANGED <<pc, resume, piece, blocks, is_terminated, total_failures>>
    BY <1>6 DEF NullPiece, controlVars, linkVars
  <2> QED
    BY <1>1, <2>1, PeerInvFrame
<1>7. CASE Request(p) /\ ~NullPiece(p)
  <2>1. is_terminated' = is_terminated /\ total_failures' = total_failures /\ ~Leaving(p)
        /\ pc[p] = "Request" /\ piece[p] # NoObject
    BY <1>7 DEF Request, linkVars, Leaving
  <2>2. CASE NothingToRequest(p)
    BY <1>1, <2>1, <2>2 DEF NothingToRequest, PeerInv, Leaving, EmptyHanded
  <2>3. CASE HandleConnectionError(p)
    BY <1>1, <2>1, <2>3, ConnectionErrorInv DEF PeerInv, Leaving, EmptyHanded
  <2>4. ASSUME NEW b \in Blocks, blocks' = [blocks EXCEPT ![piece[p]] = MarkPending(@, b)],
               pc' = [pc EXCEPT ![p] = "Receive"], piece' = piece
        PROVE  PeerInv(p)'
    <3>1. blocks'[piece'[p]][b] = "pending"
      BY <2>1, <2>4 DEF MarkPending, BlockLists
    <3>2. ~AllBlocksRetrieved(blocks'[piece'[p]])
      BY <3>1 DEF AllBlocksRetrieved, Retrieved
    <3> QED
      BY <1>1, <2>1, <2>4, <3>2 DEF PeerInv, Leaving, EmptyHanded
  <2> QED
    BY <1>7, <2>2, <2>3, <2>4 DEF Request, RequestPiece
<1>8. CASE Pop(p)
  <2>1. PICK o \in Objects : o = Head(queue) /\ queue # <<>> /\ piece' = [piece EXCEPT ![p] = o]
    BY <1>8 DEF Pop, GetNextPieceToDownload
  <2>2. blocks[o] = Reset
    BY <2>1, FrontIsBlank
  <2>3. ~AllBlocksRetrieved(blocks'[piece'[p]]) /\ piece'[p] # NoObject
    BY <1>8, <2>1, <2>2, ResetIsBlank, NoObjectIsNone DEF Pop
  <2> QED
    BY <1>1, <1>8, <2>3 DEF Pop, PeerInv, Leaving, EmptyHanded, linkVars
<1>9. CASE Judge(p)
  <2>1. is_terminated' = is_terminated /\ total_failures' = total_failures /\ ~Leaving(p)
        /\ pc[p] = "Judge" /\ piece[p] # NoObject
    BY <1>9 DEF Judge, linkVars, Leaving, PeerInv
  <2>2. CASE pc' = [pc EXCEPT ![p] = "Request"] /\ UNCHANGED <<blocks, piece>>
    BY <1>1, <2>1, <2>2 DEF PeerInv, Leaving, EmptyHanded
  <2>3. CASE StartEnqueue(p, "GetPiece")
    <3>1. /\ \/ pc'[p] = "GetPiece" /\ piece'[p] = NoObject
             \/ pc'[p] = "Enqueue" /\ resume'[p] = "GetPiece" /\ piece'[p] = piece[p]
          /\ piece'[p] # NoObject => ~AllBlocksRetrieved(blocks'[piece'[p]])
      BY <1>2, <2>1, <2>3, StartEnqueueInv
    <3> QED
      BY <1>1, <2>1, <3>1 DEF PeerInv, Leaving, EmptyHanded
  <2> QED
    BY <1>9, <2>2, <2>3 DEF Judge
<1>10. CASE Receive(p)
  <2>1. is_terminated' = is_terminated /\ total_failures' = total_failures /\ ~Leaving(p)
        /\ pc[p] = "Receive"
    BY <1>10 DEF Receive, linkVars, Leaving
  <2>2. CASE HandleConnectionError(p)
    BY <1>1, <2>1, <2>2, ConnectionErrorInv DEF PeerInv, Leaving, EmptyHanded
  <2>3. CASE Choke(p)
    <3>1. /\ \/ pc'[p] = "Loop" /\ piece'[p] = NoObject
             \/ pc'[p] = "Enqueue" /\ resume'[p] = "Loop" /\ piece'[p] # NoObject
          /\ piece'[p] # NoObject => ~AllBlocksRetrieved(blocks'[piece'[p]])
      BY <1>2, <2>1, <2>3, ReturnPieceInv DEF Choke
    <3> QED
      BY <1>1, <2>1, <3>1 DEF PeerInv, Leaving, EmptyHanded
  <2>4. CASE pc' = [pc EXCEPT ![p] = "Loop"] /\ UNCHANGED <<blocks, piece>>
    BY <1>1, <2>1, <2>4 DEF PeerInv, Leaving, EmptyHanded
  <2>5. ASSUME NEW b \in Blocks, NEW bytes \in Retrieved, ReceiveBlock(p, b, bytes),
               CanSaveBlock(blocks[piece[p]], b)
        PROVE  PeerInv(p)'
    <3>1. PICK bs : bs = SaveBlock(blocks[piece[p]], b, bytes)
      OBVIOUS
    <3>2. /\ piece' = piece /\ piece[p] # NoObject
          /\ pc'[p] = IF AllBlocksRetrieved(bs) THEN "Check" ELSE "Loop"
          /\ blocks'[piece[p]] = bs
      BY <2>5, <3>1 DEF ReceiveBlock
    <3> QED
      BY <1>1, <2>1, <3>2 DEF PeerInv, Leaving, EmptyHanded
  <2>6. ASSUME NEW b \in Blocks, NEW bytes \in Retrieved, ReceiveBlock(p, b, bytes),
               ~CanSaveBlock(blocks[piece[p]], b)
        PROVE  HandleConnectionError(p)
    BY <2>6 DEF ReceiveBlock
  <2> QED
    BY <1>10, <2>2, <2>3, <2>4, <2>5, <2>6 DEF Receive, ReceiveFails, Unchoke, Have, Ignored
<1>11. CASE Check(p) /\ ~NullPiece(p)
  <2>1. is_terminated' = is_terminated /\ total_failures' = total_failures /\ ~Leaving(p)
        /\ pc[p] = "Check" /\ piece[p] # NoObject
    BY <1>11 DEF Check, linkVars, Leaving
  <2>2. CASE pc' = [pc EXCEPT ![p] = "Save"] /\ UNCHANGED <<blocks, piece>>
    BY <1>1, <2>1, <2>2 DEF PeerInv, Leaving, EmptyHanded
  <2>3. CASE StartEnqueue(p, "Loop")
    <3>1. /\ \/ pc'[p] = "Loop" /\ piece'[p] = NoObject
             \/ pc'[p] = "Enqueue" /\ resume'[p] = "Loop" /\ piece'[p] = piece[p]
          /\ piece'[p] # NoObject => ~AllBlocksRetrieved(blocks'[piece'[p]])
      BY <1>2, <2>1, <2>3, StartEnqueueInv
    <3> QED
      BY <1>1, <2>1, <3>1 DEF PeerInv, Leaving, EmptyHanded
  <2> QED
    BY <1>11, <2>2, <2>3 DEF Check
<1>12. CASE Save(p) \/ (Enqueue(p) /\ ~NullPiece(p))
  <2>1. /\ is_terminated' = is_terminated /\ total_failures' = total_failures
        /\ piece'[p] = NoObject
        /\ \/ pc[p] = "Save" /\ pc'[p] = "Loop"
           \/ pc[p] = "Enqueue" /\ pc'[p] = resume[p]
    BY <1>12 DEF Save, Enqueue, linkVars
  <2>2. resume[p] \in Resumes
    OBVIOUS
  <2> QED
    BY <1>1, <1>2, <2>1, <2>2 DEF PeerInv, Leaving, EmptyHanded
<1>13. CASE Disconnect(p) \/ Close(p)
  BY <1>1, <1>13 DEF Disconnect, Close, PeerInv, Leaving, EmptyHanded
<1>14. CASE Exit(p)
  <2>1. /\ \/ pc'[p] = "Close" /\ piece'[p] = NoObject
           \/ pc'[p] = "Enqueue" /\ resume'[p] = "Close" /\ piece'[p] # NoObject
        /\ piece'[p] # NoObject => ~AllBlocksRetrieved(blocks'[piece'[p]])
    BY <1>2, <1>14, ReturnPieceInv DEF Exit
  <2>2. total_failures' = total_failures /\ Leaving(p)
    BY <1>14 DEF Exit, Leaving
  <2> QED
    BY <1>1, <2>1, <2>2 DEF PeerInv, Leaving, EmptyHanded
<1> QED
  BY <1>3, <1>4, <1>5, <1>6, <1>7, <1>8, <1>9, <1>10, <1>11, <1>12, <1>13, <1>14
     DEF PeerStep, LocalStep, NetworkStep

\* A step of the main thread keeps what is known of every peer thread.
LEMMA MainKeepsPeers ==
  ASSUME TypeOK, MainInv, NEW q \in Peers, PeerInv(q), MainStep,
         IsDownloadComplete => IsDownloadComplete'
  PROVE  PeerInv(q)'
<1> USE DEF TypeOK, PeerTypeOK
<1>1. CASE MonitorEnds \/ DecideRequeue \/ JoinAndClose
  BY <1>1, PeerInvFrame
     DEF MonitorEnds, DecideRequeue, JoinAndClose, peerVars, controlVars, linkVars,
         Terminating
<1>2. CASE Requeue
  <2>1. piece[q] # NoObject => piece[q] \in Held /\ piece[q] \in Objects
    BY DEF Held
  <2>2. piece[q] # NoObject => blocks'[piece[q]] = blocks[piece[q]]
    BY <1>2, <2>1 DEF Requeue
  <2> QED
    BY <1>2, <2>2, PeerInvFrame DEF Requeue, controlVars, linkVars, Terminating
<1>3. ASSUME NEW p \in Peers, Terminate(p)
      PROVE  PeerInv(q)'
  <2>1. Terminating /\ Terminating' /\ UNCHANGED <<blocks, pc, resume, piece, total_failures>>
    BY <1>3 DEF Terminate, CloseConnection, controlVars, Terminating
  <2>2. is_terminated'[q] = is_terminated[q] \/ is_terminated'[q]
    BY <1>3 DEF Terminate
  <2> QED
    BY <2>1, <2>2 DEF PeerInv, Leaving
<1>4. ASSUME NEW p \in Peers, ReturnVictimsPiece(p)
      PROVE  PeerInv(q)'
  <2>1. /\ Terminating /\ Terminating' /\ UNCHANGED <<pc, resume, is_terminated, total_failures>>
        /\ piece' = [piece EXCEPT ![p] = NoObject]
        /\ blocks' = [blocks EXCEPT ![piece[p]] = Reset]
        /\ pc[p] # "Judge"
    BY <1>4 DEF ReturnVictimsPiece, CloseConnection, controlVars, Terminating, InProgress
  <2>2. piece'[q] # NoObject => piece'[q] = piece[q] /\ q # p
    BY <2>1
  <2>3. piece'[q] # NoObject => blocks'[piece[q]] = blocks[piece[q]] \/ blocks'[piece[q]] = Reset
    BY <2>1, <2>2
  <2>4. pc[q] = "Judge" => piece'[q] # NoObject
    BY <2>1 DEF PeerInv
  <2> QED
    BY <2>1, <2>2, <2>3, <2>4, ResetIsBlank DEF PeerInv, Leaving
<1>5. ASSUME NEW p \in Peers, TerminateRaces(p)
      PROVE  PeerInv(q)'
  BY <1>5, PeerInvFrame DEF TerminateRaces, controlVars, linkVars, mainVars, Terminating
<1> QED
  BY <1>1, <1>2, <1>3, <1>4, <1>5 DEF MainStep

\* The main thread and the end of the process.
LEMMA MainInvStep ==
  ASSUME TypeOK, MainInv, \A p \in Peers : PeerInv(p), [Next]_vars,
         IsDownloadComplete => IsDownloadComplete'
  PROVE  MainInv'
<1> USE DEF TypeOK, PeerTypeOK
<1>1. ASSUME NEW p \in Peers, PeerStep(p), UNCHANGED mainVars
      PROVE  MainInv'
  <2>1. CASE NullPiece(p) /\ pc[p] \in {"Request", "Check", "Enqueue"}
    BY <1>1, <2>1
       DEF NullPiece, PeerInv, MainInv, Terminating, controlVars, mainVars, storageVars
  <2>2. CASE ~(NullPiece(p) /\ pc[p] \in {"Request", "Check", "Enqueue"})
    <3>1. crashed' = crashed /\ file_open' = file_open
      BY <1>1, <2>2
         DEF PeerStep, LocalStep, NetworkStep, Run, Connect, PerformHandshake,
             ReceiveBitfield, Loop, Request, Pop, FindNoPiece, Judge, NoPiece, Receive,
             Check, Save, Enqueue, Disconnect, Exit, Close, Branch, MainLoopEnds,
             InactivityTimeout, BlockTimeout, ChoosePiece, GetNextPieceToDownload,
             PushToQueue, SavePieceToDisk, storageVars
    <3>2. pc[p] # "Done"
      BY <1>1
         DEF PeerStep, LocalStep, NetworkStep, Run, Connect, PerformHandshake,
             ReceiveBitfield, Loop, Request, Pop, FindNoPiece, Judge, NoPiece, Receive,
             Check, Save, Enqueue, Disconnect, Exit, Close
    <3> QED
      BY <1>1, <3>1, <3>2 DEF MainInv, Terminating, mainVars
  <2> QED
    BY <2>1, <2>2
<1>2. CASE MonitorEnds \/ DecideRequeue \/ Requeue \/ JoinAndClose
  BY <1>2
     DEF MonitorEnds, DecideRequeue, Requeue, JoinAndClose, ForceRequeueMissingPieces,
         CloseOutputFile, MainInv, Terminating, storageVars, peerVars, controlVars
<1>3. ASSUME NEW p \in Peers, Terminate(p) \/ ReturnVictimsPiece(p) \/ TerminateRaces(p)
      PROVE  MainInv'
  BY <1>3
     DEF Terminate, ReturnVictimsPiece, TerminateRaces, CloseConnection, MainInv,
         Terminating, storageVars, controlVars, mainVars
<1>4. CASE UNCHANGED vars
  BY <1>4 DEF vars, MainInv, Terminating
<1> QED
  BY <1>1, <1>2, <1>3, <1>4 DEF Next, MainStep, Wait, Ended

-----------------------------------------------------------------------------
(***************************************************************************)
(* Where it starts, and all parts together.                                *)
(***************************************************************************)

\* The client starts as StorageWorkers does.
LEMMA InitRefines == Init => SP!Init
<1> SUFFICES ASSUME Init PROVE SP!Init
  OBVIOUS
<1>1. \A p \in Peers : Stage(p) = "idle"
  BY DEF Init, PeerInit, Stage
<1>2. \A o \in Objects : Content(o) = "blank"
  BY ResetIsBlank DEF Init, PeerInit, Content
<1>3. [o \in Objects |-> Content(o)] = [o \in SP!Objects |-> "blank"]
  BY <1>2 DEF Objects, SP!Objects, Pieces, SP!Pieces
<1>4. SP!StorageInit
  BY DEF Init, StorageInit, SP!StorageInit, InitializeOutputFile, SP!InitializeOutputFile,
     Pieces, SP!Pieces
<1> QED
  BY <1>1, <1>3, <1>4 DEF Init, PeerInit, SP!Init, NoObject, SP!NoObject

\* Initially the invariant holds.
LEMMA InitInv == Init => Inv
<1> SUFFICES ASSUME Init PROVE Inv
  OBVIOUS
<1>1. SP!IInv
  BY InitRefines, StorageAssumption, PeersFinite, SP!InitIInv
<1>2. TypeOK
  <2>1. StorageTypeOK
    BY <1>1
       DEF SP!IInv, SP!TypeOK, SP!StorageTypeOK, StorageTypeOK, SP!Objects, Objects,
           SP!Pieces, Pieces, SP!Regions, Regions
  <2>2. PeerTypeOK
    <3>1. 0 \in 0 .. MaxFailures
      BY PeersAssumption
    <3>2. [size |-> 0, bitfield |-> {}] \in [size : {0, BitfieldSize}, bitfield : SUBSET Pieces]
      OBVIOUS
    <3>3. "Run" \in Places /\ "Loop" \in Resumes
      BY DEF Places, Resumes
    <3> QED
      BY <3>1, <3>2, <3>3, ResetIsBlank DEF Init, PeerInit, PeerTypeOK
  <2> QED
    BY <2>1, <2>2 DEF TypeOK, Init, MainPlaces
<1>3. MainInv
  BY DEF MainInv, Terminating, Init, StorageInit, PeerInit, InitializeOutputFile
<1>4. \A p \in Peers : PeerInv(p)
  BY PeersAssumption DEF PeerInv, Leaving, EmptyHanded, Init, PeerInit
<1> QED
  BY <1>1, <1>2, <1>3, <1>4 DEF Inv

\* Every step keeps it.  The order matters: the refinement of this step comes from the
\* invariant before it, and gives the storage part of the invariant after it.
LEMMA InvStep == Inv /\ [Next]_vars => Inv'
<1> SUFFICES ASSUME Inv, [Next]_vars PROVE Inv'
  OBVIOUS
<1>1. [SP!Next]_SP!vars
  BY NextRefines DEF Inv, SP!IInv
<1>2. SP!IInv'
  BY <1>1, StorageInvStep DEF Inv
<1>3. TypeOK'
  BY <1>2, TypeStep
<1>4. IsDownloadComplete => IsDownloadComplete'
  BY CompleteStays DEF Inv
<1>5. MainInv'
  BY <1>4, MainInvStep DEF Inv
<1>6. ASSUME NEW q \in Peers PROVE PeerInv(q)'
  <2> USE DEF Inv
  <2>1. CASE MainStep
    BY <1>4, <2>1, MainKeepsPeers
  <2>2. CASE UNCHANGED vars
    BY <1>4, <2>2, PeerInvFrame DEF vars, Terminating
  <2>3. CASE PeerStep(q) /\ UNCHANGED mainVars
    BY <1>4, <2>3, OwnInvStep
  <2>4. ASSUME NEW p \in Peers \ {q}, PeerStep(p), UNCHANGED mainVars
        PROVE  PeerInv(q)'
    <3>1. piece[q] # NoObject => piece[q] \in Objects /\ piece[q] # piece[p]
      BY DEF SP!IInv, SP!ExclusiveOwnership, TypeOK, PeerTypeOK, SP!NoObject, NoObject
    <3>2. Terminating' = Terminating
      BY <2>4 DEF Terminating, mainVars
    <3> QED
      BY <1>4, <2>4, <3>1, <3>2, Locality, PeerInvFrame
  <2> QED
    BY <2>1, <2>2, <2>3, <2>4 DEF Next, Wait, Ended
<1> QED
  BY <1>2, <1>3, <1>5, <1>6 DEF Inv

-----------------------------------------------------------------------------
(***************************************************************************)
(* The theorems.                                                           *)
(***************************************************************************)

\* The invariant holds in every reachable state, for any number of peers, pieces and
\* blocks.
THEOREM ClientInvariance == Spec => []Inv
BY InitInv, InvStep, PTL DEF Spec

\* Every variable keeps its type; no thread fails more than MaxFailures times in a row.
THEOREM ClientTypeCorrect == Spec => []TypeOK
<1>1. Inv => TypeOK
  BY DEF Inv
<1> QED
  BY <1>1, ClientInvariance, PTL

\* The unprotected accesses of Terminate (PeerConnect.cpp) hurt a finished download at
\* most: a null piece is only met when all pieces are saved.
THEOREM CrashIsHarmless == Spec => []CrashOnlyAfterCompletion
<1>1. Inv => CrashOnlyAfterCompletion
  BY DEF Inv, MainInv, CrashOnlyAfterCompletion
<1> QED
  BY <1>1, ClientInvariance, PTL

\* No thread ends with a piece in its hands, wherever Terminate caught it.
THEOREM NothingLeftBehind == Spec => []DoneHoldsNothing
<1>1. Inv => DoneHoldsNothing
  BY DEF Inv, PeerInv, EmptyHanded, DoneHoldsNothing
<1> QED
  BY <1>1, ClientInvariance, PTL

\* Before completion no thread ends but after max_total_failures failures.
THEOREM PeersArePersistent == Spec => []GivesUpOnlyAfterFailures
<1>1. Inv => GivesUpOnlyAfterFailures
  BY DEF Inv, PeerInv, Leaving, GivesUpOnlyAfterFailures
<1> QED
  BY <1>1, ClientInvariance, PTL

\* When RunDownloadMultithread has joined its threads and closed the file, every piece is
\* saved, and every byte verified if no write failed.
THEOREM FinishIsTrue == Spec => []FinishedIntact
<1>1. Inv => FinishedIntact
  <2> SUFFICES ASSUME Inv, main = "Finished"
               PROVE  /\ \A p \in Peers : pc[p] = "Done"
                      /\ ~file_open
                      /\ Missing = {}
                      /\ ~file_bad => \A i \in Pieces : disk[i] = "good"
    BY DEF FinishedIntact
  <2>1. ~file_open /\ \A p \in Peers : pc[p] = "Done"
    BY DEF Inv, MainInv
  <2>2. Missing = {}
    BY <2>1
       DEF Inv, SP!IInv, SP!ClosedMeansAll, SP!Missing, Missing, SP!Saved, Saved, SP!Pieces,
           Pieces
  <2>3. ~file_bad => \A i \in Pieces : disk[i] = "good"
    BY <2>2 DEF Inv, SP!IInv, SP!DiskVerified, SP!Saved, Saved, SP!Pieces, Pieces, Missing
  <2> QED
    BY <2>1, <2>2, <2>3
<1> QED
  BY <1>1, ClientInvariance, PTL
\* The instances SP and Storage (of TorrentClient) are of the same module.
LEMMA SameNames ==
    /\ Storage!Pieces = SP!Pieces /\ Storage!Objects = SP!Objects
    /\ Storage!NoObject = SP!NoObject
    /\ Storage!Saved = SP!Saved /\ Storage!Missing = SP!Missing /\ Storage!Held = SP!Held
BY DEF Storage!Pieces, SP!Pieces, Storage!Objects, SP!Objects, Storage!NoObject,
   SP!NoObject, Storage!Saved, SP!Saved, Storage!Missing, SP!Missing, Storage!Held, SP!Held

\* A step of the one is a step of the other.
LEMMA SameNext == [SP!Next]_SP!vars => [Storage!Next]_Storage!vars
<1> SUFFICES ASSUME [SP!Next]_SP!vars PROVE [Storage!Next]_Storage!vars
  OBVIOUS
<1> USE SameNames
<1>0. ASSUME NEW i PROVE Storage!IsPieceAlreadySaved(i) <=> SP!IsPieceAlreadySaved(i)
  BY DEF Storage!IsPieceAlreadySaved, SP!IsPieceAlreadySaved
<1>1. ASSUME NEW o PROVE Storage!Index(o) = SP!Index(o)
  BY DEF Storage!Index, SP!Index
<1>2. ASSUME NEW w \in Peers, SP!Release(w) PROVE Storage!Release(w)
  BY <1>2 DEF SP!Release, Storage!Release, SP!Blanked, Storage!Blanked
<1>3. ASSUME NEW w \in Peers, SP!Pop(w) PROVE Storage!Pop(w)
  BY <1>3 DEF SP!Pop, Storage!Pop, SP!GetNextPieceToDownload, Storage!GetNextPieceToDownload
<1>4. ASSUME NEW w \in Peers, NEW c \in {"partial", "good", "bad"}, SP!Fill(w, c)
      PROVE  Storage!Fill(w, c)
  BY <1>4 DEF SP!Fill, Storage!Fill, SP!storageVars, Storage!storageVars
<1>5. ASSUME NEW w \in Peers, SP!Verify(w) PROVE Storage!Verify(w)
  BY <1>5
     DEF SP!Verify, Storage!Verify, SP!HashMatches, Storage!HashMatches, SP!storageVars,
         Storage!storageVars
<1>6. ASSUME NEW w \in Peers, SP!Save(w) PROVE Storage!Save(w)
  BY <1>0, <1>1, <1>2, <1>6
     DEF SP!Save, Storage!Save, SP!SavePieceToDisk, Storage!SavePieceToDisk, SP!WriteRegion,
         Storage!WriteRegion, SP!GetData, Storage!GetData
<1>7. ASSUME NEW w \in Peers, SP!BeginEnqueue(w) PROVE Storage!BeginEnqueue(w)
  BY <1>0, <1>1, <1>7
     DEF SP!BeginEnqueue, Storage!BeginEnqueue, SP!Blanked, Storage!Blanked, SP!storageVars,
         Storage!storageVars
<1>8. ASSUME NEW w \in Peers, SP!FinishEnqueue(w) PROVE Storage!FinishEnqueue(w)
  BY <1>2, <1>8
     DEF SP!FinishEnqueue, Storage!FinishEnqueue, SP!PushToQueue, Storage!PushToQueue
<1>9. ASSUME NEW w \in Peers, SP!DropSaved(w) PROVE Storage!DropSaved(w)
  BY <1>0, <1>1, <1>2, <1>9
     DEF SP!DropSaved, Storage!DropSaved, SP!storageVars, Storage!storageVars
<1>10. ASSUME SP!ForceRequeue PROVE Storage!ForceRequeue
  <2>1. Storage!Cardinality(SP!Missing) = SP!Cardinality(SP!Missing)
    BY DEF Storage!Cardinality, SP!Cardinality
  <2>2. Storage!GetMissingPieces = SP!GetMissingPieces
    BY <2>1 DEF Storage!GetMissingPieces, SP!GetMissingPieces
  <2>3. ASSUME NEW i, NEW inUse PROVE Storage!NewObject(i, inUse) = SP!NewObject(i, inUse)
    BY DEF Storage!NewObject, SP!NewObject
  <2>4. Storage!ForceRequeueMissingPieces(SP!Held)
    BY <1>10, <2>1, <2>2, <2>3
       DEF SP!ForceRequeue, SP!ForceRequeueMissingPieces, Storage!ForceRequeueMissingPieces
  <2> QED
    BY <1>10, <2>4 DEF SP!ForceRequeue, Storage!ForceRequeue
<1>11. ASSUME SP!Close PROVE Storage!Close
  BY <1>11
     DEF SP!Close, Storage!Close, SP!CloseOutputFile, Storage!CloseOutputFile,
         SP!IsDownloadComplete, Storage!IsDownloadComplete, SP!workerVars,
         Storage!workerVars
<1>12. ASSUME UNCHANGED SP!vars PROVE UNCHANGED Storage!vars
  BY <1>12 DEF SP!vars, Storage!vars
<1> QED
  BY <1>3, <1>4, <1>5, <1>6, <1>7, <1>8, <1>9, <1>10, <1>11, <1>12
     DEF SP!Next, Storage!Next, SP!Finished

\* And so is an initial state.
LEMMA SameInit == SP!Init => Storage!Init
BY SameNames
   DEF SP!Init, Storage!Init, SP!StorageInit, Storage!StorageInit, SP!InitializeOutputFile,
       Storage!InitializeOutputFile

\* Threads, timeouts, disconnections, chokes and Terminate: whatever happens, the client
\* keeps to the protocol of StorageWorkers, so that what is proved of it holds here.
THEOREM ClientRefinement == Spec => ImplementsStorageWorkers
<1>1. Init => Storage!Init
  BY InitRefines, SameInit
<1>2. Inv /\ [Next]_vars => [Storage!Next]_Storage!vars
  BY NextRefines, SameNext DEF Inv, SP!IInv
<1> QED
  BY <1>1, <1>2, ClientInvariance, PTL DEF Spec, ImplementsStorageWorkers, Storage!Spec

-----------------------------------------------------------------------------
(***************************************************************************)
(* The flag block_is_pending of a PeerConnect agrees with the blocks of    *)
(* its piece, at every decision of MainLoop, for any number of peers,      *)
(* pieces and blocks.  The flag and the status of the block are kept in    *)
(* different objects.  A request sets both; the answer, the block timeout, *)
(* a CHOKE and a disconnection clear the flag, each on its own way with    *)
(* the block.                                                              *)
(***************************************************************************)

\* The flag block_is_pending tells of the one pending block of p's piece.
Tracks(p) ==
    IF block_is_pending[p]
    THEN /\ piece[p] # NoObject
         /\ \E b \in Blocks : \A c \in Blocks : blocks[piece[p]][c] = "pending" <=> c = b
    ELSE piece[p] # NoObject => \A c \in Blocks : blocks[piece[p]][c] # "pending"

\* The places where the flag is not looked at before Disconnect clears it, or never.
FlagIsStale(p) ==
    \/ pc[p] \in {"Disconnect", "Exit", "Close", "Done"}
    \/ pc[p] = "Enqueue" /\ resume[p] \in {"Disconnect", "Close"}

InMainLoop(p) == pc[p] \in {"Loop", "Request", "Receive"}

PendingInv(p) ==
    /\ p \in victim => is_terminated[p]
    /\ ~is_terminated[p] /\ InMainLoop(p) => Tracks(p)
    /\ ~is_terminated[p] /\ ~InMainLoop(p) /\ ~FlagIsStale(p) => ~block_is_pending[p]
    /\ ~is_terminated[p] /\ pc[p] = "Judge" => blocks[piece[p]] = Reset

\* No block of a reset piece is pending.
LEMMA NothingPendingInReset == \A c \in Blocks : Reset[c] # "pending"
BY DEF Reset

\* What a step keeps for a thread that neither made it nor is terminated by it.
LEMMA PendingFrame ==
  ASSUME TypeOK, NEW q \in Peers, PeerInv(q), PendingInv(q),
         pc'[q] = pc[q], resume'[q] = resume[q], piece'[q] = piece[q],
         is_terminated'[q] = is_terminated[q], block_is_pending'[q] = block_is_pending[q],
         piece[q] # NoObject => blocks'[piece[q]] = blocks[piece[q]],
         q \in victim' => q \in victim
  PROVE  PendingInv(q)'
<1>1. Tracks(q) => Tracks(q)'
  BY DEF Tracks
<1>2. FlagIsStale(q)' = FlagIsStale(q) /\ InMainLoop(q)' = InMainLoop(q)
  BY DEF FlagIsStale, InMainLoop
<1>3. ~is_terminated[q] /\ pc[q] = "Judge" => blocks'[piece[q]] = Reset
  BY DEF PendingInv, PeerInv
<1> QED
  BY <1>1, <1>2, <1>3 DEF PendingInv

\* An outcome that needs no more: the flag is clear and the piece gone, or on its way.
LEMMA FlagClear ==
  ASSUME TypeOK, NEW p \in Peers, ~block_is_pending'[p], pc'[p] # "Judge", p \notin victim',
         InMainLoop(p)' => piece'[p] = NoObject
  PROVE  PendingInv(p)'
BY DEF PendingInv, Tracks

\* An outcome where the flag does not matter.
LEMMA StaleFlag ==
  ASSUME NEW p \in Peers, FlagIsStale(p)', p \notin victim'
  PROVE  PendingInv(p)'
BY DEF PendingInv, FlagIsStale, InMainLoop

\* A step keeps the flag right for the thread that makes it.
LEMMA PendingOwnStep ==
  ASSUME TypeOK, SP!IInv, NEW p \in Peers, PeerInv(p), PendingInv(p),
         PeerStep(p), UNCHANGED mainVars
  PROVE  PendingInv(p)'
<1> USE DEF TypeOK, PeerTypeOK, Branch, Go, mainVars, InMainLoop
<1>1. {"Loop", "GetPiece", "Disconnect", "Close"} = Resumes
  BY DEF Resumes
<1>2. is_terminated[p] => is_terminated'[p]
  BY DEF PeerStep, LocalStep, NetworkStep, Run, Connect, PerformHandshake, ReceiveBitfield,
     Loop, Request, Pop, FindNoPiece, Judge, NoPiece, Receive, Check, Save, Enqueue,
     Disconnect, Exit, Close, NullPiece, EstablishFails, SocketConnects, SendInterested,
     linkVars
<1> SUFFICES ASSUME ~is_terminated[p] PROVE PendingInv(p)'
  BY <1>2 DEF PendingInv
<1>3. p \notin victim'
  BY DEF PendingInv
<1>4. CASE Run(p) \/ FindNoPiece(p) \/ NoPiece(p)
  <2>1. /\ ~block_is_pending[p] /\ block_is_pending' = block_is_pending /\ piece' = piece
        /\ pc'[p] \in {"Exit", "Connect", "NoPiece", "Run", "Loop"}
        /\ (pc'[p] = "Loop" => piece[p] = NoObject)
    BY <1>4
       DEF Run, FindNoPiece, NoPiece, PendingInv, PeerInv, FlagIsStale, EmptyHanded,
           flagVars
  <2> QED
    BY <1>3, <2>1, FlagClear
<1>5. CASE Connect(p) \/ PerformHandshake(p) \/ ReceiveBitfield(p)
  <2>1. /\ ~block_is_pending[p] /\ block_is_pending' = block_is_pending
        /\ piece[p] = NoObject /\ piece' = piece
        /\ pc'[p] # "Judge"
    BY <1>5
       DEF Connect, PerformHandshake, ReceiveBitfield, EstablishFails, SocketConnects,
           SendInterested, PendingInv, PeerInv, FlagIsStale, EmptyHanded, flagVars
  <2> QED
    BY <1>3, <2>1, FlagClear
<1>6. CASE Loop(p)
  <2>1. Tracks(p) /\ pc[p] = "Loop"
    BY <1>6 DEF Loop, PendingInv
  <2>2. CASE ChoosePiece(p)
    <3>1. UNCHANGED <<piece, blocks, block_is_pending>> /\ pc'[p] \in {"Request", "GetPiece"}
          /\ (pc'[p] = "GetPiece" => piece[p] = NoObject)
      BY <2>1, <2>2 DEF ChoosePiece, flagVars, HoldsIncompletePiece, InProgress, PeerInv
    <3>2. Tracks(p)'
      BY <2>1, <3>1 DEF Tracks
    <3>3. CASE pc'[p] = "Request"
      BY <1>3, <3>2, <3>3 DEF PendingInv
    <3>4. CASE pc'[p] = "GetPiece"
      BY <1>3, <2>1, <3>1, <3>4, FlagClear DEF Tracks
    <3> QED
      BY <3>1, <3>3, <3>4
  <2>3. CASE InactivityTimeout(p)
    <3>1. FlagIsStale(p)'
      BY <1>1, <2>1, <2>3, ReturnPieceInv DEF InactivityTimeout, FlagIsStale
    <3> QED
      BY <1>3, <3>1, StaleFlag
  <2>4. CASE BlockTimeout(p)
    <3>1. /\ ~block_is_pending'[p]
          /\ (pc'[p] = "Loop" /\ piece'[p] = NoObject) \/ pc'[p] = "Enqueue"
      BY <1>1, <2>1, <2>4, StartEnqueueInv DEF BlockTimeout
    <3> QED
      BY <1>3, <3>1, FlagClear
  <2> QED
    BY <1>6, <2>2, <2>3, <2>4 DEF Loop, MainLoopEnds
<1>7. CASE NullPiece(p)
  <2>1. UNCHANGED <<pc, resume, piece, blocks, is_terminated, block_is_pending, victim>>
    BY <1>7 DEF NullPiece, controlVars, linkVars, flagVars
  <2> QED
    BY <2>1, PendingFrame
<1>8. ASSUME pc[p] \in {"Request", "Receive"}, HandleConnectionError(p) PROVE PendingInv(p)'
  <2>1. FlagIsStale(p)'
    BY <1>1, <1>8, ReturnPieceInv DEF HandleConnectionError, FlagIsStale
  <2> QED
    BY <1>3, <2>1, StaleFlag
<1>9. CASE Request(p) /\ ~NullPiece(p)
  <2>1. Tracks(p) /\ pc[p] = "Request" /\ piece[p] # NoObject
    BY <1>9 DEF Request, PendingInv
  <2>2. CASE NothingToRequest(p)
    <3>1. UNCHANGED <<piece, blocks, block_is_pending>> /\ pc'[p] = "Receive"
      BY <2>2 DEF NothingToRequest
    <3>2. Tracks(p)'
      BY <2>1, <3>1 DEF Tracks
    <3> QED
      BY <1>3, <3>1, <3>2 DEF PendingInv
  <2>3. CASE HandleConnectionError(p)
    BY <1>8, <2>1, <2>3
  <2>4. ASSUME NEW b \in Blocks, blocks' = [blocks EXCEPT ![piece[p]] = MarkPending(@, b)],
               block_is_pending' = [block_is_pending EXCEPT ![p] = TRUE], ~block_is_pending[p],
               pc' = [pc EXCEPT ![p] = "Receive"], piece' = piece
        PROVE  PendingInv(p)'
    <3>1. \A c \in Blocks : blocks[piece[p]][c] # "pending"
      BY <2>1, <2>4 DEF Tracks
    <3>2. blocks'[piece[p]] = [blocks[piece[p]] EXCEPT ![b] = "pending"]
      BY <2>1, <2>4 DEF MarkPending
    <3>3. blocks[piece[p]] \in BlockLists
      BY <2>1
    <3>4. \A c \in Blocks : blocks'[piece[p]][c] = "pending" <=> c = b
      BY <3>1, <3>2, <3>3 DEF BlockLists
    <3>5. Tracks(p)'
      BY <2>1, <2>4, <3>4 DEF Tracks
    <3> QED
      BY <1>3, <2>4, <3>5 DEF PendingInv
  <2> QED
    BY <1>9, <2>2, <2>3, <2>4 DEF Request, RequestPiece
<1>10. CASE Pop(p)
  <2>1. PICK o \in Objects : o = Head(queue) /\ queue # <<>> /\ piece' = [piece EXCEPT ![p] = o]
    BY <1>10 DEF Pop, GetNextPieceToDownload
  <2>2. blocks[o] = Reset
    BY <2>1, FrontIsBlank
  <2>3. ~block_is_pending[p]
    BY <1>10 DEF Pop, PendingInv, FlagIsStale
  <2> QED
    BY <1>3, <1>10, <2>1, <2>2, <2>3 DEF Pop, PendingInv, flagVars
<1>11. CASE Judge(p)
  <2>1. ~block_is_pending[p] /\ block_is_pending' = block_is_pending /\ piece[p] # NoObject
        /\ pc[p] = "Judge" /\ blocks[piece[p]] = Reset
    BY <1>11 DEF Judge, PendingInv, PeerInv, FlagIsStale, flagVars
  <2>2. CASE pc' = [pc EXCEPT ![p] = "Request"] /\ UNCHANGED <<blocks, piece>>
    <3>1. Tracks(p)'
      BY <2>1, <2>2, NothingPendingInReset DEF Tracks
    <3> QED
      BY <1>3, <2>2, <3>1 DEF PendingInv
  <2>3. CASE StartEnqueue(p, "GetPiece")
    <3>1. pc'[p] \in {"GetPiece", "Enqueue"}
      BY <1>1, <2>1, <2>3, StartEnqueueInv
    <3> QED
      BY <1>3, <2>1, <3>1, FlagClear
  <2> QED
    BY <1>11, <2>2, <2>3 DEF Judge
<1>12. CASE Receive(p)
  <2>1. Tracks(p) /\ pc[p] = "Receive"
    BY <1>12 DEF Receive, PendingInv
  <2>2. CASE HandleConnectionError(p)
    BY <1>8, <2>1, <2>2
  <2>3. CASE Choke(p)
    <3>1. /\ ~block_is_pending'[p]
          /\ (pc'[p] = "Loop" /\ piece'[p] = NoObject) \/ pc'[p] = "Enqueue"
      BY <1>1, <2>1, <2>3, ReturnPieceInv DEF Choke
    <3> QED
      BY <1>3, <3>1, FlagClear
  <2>4. CASE pc' = [pc EXCEPT ![p] = "Loop"] /\ UNCHANGED <<blocks, piece, block_is_pending>>
    <3>1. Tracks(p)'
      BY <2>1, <2>4 DEF Tracks
    <3> QED
      BY <1>3, <2>4, <3>1 DEF PendingInv
  <2>5. ASSUME NEW b \in Blocks, NEW bytes \in Retrieved, ReceiveBlock(p, b, bytes),
               CanSaveBlock(blocks[piece[p]], b)
        PROVE  PendingInv(p)'
    <3>1. /\ piece' = piece /\ piece[p] # NoObject /\ pc'[p] \in {"Check", "Loop"}
          /\ blocks'[piece[p]] = [blocks[piece[p]] EXCEPT ![b] = bytes]
          /\ ~block_is_pending'[p]
      BY <2>5 DEF ReceiveBlock, SaveBlock
    <3>2. blocks[piece[p]] \in BlockLists /\ blocks[piece[p]][b] = "pending" /\ bytes # "pending"
      BY <2>5, <3>1 DEF CanSaveBlock, Retrieved
    <3>3. \A c \in Blocks : blocks[piece[p]][c] = "pending" => c = b
      BY <2>1, <3>1, <3>2 DEF Tracks
    <3>4. \A c \in Blocks : blocks'[piece[p]][c] # "pending"
      BY <3>1, <3>2, <3>3 DEF BlockLists
    <3>5. Tracks(p)'
      BY <3>1, <3>4 DEF Tracks
    <3> QED
      BY <1>3, <3>1, <3>5 DEF PendingInv
  <2>6. ASSUME NEW b \in Blocks, NEW bytes \in Retrieved, ReceiveBlock(p, b, bytes),
               ~CanSaveBlock(blocks[piece[p]], b)
        PROVE  HandleConnectionError(p)
    BY <2>6 DEF ReceiveBlock
  <2> QED
    BY <1>12, <2>2, <2>3, <2>4, <2>5, <2>6
       DEF Receive, ReceiveFails, Unchoke, Have, Ignored, flagVars
<1>13. CASE Check(p) /\ ~NullPiece(p)
  <2>1. ~block_is_pending[p] /\ block_is_pending' = block_is_pending /\ piece[p] # NoObject
    BY <1>13 DEF Check, PendingInv, FlagIsStale, flagVars
  <2>2. pc'[p] \in {"Save", "Enqueue"} \/ (pc'[p] = "Loop" /\ piece'[p] = NoObject)
    BY <1>1, <1>13, <2>1, StartEnqueueInv DEF Check
  <2> QED
    BY <1>3, <2>1, <2>2, FlagClear
<1>14. CASE Save(p)
  <2>1. /\ ~block_is_pending[p] /\ block_is_pending' = block_is_pending
        /\ piece'[p] = NoObject /\ pc'[p] = "Loop"
    BY <1>14 DEF Save, PendingInv, FlagIsStale, flagVars
  <2> QED
    BY <1>3, <2>1, FlagClear
<1>15. CASE Enqueue(p) /\ ~NullPiece(p)
  <2>1. /\ block_is_pending' = block_is_pending /\ piece'[p] = NoObject /\ pc'[p] = resume[p]
        /\ resume[p] \in Resumes /\ pc[p] = "Enqueue"
    BY <1>15 DEF Enqueue, flagVars
  <2>2. CASE FlagIsStale(p)
    BY <1>3, <2>1, <2>2, StaleFlag DEF FlagIsStale
  <2>3. CASE ~FlagIsStale(p)
    <3>1. ~block_is_pending[p]
      BY <2>1, <2>3 DEF PendingInv
    <3> QED
      BY <1>1, <1>3, <2>1, <3>1, FlagClear
  <2> QED
    BY <2>2, <2>3
<1>16. CASE Disconnect(p)
  BY <1>3, <1>16, FlagClear DEF Disconnect
<1>17. CASE Exit(p) \/ Close(p)
  <2>1. CASE Close(p)
    BY <1>3, <2>1, StaleFlag DEF Close, FlagIsStale
  <2>2. CASE Exit(p)
    BY <1>3, <2>2 DEF Exit, PendingInv
  <2> QED
    BY <1>17, <2>1, <2>2
<1> QED
  BY <1>4, <1>5, <1>6, <1>7, <1>9, <1>10, <1>11, <1>12, <1>13, <1>14, <1>15, <1>16, <1>17
     DEF PeerStep, LocalStep, NetworkStep

\* A step of the main thread keeps the flags of all threads right.
LEMMA PendingMainStep ==
  ASSUME Inv, NEW q \in Peers, PendingInv(q), MainStep
  PROVE  PendingInv(q)'
<1> USE DEF Inv, TypeOK, PeerTypeOK
<1>1. CASE MonitorEnds \/ DecideRequeue \/ JoinAndClose
  BY <1>1, PendingFrame
     DEF MonitorEnds, DecideRequeue, JoinAndClose, peerVars, controlVars, linkVars, flagVars
<1>2. CASE Requeue
  <2>1. piece[q] # NoObject => blocks'[piece[q]] = blocks[piece[q]]
    BY <1>2 DEF Requeue, Held
  <2> QED
    BY <1>2, <2>1, PendingFrame DEF Requeue, controlVars, linkVars, flagVars
<1>3. ASSUME NEW p \in Peers, Terminate(p)
      PROVE  PendingInv(q)'
  <2>1. UNCHANGED <<blocks, pc, resume, piece, block_is_pending>> /\ victim' \subseteq {p}
        /\ is_terminated' = [is_terminated EXCEPT ![p] = TRUE]
    BY <1>3 DEF Terminate, CloseConnection, controlVars, flagVars
  <2>2. CASE q = p
    BY <2>1, <2>2 DEF PendingInv
  <2>3. CASE q # p
    BY <2>1, <2>3, PendingFrame
  <2> QED
    BY <2>2, <2>3
<1>4. ASSUME NEW p \in Peers, ReturnVictimsPiece(p)
      PROVE  PendingInv(q)'
  <2>1. /\ UNCHANGED <<pc, resume, is_terminated, block_is_pending>> /\ victim' = {}
        /\ piece' = [piece EXCEPT ![p] = NoObject]
        /\ blocks' = [blocks EXCEPT ![piece[p]] = Reset]
        /\ p \in victim /\ piece[p] # NoObject
    BY <1>4 DEF ReturnVictimsPiece, CloseConnection, controlVars, flagVars, InProgress
  <2>2. CASE q = p
    BY <2>1, <2>2 DEF PendingInv
  <2>3. CASE q # p
    <3>1. piece[q] # NoObject => piece[q] # piece[p]
      BY <2>3 DEF SP!IInv, SP!ExclusiveOwnership, SP!NoObject, NoObject
    <3>2. piece[q] # NoObject => blocks'[piece[q]] = blocks[piece[q]]
      BY <2>1, <3>1
    <3> QED
      BY <2>1, <2>3, <3>2, PendingFrame
  <2> QED
    BY <2>2, <2>3
<1>5. ASSUME NEW p \in Peers, TerminateRaces(p)
      PROVE  PendingInv(q)'
  BY <1>5, PendingFrame DEF TerminateRaces, controlVars, linkVars, flagVars, mainVars
<1> QED
  BY <1>1, <1>2, <1>3, <1>4, <1>5 DEF MainStep

\* Every step keeps every flag right.
LEMMA PendingStep ==
  Inv /\ (\A p \in Peers : PendingInv(p)) /\ [Next]_vars => (\A p \in Peers : PendingInv(p))'
<1> SUFFICES ASSUME Inv, \A p \in Peers : PendingInv(p), [Next]_vars, NEW q \in Peers
             PROVE  PendingInv(q)'
  OBVIOUS
<1> USE DEF Inv
<1>1. CASE MainStep
  BY <1>1, PendingMainStep
<1>2. CASE UNCHANGED vars
  BY <1>2, PendingFrame DEF vars
<1>3. CASE PeerStep(q) /\ UNCHANGED mainVars
  BY <1>3, PendingOwnStep
<1>4. ASSUME NEW p \in Peers \ {q}, PeerStep(p), UNCHANGED mainVars
      PROVE  PendingInv(q)'
  <2>1. piece[q] # NoObject => piece[q] \in Objects /\ piece[q] # piece[p]
    BY DEF SP!IInv, SP!ExclusiveOwnership, TypeOK, PeerTypeOK, SP!NoObject, NoObject
  <2> QED
    BY <1>4, <2>1, Locality, PendingFrame DEF mainVars
<1> QED
  BY <1>1, <1>2, <1>3, <1>4 DEF Next, Wait, Ended

\* At every decision of MainLoop the flag block_is_pending says whether a block of the
\* piece in progress is pending, and there are never two: the thread does not wait for a
\* block it never asked for, nor leave the rest of a piece unasked.
THEOREM PendingIsTracked == Spec => []PendingTracksBlock
<1>1. Init => \A p \in Peers : PendingInv(p)
  BY DEF Init, PeerInit, PendingInv, InMainLoop
<1>2. ASSUME Inv, \A p \in Peers : PendingInv(p)
      PROVE  PendingTracksBlock
  <2> SUFFICES ASSUME NEW p \in Peers, InMainLoop(p), ~is_terminated[p]
               PROVE  Cardinality(PendingBlocks(p)) = IF block_is_pending[p] THEN 1 ELSE 0
    BY DEF PendingTracksBlock, InMainLoop
  <2>1. Tracks(p) /\ InProgress(p) = piece[p]
    BY <1>2 DEF PendingInv, InMainLoop, InProgress
  <2>2. CASE block_is_pending[p]
    <3>1. PICK b \in Blocks : \A c \in Blocks : blocks[piece[p]][c] = "pending" <=> c = b
      BY <2>1, <2>2 DEF Tracks
    <3>2. PendingBlocks(p) = {b}
      BY <2>1, <2>2, <3>1 DEF PendingBlocks, Tracks
    <3> QED
      BY <2>2, <3>2, FS_Singleton
  <2>3. CASE ~block_is_pending[p]
    <3>1. PendingBlocks(p) = {}
      BY <2>1, <2>3 DEF PendingBlocks, Tracks
    <3> QED
      BY <2>3, <3>1, FS_EmptySet
  <2> QED
    BY <2>2, <2>3
<1>3. Inv /\ (\A p \in Peers : PendingInv(p)) => PendingTracksBlock
  BY <1>2
<1> QED
  BY <1>1, <1>3, ClientInvariance, PendingStep, PTL DEF Spec
=============================================================================
