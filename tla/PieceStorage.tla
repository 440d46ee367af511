---------------------------- MODULE PieceStorage ----------------------------
(***************************************************************************)
(* class PieceStorage: the work queue of pieces still to download, the     *)
(* list of pieces saved so far and the output file.  Each operation below  *)
(* is one critical section of the class: the part of a method that runs    *)
(* under queue_mutex or under file_mutex.  The modules that EXTEND this    *)
(* one decide which thread runs which operation and when.                  *)
(*                                                                         *)
(* A definition whose name starts with Slip is a plausible mistake in the  *)
(* operation after it.  No specification uses it: it is there to be put in *)
(* the operation's place, to see that a property notices.                  *)
(*                                                                         *)
(* A Piece object is the pair of its index and of a generation number that *)
(* tells apart the objects made for the same index (the constructor makes  *)
(* one per piece, ForceRequeueMissingPieces makes new ones).               *)
(***************************************************************************)
EXTENDS Integers, Sequences, FiniteSets

CONSTANTS
    NumPieces,   \* total_piece_count
    MaxGen,      \* bound: generations 0..MaxGen name the live objects of an index
    WritesFail   \* bound: whether a write to the output file may fail

ASSUME StorageAssumption ==
    NumPieces \in Nat /\ MaxGen \in Nat /\ WritesFail \in BOOLEAN

VARIABLES
    queue,       \* remaining_pieces_queue: a FIFO of pointers to Piece objects
    saved,       \* indices_of_pieces_saved_to_disk, in push_back order
    disk,        \* what the output file holds in the region of each piece
    file_open,   \* file.is_open()
    file_bad     \* the stream's sticky error bit: after one failed write all are no-ops

storageVars == <<queue, saved, disk, file_open, file_bad>>

Pieces  == 0 .. NumPieces - 1
Objects == Pieces \X (0 .. MaxGen)
Index(o) == o[1]

\* A null PiecePtr.  No object has a negative index.
NoObject == <<-1, 0>>

\* "zero": the zeros written by InitializeOutputFile; "good": bytes whose SHA-1
\* was verified; "bad": other bytes; "torn": a write that failed on the way.
Regions == {"zero", "good", "bad", "torn"}

Saved   == {saved[k] : k \in DOMAIN saved}
Missing == Pieces \ Saved
Queued  == {queue[k] : k \in DOMAIN queue}

(***************************************************************************)
(* The constructor truncates the file and fills it with zeros.  Whether    *)
(* the zeros could be written (disk full) is not looked at: the stream     *)
(* then starts out bad, and regions past the failure are not there.        *)
(***************************************************************************)
InitializeOutputFile ==
    /\ file_open = TRUE
    /\ \/ disk = [i \in Pieces |-> "zero"] /\ file_bad = FALSE
       \/ /\ WritesFail
          /\ disk \in [Pieces -> {"zero", "torn"}]
          /\ \E i \in Pieces : disk[i] = "torn"
          /\ file_bad = TRUE

\* One blank object per piece, in index order.
StorageInit ==
    /\ queue = [k \in 1 .. NumPieces |-> <<k - 1, 0>>]
    /\ saved = <<>>
    /\ InitializeOutputFile

-----------------------------------------------------------------------------
IsPieceAlreadySaved(i) == i \in Saved

\* Slip: nothing left in the queue is taken for completion.
SlipCompleteByQueue == queue = <<>>

\* The code counts the entries of the list; it does not look at them.
IsDownloadComplete == Len(saved) = NumPieces

QueueIsEmpty == queue = <<>>

(***************************************************************************)
(* GetMissingPieces lists the missing indices in ascending order.  The set *)
(* below has that one list as its element; stated as a set of lists, and   *)
(* not with a sorting operator, so that facts about it can be proved.      *)
(***************************************************************************)
GetMissingPieces ==
    {m \in [1 .. Cardinality(Missing) -> Missing] :
        /\ \A i \in Missing : \E k \in DOMAIN m : m[k] = i
        /\ \A j, k \in DOMAIN m : j < k => m[j] < m[k]}

\* Slip: front() without pop().
SlipNoPop(o) ==
    /\ queue # <<>>
    /\ o = Head(queue)
    /\ UNCHANGED storageVars

\* queue_mutex: take the front of the queue, o.  (On an empty queue the method
\* returns nullptr and changes nothing; its callers model that case.)
GetNextPieceToDownload(o) ==
    /\ queue # <<>>
    /\ o = Head(queue)
    /\ queue' = Tail(queue)
    /\ UNCHANGED <<saved, disk, file_open, file_bad>>

\* queue_mutex: the second half of Enqueue, after IsPieceAlreadySaved said no.
\* The Reset of the object under the same lock is with the owner of its blocks.
PushToQueue(o) ==
    /\ queue' = Append(queue, o)
    /\ UNCHANGED <<saved, disk, file_open, file_bad>>

\* Slip: the error bit is cleared after a failed write.
SlipClearError(i, data) ==
    /\ disk' = [disk EXCEPT ![i] = IF WritesFail THEN "torn" ELSE data]
    /\ UNCHANGED file_bad

\* seekp, write, flush: on a good stream, on a stream that turns bad, on a bad one.
WriteRegion(i, data) ==
    \/ /\ file_open /\ ~file_bad
       /\ disk' = [disk EXCEPT ![i] = data]
       /\ UNCHANGED file_bad
    \/ /\ WritesFail
       /\ file_open /\ ~file_bad
       /\ disk' = [disk EXCEPT ![i] = "torn"]
       /\ file_bad' = TRUE
    \/ /\ ~file_open \/ file_bad
       /\ UNCHANGED <<disk, file_bad>>

\* Slip: no test for an index that is saved already.
SlipSaveTwice(o, data) ==
    /\ UNCHANGED <<queue, file_open>>
    /\ WriteRegion(Index(o), data)
    /\ saved' = Append(saved, Index(o))

\* Slip: a bad stream makes it return early, and the caller lets the object go.
SlipReturnOnBadStream(o, data) ==
    /\ UNCHANGED <<queue, file_open>>
    /\ IF file_bad \/ IsPieceAlreadySaved(Index(o))
       THEN UNCHANGED <<saved, disk, file_bad>>
       ELSE WriteRegion(Index(o), data) /\ saved' = Append(saved, Index(o))

(***************************************************************************)
(* file_mutex: SavePieceToDisk.  data is what GetData returns.  Verified   *)
(* bytes have the length of the piece, so the size check never rejects     *)
(* them.  A write may fail (disk full); the code does not look at the      *)
(* stream and records the piece as saved all the same.                     *)
(***************************************************************************)
SavePieceToDisk(o, data) ==
    /\ UNCHANGED <<queue, file_open>>
    /\ \/ /\ IsPieceAlreadySaved(Index(o))
          /\ UNCHANGED <<saved, disk, file_bad>>
       \/ /\ ~IsPieceAlreadySaved(Index(o))
          /\ WriteRegion(Index(o), data)
          /\ saved' = Append(saved, Index(o))

\* Slip: the list of missing indices is off by one.
SlipNextIndex(i, inUse) == <<i + 1, CHOOSE g \in 0 .. MaxGen : <<i, g>> \notin inUse>>

\* make_shared<Piece>: an object under a name no other thread uses.
NewObject(i, inUse) == <<i, CHOOSE g \in 0 .. MaxGen : <<i, g>> \notin inUse>>

\* Slip: the old queue is not emptied first.
SlipKeepQueue(inUse) ==
    /\ \A i \in Missing : \E g \in 0 .. MaxGen : <<i, g>> \notin inUse
    /\ \E m \in GetMissingPieces :
          queue' = queue \o [k \in 1 .. Cardinality(Missing) |-> NewObject(m[k], inUse)]
    /\ UNCHANGED <<saved, disk, file_open, file_bad>>

\* Slip: the list of saved pieces is emptied with the queue.
SlipForgetSaved(inUse) ==
    /\ \A i \in Missing : \E g \in 0 .. MaxGen : <<i, g>> \notin inUse
    /\ \E m \in GetMissingPieces :
          queue' = [k \in 1 .. Cardinality(Missing) |-> NewObject(m[k], inUse)]
    /\ saved' = <<>>
    /\ UNCHANGED <<disk, file_open, file_bad>>

(***************************************************************************)
(* queue_mutex, with file_mutex inside it: ForceRequeueMissingPieces drops *)
(* the queue and makes a new object for every missing piece.  inUse are    *)
(* the objects other threads still point to; a dropped object is destroyed *)
(* and its name may be reused.                                             *)
(***************************************************************************)
ForceRequeueMissingPieces(inUse) ==
    /\ \A i \in Missing : \E g \in 0 .. MaxGen : <<i, g>> \notin inUse
    /\ \E m \in GetMissingPieces :
          queue' = [k \in 1 .. Cardinality(Missing) |-> NewObject(m[k], inUse)]
    /\ UNCHANGED <<saved, disk, file_open, file_bad>>

\* file_mutex: CloseOutputFile.
CloseOutputFile ==
    /\ file_open' = FALSE
    /\ UNCHANGED <<queue, saved, disk, file_bad>>

StorageTypeOK ==
    /\ queue \in Seq(Objects)
    /\ saved \in Seq(Pieces)
    /\ disk \in [Pieces -> Regions]
    /\ file_open \in BOOLEAN
    /\ file_bad \in BOOLEAN
=============================================================================
