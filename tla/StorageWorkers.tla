--------------------------- MODULE StorageWorkers ---------------------------
(***************************************************************************)
(* The protocol between PieceStorage and the threads that use it, at the   *)
(* grain of its critical sections.  A worker is a peer thread seen from    *)
(* the storage: it takes a Piece object from the queue, fills its blocks   *)
(* with bytes of unknown quality, and gives the object back by one of      *)
(* three ways: saved, requeued, or dropped because its index was saved     *)
(* meanwhile.  Enqueue is not atomic: it asks whether the index is saved   *)
(* under file_mutex and pushes under queue_mutex, and other threads run in *)
(* between.  The main thread replaces the queue (ForceRequeueMissingPieces)*)
(* at any moment, so that several objects of one index may be alive.       *)
(***************************************************************************)
EXTENDS PieceStorage

CONSTANT Workers   \* the peer threads

ASSUME WorkersAssumption == IsFiniteSet(Workers)

VARIABLES
    held,      \* the object a worker owns, or NoObject
    stage,     \* where the worker is with it
    content    \* what the blocks of each object hold

workerVars == <<held, stage, content>>
vars == <<queue, saved, disk, file_open, file_bad, held, stage, content>>

(***************************************************************************)
(* "requeueing": between the two halves of Enqueue;  "verified": between   *)
(* the hash check and SavePieceToDisk.                                     *)
(***************************************************************************)
Stages == {"idle", "working", "requeueing", "verified"}

\* No block, some blocks, all blocks with the right bytes, all blocks but wrong.
Contents == {"blank", "partial", "good", "bad"}

Held == {held[w] : w \in Workers} \ {NoObject}

Init ==
    /\ StorageInit
    /\ held = [w \in Workers |-> NoObject]
    /\ stage = [w \in Workers |-> "idle"]
    /\ content = [o \in Objects |-> "blank"]

-----------------------------------------------------------------------------
\* Slip: Reset leaves the blocks as they are.
SlipKeepBlocks(o) == content

\* The content of all objects after a Reset of o.
Blanked(o) == [content EXCEPT ![o] = "blank"]

\* w parts with its object.  One that nobody points to any more is destroyed;
\* its name stands for a fresh, blank object when it is used again.
Release(w) ==
    /\ held' = [held EXCEPT ![w] = NoObject]
    /\ stage' = [stage EXCEPT ![w] = "idle"]
    /\ content' = Blanked(held[w])

Pop(w) ==
    /\ stage[w] = "idle"
    /\ \E o \in Objects :
          /\ GetNextPieceToDownload(o)
          /\ held' = [held EXCEPT ![w] = o]
    /\ stage' = [stage EXCEPT ![w] = "working"]
    /\ UNCHANGED content

\* Blocks arrive (SaveBlock).  Their bytes are whatever the peer sent.
Fill(w, c) ==
    /\ stage[w] = "working"
    /\ content[held[w]] \in {"blank", "partial"}
    /\ content' = [content EXCEPT ![held[w]] = c]
    /\ UNCHANGED <<storageVars, held, stage>>

\* Slip: complete is taken for correct.
SlipCompleteIsCorrect(o) == content[o] \in {"good", "bad"}

HashMatches(o) == content[o] = "good"

\* The bytes of an object, and nothing is known of how they were checked.
GetData(o) == IF content[o] = "good" THEN "good" ELSE "bad"

Verify(w) ==
    /\ stage[w] = "working"
    /\ HashMatches(held[w])
    /\ stage' = [stage EXCEPT ![w] = "verified"]
    /\ UNCHANGED <<storageVars, held, content>>

\* PieceProcessed's second half: save the verified object and let go of it.
Save(w) ==
    /\ stage[w] = "verified"
    /\ SavePieceToDisk(held[w], GetData(held[w]))
    /\ Release(w)

-----------------------------------------------------------------------------
\* The caller resets the object, then Enqueue finds that it is not saved ...
BeginEnqueue(w) ==
    /\ stage[w] = "working"
    /\ ~IsPieceAlreadySaved(Index(held[w]))
    /\ stage' = [stage EXCEPT ![w] = "requeueing"]
    /\ content' = Blanked(held[w])
    /\ UNCHANGED <<storageVars, held>>

\* ... and pushes it, saved meanwhile or not.
FinishEnqueue(w) ==
    /\ stage[w] = "requeueing"
    /\ PushToQueue(held[w])
    /\ Release(w)

(***************************************************************************)
(* Enqueue's early return: the index is saved, the caller resets its       *)
(* pointer.  A peer thread does it instead of BeginEnqueue; the main       *)
(* thread does it to the object of a peer it terminates, wherever the peer *)
(* is with it.                                                             *)
(***************************************************************************)
DropSaved(w) ==
    /\ held[w] # NoObject
    /\ IsPieceAlreadySaved(Index(held[w]))
    /\ Release(w)
    /\ UNCHANGED storageVars

-----------------------------------------------------------------------------
\* The monitor loop of the main thread gives up waiting for the queue to fill.
ForceRequeue ==
    /\ file_open
    /\ ForceRequeueMissingPieces(Held)
    /\ content' = [o \in Objects |-> IF o \in Held THEN content[o] ELSE "blank"]
    /\ UNCHANGED <<held, stage>>

\* Slip: the file is closed while pieces are missing.
SlipCloseEarly ==
    /\ file_open
    /\ CloseOutputFile
    /\ UNCHANGED workerVars

\* The main thread has left the monitor loop, which it does on completion.
Close ==
    /\ file_open
    /\ IsDownloadComplete
    /\ CloseOutputFile
    /\ UNCHANGED workerVars

\* Nothing is left to do: the program ends here.
Finished ==
    /\ ~file_open
    /\ QueueIsEmpty
    /\ Held = {}
    /\ UNCHANGED vars

Next ==
    \/ ForceRequeue
    \/ Close
    \/ Finished
    \/ \E w \in Workers :
          \/ Pop(w)
          \/ \E c \in {"partial", "good", "bad"} : Fill(w, c)
          \/ Verify(w)
          \/ Save(w)
          \/ BeginEnqueue(w)
          \/ FinishEnqueue(w)
          \/ DropSaved(w)

Spec == Init /\ [][Next]_vars

-----------------------------------------------------------------------------
(***************************************************************************)
(* Properties.                                                             *)
(***************************************************************************)

\* Every variable has its type.
TypeOK ==
    /\ StorageTypeOK
    /\ held \in [Workers -> Objects \cup {NoObject}]
    /\ stage \in [Workers -> Stages]
    /\ content \in [Objects -> Contents]

\* No Piece object is in two hands: its blocks have no lock, so two threads on
\* one object, or one that is both queued and worked on, would be a data race.
ExclusiveOwnership ==
    /\ \A j, k \in DOMAIN queue : queue[j] = queue[k] => j = k
    /\ \A w \in Workers : held[w] \notin Queued
    /\ \A v, w \in Workers : held[v] = held[w] /\ held[v] # NoObject => v = w

\* A popped object starts without blocks: no block status or byte of an earlier
\* attempt survives the way back through the queue.
QueuedAreBlank == \A o \in Queued : content[o] = "blank"

\* An object does not change behind its owner's back: what was verified is still
\* right when it is written, what was reset is still blank when it is pushed.
StageTellsContent ==
    \A w \in Workers :
        /\ stage[w] = "idle" <=> held[w] = NoObject
        /\ stage[w] = "verified" => content[held[w]] = "good"
        /\ stage[w] = "requeueing" => content[held[w]] = "blank"

\* The list that IsDownloadComplete counts has no index twice, although several
\* workers may finish objects of the same index.
SavedOnce == \A j, k \in DOMAIN saved : saved[j] = saved[k] => j = k

\* Counting is enough: when IsDownloadComplete says so, no piece is missing.
CompleteMeansAll == IsDownloadComplete => Saved = Pieces

\* Whatever threads are still at work when the file is closed, no piece of it is
\* missing and none of them can add one.
ClosedMeansAll == ~file_open => Missing = {}

\* No missing piece gets lost: it is in the queue or some worker has it, even
\* between the halves of Enqueue and across a forced requeue.
NothingLost ==
    \A i \in Missing : \E o \in Queued \cup Held : Index(o) = i

\* Bytes that were not verified never reach the file, and what the saved list
\* says of the file is true as long as no write has failed.
DiskVerified ==
    \A i \in Pieces :
        /\ disk[i] # "bad"
        /\ ~file_bad => disk[i] = (IF i \in Saved THEN "good" ELSE "zero")

\* Duplicates are bounded: the queue and the workers together have at most one
\* object per piece and one more per worker, however often requeueing is forced.
QueueBounded ==
    Len(queue) + Cardinality({w \in Workers : held[w] # NoObject})
        <= NumPieces + Cardinality(Workers)

\* A step may append to the saved list, never shorten or reorder it, and a region
\* that holds verified bytes is never written again.
NeverUnsaved ==
    [][/\ Len(saved) <= Len(saved')
       /\ \A k \in DOMAIN saved : saved'[k] = saved[k]
       /\ \A i \in Pieces : disk[i] = "good" => disk'[i] = "good"]_vars

\* "All pieces complete and valid: YES" (TorrentClient.cpp:281), printed when the
\* file is closed with all pieces counted.  Not so after a failed write.
CompleteAndValid ==
    ~file_open /\ IsDownloadComplete => \A i \in Pieces : disk[i] = "good"

(***************************************************************************)
(* The threads and the storage together implement the promise of Download. *)
(***************************************************************************)
Promise == INSTANCE Download WITH
    stored <- Saved, file <- disk, healthy <- ~file_bad, open <- file_open

ImplementsDownload == Promise!Spec
=============================================================================
