---------------------------- MODULE StorageLocks ----------------------------
(***************************************************************************)
(* PieceStorage with its two mutexes and the statements between lock and   *)
(* unlock, one step each: what the critical sections of PieceStorage and   *)
(* StorageWorkers are made of.  Nothing here is atomic because it is under *)
(* a lock; it is atomic if nobody else can tell, which is what the         *)
(* refinement says.  Workers are peer threads as in StorageWorkers; Main   *)
(* is the monitor loop and the end of DownloadTorrent.                     *)
(***************************************************************************)
EXTENDS PieceStorage

CONSTANT Workers

ASSUME LocksAssumption == IsFiniteSet(Workers) /\ Workers \cap {"main", "nobody"} = {}

VARIABLES
    owner,      \* who holds queue_mutex and file_mutex
    pc,         \* place of each thread; "...Lock" waits for a mutex
    pointer,    \* the PiecePtr of each worker
    content,    \* what the blocks of each object hold
    missing,    \* of ForceRequeueMissingPieces: the objects still to be made and pushed
    dropped     \* history: the objects a forced requeue has popped so far

localVars == <<pointer, content, missing, dropped>>
vars == <<storageVars, owner, pc, localVars>>

Main    == "main"
Threads == Workers \cup {Main}
Nobody  == "nobody"

Init ==
    /\ StorageInit
    /\ owner = [m \in {"queue_mutex", "file_mutex"} |-> Nobody]
    /\ pc = [t \in Threads |-> IF t = Main THEN "Monitor" ELSE "Idle"]
    /\ pointer = [w \in Workers |-> NoObject]
    /\ content = [o \in Objects |-> "blank"]
    /\ missing = <<>>
    /\ dropped = <<>>

-----------------------------------------------------------------------------
GoTo(t, from, to) == pc[t] = from /\ pc' = [pc EXCEPT ![t] = to]

Lock(t, mutex)   == owner[mutex] = Nobody /\ owner' = [owner EXCEPT ![mutex] = t]
Unlock(t, mutex) == owner' = [owner EXCEPT ![mutex] = Nobody]

\* The waits for a mutex: the place before, the mutex, the place after.
Waits ==
    {<<"GetLock", "queue_mutex", "Front">>,  <<"AskLock", "file_mutex", "Ask">>,
     <<"PushLock", "queue_mutex", "Push">>,  <<"SaveLock", "file_mutex", "Find">>,
     <<"ForceLock", "queue_mutex", "Clear">>, <<"MissingLock", "file_mutex", "List">>,
     <<"DoneLock", "file_mutex", "Done">>,   <<"CloseLock", "file_mutex", "Close">>}

Acquire(t) ==
    \E w \in Waits :
        GoTo(t, w[1], w[3]) /\ Lock(t, w[2]) /\ UNCHANGED <<storageVars, localVars>>

\* Between calls: a worker asks for a piece, fills it, and returns or saves it; the
\* main thread asks for completion or forces a requeue.
StartCall(t) ==
    /\ \/ GoTo(t, "Idle", "GetLock")
       \/ GoTo(t, "Working", "AskLock")
       \/ t # Main /\ GoTo(t, "Working", "SaveLock") /\ content[pointer[t]] = "good"
       \/ GoTo(t, "Monitor", "DoneLock")
       \/ GoTo(t, "Monitor", "ForceLock")
    /\ UNCHANGED <<storageVars, owner, localVars>>

Fill(w, c) ==
    /\ pc[w] = "Working"
    /\ content[pointer[w]] = "blank"
    /\ content' = [content EXCEPT ![pointer[w]] = c]
    /\ UNCHANGED <<storageVars, owner, pc, pointer, missing, dropped>>

\* shared_ptr::reset or the end of its scope: the object is destroyed, and its name
\* is free for a new, blank one.
LetGo(w) ==
    /\ pointer' = [pointer EXCEPT ![w] = NoObject]
    /\ content' = [content EXCEPT ![pointer[w]] = "blank"]

-----------------------------------------------------------------------------
\* Slip: the mutex is only held for front().
SlipUnlockEarly(w) ==
    /\ queue # <<>>
    /\ GoTo(w, "Front", "Pop")
    /\ pointer' = [pointer EXCEPT ![w] = Head(queue)]
    /\ Unlock(w, "queue_mutex")
    /\ UNCHANGED <<storageVars, content, missing, dropped>>

\* GetNextPieceToDownload: front, then pop.
Front(w) ==
    /\ queue # <<>>
    /\ GoTo(w, "Front", "Pop")
    /\ pointer' = [pointer EXCEPT ![w] = Head(queue)]
    /\ UNCHANGED <<storageVars, owner, content, missing, dropped>>

NothingQueued(w) ==
    /\ queue = <<>>
    /\ GoTo(w, "Front", "Idle")
    /\ Unlock(w, "queue_mutex")
    /\ UNCHANGED <<storageVars, localVars>>

Pop(w) ==
    /\ GoTo(w, "Pop", "Working")
    /\ queue' = Tail(queue)
    /\ Unlock(w, "queue_mutex")
    /\ UNCHANGED <<saved, disk, file_open, file_bad, localVars>>

\* Slip: one lock for all of Enqueue, so that nothing can happen in between.
SlipHoldFileMutex(w) ==
    /\ ~IsPieceAlreadySaved(Index(pointer[w]))
    /\ GoTo(w, "Ask", "PushLock")
    /\ UNCHANGED <<storageVars, owner, localVars>>

\* Enqueue: IsPieceAlreadySaved under its own lock ...
AskNotSaved(w) ==
    /\ ~IsPieceAlreadySaved(Index(pointer[w]))
    /\ GoTo(w, "Ask", "PushLock")
    /\ Unlock(w, "file_mutex")
    /\ UNCHANGED <<storageVars, localVars>>

AskSaved(w) ==
    /\ IsPieceAlreadySaved(Index(pointer[w]))
    /\ GoTo(w, "Ask", "Idle")
    /\ Unlock(w, "file_mutex")
    /\ LetGo(w)
    /\ UNCHANGED <<storageVars, missing, dropped>>

\* ... then Reset and push under the other.
Push(w) ==
    /\ GoTo(w, "Push", "Idle")
    /\ PushToQueue(pointer[w])
    /\ Unlock(w, "queue_mutex")
    /\ LetGo(w)
    /\ UNCHANGED <<missing, dropped>>

\* SavePieceToDisk: find, write, push_back.
FindSaved(w) ==
    /\ IsPieceAlreadySaved(Index(pointer[w]))
    /\ GoTo(w, "Find", "Idle")
    /\ Unlock(w, "file_mutex")
    /\ LetGo(w)
    /\ UNCHANGED <<storageVars, missing, dropped>>

Write(w) ==
    /\ ~IsPieceAlreadySaved(Index(pointer[w]))
    /\ GoTo(w, "Find", "Record")
    /\ WriteRegion(Index(pointer[w]), content[pointer[w]])
    /\ UNCHANGED <<queue, saved, file_open, owner, localVars>>

Record(w) ==
    /\ GoTo(w, "Record", "Idle")
    /\ saved' = Append(saved, Index(pointer[w]))
    /\ Unlock(w, "file_mutex")
    /\ LetGo(w)
    /\ UNCHANGED <<queue, disk, file_open, file_bad, missing, dropped>>

-----------------------------------------------------------------------------
\* ForceRequeueMissingPieces: pop one by one, then GetMissingPieces, which takes the
\* other mutex while this one is held, then push one by one.
Clear ==
    /\ pc[Main] = "Clear"
    /\ \/ /\ queue # <<>>
          /\ queue' = Tail(queue)
          /\ dropped' = Append(dropped, Head(queue))
          /\ UNCHANGED pc
       \/ /\ queue = <<>>
          /\ GoTo(Main, "Clear", "MissingLock")
          /\ UNCHANGED <<queue, dropped>>
    /\ UNCHANGED <<saved, disk, file_open, file_bad, owner, pointer, content, missing>>

\* The names of the new objects are chosen with the list (see PieceStorage for what
\* a name is): pointers of workers, except the copy a front() has just made.
InUse == {pointer[w] : w \in {v \in Workers : pc[v] # "Pop"}}

List ==
    /\ GoTo(Main, "List", "Refill")
    /\ \A i \in Missing : \E g \in 0 .. MaxGen : <<i, g>> \notin InUse
    /\ \E m \in GetMissingPieces :
          missing' = [k \in 1 .. Cardinality(Missing) |-> NewObject(m[k], InUse)]
    /\ dropped' = <<>>
    /\ Unlock(Main, "file_mutex")
    /\ UNCHANGED <<storageVars, pointer, content>>

Refill ==
    /\ pc[Main] = "Refill"
    /\ \/ /\ missing # <<>>
          /\ PushToQueue(Head(missing))
          /\ missing' = Tail(missing)
          /\ UNCHANGED <<owner, pc>>
       \/ /\ missing = <<>>
          /\ GoTo(Main, "Refill", "Monitor")
          /\ Unlock(Main, "queue_mutex")
          /\ UNCHANGED <<storageVars, missing>>
    /\ UNCHANGED <<pointer, content, dropped>>

\* IsDownloadComplete, and CloseOutputFile when it said yes.
Done ==
    /\ GoTo(Main, "Done", IF IsDownloadComplete THEN "CloseLock" ELSE "Monitor")
    /\ Unlock(Main, "file_mutex")
    /\ UNCHANGED <<storageVars, localVars>>

Close ==
    /\ GoTo(Main, "Close", "End")
    /\ CloseOutputFile
    /\ Unlock(Main, "file_mutex")
    /\ UNCHANGED localVars

Next ==
    \/ \E t \in Threads : StartCall(t) \/ Acquire(t)
    \/ \E w \in Workers :
          \/ \E c \in {"good", "bad"} : Fill(w, c)
          \/ Front(w) \/ NothingQueued(w) \/ Pop(w)
          \/ AskSaved(w) \/ AskNotSaved(w) \/ Push(w)
          \/ FindSaved(w) \/ Write(w) \/ Record(w)
    \/ Clear \/ List \/ Refill \/ Done \/ Close

Spec == Init /\ [][Next]_vars

-----------------------------------------------------------------------------
(***************************************************************************)
(* Properties.                                                             *)
(***************************************************************************)

\* Every variable has its type.
TypeOK ==
    /\ StorageTypeOK
    /\ owner \in [{"queue_mutex", "file_mutex"} -> Threads \cup {Nobody}]
    /\ pointer \in [Workers -> Objects \cup {NoObject}]
    /\ content \in [Objects -> {"blank", "good", "bad"}]
    /\ missing \in Seq(Objects) /\ dropped \in Seq(Objects)

\* t waits for a mutex that u holds.
WaitsFor(t, u) == \E w \in Waits : pc[t] = w[1] /\ owner[w[2]] = u

\* The nested locks of ForceRequeueMissingPieces never close a circle: among any
\* threads there is one that does not wait for another of them, or for itself.
NoCircularWait ==
    \A S \in (SUBSET Threads) \ {{}} : \E t \in S : \A u \in S : ~WaitsFor(t, u)

(***************************************************************************)
(* The critical sections implement the atomic operations of                *)
(* StorageWorkers, and with them all that is proved of it.  A save counts  *)
(* from its write on, a forced requeue from the reading of the list on.    *)
(***************************************************************************)
Stage(w) ==
    IF pc[w] \in {"Working", "AskLock", "Ask"} THEN "working"
    ELSE IF pc[w] \in {"PushLock", "Push"} THEN "requeueing"
    ELSE IF pc[w] \in {"SaveLock", "Find"} THEN "verified"
    ELSE "idle"

Recording == {w \in Workers : pc[w] = "Record"}

WholeQueue == IF pc[Main] = "Refill" THEN queue \o missing ELSE dropped \o queue

WholeList ==
    IF Recording = {} THEN saved
    ELSE Append(saved, Index(pointer[CHOOSE w \in Recording : TRUE]))

HeldBy(w) == IF Stage(w) = "idle" THEN NoObject ELSE pointer[w]

ContentOf(o) ==
    IF \E w \in Workers : pointer[w] = o /\ pc[w] \in {"PushLock", "Push", "Record"}
    THEN "blank" ELSE content[o]

Atomic == INSTANCE StorageWorkers WITH
    queue <- WholeQueue,
    saved <- WholeList,
    held <- [w \in Workers |-> HeldBy(w)],
    stage <- [w \in Workers |-> Stage(w)],
    content <- [o \in Objects |-> ContentOf(o)]

ImplementsStorageWorkers == Atomic!Spec
=============================================================================
