------------------------- MODULE StorageLocksProofs -------------------------
(***************************************************************************)
(* PieceStorage cannot deadlock, whatever the number of threads and of     *)
(* pieces: the two mutexes are nested in one place only                    *)
(* (ForceRequeueMissingPieces), and whoever holds file_mutex waits for     *)
(* nothing.  And its critical sections implement the atomic operations of  *)
(* StorageWorkers.                                                         *)
(***************************************************************************)
EXTENDS StorageLocks, SequenceTheorems, TLAPS

\* Where a thread may be while it holds a mutex.  In none of the places of
\* file_mutex it waits; in one of queue_mutex's it waits for file_mutex.
WithQueue == {"Front", "Pop", "Push", "Clear", "MissingLock", "List", "Refill"}
WithFile  == {"Ask", "Find", "Record", "List", "Done", "Close"}

LockInv ==
    /\ pc = [t \in Threads |-> pc[t]]
    /\ owner \in [{"queue_mutex", "file_mutex"} -> Threads \cup {Nobody}]
    /\ \A t \in Threads : owner["queue_mutex"] = t => pc[t] \in WithQueue
    /\ \A t \in Threads : owner["file_mutex"] = t => pc[t] \in WithFile

LEMMA NobodyIsNoThread == Nobody \notin Threads
  BY LocksAssumption DEF Nobody, Threads, Main

-----------------------------------------------------------------------------
\* A step of t that keeps the mutexes it had, or lets go of one and leaves its places.
LEMMA Moves ==
  ASSUME LockInv, NEW t \in Threads, NEW to, pc' = [pc EXCEPT ![t] = to],
         pc[t] \in WithQueue => to \in WithQueue
             \/ owner' = [owner EXCEPT !["queue_mutex"] = Nobody],
         pc[t] \in WithFile => to \in WithFile
             \/ owner' = [owner EXCEPT !["file_mutex"] = Nobody],
         \/ owner' = owner
         \/ owner' = [owner EXCEPT !["queue_mutex"] = Nobody]
         \/ owner' = [owner EXCEPT !["file_mutex"] = Nobody]
  PROVE  LockInv'
<1>1. owner' \in [{"queue_mutex", "file_mutex"} -> Threads \cup {Nobody}]
  BY DEF LockInv
<1>2. \A m \in {"queue_mutex", "file_mutex"} : owner'[m] \in {owner[m], Nobody}
  BY DEF LockInv
<1>3. \A u \in Threads : owner'["queue_mutex"] = u => pc'[u] \in WithQueue
  BY <1>2, NobodyIsNoThread DEF LockInv
<1>4. \A u \in Threads : owner'["file_mutex"] = u => pc'[u] \in WithFile
  BY <1>2, NobodyIsNoThread DEF LockInv
<1> QED
  BY <1>1, <1>3, <1>4 DEF LockInv

\* Taking a mutex leads to a place where one has it, and keeps the one held before.
LEMMA AcquireStep ==
  ASSUME LockInv, NEW t \in Threads, Acquire(t)
  PROVE  LockInv'
<1>1. PICK w \in Waits : GoTo(t, w[1], w[3]) /\ Lock(t, w[2])
  BY DEF Acquire
<1>2. /\ pc[t] = w[1] /\ pc' = [pc EXCEPT ![t] = w[3]]
      /\ owner[w[2]] = Nobody /\ owner' = [owner EXCEPT ![w[2]] = t]
  BY <1>1 DEF GoTo, Lock
<1>3. /\ w[2] = "queue_mutex" => w[3] \in WithQueue /\ w[1] \notin WithQueue
      /\ w[2] = "file_mutex" => w[3] \in WithFile
      /\ w[1] \notin WithFile
      /\ w[1] \in WithQueue => w[3] \in WithQueue
      /\ w[2] \in {"queue_mutex", "file_mutex"}
  <2>1. \/ w = <<"GetLock", "queue_mutex", "Front">>
        \/ w = <<"AskLock", "file_mutex", "Ask">>
        \/ w = <<"PushLock", "queue_mutex", "Push">>
        \/ w = <<"SaveLock", "file_mutex", "Find">>
        \/ w = <<"ForceLock", "queue_mutex", "Clear">>
        \/ w = <<"MissingLock", "file_mutex", "List">>
        \/ w = <<"DoneLock", "file_mutex", "Done">>
        \/ w = <<"CloseLock", "file_mutex", "Close">>
    BY DEF Waits
  <2> QED
    BY <2>1 DEF WithQueue, WithFile
<1>4. owner["file_mutex"] # t
  BY <1>2, <1>3 DEF LockInv
<1>5. \A u \in Threads : owner'["queue_mutex"] = u => pc'[u] \in WithQueue
  BY <1>2, <1>3 DEF LockInv
<1>6. \A u \in Threads : owner'["file_mutex"] = u => pc'[u] \in WithFile
  BY <1>2, <1>3, <1>4 DEF LockInv
<1> QED
  BY <1>2, <1>3, <1>5, <1>6 DEF LockInv

LEMMA WorkerStep ==
  ASSUME LockInv, NEW w \in Workers,
         \/ Front(w) \/ NothingQueued(w) \/ Pop(w) \/ AskSaved(w) \/ AskNotSaved(w)
         \/ Push(w) \/ FindSaved(w) \/ Write(w) \/ Record(w)
  PROVE  LockInv'
<1> w \in Threads
  BY DEF Threads
<1>1. CASE Front(w)
  BY <1>1, Moves DEF Front, GoTo, Unlock, WithQueue, WithFile
<1>2. CASE NothingQueued(w)
  BY <1>2, Moves DEF NothingQueued, GoTo, Unlock, WithQueue, WithFile
<1>3. CASE Pop(w)
  BY <1>3, Moves DEF Pop, GoTo, Unlock, WithQueue, WithFile
<1>4. CASE AskSaved(w)
  BY <1>4, Moves DEF AskSaved, GoTo, Unlock, WithQueue, WithFile
<1>5. CASE AskNotSaved(w)
  BY <1>5, Moves DEF AskNotSaved, GoTo, Unlock, WithQueue, WithFile
<1>6. CASE Push(w)
  BY <1>6, Moves DEF Push, GoTo, Unlock, WithQueue, WithFile
<1>7. CASE FindSaved(w)
  BY <1>7, Moves DEF FindSaved, GoTo, Unlock, WithQueue, WithFile
<1>8. CASE Write(w)
  BY <1>8, Moves DEF Write, GoTo, Unlock, WithQueue, WithFile
<1>9. CASE Record(w)
  BY <1>9, Moves DEF Record, GoTo, Unlock, WithQueue, WithFile
<1> QED
  BY <1>1, <1>2, <1>3, <1>4, <1>5, <1>6, <1>7, <1>8, <1>9

LEMMA StartStep ==
  ASSUME LockInv, NEW t \in Threads, StartCall(t)
  PROVE  LockInv'
<1>1. PICK from \in {"Idle", "Working", "Monitor"},
           to \in {"GetLock", "AskLock", "SaveLock", "DoneLock", "ForceLock"} :
          GoTo(t, from, to)
  BY DEF StartCall
<1>2. UNCHANGED owner
  BY DEF StartCall
<1> QED
  BY <1>1, <1>2, Moves DEF GoTo, WithQueue, WithFile

LEMMA MainStep ==
  ASSUME LockInv, Clear \/ List \/ Refill \/ Done \/ Close
  PROVE  LockInv'
<1> Main \in Threads
  BY DEF Threads
<1>1. CASE Clear
  <2>1. UNCHANGED owner /\ (UNCHANGED pc \/ GoTo(Main, "Clear", "MissingLock"))
    BY <1>1 DEF Clear
  <2>2. CASE UNCHANGED pc
    BY <2>1, <2>2 DEF LockInv
  <2> QED
    BY <2>1, <2>2, Moves DEF GoTo, Unlock, WithQueue, WithFile
<1>2. CASE List
  BY <1>2, Moves DEF List, GoTo, Unlock, WithQueue, WithFile
<1>3. CASE Refill
  <2>1. \/ UNCHANGED <<owner, pc>>
        \/ GoTo(Main, "Refill", "Monitor") /\ Unlock(Main, "queue_mutex")
    BY <1>3 DEF Refill
  <2>2. CASE UNCHANGED <<owner, pc>>
    BY <2>2 DEF LockInv
  <2> QED
    BY <2>1, <2>2, Moves DEF GoTo, Unlock, WithQueue, WithFile
<1>4. CASE Done
  <2>1. PICK to \in {"CloseLock", "Monitor"} : GoTo(Main, "Done", to)
    BY <1>4 DEF Done
  <2> QED
    BY <1>4, <2>1, Moves DEF Done, GoTo, Unlock, WithQueue, WithFile
<1>5. CASE Close
  BY <1>5, Moves DEF Close, GoTo, Unlock, WithQueue, WithFile
<1> QED
  BY <1>1, <1>2, <1>3, <1>4, <1>5

\* Who holds a mutex is where its code says.
THEOREM LockInvariance == Spec => []LockInv
<1>1. Init => LockInv
  <2> SUFFICES ASSUME Init PROVE LockInv
    OBVIOUS
  <2>1. pc = [t \in Threads |-> pc[t]]
    BY DEF Init
  <2>2. \A m \in {"queue_mutex", "file_mutex"} : owner[m] = Nobody
    BY DEF Init
  <2>3. owner \in [{"queue_mutex", "file_mutex"} -> Threads \cup {Nobody}]
    BY DEF Init
  <2> QED
    BY <2>1, <2>2, <2>3, NobodyIsNoThread DEF LockInv
<1>2. LockInv /\ [Next]_vars => LockInv'
  <2> SUFFICES ASSUME LockInv, [Next]_vars PROVE LockInv'
    OBVIOUS
  <2>1. ASSUME NEW w \in Workers, NEW c \in {"good", "bad"}, Fill(w, c) PROVE LockInv'
    BY <2>1 DEF Fill, LockInv
  <2>2. CASE UNCHANGED vars
    BY <2>2 DEF vars, LockInv
  <2> QED
    BY <2>1, <2>2, StartStep, AcquireStep, WorkerStep, MainStep DEF Next
<1> QED
  BY <1>1, <1>2, PTL DEF Spec

\* No threads wait for each other in a circle: not two on the two mutexes, not one on
\* a mutex it has.
THEOREM DeadlockFree == Spec => []NoCircularWait
<1>1. LockInv => NoCircularWait
  <2> SUFFICES ASSUME LockInv, NEW S \in (SUBSET Threads) \ {{}}
               PROVE  \E t \in S : \A u \in S : ~WaitsFor(t, u)
    BY DEF NoCircularWait
  <2> SUFFICES ASSUME \A t \in S : \E u \in S : WaitsFor(t, u)
               PROVE  FALSE
    OBVIOUS
  <2>1. \A t, u \in S : WaitsFor(t, u) =>
            \/ owner["file_mutex"] = u
            \/ owner["queue_mutex"] = u /\ pc[t] \in {"GetLock", "PushLock", "ForceLock"}
    BY DEF WaitsFor, Waits
  <2>2. \A t \in S : owner["file_mutex"] = t => \A u \in S : ~WaitsFor(t, u)
    BY DEF LockInv, WithFile, WaitsFor, Waits
  <2>3. \A t, u \in S : WaitsFor(t, u) =>
            owner["queue_mutex"] = u /\ pc[t] \in {"GetLock", "PushLock", "ForceLock"}
    BY <2>1, <2>2
  <2>4. PICK t, u, v \in S : WaitsFor(t, u) /\ WaitsFor(u, v)
    OBVIOUS
  <2>5. pc[u] \in WithQueue /\ pc[u] \in {"GetLock", "PushLock", "ForceLock"}
    BY <2>3, <2>4 DEF LockInv
  <2> QED
    BY <2>5 DEF WithQueue
<1> QED
  BY <1>1, LockInvariance, PTL

-----------------------------------------------------------------------------
(***************************************************************************)
(* The critical sections of PieceStorage implement the atomic operations   *)
(* of StorageWorkers, for any number of threads and pieces: nobody sees    *)
(* the states between lock and unlock.  A save counts from its write on, a *)
(* forced requeue from the reading of the list on.  Every step that uses   *)
(* the list of saved pieces has file_mutex, so no save is half done then;  *)
(* every step that uses the queue has queue_mutex, so no pop or requeue    *)
(* is.                                                                     *)
(***************************************************************************)

\* What is proved of StorageWorkers, for the critical sections.
SW == INSTANCE StorageWorkersProofs WITH
    queue <- WholeQueue,
    saved <- WholeList,
    held <- [w \in Workers |-> HeldBy(w)],
    stage <- [w \in Workers |-> Stage(w)],
    content <- [o \in Objects |-> ContentOf(o)]

-----------------------------------------------------------------------------
\* Who is between lock and unlock has the mutex: at most one thread is.
Exclusion ==
    /\ \A t \in Threads : pc[t] \in WithQueue => owner["queue_mutex"] = t
    /\ \A t \in Threads : pc[t] \in WithFile => owner["file_mutex"] = t

WorkerPlaces ==
    {"Idle", "GetLock", "Front", "Pop", "Working", "AskLock", "Ask", "PushLock", "Push",
     "SaveLock", "Find", "Record"}

MainPlaces ==
    {"Monitor", "DoneLock", "Done", "CloseLock", "Close", "End", "ForceLock", "Clear",
     "MissingLock", "List", "Refill"}

(***************************************************************************)
(* What is known of one worker.  Between front and pop its object is still *)
(* the queue's; between write and push_back its object is nobody else's,   *)
(* although it no longer counts as held.                                   *)
(***************************************************************************)
WorkerInv(w) ==
    /\ pc[w] \in WorkerPlaces
    /\ pc[w] \in {"Idle", "GetLock", "Front"} => pointer[w] = NoObject
    /\ pc[w] = "Pop" => queue # <<>> /\ pointer[w] = Head(queue)
    /\ pc[w] = "Record" => /\ pointer[w] \in Objects
                           /\ \A k \in DOMAIN WholeQueue : WholeQueue[k] # pointer[w]
                           /\ \A v \in Workers \ {w} : pointer[v] # pointer[w]

\* What is known of the main thread, and of the queue while a requeue is on its way.
MainInv ==
    /\ pc[Main] \in MainPlaces
    /\ missing # <<>> => pc[Main] = "Refill"
    /\ dropped # <<>> => pc[Main] \in {"Clear", "MissingLock", "List"}
    /\ pc[Main] \in {"MissingLock", "List"} => queue = <<>>
    /\ file_open <=> pc[Main] # "End"
    /\ pc[Main] \in {"CloseLock", "Close", "End"} =>
          Len(saved) = NumPieces /\ Recording = {}

\* An object nobody has is blank: it is not made yet, or not handed out.
BlankUnlessHeld ==
    \A o \in Objects :
        content[o] = "blank" \/ \E w \in Workers : pointer[w] = o /\ pc[w] # "Pop"

\* The invariant of the sections, and that of StorageWorkers.
LocalInv ==
    /\ TypeOK
    /\ LockInv
    /\ Exclusion
    /\ MainInv
    /\ \A w \in Workers : WorkerInv(w)
    /\ BlankUnlessHeld

Inv == LocalInv /\ SW!IInv

-----------------------------------------------------------------------------
(***************************************************************************)
(* Facts about the data and the instance SW.                               *)
(***************************************************************************)

\* What the instance SW is told of Workers.
LEMMA WorkersFinite == SW!IsFiniteSet(Workers)
BY LocksAssumption DEF SW!IsFiniteSet, IsFiniteSet

\* The main thread is a thread of its own.
LEMMA MainIsNoWorker == Main \in Threads /\ Main \notin Workers /\ Workers \subseteq Threads
BY LocksAssumption DEF Main, Threads

\* A null pointer is no object.
LEMMA NoObjectIsNone == NoObject \notin Objects
BY StorageAssumption DEF NoObject, Objects, Pieces

\* Pieces and objects are the same to the instance SW.
LEMMA SamePieces == SW!Pieces = Pieces /\ SW!Objects = Objects /\ SW!NoObject = NoObject
BY DEF SW!Pieces, Pieces, SW!Objects, Objects, SW!NoObject, NoObject

\* The instance SW keeps the invariant of its own steps.
LEMMA StorageInvStep ==
  ASSUME SW!IInv, [SW!Next]_SW!vars
  PROVE  SW!IInv'
BY StorageAssumption, WorkersFinite, SW!TypeStep, SW!OwnershipStep, SW!BlankStep,
   SW!StageStep, SW!SavedOnceStep, SW!ClosedStep, SW!NothingLostStep, SW!DiskStep
   DEF SW!IInv

\* A worker that is not idle has an object.
LEMMA HasObject ==
  ASSUME Inv, NEW w \in Workers, Stage(w) # "idle"
  PROVE  pointer[w] \in Objects /\ Index(pointer[w]) \in Pieces
<1>1. pointer[w] \in Objects
  <2>1. SW!TypeOK /\ SW!StageTellsContent
    BY DEF Inv, SW!IInv
  <2>2. HeldBy(w) \in SW!Objects
    BY <2>1, SW!BusyHasObject, StorageAssumption, WorkersFinite
  <2> QED
    BY <2>2, SamePieces DEF HeldBy
<1> QED
  BY <1>1 DEF Objects, Index

\* No two threads are in sections of file_mutex.
LEMMA OneInFile ==
  ASSUME Exclusion, NEW t \in Threads, NEW u \in Threads,
         pc[t] \in WithFile, pc[u] \in WithFile
  PROVE  t = u
BY DEF Exclusion

\* Nor in two sections of queue_mutex.
LEMMA OneInQueue ==
  ASSUME Exclusion, NEW t \in Threads, NEW u \in Threads,
         pc[t] \in WithQueue, pc[u] \in WithQueue
  PROVE  t = u
BY DEF Exclusion

\* Who has file_mutex, and is not in the middle of a save, sees the list as it is.
LEMMA ListIsWhole ==
  ASSUME Exclusion, NEW t \in Threads, pc[t] \in WithFile, pc[t] # "Record"
  PROVE  Recording = {} /\ WholeList = saved
<1>1. \A w \in Workers : pc[w] # "Record"
  BY OneInFile, MainIsNoWorker DEF WithFile
<1> QED
  BY <1>1 DEF Recording, WholeList

\* A step that is not one of a save leaves the list alone.
LEMMA ListStays ==
  ASSUME saved' = saved,
         \A w \in Workers : /\ pc'[w] = "Record" <=> pc[w] = "Record"
                            /\ pc[w] = "Record" => pointer'[w] = pointer[w]
  PROVE  WholeList' = WholeList /\ Recording' = Recording
<1>1. Recording' = Recording
  BY DEF Recording
<1>2. CASE Recording = {}
  BY <1>1, <1>2 DEF WholeList
<1>3. CASE Recording # {}
  <2> DEFINE r == CHOOSE w \in Recording : TRUE
  <2>1. r \in Recording
    BY <1>3
  <2>2. pointer'[r] = pointer[r]
    BY <2>1 DEF Recording
  <2>3. r' = r
    BY <1>1
  <2> QED
    BY <1>1, <1>3, <2>2, <2>3 DEF WholeList, Index
<1> QED
  BY <1>1, <1>2, <1>3

\* The only save on its way.
LEMMA OneRecording ==
  ASSUME Exclusion, NEW w \in Workers, pc[w] = "Record"
  PROVE  Recording = {w} /\ WholeList = Append(saved, Index(pointer[w]))
<1>1. \A v \in Workers : pc[v] = "Record" => v = w
  BY OneInFile, MainIsNoWorker DEF WithFile
<1>2. Recording = {w}
  BY <1>1 DEF Recording
<1>3. (CHOOSE v \in Recording : TRUE) = w
  BY <1>2
<1> QED
  BY <1>2, <1>3 DEF WholeList

\* A worker with queue_mutex sees the queue as it is.
LEMMA QueueIsWhole ==
  ASSUME TypeOK, Exclusion, MainInv, NEW w \in Workers, pc[w] \in WithQueue
  PROVE  /\ WholeQueue = queue /\ dropped = <<>> /\ missing = <<>>
         /\ pc[Main] \notin WithQueue
<1>1. pc[Main] \notin WithQueue
  BY OneInQueue, MainIsNoWorker
<1>2. dropped = <<>> /\ missing = <<>> /\ pc[Main] # "Refill"
  BY <1>1 DEF MainInv, WithQueue
<1>3. <<>> \o queue = queue
  BY ConcatEmptySeq DEF TypeOK, StorageTypeOK
<1> QED
  BY <1>1, <1>2, <1>3 DEF WholeQueue

-----------------------------------------------------------------------------
(***************************************************************************)
(* What a step of one worker changes for StorageWorkers.                   *)
(***************************************************************************)

\* The stages and pieces of all workers, when only one went on.
LEMMA StageUpdate ==
  ASSUME NEW w \in Workers,
         \A v \in Workers \ {w} : pc'[v] = pc[v] /\ pointer'[v] = pointer[v]
  PROVE  /\ [v \in Workers |-> Stage(v)]' = [[v \in Workers |-> Stage(v)] EXCEPT ![w] = Stage(w)']
         /\ [v \in Workers |-> HeldBy(v)]' = [[v \in Workers |-> HeldBy(v)] EXCEPT ![w] = HeldBy(w)']
<1>1. \A v \in Workers \ {w} : Stage(v)' = Stage(v)
  BY DEF Stage
<1>2. \A v \in Workers \ {w} : HeldBy(v)' = HeldBy(v)
  BY <1>1 DEF HeldBy
<1> QED
  BY <1>1, <1>2

\* Stages and pieces stay.
LEMMA StageStays ==
  ASSUME \A v \in Workers : Stage(v)' = Stage(v),
         \A v \in Workers : Stage(v) # "idle" => pointer'[v] = pointer[v]
  PROVE  /\ UNCHANGED [v \in Workers |-> Stage(v)]
         /\ UNCHANGED [v \in Workers |-> HeldBy(v)]
<1>1. \A v \in Workers : HeldBy(v)' = HeldBy(v)
  BY DEF HeldBy
<1> QED
  BY <1>1

\* Only the blocks of one object are concerned.
LEMMA ContentUpdate ==
  ASSUME NEW w \in Workers, NEW x \in Objects,
         \A v \in Workers \ {w} : pc'[v] = pc[v] /\ pointer'[v] = pointer[v],
         pointer[w] \in {x, NoObject}, pointer'[w] \in {x, NoObject},
         \A o \in Objects \ {x} : content'[o] = content[o]
  PROVE  [o \in Objects |-> ContentOf(o)]' =
            [[o \in Objects |-> ContentOf(o)] EXCEPT ![x] = ContentOf(x)']
<1>1. ASSUME NEW o \in Objects \ {x}
      PROVE  ContentOf(o)' = ContentOf(o)
  <2>1. pointer[w] # o /\ pointer'[w] # o
    BY NoObjectIsNone
  <2>2. \A v \in Workers : pointer[v] = o <=> pointer'[v] = o
    BY <2>1
  <2>3. \A v \in Workers : pointer[v] = o => pc'[v] = pc[v]
    BY <2>1
  <2> QED
    BY <2>2, <2>3 DEF ContentOf
<1> QED
  BY <1>1

\* No blocks change.
LEMMA ContentStays ==
  ASSUME content' = content,
         \A v \in Workers : LET p == {"PushLock", "Push", "Record"} IN
             /\ pc'[v] \in p <=> pc[v] \in p
             /\ pc[v] \in p => pointer'[v] = pointer[v]
  PROVE  UNCHANGED [o \in Objects |-> ContentOf(o)]
<1>1. \A o \in Objects : ContentOf(o)' = ContentOf(o)
  BY DEF ContentOf
<1> QED
  BY <1>1

-----------------------------------------------------------------------------
\* Nobody else points to the object of a worker that is at work with it.
LEMMA Mine ==
  ASSUME Inv, NEW w \in Workers, Stage(w) # "idle", NEW v \in Workers \ {w}
  PROVE  pointer[v] # pointer[w]
<1>1. pointer[w] \in Objects /\ pointer[w] # NoObject /\ HeldBy(w) = pointer[w]
  BY HasObject, NoObjectIsNone DEF HeldBy
<1>2. SW!ExclusiveOwnership /\ WorkerInv(v)
  BY DEF Inv, LocalInv, SW!IInv
<1>3. CASE Stage(v) # "idle"
  <2>1. HeldBy(v) = pointer[v]
    BY <1>3 DEF HeldBy
  <2>2. HeldBy(v) # HeldBy(w)
    BY <1>1, <1>2, SamePieces DEF SW!ExclusiveOwnership
  <2> QED
    BY <1>1, <2>1, <2>2
<1>4. CASE pc[v] \in {"Idle", "GetLock", "Front"}
  BY <1>1, <1>2, <1>4 DEF WorkerInv
<1>5. CASE pc[v] = "Record"
  BY <1>2, <1>5 DEF WorkerInv
<1>6. CASE pc[v] = "Pop"
  <2>1. /\ queue \in Seq(Objects) /\ queue # <<>> /\ pointer[v] = Head(queue)
        /\ WholeQueue = queue
    BY <1>2, <1>6, QueueIsWhole DEF WorkerInv, WithQueue, Inv, LocalInv, TypeOK, StorageTypeOK
  <2>2. 1 \in DOMAIN queue /\ pointer[v] = queue[1]
    BY <2>1, EmptySeq, LenProperties, HeadTailProperties
  <2>3. HeldBy(w) \notin SW!Queued
    BY <1>2 DEF SW!ExclusiveOwnership
  <2> QED
    BY <1>1, <2>1, <2>2, <2>3 DEF SW!Queued
<1> QED
  BY <1>2, <1>3, <1>4, <1>5, <1>6 DEF WorkerInv, WorkerPlaces, Stage

\* What StorageWorkers knows of an object at work is what is in it.
LEMMA ContentIsReal ==
  ASSUME Inv, NEW w \in Workers, Stage(w) \in {"working", "verified"}
  PROVE  ContentOf(pointer[w]) = content[pointer[w]]
<1>1. pc[w] \notin {"PushLock", "Push", "Record"}
  BY DEF Stage
<1>2. \A v \in Workers \ {w} : pointer[v] # pointer[w]
  BY Mine
<1> QED
  BY <1>1, <1>2 DEF ContentOf

\* A worker goes on with the object it has: the stage may change, nothing else.
LEMMA MoveStep ==
  ASSUME NEW w \in Workers, NEW to, pc' = [pc EXCEPT ![w] = to],
         pc = [t \in Threads |-> pc[t]],
         {pc[w], to} \cap {"PushLock", "Push", "Record"} = {},
         UNCHANGED <<storageVars, localVars>>
  PROVE  /\ UNCHANGED SW!storageVars
         /\ UNCHANGED [o \in Objects |-> ContentOf(o)]
         /\ [v \in Workers |-> Stage(v)]' = [[v \in Workers |-> Stage(v)] EXCEPT ![w] = Stage(w)']
<1> USE MainIsNoWorker
<1>1. /\ \A v \in Workers \ {w} : pc'[v] = pc[v] /\ pointer'[v] = pointer[v]
      /\ pc'[w] = to /\ pc'[Main] = pc[Main]
      /\ UNCHANGED <<queue, saved, disk, file_open, file_bad, pointer, content, missing, dropped>>
  BY DEF storageVars, localVars
<1>2. WholeQueue' = WholeQueue
  BY <1>1 DEF WholeQueue
<1>3. WholeList' = WholeList
  BY <1>1, ListStays
<1>4. UNCHANGED [o \in Objects |-> ContentOf(o)]
  BY <1>1, ContentStays
<1> QED
  BY <1>1, <1>2, <1>3, <1>4, StageUpdate DEF SW!storageVars

\* Nothing that StorageWorkers sees: the thread stays in its stage, and the storage
\* and the pointers as they are.
LEMMA QuietStep ==
  ASSUME NEW t \in Threads, NEW to, pc' = [pc EXCEPT ![t] = to],
         pc = [u \in Threads |-> pc[u]],
         \/ {pc[t], to} \subseteq {"Working", "AskLock", "Ask"}
         \/ {pc[t], to} \subseteq {"PushLock", "Push"}
         \/ {pc[t], to} \subseteq {"SaveLock", "Find"}
         \/ {pc[t], to} \subseteq (WorkerPlaces \cup MainPlaces) \
               {"Working", "AskLock", "Ask", "PushLock", "Push", "SaveLock", "Find",
                "Record", "Refill"},
         UNCHANGED <<storageVars, localVars>>
  PROVE  UNCHANGED SW!vars
<1> USE MainIsNoWorker
<1>1. /\ \A v \in Threads \ {t} : pc'[v] = pc[v]
      /\ pc'[t] = to
      /\ UNCHANGED <<queue, saved, disk, file_open, file_bad, pointer, content, missing, dropped>>
  BY DEF storageVars, localVars
<1>2. WholeQueue' = WholeQueue
  BY <1>1 DEF WholeQueue
<1>3. \A v \in Workers : pc'[v] = "Record" <=> pc[v] = "Record"
  BY <1>1
<1>4. WholeList' = WholeList
  BY <1>1, <1>3, ListStays
<1>5. UNCHANGED [o \in Objects |-> ContentOf(o)]
  <2>1. \A v \in Workers : /\ pc'[v] \in {"PushLock", "Push", "Record"}
                                <=> pc[v] \in {"PushLock", "Push", "Record"}
                           /\ pointer'[v] = pointer[v]
    BY <1>1
  <2> QED
    BY <1>1, <2>1, ContentStays
<1>6. \A v \in Workers : Stage(v)' = Stage(v)
  BY <1>1 DEF Stage
<1>7. /\ UNCHANGED [v \in Workers |-> Stage(v)]
      /\ UNCHANGED [v \in Workers |-> HeldBy(v)]
  BY <1>1, <1>6, StageStays
<1> QED
  BY <1>1, <1>2, <1>4, <1>5, <1>7 DEF SW!vars

\* A worker lets go of the object it has, and is idle.
LEMMA ReleaseStep ==
  ASSUME Inv, NEW w \in Workers, LetGo(w), Stage(w) # "idle",
         pc' = [pc EXCEPT ![w] = "Idle"]
  PROVE  SW!Release(w)
<1> USE MainIsNoWorker
<1>1. PICK x \in Objects : x = pointer[w]
  BY HasObject
<1>2. /\ \A v \in Workers \ {w} : pc'[v] = pc[v] /\ pointer'[v] = pointer[v]
      /\ pc'[w] = "Idle" /\ pointer'[w] = NoObject
      /\ content' = [content EXCEPT ![x] = "blank"]
  BY <1>1 DEF LetGo, Inv, LocalInv, TypeOK, LockInv
<1>3. Stage(w)' = "idle" /\ HeldBy(w)' = NoObject
  BY <1>2 DEF Stage, HeldBy
<1>4. content \in [Objects -> {"blank", "good", "bad"}]
  BY DEF Inv, LocalInv, TypeOK
<1>5. ContentOf(x)' = "blank"
  BY <1>1, <1>2, <1>4 DEF ContentOf
<1>6. [o \in Objects |-> ContentOf(o)]' = [[o \in Objects |-> ContentOf(o)] EXCEPT ![x] = "blank"]
  BY <1>1, <1>2, <1>4, <1>5, ContentUpdate
<1>7. x = HeldBy(w)
  BY <1>1 DEF HeldBy
<1> QED
  BY <1>2, <1>3, <1>6, <1>7, StageUpdate DEF SW!Release, SW!Blanked, SW!NoObject, NoObject

-----------------------------------------------------------------------------
(***************************************************************************)
(* Every step is one of StorageWorkers, or none.                           *)
(***************************************************************************)

\* Taking a mutex is nothing to StorageWorkers.
LEMMA AcquireRefines ==
  ASSUME Inv, NEW t \in Threads, Acquire(t)
  PROVE  UNCHANGED SW!vars
<1>1. PICK w \in Waits : GoTo(t, w[1], w[3])
  BY DEF Acquire
<1>2. pc' = [pc EXCEPT ![t] = w[3]] /\ pc[t] = w[1]
  BY <1>1 DEF GoTo
<1>3. \/ {w[1], w[3]} \subseteq {"Working", "AskLock", "Ask"}
      \/ {w[1], w[3]} \subseteq {"PushLock", "Push"}
      \/ {w[1], w[3]} \subseteq {"SaveLock", "Find"}
      \/ {w[1], w[3]} \subseteq (WorkerPlaces \cup MainPlaces) \
            {"Working", "AskLock", "Ask", "PushLock", "Push", "SaveLock", "Find",
             "Record", "Refill"}
  <2>1. \/ w = <<"GetLock", "queue_mutex", "Front">>
        \/ w = <<"AskLock", "file_mutex", "Ask">>
        \/ w = <<"PushLock", "queue_mutex", "Push">>
        \/ w = <<"SaveLock", "file_mutex", "Find">>
        \/ w = <<"ForceLock", "queue_mutex", "Clear">>
        \/ w = <<"MissingLock", "file_mutex", "List">>
        \/ w = <<"DoneLock", "file_mutex", "Done">>
        \/ w = <<"CloseLock", "file_mutex", "Close">>
    BY DEF Waits
  <2> QED
    BY <2>1 DEF WorkerPlaces, MainPlaces
<1>4. UNCHANGED <<storageVars, localVars>> /\ pc = [u \in Threads |-> pc[u]]
  BY DEF Acquire, Inv, LocalInv, LockInv
<1> QED
  BY <1>2, <1>3, <1>4, QuietStep

\* The call of SavePieceToDisk verifies, all other calls are nothing yet.
LEMMA StartRefines ==
  ASSUME Inv, NEW t \in Threads, StartCall(t)
  PROVE  (t \in Workers /\ SW!Verify(t)) \/ UNCHANGED SW!vars
<1>1. UNCHANGED <<storageVars, localVars>> /\ pc = [u \in Threads |-> pc[u]]
  BY DEF StartCall, Inv, LocalInv, LockInv
<1>2. CASE \/ GoTo(t, "Idle", "GetLock") \/ GoTo(t, "Working", "AskLock")
           \/ GoTo(t, "Monitor", "DoneLock") \/ GoTo(t, "Monitor", "ForceLock")
  BY <1>1, <1>2, QuietStep DEF GoTo, WorkerPlaces, MainPlaces
<1>3. CASE t # Main /\ GoTo(t, "Working", "SaveLock") /\ content[pointer[t]] = "good"
  <2>1. t \in Workers
    BY <1>3 DEF Threads
  <2>2. pc[t] = "Working" /\ pc' = [pc EXCEPT ![t] = "SaveLock"]
    BY <1>3 DEF GoTo
  <2>3. /\ UNCHANGED SW!storageVars
        /\ UNCHANGED [o \in Objects |-> ContentOf(o)]
        /\ [v \in Workers |-> Stage(v)]' = [[v \in Workers |-> Stage(v)] EXCEPT ![t] = Stage(t)']
    BY <1>1, <2>1, <2>2, MoveStep
  <2>4. Stage(t) = "working" /\ Stage(t)' = "verified"
    BY <1>1, <2>2 DEF Stage
  <2>5. HeldBy(t) = pointer[t] /\ pointer[t] \in Objects
    BY <2>1, <2>4, HasObject DEF HeldBy
  <2>6. UNCHANGED [v \in Workers |-> HeldBy(v)]
    <3>1. HeldBy(t)' = HeldBy(t)
      BY <1>1, <2>4 DEF HeldBy, localVars
    <3>2. \A v \in Workers \ {t} : pc'[v] = pc[v] /\ pointer'[v] = pointer[v]
      BY <1>1, <2>2 DEF localVars
    <3>3. \A v \in Workers \ {t} : HeldBy(v)' = HeldBy(v)
      BY <3>2 DEF HeldBy, Stage
    <3> QED
      BY <3>1, <3>3
  <2>7. ContentOf(pointer[t]) = "good"
    BY <1>3, <2>1, <2>4, ContentIsReal
  <2> QED
    BY <2>1, <2>3, <2>4, <2>5, <2>6, <2>7 DEF SW!Verify, SW!HashMatches
<1> QED
  BY <1>2, <1>3 DEF StartCall

\* Blocks arrive.
LEMMA FillRefines ==
  ASSUME Inv, NEW w \in Workers, NEW c \in {"good", "bad"}, Fill(w, c)
  PROVE  SW!Fill(w, c)
<1> USE MainIsNoWorker
<1>1. Stage(w) = "working"
  BY DEF Fill, Stage
<1>2. PICK x \in Objects : x = pointer[w] /\ x = HeldBy(w)
  BY <1>1, HasObject DEF HeldBy
<1>3. /\ UNCHANGED <<queue, saved, disk, file_open, file_bad, pc, pointer, missing, dropped>>
      /\ content' = [content EXCEPT ![x] = c]
  BY <1>2 DEF Fill, storageVars
<1>4. WholeQueue' = WholeQueue /\ WholeList' = WholeList
  BY <1>3, ListStays DEF WholeQueue
<1>5. UNCHANGED <<[v \in Workers |-> Stage(v)], [v \in Workers |-> HeldBy(v)]>>
  BY <1>3, StageStays DEF Stage
<1>6. ContentOf(x) = "blank"
  BY <1>1, <1>2, ContentIsReal DEF Fill
<1>7. ContentOf(x)' = c
  <2>1. \A v \in Workers \ {w} : pointer[v] # x
    BY <1>1, <1>2, Mine
  <2>2. pc[w] = "Working"
    BY DEF Fill
  <2>3. content'[x] = c
    BY <1>3 DEF Inv, LocalInv, TypeOK
  <2> QED
    BY <1>3, <2>1, <2>2, <2>3 DEF ContentOf
<1>8. [o \in Objects |-> ContentOf(o)]' = [[o \in Objects |-> ContentOf(o)] EXCEPT ![x] = c]
  BY <1>2, <1>3, <1>7, ContentUpdate DEF Inv, LocalInv, TypeOK
<1> QED
  BY <1>1, <1>2, <1>3, <1>4, <1>5, <1>6, <1>8 DEF SW!Fill, SW!storageVars

\* front() is nothing to StorageWorkers, pop() is the Pop.
LEMMA FrontRefines ==
  ASSUME Inv, NEW w \in Workers, Front(w)
  PROVE  UNCHANGED SW!vars
<1> USE MainIsNoWorker
<1>1. /\ pc[w] = "Front" /\ pc' = [pc EXCEPT ![w] = "Pop"]
      /\ \A v \in Threads \ {w} : pc'[v] = pc[v]
      /\ pc'[w] = "Pop"
      /\ \A v \in Workers \ {w} : pointer'[v] = pointer[v]
      /\ UNCHANGED <<queue, saved, disk, file_open, file_bad, content, missing, dropped>>
  BY DEF Front, GoTo, storageVars, Inv, LocalInv, LockInv, TypeOK
<1>2. WholeQueue' = WholeQueue
  BY <1>1 DEF WholeQueue
<1>3. WholeList' = WholeList
  <2>1. \A v \in Workers : /\ pc'[v] = "Record" <=> pc[v] = "Record"
                           /\ pc[v] = "Record" => pointer'[v] = pointer[v]
    BY <1>1
  <2> QED
    BY <1>1, <2>1, ListStays
<1>4. UNCHANGED [o \in Objects |-> ContentOf(o)]
  <2>1. \A v \in Workers : /\ pc'[v] \in {"PushLock", "Push", "Record"}
                                <=> pc[v] \in {"PushLock", "Push", "Record"}
                           /\ pc[v] \in {"PushLock", "Push", "Record"} =>
                                 pointer'[v] = pointer[v]
    BY <1>1
  <2> QED
    BY <1>1, <2>1, ContentStays
<1>5. \A v \in Workers : /\ Stage(v)' = Stage(v)
                         /\ Stage(v) # "idle" => pointer'[v] = pointer[v]
  BY <1>1 DEF Stage
<1>6. /\ UNCHANGED [v \in Workers |-> Stage(v)]
      /\ UNCHANGED [v \in Workers |-> HeldBy(v)]
  BY <1>5, StageStays
<1> QED
  BY <1>1, <1>2, <1>3, <1>4, <1>6 DEF SW!vars

\* The object that front() returned is the one pop() removes.
LEMMA PopRefines ==
  ASSUME Inv, NEW w \in Workers, Pop(w)
  PROVE  SW!Pop(w)
<1> USE MainIsNoWorker
<1>1. /\ pc[w] = "Pop"
      /\ \A v \in Threads \ {w} : pc'[v] = pc[v]
      /\ pc'[w] = "Working"
      /\ queue' = Tail(queue)
      /\ UNCHANGED <<saved, disk, file_open, file_bad, pointer, content, missing, dropped>>
  BY DEF Pop, GoTo, localVars, Inv, LocalInv, LockInv
<1>2. /\ queue \in Seq(Objects) /\ queue # <<>> /\ pointer[w] = Head(queue)
  BY <1>1 DEF Inv, LocalInv, WorkerInv, TypeOK, StorageTypeOK
<1>3. /\ WholeQueue = queue /\ dropped = <<>> /\ pc[Main] # "Refill"
  BY <1>1, QueueIsWhole DEF WithQueue, Inv, LocalInv
<1>4. WholeQueue' = Tail(queue)
  <2>1. Tail(queue) \in Seq(Objects)
    BY <1>2, HeadTailProperties
  <2>2. <<>> \o Tail(queue) = Tail(queue)
    BY <2>1, ConcatEmptySeq
  <2> QED
    BY <1>1, <1>3, <2>2 DEF WholeQueue
<1>5. WholeList' = WholeList
  BY <1>1, ListStays
<1>6. Stage(w) = "idle" /\ Stage(w)' = "working" /\ HeldBy(w)' = Head(queue)
  BY <1>1, <1>2 DEF Stage, HeldBy
<1>7. UNCHANGED [o \in Objects |-> ContentOf(o)]
  <2>1. \A v \in Workers : /\ pc'[v] \in {"PushLock", "Push", "Record"}
                                <=> pc[v] \in {"PushLock", "Push", "Record"}
                           /\ pointer'[v] = pointer[v]
    BY <1>1
  <2> QED
    BY <1>1, <2>1, ContentStays
<1>8. /\ [v \in Workers |-> Stage(v)]' = [[v \in Workers |-> Stage(v)] EXCEPT ![w] = "working"]
      /\ [v \in Workers |-> HeldBy(v)]' = [[v \in Workers |-> HeldBy(v)] EXCEPT ![w] = Head(queue)]
  BY <1>1, <1>6, StageUpdate
<1>9. Head(queue) \in SW!Objects
  BY <1>2, HeadTailProperties, SamePieces
<1> QED
  BY <1>1, <1>2, <1>3, <1>4, <1>5, <1>6, <1>7, <1>8, <1>9 DEF SW!Pop, SW!GetNextPieceToDownload

\* IsPieceAlreadySaved means the same to both, under file_mutex.
LEMMA SameAnswer ==
  ASSUME Inv, NEW w \in Workers, pc[w] \in {"Ask", "Find"}
  PROVE  /\ WholeList = saved /\ Recording = {}
         /\ HeldBy(w) = pointer[w] /\ HeldBy(w) # NoObject
         /\ SW!IsPieceAlreadySaved(SW!Index(HeldBy(w))) <=> IsPieceAlreadySaved(Index(pointer[w]))
<1>1. WholeList = saved /\ Recording = {}
  BY MainIsNoWorker, ListIsWhole DEF WithFile, Inv, LocalInv
<1>2. HeldBy(w) = pointer[w] /\ HeldBy(w) # NoObject
  BY HasObject, NoObjectIsNone DEF HeldBy, Stage
<1> QED
  BY <1>1, <1>2
     DEF SW!IsPieceAlreadySaved, IsPieceAlreadySaved, SW!Saved, Saved, SW!Index, Index

\* The two answers of IsPieceAlreadySaved in Enqueue.
LEMMA AskRefines ==
  ASSUME Inv, NEW w \in Workers, AskSaved(w) \/ AskNotSaved(w)
  PROVE  SW!DropSaved(w) \/ SW!BeginEnqueue(w)
<1> USE MainIsNoWorker
<1>1. pc[w] = "Ask" /\ Stage(w) = "working"
  BY DEF AskSaved, AskNotSaved, GoTo, Stage
<1>2. PICK x \in Objects : x = pointer[w] /\ x = HeldBy(w) /\ x # NoObject
  BY <1>1, HasObject, SameAnswer
<1>3. /\ \A v \in Workers \ {w} : pc'[v] = pc[v] /\ pointer'[v] = pointer[v]
      /\ pc'[Main] = pc[Main] /\ pc'[w] \in {"Idle", "PushLock"}
      /\ UNCHANGED <<queue, saved, disk, file_open, file_bad, missing, dropped>>
      /\ \A o \in Objects \ {x} : content'[o] = content[o]
  BY <1>2
     DEF AskSaved, AskNotSaved, GoTo, LetGo, storageVars, localVars, Inv, LocalInv, LockInv,
         TypeOK
<1>4. UNCHANGED SW!storageVars
  <2>1. WholeQueue' = WholeQueue
    BY <1>3 DEF WholeQueue
  <2>2. WholeList' = WholeList
    BY <1>1, <1>3, ListStays
  <2> QED
    BY <1>3, <2>1, <2>2 DEF SW!storageVars
<1>5. CASE AskSaved(w)
  <2>1. SW!Release(w)
    BY <1>1, <1>5, ReleaseStep DEF AskSaved, GoTo
  <2>2. SW!IsPieceAlreadySaved(SW!Index(HeldBy(w)))
    BY <1>1, <1>5, SameAnswer DEF AskSaved
  <2> QED
    BY <1>2, <1>4, <2>1, <2>2, SamePieces DEF SW!DropSaved
<1>6. CASE AskNotSaved(w)
  <2>1. /\ pc'[w] = "PushLock" /\ UNCHANGED <<pointer, content>>
    BY <1>6 DEF AskNotSaved, GoTo, localVars, Inv, LocalInv, LockInv
  <2>2. Stage(w)' = "requeueing" /\ HeldBy(w)' = HeldBy(w)
    BY <1>2, <2>1 DEF Stage, HeldBy
  <2>3. /\ [v \in Workers |-> Stage(v)]' = [[v \in Workers |-> Stage(v)] EXCEPT ![w] = "requeueing"]
        /\ UNCHANGED [v \in Workers |-> HeldBy(v)]
    <3>1. \A v \in Workers \ {w} : HeldBy(v)' = HeldBy(v)
      BY <1>3 DEF HeldBy, Stage
    <3> QED
      BY <1>3, <2>2, <3>1, StageUpdate
  <2>4. [o \in Objects |-> ContentOf(o)]' = [[o \in Objects |-> ContentOf(o)] EXCEPT ![x] = "blank"]
    <3>1. ContentOf(x)' = "blank"
      BY <1>2, <2>1 DEF ContentOf
    <3> QED
      BY <1>2, <1>3, <2>1, <3>1, ContentUpdate
  <2>5. ~SW!IsPieceAlreadySaved(SW!Index(HeldBy(w)))
    BY <1>1, <1>6, SameAnswer DEF AskNotSaved
  <2> QED
    BY <1>1, <1>2, <1>4, <2>3, <2>4, <2>5 DEF SW!BeginEnqueue, SW!Blanked
<1> QED
  BY <1>5, <1>6

\* The second half of Enqueue.
LEMMA PushRefines ==
  ASSUME Inv, NEW w \in Workers, Push(w)
  PROVE  SW!FinishEnqueue(w)
<1> USE MainIsNoWorker
<1>1. pc[w] = "Push" /\ Stage(w) = "requeueing" /\ HeldBy(w) = pointer[w]
  BY DEF Push, GoTo, Stage, HeldBy
<1>2. /\ \A v \in Workers \ {w} : pc'[v] = pc[v] /\ pointer'[v] = pointer[v]
      /\ pc'[Main] = pc[Main] /\ pc'[w] = "Idle"
      /\ queue' = Append(queue, pointer[w])
      /\ UNCHANGED <<saved, disk, file_open, file_bad, missing, dropped>>
  BY DEF Push, PushToQueue, GoTo, LetGo, Inv, LocalInv, LockInv, TypeOK
<1>3. WholeQueue = queue /\ dropped = <<>> /\ pc[Main] # "Refill"
  BY <1>1, QueueIsWhole DEF WithQueue, Inv, LocalInv
<1>4. WholeQueue' = Append(queue, pointer[w])
  <2>1. Append(queue, pointer[w]) \in Seq(Objects)
    BY <1>1, HasObject, AppendProperties DEF Inv, LocalInv, TypeOK, StorageTypeOK
  <2>2. <<>> \o Append(queue, pointer[w]) = Append(queue, pointer[w])
    BY <2>1, ConcatEmptySeq
  <2> QED
    BY <1>2, <1>3, <2>2 DEF WholeQueue
<1>5. WholeList' = WholeList
  BY <1>1, <1>2, ListStays
<1>6. SW!Release(w)
  BY <1>1, ReleaseStep DEF Push, GoTo
<1> QED
  BY <1>1, <1>2, <1>3, <1>4, <1>5, <1>6 DEF SW!FinishEnqueue, SW!PushToQueue

\* A save that finds its index saved already.
LEMMA FindSavedRefines ==
  ASSUME Inv, NEW w \in Workers, FindSaved(w)
  PROVE  SW!Save(w)
<1> USE MainIsNoWorker
<1>1. pc[w] = "Find" /\ Stage(w) = "verified"
  BY DEF FindSaved, GoTo, Stage
<1>2. /\ \A v \in Workers \ {w} : pc'[v] = pc[v] /\ pointer'[v] = pointer[v]
      /\ pc'[Main] = pc[Main] /\ pc'[w] = "Idle"
      /\ UNCHANGED <<queue, saved, disk, file_open, file_bad, missing, dropped>>
  BY DEF FindSaved, GoTo, LetGo, storageVars, Inv, LocalInv, LockInv, TypeOK
<1>3. WholeQueue' = WholeQueue
  BY <1>2 DEF WholeQueue
<1>4. WholeList' = WholeList
  BY <1>1, <1>2, ListStays
<1>5. SW!Release(w)
  BY <1>1, ReleaseStep DEF FindSaved, GoTo
<1>6. SW!IsPieceAlreadySaved(SW!Index(HeldBy(w)))
  BY <1>1, SameAnswer DEF FindSaved
<1> QED
  BY <1>1, <1>2, <1>3, <1>4, <1>5, <1>6 DEF SW!Save, SW!SavePieceToDisk

\* The write is the Save, the push_back after it is nothing to StorageWorkers.
LEMMA WriteRefines ==
  ASSUME Inv, NEW w \in Workers, Write(w)
  PROVE  SW!Save(w) /\ WholeList' = Append(saved, Index(pointer[w])) /\ Recording' = {w}
<1> USE MainIsNoWorker
<1>1. pc[w] = "Find" /\ Stage(w) = "verified"
  BY DEF Write, GoTo, Stage
<1>2. PICK x \in Objects : x = pointer[w] /\ x = HeldBy(w)
  BY <1>1, HasObject, SameAnswer
<1>3. /\ \A v \in Workers \ {w} : pc'[v] = pc[v] /\ pointer'[v] = pointer[v]
      /\ pc'[Main] = pc[Main] /\ pc'[w] = "Record"
      /\ UNCHANGED <<queue, saved, file_open, missing, dropped, pointer, content>>
      /\ WriteRegion(Index(x), content[x])
  BY <1>2 DEF Write, GoTo, localVars, Inv, LocalInv, LockInv
<1>4. WholeQueue' = WholeQueue
  BY <1>3 DEF WholeQueue
<1>5. WholeList = saved /\ Recording = {}
  BY <1>1, SameAnswer
<1>6. Recording' = {w} /\ WholeList' = Append(saved, Index(x))
  <2>1. Recording' = {w}
    BY <1>3, <1>5 DEF Recording
  <2>2. (CHOOSE v \in Recording' : TRUE) = w
    BY <2>1
  <2>3. WholeList' = Append(saved', Index(pointer'[w]))
    BY <2>1, <2>2 DEF WholeList, Index
  <2> QED
    BY <1>2, <1>3, <2>1, <2>3 DEF Index
<1>7. /\ Stage(w)' = "idle" /\ HeldBy(w)' = NoObject
  BY <1>3 DEF Stage, HeldBy
<1>8. [o \in Objects |-> ContentOf(o)]' = [[o \in Objects |-> ContentOf(o)] EXCEPT ![x] = "blank"]
  <2>1. ContentOf(x)' = "blank"
    BY <1>2, <1>3 DEF ContentOf
  <2> QED
    BY <1>2, <1>3, <2>1, ContentUpdate
<1>9. SW!Release(w)
  BY <1>2, <1>3, <1>7, <1>8, StageUpdate DEF SW!Release, SW!Blanked, SW!NoObject, NoObject
<1>10. ContentOf(x) = "good" /\ content[x] = "good"
  <2>1. SW!StageTellsContent
    BY DEF Inv, SW!IInv
  <2>2. ContentOf(x) = "good"
    BY <1>1, <1>2, <2>1 DEF SW!StageTellsContent
  <2> QED
    BY <1>1, <1>2, <2>2, ContentIsReal
<1>11. ~SW!IsPieceAlreadySaved(SW!Index(x))
  BY <1>1, <1>2, SameAnswer DEF Write
<1>12. SW!WriteRegion(SW!Index(x), SW!GetData(x))
  <2>1. SW!Index(x) = Index(x) /\ SW!GetData(x) = "good"
    BY <1>10 DEF SW!Index, Index, SW!GetData
  <2> QED
    BY <1>3, <1>10, <2>1 DEF WriteRegion, SW!WriteRegion
<1>13. SW!Index(x) = Index(x)
  BY DEF SW!Index, Index
<1>14. SW!SavePieceToDisk(x, SW!GetData(x))
  BY <1>3, <1>4, <1>5, <1>6, <1>11, <1>12, <1>13 DEF SW!SavePieceToDisk
<1>15. SW!Save(w)
  BY <1>1, <1>2, <1>9, <1>14 DEF SW!Save
<1> QED
  BY <1>2, <1>6, <1>15

\* After the push_back the list is as long as it counted to be since the write.
LEMMA RecordRefines ==
  ASSUME Inv, NEW w \in Workers, Record(w)
  PROVE  UNCHANGED SW!vars
<1> USE MainIsNoWorker
<1>1. pc[w] = "Record" /\ Recording = {w} /\ WholeList = Append(saved, Index(pointer[w]))
  BY OneRecording DEF Record, GoTo, Inv, LocalInv
<1>2. PICK x \in Objects : x = pointer[w]
  BY <1>1 DEF Inv, LocalInv, WorkerInv
<1>3. /\ \A v \in Workers \ {w} : pc'[v] = pc[v] /\ pointer'[v] = pointer[v]
      /\ pc'[Main] = pc[Main] /\ pc'[w] = "Idle" /\ pointer'[w] = NoObject
      /\ saved' = Append(saved, Index(x))
      /\ content' = [content EXCEPT ![x] = "blank"]
      /\ UNCHANGED <<queue, disk, file_open, file_bad, missing, dropped>>
  BY <1>2 DEF Record, GoTo, LetGo, Inv, LocalInv, LockInv, TypeOK
<1>4. WholeQueue' = WholeQueue
  BY <1>3 DEF WholeQueue
<1>5. WholeList' = WholeList
  <2>1. Recording' = {}
    BY <1>1, <1>3 DEF Recording
  <2> QED
    BY <1>1, <1>2, <1>3, <2>1 DEF WholeList
<1>6. UNCHANGED [o \in Objects |-> ContentOf(o)]
  <2>1. content \in [Objects -> {"blank", "good", "bad"}]
    BY DEF Inv, LocalInv, TypeOK
  <2>2. ContentOf(x)' = "blank" /\ ContentOf(x) = "blank"
    BY <1>1, <1>2, <1>3, <2>1 DEF ContentOf
  <2>3. [o \in Objects |-> ContentOf(o)]' = [[o \in Objects |-> ContentOf(o)] EXCEPT ![x] = "blank"]
    BY <1>2, <1>3, <2>1, <2>2, ContentUpdate
  <2> QED
    BY <2>2, <2>3
<1>7. \A v \in Workers : /\ Stage(v)' = Stage(v)
                         /\ Stage(v) # "idle" => pointer'[v] = pointer[v]
  BY <1>1, <1>3 DEF Stage
<1>8. /\ UNCHANGED [v \in Workers |-> Stage(v)]
      /\ UNCHANGED [v \in Workers |-> HeldBy(v)]
  BY <1>7, StageStays
<1> QED
  BY <1>3, <1>4, <1>5, <1>6, <1>8 DEF SW!vars

\* A step of the main thread leaves the workers alone.
LEMMA MainStepFrame ==
  ASSUME Inv, \A w \in Workers : pc'[w] = pc[w], UNCHANGED <<saved, pointer>>
  PROVE  /\ UNCHANGED [v \in Workers |-> Stage(v)]
         /\ UNCHANGED [v \in Workers |-> HeldBy(v)]
         /\ WholeList' = WholeList /\ Recording' = Recording
         /\ content' = content => UNCHANGED [o \in Objects |-> ContentOf(o)]
<1>1. \A v \in Workers : Stage(v)' = Stage(v)
  BY DEF Stage
<1> QED
  BY <1>1, StageStays, ListStays, ContentStays

\* One object is popped and dropped: the whole queue was up to date and stays so.
LEMMA ClearRefines ==
  ASSUME Inv, Clear
  PROVE  UNCHANGED SW!vars
<1> USE MainIsNoWorker
<1>1. /\ \A v \in Workers : pc'[v] = pc[v]
      /\ pc[Main] = "Clear" /\ pc'[Main] \in {"Clear", "MissingLock"}
      /\ UNCHANGED <<saved, disk, file_open, file_bad, pointer, content, missing>>
  BY DEF Clear, GoTo, Inv, LocalInv, LockInv
<1>2. queue \in Seq(Objects) /\ dropped \in Seq(Objects)
  BY DEF Inv, LocalInv, TypeOK, StorageTypeOK
<1>3. dropped' \o queue' = dropped \o queue
  <2>1. CASE queue # <<>> /\ queue' = Tail(queue) /\ dropped' = Append(dropped, Head(queue))
    <3>1. queue = <<Head(queue)>> \o Tail(queue)
      BY <1>2, <2>1, HeadTailProperties
    <3>2. Head(queue) \in Objects /\ Tail(queue) \in Seq(Objects)
      BY <1>2, <2>1, HeadTailProperties
    <3>3. Append(dropped, Head(queue)) = dropped \o <<Head(queue)>>
      BY <1>2, <3>2, AppendIsConcat
    <3>4. <<Head(queue)>> \in Seq(Objects)
      BY <3>2
    <3>5. (dropped \o <<Head(queue)>>) \o Tail(queue) = dropped \o (<<Head(queue)>> \o Tail(queue))
      BY <1>2, <3>2, <3>4, ConcatAssociative
    <3> QED
      BY <2>1, <3>1, <3>3, <3>5
  <2>2. CASE UNCHANGED <<queue, dropped>>
    BY <2>2
  <2> QED
    BY <2>1, <2>2 DEF Clear
<1>4. WholeQueue' = WholeQueue
  BY <1>1, <1>3 DEF WholeQueue
<1> QED
  BY <1>1, <1>4, MainStepFrame DEF SW!vars

\* What other threads hold is what they point to, when no pop or save is half done.
LEMMA InUseIsHeld ==
  ASSUME Inv, pc[Main] = "List"
  PROVE  \A o \in Objects : o \in InUse <=> o \in SW!Held
<1>1. ASSUME NEW w \in Workers
      PROVE  pc[w] # "Pop" /\ pc[w] # "Record"
  BY MainIsNoWorker, OneInFile, OneInQueue DEF WithFile, WithQueue, Inv, LocalInv
<1>2. ASSUME NEW w \in Workers, Stage(w) = "idle"
      PROVE  pointer[w] = NoObject
  BY <1>1, <1>2 DEF Stage, Inv, LocalInv, WorkerInv, WorkerPlaces
<1>3. \A w \in Workers : HeldBy(w) = pointer[w]
  BY <1>2 DEF HeldBy
<1> QED
  BY <1>1, <1>3, NoObjectIsNone DEF InUse, SW!Held, SW!NoObject, NoObject

\* The reading of the list is the requeue.
LEMMA ListRefines ==
  ASSUME Inv, List
  PROVE  SW!ForceRequeue /\ WholeQueue' = missing' /\ missing' \in Seq(Objects)
<1> USE MainIsNoWorker
<1>1. /\ \A v \in Workers : pc'[v] = pc[v]
      /\ pc[Main] = "List" /\ pc'[Main] = "Refill" /\ dropped' = <<>>
      /\ UNCHANGED <<queue, saved, disk, file_open, file_bad, pointer, content>>
  BY DEF List, GoTo, storageVars, Inv, LocalInv, LockInv
<1>2. queue = <<>> /\ file_open
  BY <1>1 DEF Inv, LocalInv, MainInv
<1>3. WholeList = saved
  BY <1>1, ListIsWhole DEF WithFile, Inv, LocalInv
<1>4. SW!Missing = Missing /\ SW!Saved = Saved /\ SW!Cardinality(Missing) = Cardinality(Missing)
  BY <1>3, SamePieces
     DEF SW!Missing, Missing, SW!Saved, Saved, SW!Cardinality, Cardinality
<1>5. SW!GetMissingPieces = GetMissingPieces
  BY <1>4 DEF SW!GetMissingPieces, GetMissingPieces
<1>6. Cardinality(Missing) \in Nat
  <2>1. SW!Cardinality(SW!Missing) \in Nat
    BY StorageAssumption, WorkersFinite, SW!MissingFinite
  <2> QED
    BY <1>4, <2>1
<1>7. \A i \in Missing : \E g \in 0 .. MaxGen : <<i, g>> \notin InUse
  BY DEF List
<1>8. ASSUME NEW i \in Missing
      PROVE  /\ NewObject(i, InUse) \in Objects
             /\ NewObject(i, InUse) = SW!NewObject(i, SW!Held)
  <2>1. i \in Pieces
    BY DEF Missing
  <2>2. \A g \in 0 .. MaxGen : <<i, g>> \in Objects
    BY <2>1 DEF Objects
  <2>3. \A g \in 0 .. MaxGen : <<i, g>> \notin InUse <=> <<i, g>> \notin SW!Held
    BY <1>1, <2>2, InUseIsHeld
  <2>4. (CHOOSE g \in 0 .. MaxGen : <<i, g>> \notin InUse)
           = (CHOOSE g \in 0 .. MaxGen : <<i, g>> \notin SW!Held)
    BY <2>3
  <2>5. (CHOOSE g \in 0 .. MaxGen : <<i, g>> \notin InUse) \in 0 .. MaxGen
    BY <1>7
  <2> QED
    BY <2>2, <2>4, <2>5 DEF NewObject, SW!NewObject
<1>9. PICK m \in GetMissingPieces :
          missing' = [k \in 1 .. Cardinality(Missing) |-> NewObject(m[k], InUse)]
  BY DEF List
<1>10. \A k \in 1 .. Cardinality(Missing) : m[k] \in Missing
  BY <1>9 DEF GetMissingPieces
<1>11. missing' = [k \in 1 .. Cardinality(Missing) |-> SW!NewObject(m[k], SW!Held)]
  BY <1>8, <1>9, <1>10
<1>12. missing' \in Seq(Objects)
  BY <1>6, <1>8, <1>9, <1>10, IsASeq
<1>13. WholeQueue' = missing'
  <2>1. <<>> \o missing' = missing'
    BY <1>12, ConcatEmptySeq
  <2> QED
    BY <1>1, <1>2, <2>1 DEF WholeQueue
<1>14. \A i \in Missing : \E g \in 0 .. MaxGen : <<i, g>> \notin SW!Held
  <2> TAKE i \in Missing
  <2>1. PICK g \in 0 .. MaxGen : <<i, g>> \notin InUse
    BY <1>7
  <2>2. <<i, g>> \in Objects
    BY DEF Missing, Objects
  <2> QED
    BY <1>1, <2>1, <2>2, InUseIsHeld
<1>15. /\ UNCHANGED [v \in Workers |-> Stage(v)]
       /\ UNCHANGED [v \in Workers |-> HeldBy(v)]
       /\ WholeList' = WholeList
       /\ UNCHANGED [o \in Objects |-> ContentOf(o)]
  BY <1>1, MainStepFrame
<1>16. SW!ForceRequeueMissingPieces(SW!Held)
  BY <1>1, <1>4, <1>5, <1>9, <1>11, <1>13, <1>14, <1>15
     DEF SW!ForceRequeueMissingPieces
<1>17. [o \in Objects |-> ContentOf(o)] =
          [o \in Objects |-> IF o \in SW!Held THEN ContentOf(o) ELSE "blank"]
  <2>1. ASSUME NEW o \in Objects, o \notin SW!Held
        PROVE  ContentOf(o) = "blank"
    <3>1. ~ \E w \in Workers : pointer[w] = o /\ pc[w] # "Pop"
      BY <1>1, <2>1, InUseIsHeld DEF InUse
    <3> QED
      BY <3>1 DEF ContentOf, Inv, LocalInv, BlankUnlessHeld
  <2> QED
    BY <2>1
<1>18. SW!ForceRequeue
  BY <1>2, <1>15, <1>16, <1>17, SamePieces DEF SW!ForceRequeue
<1> QED
  BY <1>12, <1>13, <1>18

\* An object that is pushed was in the whole queue.
LEMMA RefillRefines ==
  ASSUME Inv, Refill
  PROVE  UNCHANGED SW!vars
<1> USE MainIsNoWorker
<1>1. /\ \A v \in Workers : pc'[v] = pc[v]
      /\ pc[Main] = "Refill"
      /\ UNCHANGED <<saved, disk, file_open, file_bad, pointer, content, dropped>>
  BY DEF Refill, PushToQueue, GoTo, storageVars, Inv, LocalInv, LockInv
<1>2. queue \in Seq(Objects) /\ missing \in Seq(Objects) /\ dropped = <<>>
  BY <1>1 DEF Inv, LocalInv, TypeOK, StorageTypeOK, MainInv
<1>3. WholeQueue = queue \o missing
  BY <1>1 DEF WholeQueue
<1>4. CASE /\ missing # <<>> /\ queue' = Append(queue, Head(missing))
           /\ missing' = Tail(missing) /\ pc' = pc
  <2>1. missing = <<Head(missing)>> \o Tail(missing)
    BY <1>2, <1>4, HeadTailProperties
  <2>2. Head(missing) \in Objects /\ Tail(missing) \in Seq(Objects)
    BY <1>2, <1>4, HeadTailProperties
  <2>3. Append(queue, Head(missing)) = queue \o <<Head(missing)>>
    BY <1>2, <2>2, AppendIsConcat
  <2>4. <<Head(missing)>> \in Seq(Objects)
    BY <2>2
  <2>5. (queue \o <<Head(missing)>>) \o Tail(missing) = queue \o (<<Head(missing)>> \o Tail(missing))
    BY <1>2, <2>2, <2>4, ConcatAssociative
  <2>6. WholeQueue' = WholeQueue
    BY <1>1, <1>3, <1>4, <2>1, <2>3, <2>5 DEF WholeQueue
  <2> QED
    BY <1>1, <2>6, MainStepFrame DEF SW!vars
<1>5. CASE missing = <<>> /\ pc'[Main] = "Monitor" /\ UNCHANGED <<queue, missing>>
  <2>1. queue \o <<>> = queue /\ <<>> \o queue = queue
    BY <1>2, ConcatEmptySeq
  <2>2. WholeQueue' = WholeQueue
    BY <1>1, <1>2, <1>3, <1>5, <2>1 DEF WholeQueue
  <2> QED
    BY <1>1, <2>2, MainStepFrame DEF SW!vars
<1> QED
  BY <1>4, <1>5 DEF Refill, PushToQueue, GoTo, storageVars, Inv, LocalInv, LockInv

\* IsDownloadComplete changes nothing, whatever the answer.
LEMMA DoneRefines ==
  ASSUME Inv, Done
  PROVE  UNCHANGED SW!vars
<1>1. PICK to \in {"CloseLock", "Monitor"} : GoTo(Main, "Done", to)
  BY DEF Done
<1>2. UNCHANGED <<storageVars, localVars>> /\ pc = [u \in Threads |-> pc[u]]
  BY DEF Done, Inv, LocalInv, LockInv
<1> QED
  BY <1>1, <1>2, MainIsNoWorker, QuietStep DEF GoTo, WorkerPlaces, MainPlaces

\* The file is closed after the answer yes, which is still right.
LEMMA CloseRefines ==
  ASSUME Inv, Close
  PROVE  SW!Close
<1> USE MainIsNoWorker
<1>1. /\ \A v \in Workers : pc'[v] = pc[v]
      /\ pc[Main] = "Close" /\ pc'[Main] = "End" /\ file_open' = FALSE
      /\ UNCHANGED <<queue, saved, disk, file_bad, pointer, content, missing, dropped>>
  BY DEF Close, CloseOutputFile, GoTo, localVars, Inv, LocalInv, LockInv
<1>2. WholeQueue' = WholeQueue
  BY <1>1 DEF WholeQueue
<1>3. file_open /\ Len(saved) = NumPieces /\ WholeList = saved
  BY <1>1 DEF Inv, LocalInv, MainInv, WholeList
<1> QED
  BY <1>1, <1>2, <1>3, MainStepFrame
     DEF SW!Close, SW!CloseOutputFile, SW!IsDownloadComplete, SW!workerVars

\* All steps together.
LEMMA NextRefines ==
  ASSUME Inv, [Next]_vars
  PROVE  [SW!Next]_SW!vars
<1>1. ASSUME NEW t \in Threads, StartCall(t) \/ Acquire(t)
      PROVE  [SW!Next]_SW!vars
  BY <1>1, StartRefines, AcquireRefines DEF SW!Next
<1>2. ASSUME NEW w \in Workers,
             \/ \E c \in {"good", "bad"} : Fill(w, c)
             \/ Front(w) \/ Pop(w) \/ AskSaved(w) \/ AskNotSaved(w) \/ Push(w)
             \/ FindSaved(w) \/ Write(w) \/ Record(w)
      PROVE  [SW!Next]_SW!vars
  BY <1>2, FillRefines, FrontRefines, PopRefines, AskRefines, PushRefines, FindSavedRefines,
     WriteRefines, RecordRefines DEF SW!Next
<1>3. ASSUME NEW w \in Workers, NothingQueued(w)
      PROVE  UNCHANGED SW!vars
  BY <1>3, MainIsNoWorker, QuietStep
     DEF NothingQueued, GoTo, WorkerPlaces, Inv, LocalInv, LockInv
<1>4. CASE Clear \/ List \/ Refill \/ Done \/ Close
  BY <1>4, ClearRefines, ListRefines, RefillRefines, DoneRefines, CloseRefines DEF SW!Next
<1>5. CASE UNCHANGED vars
  <2>1. /\ UNCHANGED <<queue, saved, disk, file_open, file_bad, pc, pointer, content, missing,
                       dropped>>
    BY <1>5 DEF vars, storageVars, localVars
  <2>2. WholeQueue' = WholeQueue
    BY <2>1 DEF WholeQueue
  <2> QED
    BY <2>1, <2>2, MainStepFrame DEF SW!vars
<1> QED
  BY <1>1, <1>2, <1>3, <1>4, <1>5 DEF Next

-----------------------------------------------------------------------------
(***************************************************************************)
(* The invariant is inductive.                                             *)
(***************************************************************************)

\* A thread goes to a place for which it has the mutex, and unlocks only its own.
LEMMA ExclusionMoves ==
  ASSUME Exclusion, LockInv, NEW t \in Threads, NEW to, pc' = [pc EXCEPT ![t] = to],
         to \in WithQueue => owner'["queue_mutex"] = t,
         to \in WithFile => owner'["file_mutex"] = t,
         \A m \in {"queue_mutex", "file_mutex"} :
             owner'[m] = owner[m] \/ owner[m] \in {Nobody, t}
  PROVE  Exclusion'
<1>1. pc'[t] = to /\ \A u \in Threads \ {t} : pc'[u] = pc[u]
  BY DEF LockInv
<1> QED
  BY <1>1, NobodyIsNoThread DEF Exclusion

\* Every step keeps the sections apart.
LEMMA ExclusionStep ==
  ASSUME LocalInv, [Next]_vars
  PROVE  Exclusion'
<1> USE MainIsNoWorker
<1>1. Exclusion /\ LockInv /\ owner \in [{"queue_mutex", "file_mutex"} -> Threads \cup {Nobody}]
  BY DEF LocalInv, LockInv
<1>2. ASSUME NEW t \in Threads, StartCall(t)
      PROVE  Exclusion'
  <2>1. PICK to \in {"GetLock", "AskLock", "SaveLock", "DoneLock", "ForceLock"} :
            pc' = [pc EXCEPT ![t] = to]
    BY <1>2 DEF StartCall, GoTo
  <2> QED
    BY <1>1, <1>2, <2>1, ExclusionMoves DEF StartCall, WithQueue, WithFile
<1>3. ASSUME NEW t \in Threads, Acquire(t)
      PROVE  Exclusion'
  <2>1. PICK w \in Waits : GoTo(t, w[1], w[3]) /\ Lock(t, w[2])
    BY <1>3 DEF Acquire
  <2>2. /\ pc[t] = w[1] /\ pc' = [pc EXCEPT ![t] = w[3]]
        /\ owner[w[2]] = Nobody /\ owner' = [owner EXCEPT ![w[2]] = t]
    BY <2>1 DEF GoTo, Lock
  <2>3. /\ w[2] \in {"queue_mutex", "file_mutex"}
        /\ w[3] \in WithQueue => w[2] = "queue_mutex" \/ w[1] \in WithQueue
        /\ w[3] \in WithFile => w[2] = "file_mutex"
    <3>1. \/ w = <<"GetLock", "queue_mutex", "Front">>
          \/ w = <<"AskLock", "file_mutex", "Ask">>
          \/ w = <<"PushLock", "queue_mutex", "Push">>
          \/ w = <<"SaveLock", "file_mutex", "Find">>
          \/ w = <<"ForceLock", "queue_mutex", "Clear">>
          \/ w = <<"MissingLock", "file_mutex", "List">>
          \/ w = <<"DoneLock", "file_mutex", "Done">>
          \/ w = <<"CloseLock", "file_mutex", "Close">>
      BY DEF Waits
    <3> QED
      BY <3>1 DEF WithQueue, WithFile
  <2>4. /\ w[3] \in WithQueue => owner'["queue_mutex"] = t
        /\ w[3] \in WithFile => owner'["file_mutex"] = t
        /\ \A m \in {"queue_mutex", "file_mutex"} :
               owner'[m] = owner[m] \/ owner[m] \in {Nobody, t}
    BY <1>1, <2>2, <2>3 DEF Exclusion
  <2> QED
    BY <1>1, <2>2, <2>4, ExclusionMoves
<1>4. ASSUME NEW w \in Workers,
             Front(w) \/ NothingQueued(w) \/ Pop(w) \/ Push(w)
      PROVE  Exclusion'
  <2>1. /\ pc[w] \in WithQueue /\ owner["queue_mutex"] = w
        /\ owner' = owner \/ owner' = [owner EXCEPT !["queue_mutex"] = Nobody]
        /\ \/ pc' = [pc EXCEPT ![w] = "Pop"] /\ owner' = owner
           \/ pc' = [pc EXCEPT ![w] = "Idle"]
           \/ pc' = [pc EXCEPT ![w] = "Working"]
    BY <1>1, <1>4
       DEF Front, NothingQueued, Pop, Push, GoTo, Unlock, WithQueue, Exclusion
  <2> QED
    BY <1>1, <2>1, ExclusionMoves DEF WithQueue, WithFile
<1>5. ASSUME NEW w \in Workers,
             AskSaved(w) \/ AskNotSaved(w) \/ FindSaved(w) \/ Write(w) \/ Record(w)
      PROVE  Exclusion'
  <2>1. /\ pc[w] \in WithFile /\ owner["file_mutex"] = w
        /\ owner' = owner \/ owner' = [owner EXCEPT !["file_mutex"] = Nobody]
        /\ \/ pc' = [pc EXCEPT ![w] = "Record"] /\ owner' = owner
           \/ pc' = [pc EXCEPT ![w] = "Idle"]
           \/ pc' = [pc EXCEPT ![w] = "PushLock"]
    BY <1>1, <1>5
       DEF AskSaved, AskNotSaved, FindSaved, Write, Record, GoTo, Unlock, WithFile, Exclusion
  <2> QED
    BY <1>1, <2>1, ExclusionMoves DEF WithQueue, WithFile
<1>6. CASE Clear \/ Refill
  <2>1. pc[Main] \in WithQueue /\ owner["queue_mutex"] = Main
    BY <1>1, <1>6 DEF Clear, Refill, WithQueue, Exclusion
  <2>2. \/ UNCHANGED <<owner, pc>>
        \/ pc' = [pc EXCEPT ![Main] = "MissingLock"] /\ owner' = owner
        \/ /\ pc' = [pc EXCEPT ![Main] = "Monitor"]
           /\ owner' = [owner EXCEPT !["queue_mutex"] = Nobody]
    BY <1>6 DEF Clear, Refill, GoTo, Unlock
  <2>3. CASE UNCHANGED <<owner, pc>>
    BY <1>1, <2>3 DEF Exclusion
  <2>4. CASE ~UNCHANGED <<owner, pc>>
    BY <1>1, <2>1, <2>2, <2>4, ExclusionMoves DEF WithQueue, WithFile
  <2> QED
    BY <2>3, <2>4
<1>7. CASE List \/ Done \/ Close
  <2>1. pc[Main] \in WithFile /\ owner["file_mutex"] = Main
    BY <1>1, <1>7 DEF List, Done, Close, GoTo, WithFile, Exclusion
  <2>2. pc[Main] = "List" => owner["queue_mutex"] = Main
    BY <1>1 DEF WithQueue, Exclusion
  <2>3. /\ owner' = [owner EXCEPT !["file_mutex"] = Nobody]
        /\ \/ pc' = [pc EXCEPT ![Main] = "Refill"] /\ pc[Main] = "List"
           \/ pc' = [pc EXCEPT ![Main] = "Monitor"]
           \/ pc' = [pc EXCEPT ![Main] = "CloseLock"]
           \/ pc' = [pc EXCEPT ![Main] = "End"]
    BY <1>7 DEF List, Done, Close, GoTo, Unlock
  <2> QED
    BY <1>1, <2>1, <2>2, <2>3, ExclusionMoves DEF WithQueue, WithFile
<1>8. CASE UNCHANGED <<owner, pc>>
  BY <1>1, <1>8 DEF Exclusion
<1>9. ASSUME NEW w \in Workers, NEW c \in {"good", "bad"}, Fill(w, c)
      PROVE  UNCHANGED <<owner, pc>>
  BY <1>9 DEF Fill
<1> QED
  BY <1>2, <1>3, <1>4, <1>5, <1>6, <1>7, <1>8, <1>9 DEF Next, vars

\* The value of the list of pieces, in a section of a save.
LEMMA FindIndex ==
  ASSUME Inv, NEW w \in Workers, pc[w] \in {"Find", "Ask", "Push", "Record"}
  PROVE  pointer[w] \in Objects /\ Index(pointer[w]) \in Pieces
<1>1. CASE pc[w] = "Record"
  <2>1. pointer[w] \in Objects
    BY <1>1 DEF Inv, LocalInv, WorkerInv
  <2> QED
    BY <2>1 DEF Objects, Index
<1> QED
  BY <1>1, HasObject DEF Stage

\* Types are kept.
LEMMA TypeStep ==
  ASSUME Inv, LockInv', [Next]_vars
  PROVE  TypeOK'
<1> USE MainIsNoWorker DEF TypeOK, StorageTypeOK
<1>1. TypeOK /\ LockInv
  BY DEF Inv, LocalInv
<1>2. owner' \in [{"queue_mutex", "file_mutex"} -> Threads \cup {Nobody}]
  BY DEF LockInv
<1>3. ASSUME UNCHANGED <<storageVars, localVars>>
      PROVE  TypeOK'
  BY <1>1, <1>2, <1>3 DEF storageVars, localVars
<1>4. ASSUME NEW t \in Threads, StartCall(t) \/ Acquire(t)
      PROVE  TypeOK'
  BY <1>3, <1>4 DEF StartCall, Acquire
<1>5. ASSUME NEW w \in Workers, NothingQueued(w) \/ AskNotSaved(w)
      PROVE  TypeOK'
  BY <1>3, <1>5 DEF NothingQueued, AskNotSaved
<1>6. ASSUME NEW w \in Workers, NEW c \in {"good", "bad"}, Fill(w, c)
      PROVE  TypeOK'
  BY <1>1, <1>2, <1>6 DEF Fill, storageVars
<1>7. ASSUME NEW w \in Workers, Front(w)
      PROVE  TypeOK'
  <2>1. Head(queue) \in Objects
    BY <1>1, <1>7, HeadTailProperties DEF Front
  <2> QED
    BY <1>1, <1>2, <1>7, <2>1 DEF Front, storageVars
<1>8. ASSUME NEW w \in Workers, Pop(w)
      PROVE  TypeOK'
  <2>1. queue # <<>>
    BY <1>8 DEF Pop, GoTo, Inv, LocalInv, WorkerInv
  <2>2. Tail(queue) \in Seq(Objects)
    BY <1>1, <2>1, HeadTailProperties
  <2> QED
    BY <1>1, <1>2, <1>8, <2>2 DEF Pop, localVars
<1>9. ASSUME NEW w \in Workers, AskSaved(w) \/ FindSaved(w)
      PROVE  TypeOK'
  BY <1>1, <1>2, <1>9 DEF AskSaved, FindSaved, LetGo, storageVars
<1>10. ASSUME NEW w \in Workers, Push(w)
       PROVE  TypeOK'
  <2>1. pointer[w] \in Objects
    BY <1>10, FindIndex DEF Push, GoTo
  <2>2. Append(queue, pointer[w]) \in Seq(Objects)
    BY <1>1, <2>1, AppendProperties
  <2> QED
    BY <1>1, <1>2, <1>10, <2>2 DEF Push, PushToQueue, LetGo
<1>11. ASSUME NEW w \in Workers, Write(w)
       PROVE  TypeOK'
  <2>1. Index(pointer[w]) \in Pieces /\ content[pointer[w]] \in {"blank", "good", "bad"}
    BY <1>1, <1>11, FindIndex DEF Write, GoTo
  <2>2. content[pointer[w]] = "good"
    <3>1. Stage(w) = "verified"
      BY <1>11 DEF Write, GoTo, Stage
    <3>2. ContentOf(HeldBy(w)) = "good" /\ HeldBy(w) = pointer[w]
      <4>1. SW!StageTellsContent
        BY DEF Inv, SW!IInv
      <4>2. HeldBy(w) = pointer[w] /\ pointer[w] \in Objects
        BY <3>1, HasObject DEF HeldBy
      <4> QED
        BY <3>1, <4>1, <4>2 DEF SW!StageTellsContent
    <3> QED
      BY <3>1, <3>2, ContentIsReal
  <2>3. disk' \in [Pieces -> Regions] /\ file_bad' \in BOOLEAN
    BY <1>1, <1>11, <2>1, <2>2 DEF Write, WriteRegion, Regions
  <2> QED
    BY <1>1, <1>2, <1>11, <2>3 DEF Write, localVars
<1>12. ASSUME NEW w \in Workers, Record(w)
       PROVE  TypeOK'
  <2>1. Append(saved, Index(pointer[w])) \in Seq(Pieces)
    BY <1>1, <1>12, FindIndex, AppendProperties DEF Record, GoTo
  <2> QED
    BY <1>1, <1>2, <1>12, <2>1 DEF Record, LetGo
<1>13. CASE Clear
  <2>1. queue # <<>> => Tail(queue) \in Seq(Objects) /\ Append(dropped, Head(queue)) \in Seq(Objects)
    BY <1>1, HeadTailProperties, AppendProperties
  <2> QED
    BY <1>1, <1>2, <1>13, <2>1 DEF Clear
<1>14. CASE List
  BY <1>1, <1>2, <1>14, ListRefines, EmptySeq DEF List, storageVars
<1>15. CASE Refill
  <2>1. missing # <<>> => Tail(missing) \in Seq(Objects) /\ Append(queue, Head(missing)) \in Seq(Objects)
    BY <1>1, HeadTailProperties, AppendProperties
  <2> QED
    BY <1>1, <1>2, <1>15, <2>1 DEF Refill, PushToQueue, storageVars
<1>16. CASE Done \/ Close
  BY <1>1, <1>2, <1>16 DEF Done, Close, CloseOutputFile, storageVars, localVars
<1>17. CASE UNCHANGED vars
  BY <1>3, <1>17 DEF vars
<1> QED
  BY <1>4, <1>5, <1>6, <1>7, <1>8, <1>9, <1>10, <1>11, <1>12, <1>13, <1>14, <1>15, <1>16, <1>17
     DEF Next

\* An object that is blanked or let go is blank, and nobody else's changes.
LEMMA BlankStep ==
  ASSUME Inv, [Next]_vars
  PROVE  BlankUnlessHeld'
<1> USE MainIsNoWorker
<1>1. /\ BlankUnlessHeld /\ content \in [Objects -> {"blank", "good", "bad"}]
      /\ pointer \in [Workers -> Objects \cup {NoObject}] /\ LockInv
  BY DEF Inv, LocalInv, TypeOK
<1>2. ASSUME content' = content,
             \A w \in Workers : pc[w] # "Pop" /\ pointer[w] # NoObject =>
                 pc'[w] # "Pop" /\ pointer'[w] = pointer[w]
      PROVE  BlankUnlessHeld'
  BY <1>1, <1>2, NoObjectIsNone DEF BlankUnlessHeld
<1>3. ASSUME NEW t \in Threads, StartCall(t) \/ Acquire(t)
      PROVE  BlankUnlessHeld'
  <2>1. UNCHANGED <<content, pointer>>
    BY <1>3 DEF StartCall, Acquire, localVars
  <2>2. \A w \in Workers : pc'[w] = "Pop" => pc[w] = "Pop"
    <3>1. ASSUME NEW from, NEW to, GoTo(t, from, to), to # "Pop"
          PROVE  \A w \in Workers : pc'[w] = "Pop" => pc[w] = "Pop"
      BY <1>1, <3>1 DEF GoTo, LockInv
    <3> QED
      BY <1>3, <3>1 DEF StartCall, Acquire, Waits
  <2> QED
    BY <1>2, <2>1, <2>2
<1>4. ASSUME NEW w \in Workers,
             Front(w) \/ NothingQueued(w) \/ Pop(w) \/ AskNotSaved(w) \/ Write(w)
      PROVE  BlankUnlessHeld'
  <2>1. content' = content /\ \A v \in Workers \ {w} : pc'[v] = pc[v] /\ pointer'[v] = pointer[v]
    BY <1>1, <1>4 DEF Front, NothingQueued, Pop, AskNotSaved, Write, GoTo, localVars, LockInv
  <2>2. pc[w] = "Front" => pointer[w] = NoObject
    BY DEF Inv, LocalInv, WorkerInv
  <2>3. pc[w] # "Pop" /\ pointer[w] # NoObject => pc'[w] # "Pop" /\ pointer'[w] = pointer[w]
    BY <1>1, <1>4, <2>2
       DEF Front, NothingQueued, Pop, AskNotSaved, Write, GoTo, localVars, LockInv
  <2> QED
    BY <1>2, <2>1, <2>3
<1>5. ASSUME NEW w \in Workers, AskSaved(w) \/ Push(w) \/ FindSaved(w) \/ Record(w)
      PROVE  BlankUnlessHeld'
  <2>1. /\ content' = [content EXCEPT ![pointer[w]] = "blank"]
        /\ \A v \in Workers \ {w} : pc'[v] = pc[v] /\ pointer'[v] = pointer[v]
    BY <1>1, <1>5 DEF AskSaved, Push, FindSaved, Record, LetGo, GoTo, LockInv
  <2> QED
    BY <1>1, <2>1 DEF BlankUnlessHeld
<1>6. ASSUME NEW w \in Workers, NEW c \in {"good", "bad"}, Fill(w, c)
      PROVE  BlankUnlessHeld'
  BY <1>1, <1>6 DEF Fill, BlankUnlessHeld
<1>7. CASE Clear \/ List \/ Refill \/ Done \/ Close \/ UNCHANGED vars
  <2>1. UNCHANGED <<content, pointer>>
    BY <1>7 DEF Clear, List, Refill, Done, Close, vars, localVars
  <2>2. \A w \in Workers : pc'[w] = pc[w]
    BY <1>1, <1>7 DEF Clear, List, Refill, Done, Close, vars, GoTo, LockInv
  <2> QED
    BY <1>2, <2>1, <2>2
<1> QED
  BY <1>3, <1>4, <1>5, <1>6, <1>7 DEF Next

\* Once the main thread saw the download complete, nothing is written any more.
LEMMA NoWriteAfterCompletion ==
  ASSUME Inv, NEW w \in Workers, Write(w)
  PROVE  Len(saved) # NumPieces
<1>1. pc[w] = "Find" /\ ~IsPieceAlreadySaved(Index(pointer[w]))
  BY DEF Write, GoTo
<1>2. WholeList = saved /\ Index(pointer[w]) \in Pieces
  BY <1>1, SameAnswer, FindIndex
<1>3. SW!TypeOK /\ SW!SavedOnce
  BY DEF Inv, SW!IInv
<1>4. Len(saved) = NumPieces => SW!Saved = SW!Pieces
  BY <1>2, <1>3, StorageAssumption, WorkersFinite, SW!CountIsEnough
     DEF SW!IsDownloadComplete, SW!TypeOK, SW!StorageTypeOK
<1>5. SW!Saved = Saved
  BY <1>2 DEF SW!Saved, Saved
<1> QED
  BY <1>1, <1>2, <1>4, <1>5, SamePieces DEF IsPieceAlreadySaved

\* A worker's step keeps what is known of the main thread.
LEMMA MainInvByWorker ==
  ASSUME Inv, NEW w \in Workers,
         \/ Front(w) \/ NothingQueued(w) \/ Pop(w) \/ AskSaved(w) \/ AskNotSaved(w)
         \/ Push(w) \/ FindSaved(w) \/ Write(w) \/ Record(w)
  PROVE  MainInv'
<1> USE MainIsNoWorker
<1>1. MainInv /\ TypeOK /\ LockInv /\ Exclusion
  BY DEF Inv, LocalInv
<1>2. pc'[Main] = pc[Main] /\ \A v \in Workers \ {w} : pc'[v] = pc[v]
  BY <1>1
     DEF Front, NothingQueued, Pop, AskSaved, AskNotSaved, Push, FindSaved, Write, Record,
         GoTo, LockInv
<1>3. UNCHANGED <<file_open, missing, dropped>>
  BY DEF Front, NothingQueued, Pop, AskSaved, AskNotSaved, Push, FindSaved, Write, Record,
         PushToQueue, storageVars, localVars
<1>4. pc[Main] \in {"MissingLock", "List"} => queue' = queue
  <2>1. CASE Pop(w) \/ Push(w)
    <3>1. pc[Main] \notin WithQueue
      BY <1>1, <2>1, QueueIsWhole DEF Pop, Push, GoTo, WithQueue
    <3> QED
      BY <3>1 DEF WithQueue
  <2>2. CASE ~(Pop(w) \/ Push(w))
    BY <2>2 DEF Front, NothingQueued, AskSaved, AskNotSaved, FindSaved, Write, Record, storageVars
  <2> QED
    BY <2>1, <2>2
<1>5. ASSUME Len(saved) = NumPieces, Recording = {}
      PROVE  Len(saved') = NumPieces /\ Recording' = {}
  <2>1. ~Write(w) /\ ~Record(w)
    BY <1>5, NoWriteAfterCompletion DEF Record, GoTo, Recording
  <2>2. saved' = saved /\ pc'[w] # "Record"
    BY <1>1, <2>1
       DEF Front, NothingQueued, Pop, AskSaved, AskNotSaved, Push, FindSaved, PushToQueue,
           GoTo, storageVars, LockInv
  <2> QED
    BY <1>2, <1>5, <2>2 DEF Recording
<1> QED
  BY <1>1, <1>2, <1>3, <1>4, <1>5 DEF MainInv

\* What is known of the main thread is kept by every step.
LEMMA MainInvStep ==
  ASSUME Inv, [Next]_vars
  PROVE  MainInv'
<1> USE MainIsNoWorker
<1>1. MainInv /\ TypeOK /\ LockInv /\ Exclusion
  BY DEF Inv, LocalInv
<1>2. ASSUME NEW t \in Threads, NEW to, pc' = [pc EXCEPT ![t] = to],
             UNCHANGED <<storageVars, localVars>>, to # "Record", pc[t] # "Record",
             t = Main => /\ to \in MainPlaces
                         /\ pc[Main] \in {"MissingLock", "List"} <=> to \in {"MissingLock", "List"}
                         /\ pc[Main] = "Clear" => to = "Clear"
                         /\ pc[Main] # "Refill" /\ pc[Main] # "End" /\ to # "End"
                         /\ to \in {"CloseLock", "Close"} =>
                               pc[Main] \in {"CloseLock", "Close"}
      PROVE  MainInv'
  <2>1. /\ \A u \in Threads \ {t} : pc'[u] = pc[u]
        /\ pc'[t] = to
        /\ UNCHANGED <<queue, saved, file_open, missing, dropped>>
    BY <1>1, <1>2 DEF storageVars, localVars, LockInv
  <2>2. Recording' = Recording
    BY <1>2, <2>1 DEF Recording
  <2>3. CASE t = Main
    <3>1. pc'[Main] = to /\ to \in MainPlaces
      BY <1>2, <2>1, <2>3
    <3> QED
      BY <1>1, <1>2, <2>1, <2>2, <2>3, <3>1 DEF MainInv
  <2>4. CASE t # Main
    BY <1>1, <2>1, <2>2, <2>4 DEF MainInv
  <2> QED
    BY <2>3, <2>4
<1>3. ASSUME NEW t \in Threads, StartCall(t)
      PROVE  MainInv'
  <2>1. PICK from, to :
           /\ GoTo(t, from, to)
           /\ \/ from = "Monitor" /\ to \in {"DoneLock", "ForceLock"}
              \/ from \in {"Idle", "Working"} /\ to \in {"GetLock", "AskLock", "SaveLock"}
    BY <1>3 DEF StartCall
  <2>2. t = Main => from = "Monitor"
    BY <1>1, <2>1 DEF MainInv, MainPlaces, GoTo
  <2> QED
    BY <1>2, <1>3, <2>1, <2>2 DEF StartCall, GoTo, MainPlaces
<1>4. ASSUME NEW t \in Threads, Acquire(t)
      PROVE  MainInv'
  <2>1. PICK w \in Waits : GoTo(t, w[1], w[3])
    BY <1>4 DEF Acquire
  <2>2. \/ w[1] = "ForceLock" /\ w[3] = "Clear"
        \/ w[1] = "MissingLock" /\ w[3] = "List"
        \/ w[1] = "DoneLock" /\ w[3] = "Done"
        \/ w[1] = "CloseLock" /\ w[3] = "Close"
        \/ w[1] \in {"GetLock", "AskLock", "PushLock", "SaveLock"} /\ w[3] \notin {"Record"}
    <3>1. \/ w = <<"GetLock", "queue_mutex", "Front">>
          \/ w = <<"AskLock", "file_mutex", "Ask">>
          \/ w = <<"PushLock", "queue_mutex", "Push">>
          \/ w = <<"SaveLock", "file_mutex", "Find">>
          \/ w = <<"ForceLock", "queue_mutex", "Clear">>
          \/ w = <<"MissingLock", "file_mutex", "List">>
          \/ w = <<"DoneLock", "file_mutex", "Done">>
          \/ w = <<"CloseLock", "file_mutex", "Close">>
      BY DEF Waits
    <3> QED
      BY <3>1
  <2>3. t = Main => pc[t] \in MainPlaces
    BY <1>1 DEF MainInv
  <2>4. pc[t] = w[1] /\ pc' = [pc EXCEPT ![t] = w[3]] /\ UNCHANGED <<storageVars, localVars>>
    BY <1>4, <2>1 DEF GoTo, Acquire
  <2> QED
    BY <1>2, <2>2, <2>3, <2>4 DEF MainPlaces
<1>5. ASSUME NEW w \in Workers, NEW c \in {"good", "bad"}, Fill(w, c)
      PROVE  MainInv'
  BY <1>1, <1>5 DEF Fill, storageVars, MainInv, Recording
<1>6. ASSUME \A w \in Workers : pc'[w] = pc[w]
      PROVE  Recording' = Recording
  BY <1>6 DEF Recording
<1>7. CASE Clear
  <2>1. \A w \in Workers : pc'[w] = pc[w]
    BY <1>1, <1>7 DEF Clear, GoTo, LockInv
  <2>2. /\ pc[Main] = "Clear" /\ UNCHANGED <<saved, file_open, missing>>
        /\ \/ pc'[Main] = "Clear"
           \/ pc'[Main] = "MissingLock" /\ UNCHANGED <<queue, dropped>> /\ queue = <<>>
    BY <1>1, <1>7 DEF Clear, GoTo, LockInv
  <2> QED
    BY <1>1, <2>2 DEF MainInv, MainPlaces
<1>8. CASE List
  <2>1. pc'[Main] = "Refill" /\ pc[Main] = "List" /\ dropped' = <<>> /\ file_open' = file_open
    BY <1>1, <1>8 DEF List, GoTo, storageVars, LockInv
  <2> QED
    BY <1>1, <2>1 DEF MainInv, MainPlaces
<1>9. CASE Refill
  <2>1. /\ pc[Main] = "Refill" /\ UNCHANGED <<file_open, dropped>>
        /\ \/ pc'[Main] = "Refill"
           \/ pc'[Main] = "Monitor" /\ missing' = <<>>
    BY <1>1, <1>9 DEF Refill, PushToQueue, GoTo, storageVars, LockInv
  <2> QED
    BY <1>1, <2>1 DEF MainInv, MainPlaces
<1>10. CASE Done
  <2>1. \A w \in Workers : pc'[w] = pc[w]
    BY <1>1, <1>10 DEF Done, GoTo, LockInv
  <2>2. /\ pc[Main] = "Done" /\ UNCHANGED <<saved, file_open, missing, dropped>>
        /\ \/ pc'[Main] = "Monitor"
           \/ pc'[Main] = "CloseLock" /\ Len(saved) = NumPieces
    BY <1>1, <1>10 DEF Done, GoTo, storageVars, localVars, LockInv, IsDownloadComplete
  <2>3. Recording = {}
    BY <1>1, <2>2, ListIsWhole DEF WithFile
  <2> QED
    BY <1>1, <1>6, <2>1, <2>2, <2>3 DEF MainInv, MainPlaces
<1>11. CASE Close
  <2>1. \A w \in Workers : pc'[w] = pc[w]
    BY <1>1, <1>11 DEF Close, GoTo, LockInv
  <2>2. /\ pc[Main] = "Close" /\ UNCHANGED <<saved, missing, dropped>> /\ file_open' = FALSE
        /\ pc'[Main] = "End"
    BY <1>1, <1>11 DEF Close, CloseOutputFile, GoTo, localVars, LockInv
  <2> QED
    BY <1>1, <1>6, <2>1, <2>2 DEF MainInv, MainPlaces
<1>12. CASE UNCHANGED vars
  BY <1>1, <1>12 DEF vars, storageVars, localVars, MainInv, Recording
<1> QED
  BY <1>3, <1>4, <1>5, <1>7, <1>8, <1>9, <1>10, <1>11, <1>12, MainInvByWorker DEF Next

-----------------------------------------------------------------------------
\* What the actor of a step is left with.
LEMMA ActorStep ==
  ASSUME Inv, NEW w \in Workers,
         \/ StartCall(w) \/ Acquire(w)
         \/ \E c \in {"good", "bad"} : Fill(w, c)
         \/ Front(w) \/ NothingQueued(w) \/ Pop(w) \/ AskSaved(w) \/ AskNotSaved(w)
         \/ Push(w) \/ FindSaved(w) \/ Write(w) \/ Record(w)
  PROVE  WorkerInv(w)'
<1> USE MainIsNoWorker
<1>1. WorkerInv(w) /\ LockInv /\ TypeOK
  BY DEF Inv, LocalInv
<1>2. CASE StartCall(w)
  <2>1. PICK from, to :
           /\ GoTo(w, from, to)
           /\ \/ from = "Monitor"
              \/ from = "Idle" /\ to = "GetLock"
              \/ from = "Working" /\ to \in {"AskLock", "SaveLock"}
    BY <1>2 DEF StartCall
  <2>2. from # "Monitor" /\ pc'[w] = to /\ pc[w] = from
    BY <1>1, <2>1 DEF WorkerInv, WorkerPlaces, GoTo, LockInv
  <2>3. pointer' = pointer
    BY <1>2 DEF StartCall, localVars
  <2> QED
    BY <1>1, <2>1, <2>2, <2>3 DEF WorkerInv, WorkerPlaces
<1>3. CASE Acquire(w)
  <2>1. PICK m \in Waits : GoTo(w, m[1], m[3])
    BY <1>3 DEF Acquire
  <2>2. /\ pc[w] = m[1] /\ pc'[w] = m[3] /\ pointer' = pointer
    BY <1>1, <1>3, <2>1 DEF Acquire, GoTo, localVars, LockInv
  <2>3. \/ m = <<"GetLock", "queue_mutex", "Front">>
        \/ m = <<"AskLock", "file_mutex", "Ask">>
        \/ m = <<"PushLock", "queue_mutex", "Push">>
        \/ m = <<"SaveLock", "file_mutex", "Find">>
        \/ m[1] \in {"ForceLock", "MissingLock", "DoneLock", "CloseLock"}
    BY DEF Waits
  <2> QED
    BY <1>1, <2>2, <2>3 DEF WorkerInv, WorkerPlaces
<1>4. CASE \E c \in {"good", "bad"} : Fill(w, c)
  <2>1. pc[w] = "Working" /\ pc'[w] = "Working"
    BY <1>4 DEF Fill
  <2> QED
    BY <2>1 DEF WorkerInv, WorkerPlaces
<1>5. CASE Front(w)
  <2>1. queue # <<>> /\ queue' = queue /\ pc'[w] = "Pop" /\ pointer'[w] = Head(queue)
    BY <1>1, <1>5 DEF Front, GoTo, storageVars, LockInv, TypeOK
  <2> QED
    BY <2>1 DEF WorkerInv, WorkerPlaces
<1>6. CASE NothingQueued(w)
  <2>1. pc[w] = "Front" /\ pc'[w] = "Idle" /\ pointer' = pointer
    BY <1>1, <1>6 DEF NothingQueued, GoTo, localVars, LockInv
  <2> QED
    BY <1>1, <2>1 DEF WorkerInv, WorkerPlaces
<1>7. CASE Pop(w) \/ AskNotSaved(w)
  <2>1. pc'[w] \in {"Working", "PushLock"}
    BY <1>1, <1>7 DEF Pop, AskNotSaved, GoTo, LockInv
  <2> QED
    BY <2>1 DEF WorkerInv, WorkerPlaces
<1>8. CASE AskSaved(w) \/ Push(w) \/ FindSaved(w) \/ Record(w)
  <2>1. pc'[w] = "Idle" /\ pointer'[w] = NoObject
    BY <1>1, <1>8 DEF AskSaved, Push, FindSaved, Record, GoTo, LetGo, LockInv, TypeOK
  <2> QED
    BY <2>1 DEF WorkerInv, WorkerPlaces
<1>9. CASE Write(w)
  <2>1. pc[w] = "Find" /\ pc'[w] = "Record" /\ pointer' = pointer
    BY <1>1, <1>9 DEF Write, GoTo, localVars, LockInv
  <2>2. Stage(w) = "verified"
    BY <2>1 DEF Stage
  <2>3. pointer[w] \in Objects /\ \A v \in Workers \ {w} : pointer[v] # pointer[w]
    BY <2>2, HasObject, Mine
  <2>4. \A k \in DOMAIN WholeQueue : WholeQueue[k] # pointer[w]
    <3>1. HeldBy(w) = pointer[w]
      BY <2>2 DEF HeldBy
    <3>2. SW!ExclusiveOwnership
      BY DEF Inv, SW!IInv
    <3> QED
      BY <3>1, <3>2 DEF SW!ExclusiveOwnership, SW!Queued
  <2>5. WholeQueue' = WholeQueue
    BY <1>9, WriteRefines DEF SW!Save, SW!SavePieceToDisk
  <2> QED
    BY <2>1, <2>3, <2>4, <2>5 DEF WorkerInv, WorkerPlaces
<1> QED
  BY <1>2, <1>3, <1>4, <1>5, <1>6, <1>7, <1>8, <1>9

\* The whole queue, after a step of a worker.
LEMMA QueueAfter ==
  ASSUME Inv, NEW w \in Workers,
         \/ StartCall(w) \/ Acquire(w)
         \/ \E c \in {"good", "bad"} : Fill(w, c)
         \/ Front(w) \/ NothingQueued(w) \/ Pop(w) \/ AskSaved(w) \/ AskNotSaved(w)
         \/ Push(w) \/ FindSaved(w) \/ Write(w) \/ Record(w)
  PROVE  \/ WholeQueue' = WholeQueue
         \/ Pop(w) /\ WholeQueue # <<>> /\ WholeQueue' = Tail(WholeQueue)
         \/ Push(w) /\ WholeQueue' = Append(WholeQueue, pointer[w])
<1> USE MainIsNoWorker
<1>1. CASE StartCall(w) \/ Acquire(w)
  BY <1>1, StartRefines, AcquireRefines DEF SW!Verify, SW!storageVars, SW!vars
<1>2. ASSUME NEW c \in {"good", "bad"}, Fill(w, c)
      PROVE  WholeQueue' = WholeQueue
  BY <1>2, FillRefines DEF SW!Fill, SW!storageVars
<1>3. CASE Front(w) \/ Record(w)
  BY <1>3, FrontRefines, RecordRefines DEF SW!vars
<1>4. CASE NothingQueued(w)
  <2>1. UNCHANGED <<storageVars, localVars>> /\ pc'[Main] = pc[Main]
    BY <1>4 DEF NothingQueued, GoTo, Inv, LocalInv, LockInv
  <2> QED
    BY <2>1 DEF storageVars, localVars, WholeQueue
<1>5. CASE Pop(w)
  BY <1>5, PopRefines DEF SW!Pop, SW!GetNextPieceToDownload
<1>6. CASE AskSaved(w) \/ AskNotSaved(w)
  BY <1>6, AskRefines DEF SW!DropSaved, SW!BeginEnqueue, SW!storageVars
<1>7. CASE Push(w)
  <2>1. HeldBy(w) = pointer[w]
    BY <1>7 DEF Push, GoTo, HeldBy, Stage
  <2> QED
    BY <1>7, <2>1, PushRefines DEF SW!FinishEnqueue, SW!PushToQueue
<1>8. CASE FindSaved(w) \/ Write(w)
  BY <1>8, FindSavedRefines, WriteRefines DEF SW!Save, SW!SavePieceToDisk
<1> QED
  BY <1>1, <1>2, <1>3, <1>4, <1>5, <1>6, <1>7, <1>8

\* What a step of w leaves another thread v with.
LEMMA OtherStep ==
  ASSUME Inv, NEW w \in Workers, NEW v \in Workers \ {w},
         \/ StartCall(w) \/ Acquire(w)
         \/ \E c \in {"good", "bad"} : Fill(w, c)
         \/ Front(w) \/ NothingQueued(w) \/ Pop(w) \/ AskSaved(w) \/ AskNotSaved(w)
         \/ Push(w) \/ FindSaved(w) \/ Write(w) \/ Record(w)
  PROVE  WorkerInv(v)'
<1> USE MainIsNoWorker
<1>1. WorkerInv(v) /\ LockInv /\ TypeOK /\ Exclusion /\ MainInv
  BY DEF Inv, LocalInv
<1>2. \A u \in Workers \ {w} : pc'[u] = pc[u] /\ pointer'[u] = pointer[u]
  BY <1>1
     DEF StartCall, Acquire, Fill, Front, NothingQueued, Pop, AskSaved, AskNotSaved, Push,
         FindSaved, Write, Record, GoTo, LetGo, localVars, LockInv, TypeOK
<1>3. pc[v] = "Pop" => queue' = queue
  <2>1. CASE Pop(w) \/ Push(w)
    <3>1. pc[w] \in WithQueue
      BY <2>1 DEF Pop, Push, GoTo, WithQueue
    <3>2. pc[v] \notin WithQueue
      BY <1>1, <3>1, OneInQueue
    <3> QED
      BY <3>2 DEF WithQueue
  <2>2. CASE ~(Pop(w) \/ Push(w))
    BY <2>2
       DEF StartCall, Acquire, Fill, Front, NothingQueued, AskSaved, AskNotSaved, FindSaved,
           Write, Record, storageVars
  <2> QED
    BY <2>1, <2>2
<1>4. ASSUME pc[v] = "Record"
      PROVE  /\ \A k \in DOMAIN WholeQueue' : WholeQueue'[k] # pointer[v]
             /\ \A u \in Workers \ {v} : pointer'[u] # pointer[v]
  <2>1. /\ pointer[v] \in Objects
        /\ \A k \in DOMAIN WholeQueue : WholeQueue[k] # pointer[v]
        /\ \A u \in Workers \ {v} : pointer[u] # pointer[v]
    BY <1>1, <1>4 DEF WorkerInv
  <2>2. WholeQueue \in Seq(Objects)
    BY SamePieces DEF Inv, SW!IInv, SW!TypeOK, SW!StorageTypeOK
  <2>3. \A k \in DOMAIN WholeQueue' : WholeQueue'[k] # pointer[v]
    <3>1. CASE WholeQueue' = WholeQueue
      BY <2>1, <3>1
    <3>2. CASE WholeQueue # <<>> /\ WholeQueue' = Tail(WholeQueue)
      <4>1. \A k \in 1 .. Len(Tail(WholeQueue)) :
               Tail(WholeQueue)[k] = WholeQueue[k + 1] /\ k + 1 \in 1 .. Len(WholeQueue)
        BY <2>2, <3>2, HeadTailProperties, LenProperties
      <4>2. Tail(WholeQueue) \in Seq(Objects)
        BY <2>2, <3>2, HeadTailProperties
      <4> QED
        BY <2>1, <2>2, <3>2, <4>1, <4>2, LenProperties
    <3>3. CASE WholeQueue' = Append(WholeQueue, pointer[w]) /\ Push(w)
      <4>1. pointer[w] \in Objects
        BY <3>3, FindIndex DEF Push, GoTo
      <4>2. /\ Append(WholeQueue, pointer[w]) \in Seq(Objects)
            /\ Len(Append(WholeQueue, pointer[w])) = Len(WholeQueue) + 1
            /\ \A k \in 1 .. Len(WholeQueue) :
                  Append(WholeQueue, pointer[w])[k] = WholeQueue[k]
            /\ Append(WholeQueue, pointer[w])[Len(WholeQueue) + 1] = pointer[w]
        BY <2>2, <4>1, AppendProperties
      <4>3. \A k \in 1 .. Len(WholeQueue) + 1 : Append(WholeQueue, pointer[w])[k] # pointer[v]
        BY <2>1, <2>2, <4>2, LenProperties
      <4> QED
        BY <3>3, <4>2, <4>3, LenProperties
    <3> QED
      BY <3>1, <3>2, <3>3, QueueAfter
  <2>4. pointer'[w] # pointer[v]
    <3>1. CASE Front(w)
      <4>1. /\ queue \in Seq(Objects) /\ queue # <<>> /\ pointer'[w] = Head(queue)
            /\ WholeQueue = queue
        BY <1>1, <3>1, QueueIsWhole DEF Front, GoTo, WithQueue, TypeOK, StorageTypeOK
      <4>2. 1 \in DOMAIN queue /\ Head(queue) = queue[1]
        BY <4>1, EmptySeq, LenProperties, HeadTailProperties
      <4> QED
        BY <2>1, <4>1, <4>2
    <3>2. CASE ~Front(w)
      <4>1. pointer'[w] \in {pointer[w], NoObject}
        BY <1>1, <3>2
           DEF StartCall, Acquire, Fill, NothingQueued, Pop, AskSaved, AskNotSaved, Push,
               FindSaved, Write, Record, LetGo, localVars, TypeOK
      <4> QED
        BY <2>1, <4>1, NoObjectIsNone
    <3> QED
      BY <3>1, <3>2
  <2> QED
    BY <1>2, <2>1, <2>3, <2>4
<1> QED
  BY <1>1, <1>2, <1>3, <1>4 DEF WorkerInv

\* What a step of the main thread leaves a worker with.
LEMMA MainStepInv ==
  ASSUME Inv, NEW v \in Workers,
         \/ StartCall(Main) \/ Acquire(Main)
         \/ Clear \/ List \/ Refill \/ Done \/ Close \/ UNCHANGED vars
  PROVE  WorkerInv(v)'
<1> USE MainIsNoWorker
<1>1. WorkerInv(v) /\ LockInv /\ Exclusion
  BY DEF Inv, LocalInv
<1>2. \A u \in Workers : pc'[u] = pc[u] /\ pointer'[u] = pointer[u]
  BY <1>1
     DEF StartCall, Acquire, Clear, List, Refill, Done, Close, vars, GoTo, localVars, LockInv
<1>3. pc[v] = "Pop" => queue' = queue
  <2>1. pc[v] = "Pop" => pc[Main] \notin WithQueue
    BY <1>1, OneInQueue DEF WithQueue
  <2> QED
    BY <2>1
       DEF StartCall, Acquire, Clear, List, Refill, Done, Close, CloseOutputFile, vars, GoTo,
           storageVars, WithQueue
<1>4. pc[v] = "Record" => WholeQueue' = WholeQueue
  <2>1. pc[v] = "Record" => ~List /\ ~Close
    <3>1. List \/ Close => pc[Main] \in WithFile
      BY DEF List, Close, GoTo, WithFile
    <3> QED
      BY <1>1, <3>1, OneInFile DEF WithFile
  <2>2. CASE UNCHANGED vars
    BY <2>2 DEF vars, storageVars, localVars, WholeQueue
  <2>3. CASE StartCall(Main) \/ Acquire(Main) \/ Clear \/ Refill \/ Done
    BY <2>3, StartRefines, AcquireRefines, ClearRefines, RefillRefines, DoneRefines DEF SW!vars
  <2> QED
    BY <2>1, <2>2, <2>3
<1> QED
  BY <1>1, <1>2, <1>3, <1>4 DEF WorkerInv

-----------------------------------------------------------------------------
\* The invariant is kept by every step ...
LEMMA InvStep ==
  ASSUME Inv, LockInv', [Next]_vars
  PROVE  Inv'
<1>1. SW!IInv'
  BY NextRefines, StorageInvStep DEF Inv
<1>2. \A v \in Workers : WorkerInv(v)'
  <2> TAKE v \in Workers
  <2>1. ASSUME NEW w \in Workers,
               \/ StartCall(w) \/ Acquire(w)
               \/ \E c \in {"good", "bad"} : Fill(w, c)
               \/ Front(w) \/ NothingQueued(w) \/ Pop(w) \/ AskSaved(w) \/ AskNotSaved(w)
               \/ Push(w) \/ FindSaved(w) \/ Write(w) \/ Record(w)
        PROVE  WorkerInv(v)'
    BY <2>1, ActorStep, OtherStep
  <2> QED
    BY <2>1, MainStepInv DEF Next, Threads
<1>3. TypeOK' /\ MainInv' /\ BlankUnlessHeld' /\ Exclusion'
  BY TypeStep, MainInvStep, BlankStep, ExclusionStep DEF Inv
<1> QED
  BY <1>1, <1>2, <1>3 DEF Inv, LocalInv

\* ... and holds at the beginning.
LEMMA InitRefines == Init => SW!Init
<1> SUFFICES ASSUME Init PROVE SW!Init
  OBVIOUS
<1> USE MainIsNoWorker
<1>1. /\ pc[Main] = "Monitor" /\ \A w \in Workers : pc[w] = "Idle"
      /\ pointer = [w \in Workers |-> NoObject] /\ content = [o \in Objects |-> "blank"]
      /\ saved = <<>> /\ dropped = <<>> /\ queue = [k \in 1 .. NumPieces |-> <<k - 1, 0>>]
  BY DEF Init, StorageInit
<1>2. queue \in Seq(Objects)
  <2>1. \A k \in 1 .. NumPieces : <<k - 1, 0>> \in Objects
    BY StorageAssumption DEF Objects, Pieces
  <2> QED
    BY <1>1, <2>1, StorageAssumption, IsASeq
<1>3. WholeQueue = queue
  BY <1>1, <1>2, ConcatEmptySeq DEF WholeQueue
<1>4. WholeList = saved
  BY <1>1 DEF WholeList, Recording
<1>5. /\ [w \in Workers |-> HeldBy(w)] = [w \in Workers |-> SW!NoObject]
      /\ [w \in Workers |-> Stage(w)] = [w \in Workers |-> "idle"]
      /\ [o \in Objects |-> ContentOf(o)] = [o \in SW!Objects |-> "blank"]
  BY <1>1, SamePieces DEF HeldBy, Stage, ContentOf
<1> QED
  BY <1>1, <1>3, <1>4, <1>5, SamePieces
     DEF SW!Init, SW!StorageInit, SW!InitializeOutputFile, Init, StorageInit,
         InitializeOutputFile

\* The invariant holds initially.
LEMMA InitInv == Init /\ LockInv => Inv
<1> SUFFICES ASSUME Init, LockInv PROVE Inv
  OBVIOUS
<1> USE MainIsNoWorker
<1>1. SW!IInv
  BY InitRefines, StorageAssumption, WorkersFinite, SW!InitIInv
<1>2. /\ pc[Main] = "Monitor" /\ \A w \in Workers : pc[w] = "Idle"
      /\ pointer = [w \in Workers |-> NoObject] /\ content = [o \in Objects |-> "blank"]
      /\ missing = <<>> /\ dropped = <<>> /\ file_open = TRUE
  BY DEF Init, StorageInit, InitializeOutputFile
<1>3. TypeOK
  <2>1. queue \in Seq(Objects)
    <3>1. \A k \in 1 .. NumPieces : <<k - 1, 0>> \in Objects
      BY StorageAssumption DEF Objects, Pieces
    <3> QED
      BY <3>1, StorageAssumption, IsASeq DEF Init, StorageInit
  <2>2. <<>> \in Seq(Objects) /\ <<>> \in Seq(Pieces)
    BY EmptySeq
  <2>3. disk \in [Pieces -> Regions] /\ file_bad \in BOOLEAN
    BY DEF Init, StorageInit, InitializeOutputFile, Regions
  <2> QED
    BY <1>2, <2>1, <2>2, <2>3 DEF TypeOK, StorageTypeOK, Init, StorageInit, LockInv
<1>4. MainInv /\ Exclusion /\ BlankUnlessHeld /\ \A w \in Workers : WorkerInv(w)
  BY <1>2
     DEF MainInv, MainPlaces, Exclusion, WithQueue, WithFile, Threads, BlankUnlessHeld,
         WorkerInv, WorkerPlaces
<1> QED
  BY <1>1, <1>3, <1>4 DEF Inv, LocalInv

-----------------------------------------------------------------------------
\* The instances SW and Atomic (of StorageLocks) are of the same module.
LEMMA SameNames ==
    /\ Atomic!Pieces = SW!Pieces /\ Atomic!Objects = SW!Objects
    /\ Atomic!NoObject = SW!NoObject
    /\ Atomic!Saved = SW!Saved /\ Atomic!Missing = SW!Missing /\ Atomic!Held = SW!Held
BY DEF Atomic!Pieces, SW!Pieces, Atomic!Objects, SW!Objects, Atomic!NoObject,
   SW!NoObject, Atomic!Saved, SW!Saved, Atomic!Missing, SW!Missing, Atomic!Held, SW!Held

\* A step of the one is a step of the other.
LEMMA SameNext == [SW!Next]_SW!vars => [Atomic!Next]_Atomic!vars
<1> SUFFICES ASSUME [SW!Next]_SW!vars PROVE [Atomic!Next]_Atomic!vars
  OBVIOUS
<1> USE SameNames
<1>0. ASSUME NEW i PROVE Atomic!IsPieceAlreadySaved(i) <=> SW!IsPieceAlreadySaved(i)
  BY DEF Atomic!IsPieceAlreadySaved, SW!IsPieceAlreadySaved
<1>1. ASSUME NEW o PROVE Atomic!Index(o) = SW!Index(o)
  BY DEF Atomic!Index, SW!Index
<1>2. ASSUME NEW w \in Workers, SW!Release(w) PROVE Atomic!Release(w)
  BY <1>2 DEF SW!Release, Atomic!Release, SW!Blanked, Atomic!Blanked
<1>3. ASSUME NEW w \in Workers, SW!Pop(w) PROVE Atomic!Pop(w)
  BY <1>3 DEF SW!Pop, Atomic!Pop, SW!GetNextPieceToDownload, Atomic!GetNextPieceToDownload
<1>4. ASSUME NEW w \in Workers, NEW c \in {"partial", "good", "bad"}, SW!Fill(w, c)
      PROVE  Atomic!Fill(w, c)
  BY <1>4 DEF SW!Fill, Atomic!Fill, SW!storageVars, Atomic!storageVars
<1>5. ASSUME NEW w \in Workers, SW!Verify(w) PROVE Atomic!Verify(w)
  BY <1>5
     DEF SW!Verify, Atomic!Verify, SW!HashMatches, Atomic!HashMatches, SW!storageVars,
         Atomic!storageVars
<1>6. ASSUME NEW w \in Workers, SW!Save(w) PROVE Atomic!Save(w)
  BY <1>0, <1>1, <1>2, <1>6
     DEF SW!Save, Atomic!Save, SW!SavePieceToDisk, Atomic!SavePieceToDisk, SW!WriteRegion,
         Atomic!WriteRegion, SW!GetData, Atomic!GetData
<1>7. ASSUME NEW w \in Workers, SW!BeginEnqueue(w) PROVE Atomic!BeginEnqueue(w)
  BY <1>0, <1>1, <1>7
     DEF SW!BeginEnqueue, Atomic!BeginEnqueue, SW!Blanked, Atomic!Blanked, SW!storageVars,
         Atomic!storageVars
<1>8. ASSUME NEW w \in Workers, SW!FinishEnqueue(w) PROVE Atomic!FinishEnqueue(w)
  BY <1>2, <1>8
     DEF SW!FinishEnqueue, Atomic!FinishEnqueue, SW!PushToQueue, Atomic!PushToQueue
<1>9. ASSUME NEW w \in Workers, SW!DropSaved(w) PROVE Atomic!DropSaved(w)
  BY <1>0, <1>1, <1>2, <1>9
     DEF SW!DropSaved, Atomic!DropSaved, SW!storageVars, Atomic!storageVars
<1>10. ASSUME SW!ForceRequeue PROVE Atomic!ForceRequeue
  <2>1. Atomic!Cardinality(SW!Missing) = SW!Cardinality(SW!Missing)
    BY DEF Atomic!Cardinality, SW!Cardinality
  <2>2. Atomic!GetMissingPieces = SW!GetMissingPieces
    BY <2>1 DEF Atomic!GetMissingPieces, SW!GetMissingPieces
  <2>3. ASSUME NEW i, NEW inUse PROVE Atomic!NewObject(i, inUse) = SW!NewObject(i, inUse)
    BY DEF Atomic!NewObject, SW!NewObject
  <2>4. Atomic!ForceRequeueMissingPieces(SW!Held)
    BY <1>10, <2>1, <2>2, <2>3
       DEF SW!ForceRequeue, SW!ForceRequeueMissingPieces, Atomic!ForceRequeueMissingPieces
  <2> QED
    BY <1>10, <2>4 DEF SW!ForceRequeue, Atomic!ForceRequeue
<1>11. ASSUME SW!Close PROVE Atomic!Close
  BY <1>11
     DEF SW!Close, Atomic!Close, SW!CloseOutputFile, Atomic!CloseOutputFile,
         SW!IsDownloadComplete, Atomic!IsDownloadComplete, SW!workerVars,
         Atomic!workerVars
<1>12. ASSUME UNCHANGED SW!vars PROVE UNCHANGED Atomic!vars
  BY <1>12 DEF SW!vars, Atomic!vars
<1> QED
  BY <1>3, <1>4, <1>5, <1>6, <1>7, <1>8, <1>9, <1>10, <1>11, <1>12
     DEF SW!Next, Atomic!Next, SW!Finished

\* And so is an initial state.
LEMMA SameInit == SW!Init => Atomic!Init
BY SameNames
   DEF SW!Init, Atomic!Init, SW!StorageInit, Atomic!StorageInit, SW!InitializeOutputFile,
       Atomic!InitializeOutputFile

-----------------------------------------------------------------------------
(***************************************************************************)
(* The theorems.                                                           *)
(***************************************************************************)

\* The sections of PieceStorage exclude each other, in every reachable state: what a thread
\* found at the front is there when it pops, what is being saved is nobody else's, a name
\* that is free when the list is read is free when it is pushed.
THEOREM SectionInvariance == Spec => []Inv
<1>1. Init /\ LockInv => Inv
  BY InitInv
<1>2. Inv /\ LockInv' /\ [Next]_vars => Inv'
  BY InvStep
<1> QED
  BY <1>1, <1>2, LockInvariance, PTL DEF Spec

\* The critical sections of PieceStorage are atomic: what its methods do statement by
\* statement, with two mutexes and a nested lock, is what StorageWorkers does in one step
\* each, so that what is proved of StorageWorkers holds for the statements.
THEOREM SectionsAreAtomic == Spec => ImplementsStorageWorkers
<1>1. Init => Atomic!Init
  BY InitRefines, SameInit
<1>2. Inv /\ [Next]_vars => [Atomic!Next]_Atomic!vars
  BY NextRefines, SameNext DEF Inv, SW!IInv
<1> QED
  BY <1>1, <1>2, SectionInvariance, PTL DEF Spec, ImplementsStorageWorkers, Atomic!Spec
=============================================================================
