------------------------ MODULE StorageWorkersProofs ------------------------
(***************************************************************************)
(* Proofs about StorageWorkers, for any number of pieces and of workers.   *)
(***************************************************************************)
EXTENDS StorageWorkers, FiniteSetTheorems, SequenceTheorems, TLAPS

\* One step of one worker.
WorkerStep(w) ==
    \/ Pop(w)
    \/ \E c \in {"partial", "good", "bad"} : Fill(w, c)
    \/ Verify(w)
    \/ Save(w)
    \/ BeginEnqueue(w)
    \/ FinishEnqueue(w)
    \/ DropSaved(w)

-----------------------------------------------------------------------------
(***************************************************************************)
(* Facts about the data.                                                   *)
(***************************************************************************)

\* There are finitely many pieces, NumPieces of them.
LEMMA PiecesFinite == IsFiniteSet(Pieces) /\ Cardinality(Pieces) = NumPieces
<1>1. NumPieces \in Nat
  BY StorageAssumption
<1>2. IsFiniteSet(0 .. NumPieces - 1)
      /\ Cardinality(0 .. NumPieces - 1) =
            IF 0 > NumPieces - 1 THEN 0 ELSE (NumPieces - 1) - 0 + 1
  BY <1>1, FS_Interval
<1> QED
  BY <1>1, <1>2 DEF Pieces

\* The missing pieces can be counted.
LEMMA MissingFinite == IsFiniteSet(Missing) /\ Cardinality(Missing) \in Nat
<1>1. Missing \in SUBSET Pieces
  BY DEF Missing
<1>2. IsFiniteSet(Missing)
  BY <1>1, PiecesFinite, FS_Subset
<1> QED
  BY <1>2, FS_CardinalityType

\* A null pointer is no object.
LEMMA NoObjectIsNone == NoObject \notin Objects
BY StorageAssumption DEF NoObject, Objects, Pieces

\* The new object of a missing index is an object of that index that nobody has.
LEMMA NewObjectIsFresh ==
  ASSUME NEW i \in Pieces, NEW inUse, \E g \in 0 .. MaxGen : <<i, g>> \notin inUse
  PROVE  /\ NewObject(i, inUse) \in Objects
         /\ NewObject(i, inUse) \notin inUse
         /\ Index(NewObject(i, inUse)) = i
<1> DEFINE g == CHOOSE h \in 0 .. MaxGen : <<i, h>> \notin inUse
<1>1. g \in 0 .. MaxGen /\ <<i, g>> \notin inUse
  OBVIOUS
<1>2. NewObject(i, inUse) = <<i, g>>
  BY DEF NewObject
<1> QED
  BY <1>1, <1>2 DEF Objects, Index

\* The queue after a forced requeue: one new object for every missing index.
LEMMA RequeueResult ==
  ASSUME NEW inUse, ForceRequeueMissingPieces(inUse)
  PROVE  /\ queue' \in Seq(Objects)
         /\ Len(queue') = Cardinality(Missing)
         /\ \A k \in DOMAIN queue' : queue'[k] \notin inUse
         /\ \A j, k \in DOMAIN queue' : queue'[j] = queue'[k] => j = k
         /\ \A i \in Missing : \E k \in DOMAIN queue' : Index(queue'[k]) = i
<1> DEFINE n == Cardinality(Missing)
<1>1. n \in Nat
  BY MissingFinite
<1>2. PICK m \in GetMissingPieces : queue' = [k \in 1 .. n |-> NewObject(m[k], inUse)]
  BY DEF ForceRequeueMissingPieces
<1>3. /\ m \in [1 .. n -> Missing]
      /\ \A i \in Missing : \E k \in 1 .. n : m[k] = i
      /\ \A j, k \in 1 .. n : j < k => m[j] < m[k]
  BY <1>2 DEF GetMissingPieces
<1>4. \A k \in 1 .. n : /\ NewObject(m[k], inUse) \in Objects
                        /\ NewObject(m[k], inUse) \notin inUse
                        /\ Index(NewObject(m[k], inUse)) = m[k]
  <2> TAKE k \in 1 .. n
  <2>1. m[k] \in Missing /\ m[k] \in Pieces
    BY <1>3 DEF Missing
  <2>2. \E g \in 0 .. MaxGen : <<m[k], g>> \notin inUse
    BY <2>1 DEF ForceRequeueMissingPieces
  <2> QED
    BY <2>1, <2>2, NewObjectIsFresh
<1>5. queue' \in [1 .. n -> Objects] /\ DOMAIN queue' = 1 .. n
      /\ \A k \in 1 .. n : queue'[k] = NewObject(m[k], inUse)
  BY <1>2, <1>4
<1>6. queue' \in Seq(Objects) /\ Len(queue') = n
  <2>1. queue' \in Seq(Objects)
    BY <1>1, <1>5, SeqDef
  <2>2. Len(queue') \in Nat /\ 1 .. Len(queue') = 1 .. n
    BY <1>5, <2>1, LenProperties
  <2>3. Len(queue') = n
    BY <1>1, <2>2
  <2> QED
    BY <2>1, <2>3
<1>7. ASSUME NEW j \in 1 .. n, NEW k \in 1 .. n, queue'[j] = queue'[k]
      PROVE  j = k
  <2>1. NewObject(m[j], inUse) = NewObject(m[k], inUse)
    BY <1>5, <1>7
  <2>2. m[j] = m[k]
    BY <1>4, <2>1
  <2>3. m[j] \in Pieces
    BY <1>3 DEF Missing
  <2>4. m[j] \in Int
    BY <2>3, StorageAssumption DEF Pieces
  <2>5. ~ (j < k) /\ ~ (k < j)
    BY <1>3, <2>2, <2>4
  <2> QED
    BY <1>1, <2>5
<1> QED
  BY <1>3, <1>4, <1>5, <1>6, <1>7

\* What SavePieceToDisk may do to the list and to the file.
LEMMA SaveResult ==
  ASSUME saved \in Seq(Pieces), disk \in [Pieces -> Regions], file_bad \in BOOLEAN,
         NEW o \in Objects, NEW data, SavePieceToDisk(o, data)
  PROVE  /\ UNCHANGED <<queue, file_open>>
         /\ \/ /\ Index(o) \in Saved
               /\ UNCHANGED <<saved, disk, file_bad>>
            \/ /\ Index(o) \notin Saved
               /\ saved' = Append(saved, Index(o))
               /\ Saved' = Saved \cup {Index(o)}
               /\ \/ /\ file_open /\ ~file_bad /\ ~file_bad'
                     /\ disk' = [disk EXCEPT ![Index(o)] = data]
                  \/ /\ file_open /\ ~file_bad /\ file_bad' = TRUE
                     /\ disk' = [disk EXCEPT ![Index(o)] = "torn"]
                  \/ /\ ~file_open \/ file_bad
                     /\ UNCHANGED <<disk, file_bad>>
<1>1. Index(o) \in Pieces
  BY DEF Objects, Index
<1>2. ASSUME saved' = Append(saved, Index(o))
      PROVE  Saved' = Saved \cup {Index(o)}
  <2>1. /\ Len(saved) \in Nat
        /\ DOMAIN saved = 1 .. Len(saved)
        /\ DOMAIN saved' = 1 .. Len(saved) + 1
        /\ \A k \in 1 .. Len(saved) : saved'[k] = saved[k]
        /\ saved'[Len(saved) + 1] = Index(o)
    BY <1>1, <1>2, AppendProperties, LenProperties
  <2>2. DOMAIN saved' = DOMAIN saved \cup {Len(saved) + 1}
    BY <2>1
  <2> QED
    BY <2>1, <2>2 DEF Saved
<1> QED
  BY <1>2 DEF SavePieceToDisk, WriteRegion, IsPieceAlreadySaved

-----------------------------------------------------------------------------
(***************************************************************************)
(* The inductive invariant.  StageTellsContent is what makes the others    *)
(* inductive: that a verified object is right when it is written depends   *)
(* on nobody else having it (ExclusiveOwnership) and on a forced requeue   *)
(* making objects that nobody has; that a file is closed with nothing      *)
(* missing depends on counting a list without repetitions (SavedOnce).     *)
(***************************************************************************)
IInv ==
    /\ TypeOK
    /\ ExclusiveOwnership
    /\ QueuedAreBlank
    /\ StageTellsContent
    /\ SavedOnce
    /\ ClosedMeansAll
    /\ NothingLost
    /\ DiskVerified

\* The steps of Next.
LEMMA NextCases ==
  ASSUME [Next]_vars
  PROVE  ForceRequeue \/ Close \/ (\E w \in Workers : WorkerStep(w)) \/ UNCHANGED vars
BY DEF Next, Finished, WorkerStep

\* A worker that is not idle has an object.
LEMMA BusyHasObject ==
  ASSUME TypeOK, StageTellsContent, NEW w \in Workers, stage[w] # "idle"
  PROVE  held[w] \in Objects /\ held[w] # NoObject /\ Index(held[w]) \in Pieces
<1>1. held[w] \in Objects /\ held[w] # NoObject
  BY DEF TypeOK, StageTellsContent
<1> QED
  BY <1>1 DEF Objects, Index

\* Counting the saved list is enough: it has no index twice.
LEMMA CountIsEnough ==
  ASSUME saved \in Seq(Pieces), SavedOnce, IsDownloadComplete
  PROVE  Saved = Pieces
<1>1. /\ NumPieces \in Nat
      /\ saved \in [1 .. NumPieces -> Pieces]
      /\ DOMAIN saved = 1 .. NumPieces
  BY LenProperties, StorageAssumption DEF IsDownloadComplete
<1>2. saved \in Injection(1 .. NumPieces, Pieces)
  BY <1>1 DEF SavedOnce, Injection, IsInjective
<1>3. Cardinality(1 .. NumPieces) = NumPieces
  BY <1>1, FS_Interval
<1>4. saved \in Surjection(1 .. NumPieces, Pieces)
  BY <1>2, <1>3, PiecesFinite, FS_Injection
<1> QED
  BY <1>1, <1>4 DEF Saved, Surjection

\* Initially the invariant holds.
LEMMA InitIInv == Init => IInv
<1> SUFFICES ASSUME Init PROVE IInv
  OBVIOUS
<1> USE DEF Init, StorageInit
<1>1. NumPieces \in Nat /\ MaxGen \in Nat
  BY StorageAssumption
<1>2. /\ queue \in Seq(Objects)
      /\ DOMAIN queue = 1 .. NumPieces
      /\ \A k \in DOMAIN queue : queue[k] = <<k - 1, 0>> /\ queue[k] \in Objects
  <2>1. \A k \in 1 .. NumPieces : <<k - 1, 0>> \in Objects
    BY <1>1 DEF Objects, Pieces
  <2> QED
    BY <1>1, <2>1, SeqDef
<1>3. saved \in Seq(Pieces) /\ Saved = {} /\ DOMAIN saved = {}
  BY EmptySeq DEF Saved
<1>4. TypeOK
  BY <1>2, <1>3 DEF TypeOK, StorageTypeOK, InitializeOutputFile, Regions, Stages, Contents
<1>5. ExclusiveOwnership
  <2>1. \A j, k \in DOMAIN queue : queue[j] = queue[k] => j = k
    BY <1>1, <1>2
  <2>2. NoObject \notin Queued
    BY <1>2, NoObjectIsNone DEF Queued
  <2> QED
    BY <2>1, <2>2 DEF ExclusiveOwnership
<1>6. QueuedAreBlank
  BY <1>2 DEF QueuedAreBlank, Queued
<1>7. StageTellsContent
  BY DEF StageTellsContent
<1>8. SavedOnce
  BY <1>3 DEF SavedOnce
<1>9. ClosedMeansAll
  BY DEF ClosedMeansAll, InitializeOutputFile
<1>10. NothingLost
  <2> SUFFICES ASSUME NEW i \in Missing
               PROVE  \E o \in Queued \cup Held : Index(o) = i
    BY DEF NothingLost
  <2>1. i + 1 \in DOMAIN queue /\ queue[i + 1] = <<i, 0>>
    BY <1>1, <1>2 DEF Missing, Pieces
  <2> QED
    BY <2>1 DEF Queued, Index
<1>11. DiskVerified
  BY <1>3 DEF DiskVerified, InitializeOutputFile
<1> QED
  BY <1>4, <1>5, <1>6, <1>7, <1>8, <1>9, <1>10, <1>11 DEF IInv

-----------------------------------------------------------------------------
(***************************************************************************)
(* Every step preserves it; one lemma per part.                            *)
(***************************************************************************)

\* Types are kept: what is pushed and what is saved is an object, never null.
LEMMA TypeStep ==
  ASSUME TypeOK, StageTellsContent, [Next]_vars
  PROVE  TypeOK'
<1> USE DEF TypeOK, StorageTypeOK
<1>1. CASE UNCHANGED vars
  BY <1>1 DEF vars
<1>2. CASE ForceRequeue
  <2>1. queue' \in Seq(Objects)
    BY <1>2, RequeueResult DEF ForceRequeue
  <2>2. content' \in [Objects -> Contents]
    BY <1>2 DEF ForceRequeue, Contents
  <2> QED
    BY <1>2, <2>1, <2>2 DEF ForceRequeue, ForceRequeueMissingPieces
<1>3. CASE Close
  BY <1>3 DEF Close, CloseOutputFile, workerVars
<1>4. ASSUME NEW w \in Workers, WorkerStep(w)
      PROVE  TypeOK'
  <2>1. CASE Pop(w)
    <3>1. PICK o \in Objects : GetNextPieceToDownload(o) /\ held' = [held EXCEPT ![w] = o]
      BY <2>1 DEF Pop
    <3>2. queue' \in Seq(Objects)
      BY <3>1, HeadTailProperties DEF GetNextPieceToDownload
    <3>3. held' \in [Workers -> Objects \cup {NoObject}]
      BY <3>1
    <3>4. stage' \in [Workers -> Stages] /\ content' = content
      BY <2>1 DEF Pop, Stages
    <3> QED
      BY <3>1, <3>2, <3>3, <3>4 DEF GetNextPieceToDownload
  <2>2. ASSUME NEW c \in {"partial", "good", "bad"}, Fill(w, c)
        PROVE  TypeOK'
    BY <2>2 DEF Fill, storageVars, Contents
  <2>3. CASE Verify(w)
    BY <2>3 DEF Verify, storageVars, Stages
  <2>4. ASSUME Release(w)
        PROVE  /\ held' \in [Workers -> Objects \cup {NoObject}]
               /\ stage' \in [Workers -> Stages]
               /\ content' \in [Objects -> Contents]
    BY <2>4 DEF Release, Blanked, Stages, Contents
  <2>5. CASE Save(w)
    <3>1. held[w] \in Objects /\ Index(held[w]) \in Pieces
      BY <2>5, BusyHasObject DEF Save
    <3>2. PICK data \in {"good", "bad"} : SavePieceToDisk(held[w], data)
      BY <2>5 DEF Save, GetData
    <3>3. \/ saved' = saved /\ disk' = disk /\ file_bad' = file_bad
          \/ /\ saved' = Append(saved, Index(held[w]))
             /\ \/ disk' = [disk EXCEPT ![Index(held[w])] = data]
                \/ disk' = [disk EXCEPT ![Index(held[w])] = "torn"]
                \/ disk' = disk
             /\ file_bad' \in BOOLEAN
      BY <3>2 DEF SavePieceToDisk, WriteRegion
    <3>4. saved' \in Seq(Pieces)
      <4>1. saved \in Seq(Pieces)
        OBVIOUS
      <4>2. Append(saved, Index(held[w])) \in Seq(Pieces)
        BY <3>1, <4>1, AppendProperties
      <4> QED
        BY <3>3, <4>1, <4>2
    <3>6. disk' \in [Pieces -> Regions]
      BY <3>1, <3>3 DEF Regions
    <3>7. file_bad' \in BOOLEAN
      BY <3>3
    <3>5. queue' = queue /\ file_open' = file_open
      BY <3>2 DEF SavePieceToDisk
    <3> QED
      BY <2>4, <2>5, <3>4, <3>5, <3>6, <3>7 DEF Save
  <2>6. CASE BeginEnqueue(w)
    BY <2>6 DEF BeginEnqueue, Blanked, storageVars, Stages, Contents
  <2>7. CASE FinishEnqueue(w)
    <3>1. held[w] \in Objects
      BY <2>7, BusyHasObject DEF FinishEnqueue
    <3>2. queue' \in Seq(Objects)
      BY <2>7, <3>1, AppendProperties DEF FinishEnqueue, PushToQueue
    <3> QED
      BY <2>4, <2>7, <3>2 DEF FinishEnqueue, PushToQueue
  <2>8. CASE DropSaved(w)
    BY <2>4, <2>8 DEF DropSaved, storageVars
  <2> QED
    BY <1>4, <2>1, <2>2, <2>3, <2>5, <2>6, <2>7, <2>8 DEF WorkerStep
<1> QED
  BY <1>1, <1>2, <1>3, <1>4, NextCases

\* Taking the front of a queue without repetitions.
LEMMA PopResult ==
  ASSUME queue \in Seq(Objects), NEW o \in Objects, GetNextPieceToDownload(o),
         \A j, k \in DOMAIN queue : queue[j] = queue[k] => j = k
  PROVE  /\ o \in Queued
         /\ Queued' = Queued \ {o}
         /\ \A j, k \in DOMAIN queue' : queue'[j] = queue'[k] => j = k
<1>1. /\ queue # <<>> /\ o = Head(queue) /\ queue' = Tail(queue)
  BY DEF GetNextPieceToDownload
<1>2. /\ Len(queue) \in Nat \ {0}
      /\ DOMAIN queue = 1 .. Len(queue)
      /\ o = queue[1]
  BY <1>1, EmptySeq, LenProperties
<1>3. /\ queue' \in Seq(Objects)
      /\ Len(queue') = Len(queue) - 1
      /\ \A k \in 1 .. Len(queue') : queue'[k] = queue[k + 1]
  BY <1>1, HeadTailProperties
<1>4. DOMAIN queue' = 1 .. Len(queue) - 1
  BY <1>3, LenProperties
<1>5. o \in Queued
  BY <1>2 DEF Queued
<1>6. ASSUME NEW j \in DOMAIN queue', NEW k \in DOMAIN queue', queue'[j] = queue'[k]
      PROVE  j = k
  <2>1. /\ j + 1 \in DOMAIN queue /\ k + 1 \in DOMAIN queue
        /\ queue[j + 1] = queue[k + 1]
    BY <1>2, <1>3, <1>4, <1>6
  <2>2. j + 1 = k + 1
    BY <2>1
  <2> QED
    BY <1>2, <1>4, <2>2
<1>7. Queued' \subseteq Queued \ {o}
  BY <1>2, <1>3, <1>4 DEF Queued
<1>8. ASSUME NEW q \in Queued \ {o}
      PROVE  q \in Queued'
  <2>1. PICK k \in DOMAIN queue : q = queue[k]
    BY DEF Queued
  <2>2. k # 1 /\ k - 1 \in DOMAIN queue' /\ queue'[k - 1] = q
    BY <1>2, <1>3, <1>4, <2>1
  <2> QED
    BY <2>2 DEF Queued
<1> QED
  BY <1>5, <1>6, <1>7, <1>8

\* Appending an object that is not queued.
LEMMA PushResult ==
  ASSUME queue \in Seq(Objects), NEW o \in Objects, PushToQueue(o),
         o \notin Queued,
         \A j, k \in DOMAIN queue : queue[j] = queue[k] => j = k
  PROVE  /\ Queued' = Queued \cup {o}
         /\ \A j, k \in DOMAIN queue' : queue'[j] = queue'[k] => j = k
<1>1. queue' = Append(queue, o)
  BY DEF PushToQueue
<1>2. Len(queue) \in Nat /\ DOMAIN queue = 1 .. Len(queue)
  BY LenProperties
<1>3. /\ queue' \in Seq(Objects)
      /\ Len(queue') = Len(queue) + 1
      /\ \A k \in 1 .. Len(queue) : queue'[k] = queue[k]
      /\ queue'[Len(queue) + 1] = o
  BY <1>1, AppendProperties
<1>4. DOMAIN queue' = 1 .. Len(queue) + 1
  BY <1>2, <1>3, LenProperties
<1>5. DOMAIN queue' = DOMAIN queue \cup {Len(queue) + 1}
  BY <1>2, <1>4
<1>6. Queued' = Queued \cup {o}
  BY <1>2, <1>3, <1>5 DEF Queued
<1>7. ASSUME NEW j \in DOMAIN queue', NEW k \in DOMAIN queue', queue'[j] = queue'[k]
      PROVE  j = k
  <2>1. \A i \in DOMAIN queue : queue'[i] = queue[i] /\ queue'[i] # o
    BY <1>2, <1>3 DEF Queued
  <2> QED
    BY <1>3, <1>5, <1>7, <2>1
<1> QED
  BY <1>6, <1>7

\* No object gets a second owner.
LEMMA OwnershipStep ==
  ASSUME TypeOK, StageTellsContent, ExclusiveOwnership, [Next]_vars
  PROVE  ExclusiveOwnership'
<1>1. queue \in Seq(Objects) /\ held \in [Workers -> Objects \cup {NoObject}]
  BY DEF TypeOK, StorageTypeOK
<1>2. NoObject \notin Objects /\ NoObject \notin Queued
  <2>1. \A k \in DOMAIN queue : queue[k] \in Objects
    BY <1>1, LenProperties
  <2> QED
    BY <2>1, NoObjectIsNone DEF Queued
<1>3. ASSUME UNCHANGED <<queue, held>>
      PROVE  ExclusiveOwnership'
  BY <1>3 DEF ExclusiveOwnership, Queued
<1>4. CASE ForceRequeue
  <2>1. ForceRequeueMissingPieces(Held) /\ held' = held
    BY <1>4 DEF ForceRequeue
  <2>2. /\ queue' \in Seq(Objects)
        /\ \A k \in DOMAIN queue' : queue'[k] \notin Held
        /\ \A j, k \in DOMAIN queue' : queue'[j] = queue'[k] => j = k
    BY <2>1, RequeueResult
  <2>3. \A k \in DOMAIN queue' : queue'[k] # NoObject
    BY <1>2, <2>2, LenProperties
  <2>4. \A w \in Workers : held'[w] \notin Queued'
    BY <2>1, <2>2, <2>3 DEF Queued, Held
  <2> QED
    BY <2>1, <2>2, <2>4 DEF ExclusiveOwnership
<1>5. ASSUME NEW w \in Workers, WorkerStep(w)
      PROVE  ExclusiveOwnership'
  <2>1. ASSUME Release(w), queue' = queue
        PROVE  ExclusiveOwnership'
    BY <1>1, <1>2, <2>1 DEF Release, ExclusiveOwnership, Queued
  <2>2. CASE Pop(w)
    <3>1. PICK o \in Objects : GetNextPieceToDownload(o) /\ held' = [held EXCEPT ![w] = o]
      BY <2>2 DEF Pop
    <3>2. /\ o \in Queued
          /\ Queued' = Queued \ {o}
          /\ \A j, k \in DOMAIN queue' : queue'[j] = queue'[k] => j = k
      BY <1>1, <3>1, PopResult DEF ExclusiveOwnership
    <3>3. \A v \in Workers : held'[v] = IF v = w THEN o ELSE held[v]
      BY <1>1, <3>1
    <3> QED
      BY <3>2, <3>3 DEF ExclusiveOwnership
  <2>3. CASE FinishEnqueue(w)
    <3>1. held[w] \in Objects /\ held[w] # NoObject
      BY <2>3, BusyHasObject DEF FinishEnqueue
    <3>2. PushToQueue(held[w]) /\ held' = [held EXCEPT ![w] = NoObject]
      BY <2>3 DEF FinishEnqueue, Release
    <3>3. /\ Queued' = Queued \cup {held[w]}
          /\ \A j, k \in DOMAIN queue' : queue'[j] = queue'[k] => j = k
      BY <1>1, <3>1, <3>2, PushResult DEF ExclusiveOwnership
    <3>4. \A v \in Workers : held'[v] = IF v = w THEN NoObject ELSE held[v]
      BY <1>1, <3>2
    <3> QED
      BY <1>2, <3>1, <3>3, <3>4 DEF ExclusiveOwnership
  <2>4. CASE Save(w)
    BY <2>1, <2>4 DEF Save, SavePieceToDisk
  <2>5. CASE DropSaved(w)
    BY <2>1, <2>5 DEF DropSaved, storageVars
  <2>6. CASE Verify(w) \/ BeginEnqueue(w) \/ \E c \in {"partial", "good", "bad"} : Fill(w, c)
    BY <1>3, <2>6 DEF Verify, BeginEnqueue, Fill, storageVars
  <2> QED
    BY <1>5, <2>2, <2>3, <2>4, <2>5, <2>6 DEF WorkerStep
<1>6. CASE Close \/ UNCHANGED vars
  BY <1>3, <1>6 DEF Close, CloseOutputFile, workerVars, vars
<1> QED
  BY <1>4, <1>5, <1>6, NextCases

\* What is queued stays blank, and what is held is left to its owner.
LEMMA BlankStep ==
  ASSUME TypeOK, StageTellsContent, ExclusiveOwnership, QueuedAreBlank, [Next]_vars
  PROVE  QueuedAreBlank'
<1>1. queue \in Seq(Objects) /\ content \in [Objects -> Contents]
  BY DEF TypeOK, StorageTypeOK
<1>2. \A o \in Queued : o \in Objects
  BY <1>1, LenProperties DEF Queued
<1>3. CASE ForceRequeue
  <2>1. /\ queue' \in Seq(Objects)
        /\ \A k \in DOMAIN queue' : queue'[k] \notin Held
    BY <1>3, RequeueResult DEF ForceRequeue
  <2>2. \A o \in Queued' : o \in Objects /\ o \notin Held
    BY <2>1, LenProperties DEF Queued
  <2> QED
    BY <1>3, <2>2 DEF ForceRequeue, QueuedAreBlank
<1>4. ASSUME NEW w \in Workers, WorkerStep(w)
      PROVE  QueuedAreBlank'
  <2>1. held[w] \notin Queued
    BY DEF ExclusiveOwnership
  <2>2. ASSUME Queued' = Queued, content' = Blanked(held[w])
        PROVE  QueuedAreBlank'
    BY <1>1, <1>2, <2>2 DEF QueuedAreBlank, Blanked
  <2>3. CASE Pop(w)
    <3>1. PICK o \in Objects : GetNextPieceToDownload(o)
      BY <2>3 DEF Pop
    <3>2. Queued' \subseteq Queued
      BY <1>1, <3>1, PopResult DEF ExclusiveOwnership
    <3> QED
      BY <2>3, <3>2 DEF Pop, QueuedAreBlank
  <2>4. ASSUME NEW c \in {"partial", "good", "bad"}, Fill(w, c)
        PROVE  QueuedAreBlank'
    <3>1. queue' = queue /\ content' = [content EXCEPT ![held[w]] = c]
      BY <2>4 DEF Fill, storageVars
    <3> QED
      BY <1>1, <1>2, <2>1, <3>1 DEF QueuedAreBlank, Queued
  <2>5. CASE Verify(w)
    BY <2>5 DEF Verify, storageVars, QueuedAreBlank, Queued
  <2>6. CASE FinishEnqueue(w)
    <3>1. held[w] \in Objects
      BY <2>6, BusyHasObject DEF FinishEnqueue
    <3>2. Queued' = Queued \cup {held[w]}
      BY <1>1, <2>1, <2>6, <3>1, PushResult DEF FinishEnqueue, ExclusiveOwnership
    <3>3. content' = Blanked(held[w])
      BY <2>6 DEF FinishEnqueue, Release
    <3> QED
      BY <1>1, <1>2, <3>1, <3>2, <3>3 DEF QueuedAreBlank, Blanked
  <2>7. CASE Save(w)
    BY <2>2, <2>7 DEF Save, SavePieceToDisk, Release, Queued
  <2>8. CASE BeginEnqueue(w) \/ DropSaved(w)
    BY <2>2, <2>8 DEF BeginEnqueue, DropSaved, Release, storageVars, Queued
  <2> QED
    BY <1>4, <2>3, <2>4, <2>5, <2>6, <2>7, <2>8 DEF WorkerStep
<1>5. CASE Close \/ UNCHANGED vars
  BY <1>5 DEF Close, CloseOutputFile, workerVars, vars, QueuedAreBlank, Queued
<1> QED
  BY <1>3, <1>4, <1>5, NextCases

\* Nobody but its owner changes an object that is verified or was reset.
LEMMA StageStep ==
  ASSUME TypeOK, StageTellsContent, ExclusiveOwnership, [Next]_vars
  PROVE  StageTellsContent'
<1>1. /\ held \in [Workers -> Objects \cup {NoObject}]
      /\ stage \in [Workers -> Stages]
      /\ content \in [Objects -> Contents]
  BY DEF TypeOK
<1>2. \A w \in Workers : stage[w] # "idle" => held[w] \in Objects /\ held[w] # NoObject
  BY BusyHasObject
<1>3. \A v, w \in Workers : v # w /\ held[w] # NoObject => held[v] # held[w]
  BY DEF ExclusiveOwnership
<1>4. CASE ForceRequeue
  <2>1. \A w \in Workers : stage[w] # "idle" => content'[held[w]] = content[held[w]]
    BY <1>2, <1>4 DEF ForceRequeue, Held
  <2> QED
    BY <1>4, <2>1 DEF ForceRequeue, StageTellsContent
<1>5. ASSUME NEW w \in Workers, WorkerStep(w)
      PROVE  StageTellsContent'
  <2>1. CASE Pop(w)
    <3>1. PICK o \in Objects : held' = [held EXCEPT ![w] = o]
      BY <2>1 DEF Pop
    <3>2. o # NoObject
      BY NoObjectIsNone
    <3>3. stage' = [stage EXCEPT ![w] = "working"] /\ content' = content
      BY <2>1 DEF Pop
    <3>4. \A v \in Workers :
             /\ held'[v] = IF v = w THEN o ELSE held[v]
             /\ stage'[v] = IF v = w THEN "working" ELSE stage[v]
      BY <1>1, <3>1, <3>3
    <3> QED
      BY <3>2, <3>3, <3>4 DEF StageTellsContent
  <2>2. ASSUME NEW c \in {"partial", "good", "bad"}, Fill(w, c)
        PROVE  StageTellsContent'
    <3>1. /\ stage[w] = "working" /\ held' = held /\ stage' = stage
          /\ content' = [content EXCEPT ![held[w]] = c]
      BY <2>2 DEF Fill
    <3>2. \A v \in Workers : v # w /\ stage[v] # "idle" => content'[held[v]] = content[held[v]]
      BY <1>1, <1>2, <1>3, <3>1
    <3> QED
      BY <3>1, <3>2 DEF StageTellsContent
  <2>3. CASE Verify(w)
    <3>1. /\ stage[w] = "working" /\ held' = held /\ content' = content
          /\ content[held[w]] = "good"
      BY <2>3 DEF Verify, HashMatches
    <3>2. \A v \in Workers : stage'[v] = IF v = w THEN "verified" ELSE stage[v]
      BY <1>1, <2>3 DEF Verify
    <3> QED
      BY <3>1, <3>2 DEF StageTellsContent
  <2>4. CASE BeginEnqueue(w)
    <3>1. /\ stage[w] = "working" /\ held' = held
          /\ content' = [content EXCEPT ![held[w]] = "blank"]
      BY <2>4 DEF BeginEnqueue, Blanked
    <3>2. \A v \in Workers : stage'[v] = IF v = w THEN "requeueing" ELSE stage[v]
      BY <1>1, <2>4 DEF BeginEnqueue
    <3>3. \A v \in Workers : v # w /\ stage[v] # "idle" => content'[held[v]] = content[held[v]]
      BY <1>1, <1>2, <1>3, <3>1
    <3>4. content'[held[w]] = "blank"
      BY <1>1, <1>2, <3>1
    <3> QED
      BY <3>1, <3>2, <3>3, <3>4 DEF StageTellsContent
  <2>5. CASE Release(w)
    <3>1. \A v \in Workers :
             /\ held'[v] = IF v = w THEN NoObject ELSE held[v]
             /\ stage'[v] = IF v = w THEN "idle" ELSE stage[v]
      BY <1>1, <2>5 DEF Release
    <3>2. \A v \in Workers : v # w /\ stage[v] # "idle" => content'[held[v]] = content[held[v]]
      BY <1>1, <1>2, <1>3, <2>5 DEF Release, Blanked
    <3> QED
      BY <3>1, <3>2 DEF StageTellsContent
  <2> QED
    BY <1>5, <2>1, <2>2, <2>3, <2>4, <2>5
    DEF WorkerStep, Save, FinishEnqueue, DropSaved
<1>6. CASE Close \/ UNCHANGED vars
  BY <1>6 DEF Close, workerVars, vars, StageTellsContent
<1> QED
  BY <1>4, <1>5, <1>6, NextCases

-----------------------------------------------------------------------------
(***************************************************************************)
(* The saved list and the file.  Save is the only action that changes them.*)
(***************************************************************************)

\* Every step but a Save leaves the list and the regions alone.
LEMMA OnlySaveStores ==
  ASSUME [Next]_vars
  PROVE  \/ saved' = saved /\ disk' = disk /\ file_bad' = file_bad
         \/ \E w \in Workers : Save(w)
BY DEF Next, Finished, ForceRequeue, ForceRequeueMissingPieces, Close, CloseOutputFile,
       Pop, GetNextPieceToDownload, Fill, Verify, BeginEnqueue, FinishEnqueue, PushToQueue,
       DropSaved, storageVars, vars

\* A Save puts the verified bytes of one piece, not saved so far, into the file, or
\* fails to; or it finds the piece saved.
LEMMA SaveEffect ==
  ASSUME TypeOK, StageTellsContent, NEW w \in Workers, Save(w)
  PROVE  /\ UNCHANGED <<queue, file_open>>
         /\ Index(held[w]) \in Pieces
         /\ \/ /\ Index(held[w]) \in Saved
               /\ UNCHANGED <<saved, disk, file_bad>>
            \/ /\ Index(held[w]) \notin Saved
               /\ saved' = Append(saved, Index(held[w]))
               /\ Saved' = Saved \cup {Index(held[w])}
               /\ \/ /\ file_open /\ ~file_bad /\ ~file_bad'
                     /\ disk' = [disk EXCEPT ![Index(held[w])] = "good"]
                  \/ /\ file_open /\ ~file_bad /\ file_bad' = TRUE
                     /\ disk' = [disk EXCEPT ![Index(held[w])] = "torn"]
                  \/ /\ ~file_open \/ file_bad
                     /\ UNCHANGED <<disk, file_bad>>
<1>1. held[w] \in Objects /\ Index(held[w]) \in Pieces
  BY BusyHasObject DEF Save
<1>2. SavePieceToDisk(held[w], "good")
  BY DEF Save, StageTellsContent, GetData
<1>3. saved \in Seq(Pieces) /\ disk \in [Pieces -> Regions] /\ file_bad \in BOOLEAN
  BY DEF TypeOK, StorageTypeOK
<1> QED
  BY <1>1, <1>2, <1>3, SaveResult

\* No index is recorded twice.
LEMMA SavedOnceStep ==
  ASSUME TypeOK, StageTellsContent, SavedOnce, [Next]_vars
  PROVE  SavedOnce'
<1>1. saved \in Seq(Pieces)
  BY DEF TypeOK, StorageTypeOK
<1>2. CASE saved' = saved
  BY <1>2 DEF SavedOnce
<1>3. ASSUME NEW w \in Workers, Save(w), saved' # saved
      PROVE  SavedOnce'
  <2> DEFINE i == Index(held[w])
  <2>1. i \in Pieces /\ i \notin Saved /\ saved' = Append(saved, i)
    BY <1>3, SaveEffect
  <2>2. /\ Len(saved) \in Nat
        /\ DOMAIN saved = 1 .. Len(saved)
        /\ DOMAIN saved' = 1 .. Len(saved) + 1
        /\ \A k \in 1 .. Len(saved) : saved'[k] = saved[k]
        /\ saved'[Len(saved) + 1] = i
    BY <1>1, <2>1, AppendProperties, LenProperties
  <2>3. DOMAIN saved' = DOMAIN saved \cup {Len(saved) + 1}
    BY <2>2
  <2>4. \A k \in DOMAIN saved : saved'[k] = saved[k] /\ saved'[k] # i
    BY <2>1, <2>2 DEF Saved
  <2> QED
    BY <2>2, <2>3, <2>4 DEF SavedOnce
<1> QED
  BY <1>2, <1>3, OnlySaveStores

\* A piece is never unsaved.
LEMMA SavedGrows ==
  ASSUME TypeOK, StageTellsContent, [Next]_vars
  PROVE  Saved \subseteq Saved' /\ Saved' \subseteq Pieces /\ Missing' \subseteq Missing
<1>1. Saved \subseteq Saved'
  <2>1. CASE saved' = saved
    BY <2>1 DEF Saved
  <2>2. ASSUME NEW w \in Workers, Save(w), saved' # saved
        PROVE  Saved \subseteq Saved'
    BY <2>2, SaveEffect
  <2> QED
    BY <2>1, <2>2, OnlySaveStores
<1>2. Saved' \subseteq Pieces
  <2>1. saved' \in Seq(Pieces)
    BY TypeStep DEF TypeOK, StorageTypeOK
  <2> QED
    BY <2>1, LenProperties DEF Saved
<1> QED
  BY <1>1, <1>2 DEF Missing, Pieces

\* The file is closed with nothing missing.
LEMMA ClosedStep ==
  ASSUME TypeOK, StageTellsContent, SavedOnce, ClosedMeansAll, [Next]_vars
  PROVE  ClosedMeansAll'
<1>1. CASE Close
  <2>1. saved \in Seq(Pieces) /\ IsDownloadComplete /\ saved' = saved
    BY <1>1 DEF Close, CloseOutputFile, TypeOK, StorageTypeOK
  <2>2. Saved = Pieces
    BY <2>1, CountIsEnough
  <2> QED
    BY <2>1, <2>2 DEF ClosedMeansAll, Missing, Saved, Pieces
<1>2. CASE file_open' = file_open
  BY <1>2, SavedGrows DEF ClosedMeansAll
<1>3. Close \/ file_open' = file_open
  BY DEF Next, Finished, ForceRequeue, ForceRequeueMissingPieces, Pop,
         GetNextPieceToDownload, Fill, Verify, Save, SavePieceToDisk, BeginEnqueue,
         FinishEnqueue, PushToQueue, DropSaved, storageVars, vars
<1> QED
  BY <1>1, <1>2, <1>3

\* Only verified bytes enter the file, and the list tells where.
LEMMA DiskStep ==
  ASSUME TypeOK, StageTellsContent, ClosedMeansAll, DiskVerified, [Next]_vars
  PROVE  DiskVerified'
<1>1. disk \in [Pieces -> Regions] /\ file_bad \in BOOLEAN
  BY DEF TypeOK, StorageTypeOK
<1>2. CASE saved' = saved /\ disk' = disk /\ file_bad' = file_bad
  BY <1>2 DEF DiskVerified, Saved, Pieces
<1>3. ASSUME NEW w \in Workers, Save(w)
      PROVE  DiskVerified'
  <2> DEFINE i == Index(held[w])
  <2>1. CASE saved' = saved /\ disk' = disk /\ file_bad' = file_bad
    BY <1>2, <2>1
  <2>2. CASE /\ i \notin Saved /\ i \in Pieces /\ Saved' = Saved \cup {i}
             /\ ~file_bad /\ ~file_bad' /\ disk' = [disk EXCEPT ![i] = "good"]
    BY <1>1, <2>2 DEF DiskVerified, Pieces
  <2>3. CASE file_bad' = TRUE /\ i \in Pieces /\ disk' = [disk EXCEPT ![i] = "torn"]
    BY <1>1, <2>3 DEF DiskVerified, Pieces
  <2>4. CASE i \notin Saved /\ i \in Pieces /\ (~file_open \/ file_bad)
             /\ disk' = disk /\ file_bad' = file_bad
    <3>1. file_open
      BY <2>4 DEF ClosedMeansAll, Missing
    <3> QED
      BY <2>4, <3>1 DEF DiskVerified, Pieces
  <2> HIDE DEF i
  <2> QED
    BY <1>3, <2>1, <2>2, <2>3, <2>4, SaveEffect DEF i
<1> QED
  BY <1>2, <1>3, OnlySaveStores

\* A missing piece stays in the queue or in somebody's hands.
LEMMA NothingLostStep ==
  ASSUME TypeOK, StageTellsContent, ExclusiveOwnership, NothingLost, [Next]_vars
  PROVE  NothingLost'
<1>1. /\ queue \in Seq(Objects)
      /\ held \in [Workers -> Objects \cup {NoObject}]
  BY DEF TypeOK, StorageTypeOK
<1>2. Missing' \subseteq Missing
  BY SavedGrows
<1>3. ASSUME NEW i \in Missing', Queued \cup Held \subseteq Queued' \cup Held'
      PROVE  \E o \in Queued' \cup Held' : Index(o) = i
  BY <1>2, <1>3 DEF NothingLost
<1>4. CASE ForceRequeue
  <2>1. \A i \in Missing : \E k \in DOMAIN queue' : Index(queue'[k]) = i
    BY <1>4, RequeueResult DEF ForceRequeue
  <2> QED
    BY <1>2, <2>1 DEF NothingLost, Queued
<1>5. ASSUME NEW w \in Workers, WorkerStep(w)
      PROVE  NothingLost'
  <2>1. CASE Pop(w)
    <3>1. PICK o \in Objects : GetNextPieceToDownload(o) /\ held' = [held EXCEPT ![w] = o]
      BY <2>1 DEF Pop
    <3>2. Queued' = Queued \ {o}
      BY <1>1, <3>1, PopResult DEF ExclusiveOwnership
    <3>3. held[w] = NoObject /\ o # NoObject
      BY <2>1, NoObjectIsNone DEF Pop, StageTellsContent
    <3>4. \A v \in Workers : held'[v] = IF v = w THEN o ELSE held[v]
      BY <1>1, <3>1
    <3>5. Held \cup {o} \subseteq Held'
      BY <3>3, <3>4 DEF Held
    <3> QED
      BY <1>3, <3>2, <3>5 DEF NothingLost
  <2>2. ASSUME Release(w)
        PROVE  Held \ {held[w]} \subseteq Held'
    <3>1. \A v \in Workers : v # w => held'[v] = held[v]
      BY <1>1, <2>2 DEF Release
    <3> QED
      BY <3>1 DEF Held
  <2>3. CASE FinishEnqueue(w)
    <3>1. held[w] \in Objects /\ held[w] \notin Queued
      BY <2>3, BusyHasObject DEF FinishEnqueue, ExclusiveOwnership
    <3>2. Queued' = Queued \cup {held[w]}
      BY <1>1, <2>3, <3>1, PushResult DEF FinishEnqueue, ExclusiveOwnership
    <3>3. Queued \cup Held \subseteq Queued' \cup Held'
      BY <2>2, <2>3, <3>2 DEF FinishEnqueue
    <3> QED
      BY <1>3, <3>3 DEF NothingLost
  <2>4. ASSUME Release(w), queue' = queue, Index(held[w]) \in Saved'
        PROVE  NothingLost'
    <3> SUFFICES ASSUME NEW i \in Missing'
                 PROVE  \E o \in Queued' \cup Held' : Index(o) = i
      BY DEF NothingLost
    <3>1. PICK o \in Queued \cup Held : Index(o) = i
      BY <1>2 DEF NothingLost
    <3>2. o # held[w]
      BY <2>4, <3>1 DEF Missing
    <3>3. o \in Queued' \cup Held'
      BY <2>2, <2>4, <3>2 DEF Queued
    <3> QED
      BY <3>1, <3>3
  <2>5. CASE Save(w)
    <3>1. queue' = queue /\ Index(held[w]) \in Saved'
      BY <2>5, SaveEffect, SavedGrows
    <3> QED
      BY <2>4, <2>5, <3>1 DEF Save
  <2>6. CASE DropSaved(w)
    <3>1. queue' = queue /\ Index(held[w]) \in Saved'
      BY <2>6 DEF DropSaved, IsPieceAlreadySaved, storageVars, Saved
    <3> QED
      BY <2>4, <2>6, <3>1 DEF DropSaved
  <2>7. CASE Verify(w) \/ BeginEnqueue(w) \/ \E c \in {"partial", "good", "bad"} : Fill(w, c)
    <3>1. queue' = queue /\ held' = held
      BY <2>7 DEF Verify, BeginEnqueue, Fill, storageVars
    <3> QED
      BY <1>3, <3>1 DEF NothingLost, Queued, Held
  <2> QED
    BY <1>5, <2>1, <2>3, <2>5, <2>6, <2>7 DEF WorkerStep
<1>6. CASE Close \/ UNCHANGED vars
  <2>1. queue' = queue /\ held' = held
    BY <1>6 DEF Close, CloseOutputFile, workerVars, vars
  <2> QED
    BY <1>3, <2>1 DEF NothingLost, Queued, Held
<1> QED
  BY <1>4, <1>5, <1>6, NextCases

-----------------------------------------------------------------------------
(***************************************************************************)
(* The theorems.                                                           *)
(***************************************************************************)

\* IInv is an invariant.
THEOREM Invariance == Spec => []IInv
<1>1. IInv /\ [Next]_vars => IInv'
  BY TypeStep, OwnershipStep, BlankStep, StageStep, SavedOnceStep, ClosedStep,
     NothingLostStep, DiskStep DEF IInv
<1> QED
  BY InitIInv, <1>1, PTL DEF Spec

\* Types are respected: no thread ever pushes, saves or writes through a null
\* pointer, and no index outside the file is written.
THEOREM TypeCorrect == Spec => []TypeOK
<1>1. IInv => TypeOK
  BY DEF IInv
<1> QED
  BY <1>1, Invariance, PTL

\* No Piece object ever has two owners: PieceStorage needs no lock inside Piece.
THEOREM Ownership == Spec => []ExclusiveOwnership
<1>1. IInv => ExclusiveOwnership
  BY DEF IInv
<1> QED
  BY <1>1, Invariance, PTL

\* A queued object has no blocks in it, although the thread that returned it had filled some:
\* GetNextPieceToDownload never hands out another thread's leftovers.
THEOREM HandedOutBlank == Spec => []QueuedAreBlank
<1>1. IInv => QueuedAreBlank
  BY DEF IInv
<1> QED
  BY <1>1, Invariance, PTL

\* What a thread found out about its object stays true while it has it: the bytes that
\* SavePieceToDisk writes are those whose hash was compared.
THEOREM VerdictsLast == Spec => []StageTellsContent
<1>1. IInv => StageTellsContent
  BY DEF IInv
<1> QED
  BY <1>1, Invariance, PTL

\* However threads interleave inside Enqueue and requeues are forced, a piece that
\* is not saved is in the queue or in the hands of a thread.
THEOREM NoPieceIsLost == Spec => []NothingLost
<1>1. IInv => NothingLost
  BY DEF IInv
<1> QED
  BY <1>1, Invariance, PTL

\* The file holds verified bytes for every saved piece and zeros elsewhere, until a
\* write fails; and never bytes that were not verified.
THEOREM FileIsVerified == Spec => []DiskVerified
<1>1. IInv => DiskVerified
  BY DEF IInv
<1> QED
  BY <1>1, Invariance, PTL

\* The saved list has no index twice, however many objects of it were completed.
THEOREM SavedListIsExact == Spec => []SavedOnce
<1>1. IInv => SavedOnce
  BY DEF IInv
<1> QED
  BY <1>1, Invariance, PTL

\* The output file is closed only when every piece was saved.
THEOREM ClosedInTime == Spec => []ClosedMeansAll
<1>1. IInv => ClosedMeansAll
  BY DEF IInv
<1> QED
  BY <1>1, Invariance, PTL

\* IsDownloadComplete may count: when the count is right no piece is missing.
THEOREM CompletionIsReal == Spec => []CompleteMeansAll
<1>1. IInv => CompleteMeansAll
  BY CountIsEnough DEF IInv, TypeOK, StorageTypeOK, CompleteMeansAll
<1> QED
  BY <1>1, Invariance, PTL

\* Nothing that was saved is ever forgotten, and verified bytes stay in the file.
THEOREM SavedForEver == Spec => NeverUnsaved
<1> DEFINE A == /\ Len(saved) <= Len(saved')
                /\ \A k \in DOMAIN saved : saved'[k] = saved[k]
                /\ \A i \in Pieces : disk[i] = "good" => disk'[i] = "good"
<1>1. ASSUME IInv, [Next]_vars
      PROVE  A
  <2>1. saved \in Seq(Pieces) /\ disk \in [Pieces -> Regions]
        /\ TypeOK /\ StageTellsContent
    BY <1>1 DEF IInv, TypeOK, StorageTypeOK
  <2>2. Len(saved) \in Nat /\ DOMAIN saved = 1 .. Len(saved)
    BY <2>1, LenProperties
  <2>3. CASE saved' = saved /\ disk' = disk
    BY <2>2, <2>3
  <2>4. ASSUME NEW w \in Workers, Save(w), ~(saved' = saved /\ disk' = disk)
        PROVE  A
    <3> DEFINE i == Index(held[w])
    <3>1. /\ i \in Pieces /\ i \notin Saved
          /\ saved' = Append(saved, i)
          /\ \/ ~file_bad /\ disk' = [disk EXCEPT ![i] = "good"]
             \/ ~file_bad /\ disk' = [disk EXCEPT ![i] = "torn"]
             \/ disk' = disk
      BY <2>1, <2>4, SaveEffect
    <3>2. /\ Len(saved') = Len(saved) + 1
          /\ \A k \in 1 .. Len(saved) : saved'[k] = saved[k]
      BY <2>1, <3>1, AppendProperties
    <3>3. ~file_bad => disk[i] # "good"
      BY <1>1, <3>1 DEF IInv, DiskVerified
    <3>4. \A j \in Pieces : disk[j] = "good" => disk'[j] = "good"
      BY <2>1, <3>1, <3>3
    <3> QED
      BY <2>2, <3>2, <3>4
  <2> QED
    BY <1>1, <2>3, <2>4, OnlySaveStores
<1>2. IInv /\ [Next]_vars => [A]_vars
  BY <1>1
<1> QED
  BY <1>2, Invariance, PTL DEF Spec, NeverUnsaved

-----------------------------------------------------------------------------
(***************************************************************************)
(* StorageWorkers implements Download.                                     *)
(***************************************************************************)

\* The initial states map to initial states.
LEMMA InitRefines == Init => Promise!Init
<1> SUFFICES ASSUME Init PROVE Promise!Init
  OBVIOUS
<1>1. Saved = {}
  BY EmptySeq DEF Init, StorageInit, Saved
<1> QED
  BY <1>1 DEF Init, StorageInit, InitializeOutputFile, Promise!Init

\* A Save of a new piece is a Store, Close is Close, all other steps stutter.
LEMMA StepRefines == IInv /\ [Next]_vars => [Promise!Next]_(Promise!vars)
<1> SUFFICES ASSUME IInv, [Next]_vars PROVE [Promise!Next]_(Promise!vars)
  OBVIOUS
<1>1. /\ saved \in Seq(Pieces) /\ file_open \in BOOLEAN /\ file_bad \in BOOLEAN
      /\ TypeOK /\ StageTellsContent /\ SavedOnce /\ ClosedMeansAll
  BY DEF IInv, TypeOK, StorageTypeOK
<1>2. ASSUME saved' = saved, disk' = disk, file_bad' = file_bad, file_open' = file_open
      PROVE  UNCHANGED Promise!vars
  BY <1>2 DEF Promise!vars, Saved
<1>3. CASE Close
  <2>1. Saved = Pieces /\ saved' = saved /\ disk' = disk /\ file_bad' = file_bad
        /\ file_open /\ file_open' = FALSE
    BY <1>1, <1>3, CountIsEnough DEF Close, CloseOutputFile
  <2> QED
    BY <2>1 DEF Promise!Next, Promise!Close, Saved
<1>4. ASSUME NEW w \in Workers, Save(w)
      PROVE  [Promise!Next]_(Promise!vars)
  <2> DEFINE i == Index(held[w])
  <2>1. file_open' = file_open /\ i \in Pieces
    BY <1>1, <1>4, SaveEffect
  <2>2. CASE UNCHANGED <<saved, disk, file_bad>>
    BY <1>2, <2>1, <2>2
  <2>3. CASE /\ i \notin Saved /\ Saved' = Saved \cup {i}
             /\ \/ /\ file_open /\ ~file_bad /\ ~file_bad'
                   /\ disk' = [disk EXCEPT ![i] = "good"]
                \/ /\ file_open /\ ~file_bad /\ file_bad' = TRUE
                   /\ disk' = [disk EXCEPT ![i] = "torn"]
                \/ /\ ~file_open \/ file_bad
                   /\ UNCHANGED <<disk, file_bad>>
    <3>1. file_open
      BY <1>1, <2>1, <2>3 DEF ClosedMeansAll, Missing
    <3>2. \/ Promise!Write(i)
          \/ Promise!Tear(i)
          \/ Promise!Skip
      BY <1>1, <2>3, <3>1 DEF Promise!Write, Promise!Tear, Promise!Skip
    <3>3. Promise!Store(i)
      BY <2>1, <2>3, <3>1, <3>2 DEF Promise!Store
    <3> QED
      BY <2>1, <3>3 DEF Promise!Next
  <2> HIDE DEF i
  <2> QED
    BY <1>1, <1>4, <2>2, <2>3, SaveEffect DEF i
<1>5. \/ Close
      \/ \E w \in Workers : Save(w)
      \/ saved' = saved /\ disk' = disk /\ file_bad' = file_bad /\ file_open' = file_open
  BY DEF Next, Finished, ForceRequeue, ForceRequeueMissingPieces, Pop,
         GetNextPieceToDownload, Fill, Verify, BeginEnqueue, FinishEnqueue, PushToQueue,
         DropSaved, storageVars, vars
<1> QED
  BY <1>2, <1>3, <1>4, <1>5

\* Queue, objects, threads and forced requeues together keep the promise of
\* Download: every piece stored once and verified, the file closed when all are.
THEOREM Refinement == Spec => ImplementsDownload
<1> QED
  BY InitRefines, StepRefines, Invariance, PTL DEF Spec, ImplementsDownload, Promise!Spec

-----------------------------------------------------------------------------
(***************************************************************************)
(* The bound on duplicates.  With IInv it is inductive by itself: a pop    *)
(* and a push move one object, a requeue starts again from one per piece.  *)
(***************************************************************************)
Busy == {w \in Workers : held[w] # NoObject}

\* Busy workers can be counted, and there are no more of them than workers.
LEMMA BusyFinite ==
  /\ IsFiniteSet(Busy) /\ Cardinality(Busy) \in Nat
  /\ Cardinality(Busy) <= Cardinality(Workers) /\ Cardinality(Workers) \in Nat
<1>1. IsFiniteSet(Workers) /\ Busy \in SUBSET Workers
  BY WorkersAssumption DEF Busy
<1> QED
  BY <1>1, FS_Subset, FS_CardinalityType

\* Letting go of an object makes one busy worker less.
LEMMA ReleaseCounts ==
  ASSUME TypeOK, NEW w \in Workers, held[w] # NoObject, Release(w)
  PROVE  Cardinality(Busy') = Cardinality(Busy) - 1
<1>1. Busy' = Busy \ {w} /\ w \in Busy
  BY DEF Busy, Release, TypeOK
<1> QED
  BY <1>1, BusyFinite, FS_RemoveElement

\* The bound holds at first and every step keeps it.
LEMMA BoundStep == IInv /\ QueueBounded /\ [Next]_vars => QueueBounded'
<1> SUFFICES ASSUME IInv, QueueBounded, [Next]_vars PROVE QueueBounded'
  OBVIOUS
<1>1. /\ TypeOK /\ StageTellsContent
      /\ queue \in Seq(Objects) /\ held \in [Workers -> Objects \cup {NoObject}]
  BY DEF IInv, TypeOK, StorageTypeOK
<1>2. NumPieces \in Nat /\ Len(queue) \in Nat
  BY <1>1, StorageAssumption, LenProperties
<1>3. Len(queue) + Cardinality(Busy) <= NumPieces + Cardinality(Workers)
  BY DEF QueueBounded, Busy
<1>4. SUFFICES Len(queue') + Cardinality(Busy') <= NumPieces + Cardinality(Workers)
  BY DEF QueueBounded, Busy
<1>5. CASE ForceRequeue
  <2>1. Len(queue') = Cardinality(Missing) /\ Busy' = Busy
    BY <1>5, RequeueResult DEF ForceRequeue, Busy
  <2>2. Cardinality(Missing) <= NumPieces
    <3>1. Missing \in SUBSET Pieces
      BY DEF Missing
    <3> QED
      BY <3>1, PiecesFinite, FS_Subset
  <2> QED
    BY <1>2, <2>1, <2>2, BusyFinite, MissingFinite
<1>6. ASSUME NEW w \in Workers, WorkerStep(w)
      PROVE  Len(queue') + Cardinality(Busy') <= NumPieces + Cardinality(Workers)
  <2>1. CASE Pop(w)
    <3>1. PICK o \in Objects : GetNextPieceToDownload(o) /\ held' = [held EXCEPT ![w] = o]
      BY <2>1 DEF Pop
    <3>2. Len(queue') = Len(queue) - 1
      BY <1>1, <3>1, HeadTailProperties DEF GetNextPieceToDownload
    <3>3. held[w] = NoObject /\ o # NoObject
      BY <1>1, <2>1, NoObjectIsNone DEF Pop, StageTellsContent
    <3>4. Busy' = Busy \cup {w} /\ w \notin Busy
      BY <1>1, <3>1, <3>3 DEF Busy
    <3>5. Cardinality(Busy') = Cardinality(Busy) + 1
      BY <3>4, BusyFinite, FS_AddElement
    <3> QED
      BY <1>2, <1>3, <3>2, <3>5, BusyFinite
  <2>2. CASE FinishEnqueue(w)
    <3>1. held[w] \in Objects /\ held[w] # NoObject
      BY <1>1, <2>2, BusyHasObject DEF FinishEnqueue
    <3>2. Len(queue') = Len(queue) + 1
      BY <1>1, <2>2, <3>1, AppendProperties DEF FinishEnqueue, PushToQueue
    <3>3. Cardinality(Busy') = Cardinality(Busy) - 1
      BY <1>1, <2>2, <3>1, ReleaseCounts DEF FinishEnqueue
    <3> QED
      BY <1>2, <1>3, <3>2, <3>3, BusyFinite
  <2>3. CASE Save(w) \/ DropSaved(w)
    <3>1. held[w] # NoObject /\ Release(w) /\ queue' = queue
      BY <1>1, <2>3, BusyHasObject DEF Save, SavePieceToDisk, DropSaved, storageVars
    <3>2. Cardinality(Busy') = Cardinality(Busy) - 1
      BY <1>1, <3>1, ReleaseCounts
    <3> QED
      BY <1>2, <1>3, <3>1, <3>2, BusyFinite
  <2>4. CASE Verify(w) \/ BeginEnqueue(w) \/ \E c \in {"partial", "good", "bad"} : Fill(w, c)
    <3>1. queue' = queue /\ Busy' = Busy
      BY <2>4 DEF Verify, BeginEnqueue, Fill, storageVars, Busy
    <3> QED
      BY <1>3, <3>1
  <2> QED
    BY <1>6, <2>1, <2>2, <2>3, <2>4 DEF WorkerStep
<1>7. CASE Close \/ UNCHANGED vars
  <2>1. queue' = queue /\ Busy' = Busy
    BY <1>7 DEF Close, CloseOutputFile, workerVars, vars, Busy
  <2> QED
    BY <1>3, <2>1
<1> QED
  BY <1>5, <1>6, <1>7, NextCases

\* However often requeues are forced, queue and threads together never have more
\* objects than there are pieces and threads.
THEOREM DuplicatesBounded == Spec => []QueueBounded
<1>1. Init => QueueBounded
  <2> SUFFICES ASSUME Init PROVE QueueBounded
    OBVIOUS
  <2>1. Len(queue) = NumPieces
    BY StorageAssumption DEF Init, StorageInit
  <2>2. Busy = {}
    BY DEF Init, Busy
  <2>3. Cardinality(Busy) = 0
    BY <2>2, FS_EmptySet
  <2> QED
    BY <2>1, <2>3, StorageAssumption, BusyFinite DEF QueueBounded, Busy
<1> QED
  BY <1>1, BoundStep, Invariance, PTL DEF Spec
=============================================================================
