--------------------------- MODULE SessionProofs ----------------------------
(***************************************************************************)
(* The main thread, from the bytes on.  First the file: its pieces tile it *)
(* and blocks tile their piece, for every length, piece length, block size *)
(* and chunk size.  Then the bytes that DownloadFromTracker exchanges with *)
(* trackers, for every width of a byte, session, length and list of peers: *)
(* what a UDP tracker reads of an announce, what the client makes of an    *)
(* answer, and which peers are left when all answers are sorted and        *)
(* merged; and the cycle itself, which with these bytes is still the one   *)
(* of TrackerCycle and FileLayout.  At the end the texts: with what        *)
(* LoadTorrentFile and ParseTrackerResponse make of files and answers, it  *)
(* is still that cycle.                                                    *)
(***************************************************************************)
EXTENDS Session, ParserProofs, FiniteSetTheorems

-----------------------------------------------------------------------------
(***************************************************************************)
(* FileLayout: pieces, blocks and saves.                                   *)
(***************************************************************************)
(* Arithmetic the solvers need in small steps. *)

LEMMA Monotone ==
  ASSUME NEW a \in Int, NEW b \in Int, NEW c \in Nat, a <= b
  PROVE  a * c <= b * c
<1>1. (b - a) \in Nat
  OBVIOUS
<1>2. (b - a) * c >= 0
  BY <1>1
<1>3. (b - a) * c = b * c - a * c
  OBVIOUS
<1> QED
  BY <1>2, <1>3

LEMMA Cancel ==
  ASSUME NEW a \in Int, NEW b \in Int, NEW c \in Nat, a * c < b * c
  PROVE  a < b
<1> SUFFICES ASSUME b <= a PROVE FALSE
  OBVIOUS
<1>1. b * c <= a * c
  BY Monotone
<1> QED
  BY <1>1

LEMMA OneMore ==
  ASSUME NEW a \in Int, NEW c \in Nat
  PROVE  (a + 1) * c = a * c + c
  OBVIOUS

\* What % is.
LEMMA Division ==
  ASSUME NEW a \in Nat, NEW c \in Nat \ {0}
  PROVE  /\ a \div c \in Nat /\ a % c \in Nat /\ a % c < c
         /\ a = (a \div c) * c + (a % c)
  OBVIOUS

-----------------------------------------------------------------------------
\* The sizes of a torrent whose pieces cover its length.
Sizes ==
    /\ length \in Nat /\ piece_length \in Nat \ {0}
    /\ total_piece_count \in Nat
    /\ (total_piece_count - 1) * piece_length < length
    /\ length <= total_piece_count * piece_length

\* No piece is empty; the last one ends where the file ends, and no other reaches
\* into the next.
LEMMA PieceEnds ==
  ASSUME Sizes, NEW m \in Pieces
  PROVE  /\ PieceLength(m) \in 1 .. piece_length
         /\ m < total_piece_count - 1 => PieceLength(m) = piece_length
         /\ m = total_piece_count - 1 => m * piece_length + PieceLength(m) = length
         /\ m * piece_length + PieceLength(m) <= length
<1> DEFINE d == length \div piece_length
           r == length % piece_length
           n == total_piece_count
<1>1. d \in Nat /\ r \in Nat /\ r < piece_length /\ length = d * piece_length + r
  BY Division DEF Sizes
<1>2. m \in Nat /\ m <= n - 1 /\ n \in Nat /\ piece_length \in Nat \ {0}
  BY DEF Sizes, Pieces
<1>3. PieceLength(m) \in 1 .. piece_length
  BY <1>1, <1>2 DEF PieceLength
<1>4. ASSUME m < n - 1 PROVE PieceLength(m) = piece_length
  BY <1>2, <1>4 DEF PieceLength
<1>5. ASSUME m = n - 1 PROVE m * piece_length + PieceLength(m) = length
  <2>1. CASE r = 0
    <3>1. (n - 1) * piece_length < d * piece_length /\ d * piece_length <= n * piece_length
      BY <1>1, <2>1 DEF Sizes
    <3>2. n - 1 < d
      BY <3>1, <1>1, <1>2, Cancel
    <3>3. d < n + 1
      <4>1. n * piece_length < (n + 1) * piece_length
        BY <1>2, OneMore
      <4>2. d * piece_length < (n + 1) * piece_length
        <5> HIDE DEF d
        <5> QED BY <3>1, <4>1, <1>1, <1>2
      <4> QED
        BY <4>2, <1>1, <1>2, Cancel
    <3>4. d = m + 1
      BY <3>2, <3>3, <1>1, <1>2, <1>5
    <3>5. (m + 1) * piece_length = m * piece_length + piece_length
      BY <1>2, OneMore
    <3>6. PieceLength(m) = piece_length
      BY <2>1 DEF PieceLength
    <3>7. length = d * piece_length
      <4>1. d * piece_length \in Nat
        BY <1>1, <1>2
      <4> HIDE DEF d
      <4> QED BY <4>1, <1>1, <2>1
    <3> QED
      BY <3>4, <3>5, <3>6, <3>7
  <2>2. CASE r # 0
    <3>1. d * piece_length < n * piece_length
      BY <1>1, <2>2 DEF Sizes
    <3>2. d < n
      BY <3>1, <1>1, <1>2, Cancel
    <3>3. (n - 1) * piece_length < (d + 1) * piece_length
      <4>1. (d + 1) * piece_length = d * piece_length + piece_length
        BY <1>1, <1>2, OneMore
      <4> HIDE DEF d, r
      <4> QED
        BY <4>1, <1>1, <1>2 DEF Sizes
    <3>4. n - 1 < d + 1
      BY <3>3, <1>1, <1>2, Cancel
    <3>5. d = m
      BY <3>2, <3>4, <1>1, <1>2, <1>5
    <3> QED
      BY <3>5, <2>2, <1>1, <1>5 DEF PieceLength
  <2> QED
    BY <2>1, <2>2
<1>6. m * piece_length + PieceLength(m) <= length
  <2>1. CASE m = n - 1
    BY <2>1, <1>5, <1>2, <1>1 DEF Sizes
  <2>2. CASE m < n - 1
    <3>1. (m + 1) * piece_length <= (n - 1) * piece_length
      BY <2>2, <1>2, Monotone
    <3>2. (m + 1) * piece_length = m * piece_length + piece_length
      BY <1>2, OneMore
    <3> QED
      BY <3>1, <3>2, <2>2, <1>4, <1>2 DEF Sizes
  <2> QED
    BY <2>1, <2>2, <1>2
<1> QED
  BY <1>3, <1>4, <1>5, <1>6

\* The place of byte p is that of one piece only, and of one piece at least.
Holds(m, p) == m * piece_length <= p /\ p < (m + 1) * piece_length

LEMMA OnePiece ==
  ASSUME Sizes, NEW m \in Int, NEW j \in Int, NEW p \in Int, Holds(m, p), Holds(j, p)
  PROVE  m = j
<1>1. m * piece_length < (j + 1) * piece_length /\ j * piece_length < (m + 1) * piece_length
  BY DEF Holds, Sizes
<1>2. m < j + 1 /\ j < m + 1
  BY <1>1, Cancel DEF Sizes
<1> QED
  BY <1>2

LEMMA SomePiece ==
  ASSUME Sizes, NEW p \in 0 .. length - 1
  PROVE  \E m \in Pieces : Holds(m, p)
<1> p \in Nat /\ p < length
  BY DEF Sizes
<1>1. PICK m \in Nat, r \in Nat : r < piece_length /\ p = m * piece_length + r
  BY Division DEF Sizes
<1>2. (m + 1) * piece_length = m * piece_length + piece_length
  BY OneMore DEF Sizes
<1>3. m * piece_length \in Nat /\ piece_length \in Nat
  BY DEF Sizes
<1>4. Holds(m, p)
  BY <1>1, <1>2, <1>3 DEF Holds
<1>5. m * piece_length < total_piece_count * piece_length
  BY <1>1, <1>3 DEF Sizes
<1>6. m < total_piece_count
  BY <1>5, Cancel DEF Sizes
<1> QED
  BY <1>4, <1>6 DEF Pieces, Sizes

\* The place that byte p is in, by division.
LEMMA PlaceOf ==
  ASSUME Sizes, NEW p \in 0 .. length - 1
  PROVE  p \div piece_length \in Int /\ Holds(p \div piece_length, p)
<1> DEFINE d == p \div piece_length
           r == p % piece_length
<1>1. p \in Nat /\ piece_length \in Nat \ {0}
  BY DEF Sizes
<1>2. d \in Nat /\ r \in Nat /\ r < piece_length /\ p = d * piece_length + r
  BY <1>1, Division
<1> HIDE DEF d, r
<1>3. (d + 1) * piece_length = d * piece_length + piece_length
  BY <1>1, <1>2, OneMore
<1>4. d * piece_length \in Nat
  BY <1>1, <1>2
<1>5. d \in Int /\ Holds(d, p)
  BY <1>1, <1>2, <1>3, <1>4 DEF Holds
<1> QED
  BY <1>5 DEF d

\* The bytes a save writes are those of the piece's place.
LEMMA WrittenIsPlace ==
  ASSUME Sizes, NEW m \in Pieces, NEW p \in 0 .. length - 1
  PROVE  p \in m * piece_length .. m * piece_length + PieceLength(m) - 1 <=> Holds(m, p)
<1>1. m \in Nat /\ total_piece_count \in Nat /\ piece_length \in Nat
      /\ m * piece_length \in Nat /\ PieceLength(m) \in Nat /\ length \in Nat
  BY PieceEnds DEF Sizes, Pieces
<1>2. (m + 1) * piece_length = m * piece_length + piece_length
  BY <1>1, OneMore
<1>3. CASE m < total_piece_count - 1
  BY <1>1, <1>2, <1>3, PieceEnds DEF Holds
<1>4. CASE m = total_piece_count - 1
  BY <1>1, <1>2, <1>4, PieceEnds DEF Holds
<1> QED
  BY <1>1, <1>3, <1>4 DEF Pieces

-----------------------------------------------------------------------------
Record == [offset : Nat, length : 1 .. kBlockSize]

SizesInv ==
    /\ Sizes
    /\ offset \in Nat
    /\ saved \subseteq Pieces

BlocksInv ==
    /\ blocks = [m \in Pieces |-> blocks[m]]
    /\ \A m \in Pieces : blocks[m] \in Seq(Record)

\* What holds of the bytes whichever write failed, and what only holds if none did.
BytesInv ==
    /\ DOMAIN file \subseteq 0 .. length - 1
    /\ \A p \in DOMAIN file : file[p] = Zero \/ (file[p] \in saved /\ Holds(file[p], p))
    /\ saved # {} => offset >= length

AllWritten ==
    /\ DOMAIN file = 0 .. Smaller(offset, length) - 1
    /\ \A p \in DOMAIN file : \A m \in saved : Holds(m, p) => file[p] = m

FileInv ==
    /\ file_bad \in BOOLEAN
    /\ BytesInv
    /\ ~file_bad => AllWritten

Known == SizesInv /\ BlocksInv /\ BlocksTile /\ FileInv

\* Before the sizes are known there is nothing, and nothing can be done with it.
IInv == LayoutInit \/ Known

LEMMA ConstructStep ==
  ASSUME LayoutInit, NEW l \in Nat, NEW n \in Nat, NEW p \in Nat \ {0}, Construct(l, p, n)
  PROVE  Known'
<1>1. /\ length' = l /\ piece_length' = p /\ total_piece_count' = n
      /\ offset' = 0 /\ file' = <<>> /\ file_bad' = FALSE /\ saved' = {}
      /\ blocks' = [m \in Pieces' |-> <<>>]
      /\ (n - 1) * p < l /\ l <= n * p
  BY DEF LayoutInit, Construct, WellFormed, Pieces, fileState
<1>2. Sizes'
  BY <1>1 DEF Sizes
<1>3. SizesInv'
  BY <1>1, <1>2 DEF SizesInv
<1>4. \A m \in Pieces' : PieceLength(m)' \in Nat
  <2>1. l % p \in Nat
    BY Division
  <2> QED
    BY <1>1, <2>1 DEF PieceLength
<1>5. BlocksInv' /\ BlocksTile'
  <2>1. \A m \in Pieces' : blocks'[m] = <<>>
    BY <1>1
  <2> QED
    BY <1>1, <1>4, <2>1 DEF BlocksInv, BlocksTile, End
<1>6. FileInv'
  <2>1. BytesInv' /\ AllWritten'
    BY <1>1 DEF BytesInv, AllWritten, Smaller
  <2>2. file_bad' \in BOOLEAN
    BY <1>1
  <2> QED
    BY <2>1, <2>2 DEF FileInv
<1> QED
  BY <1>3, <1>5, <1>6 DEF Known

\* A block more leaves the others, and begins where they end.
LEMMA PushBlockStep ==
  ASSUME Known, NEW m \in Pieces, PushBlock(m)
  PROVE  Known'
<1> DEFINE b == [offset |-> End(blocks[m]), length |-> BlockLength(m)]
<1>1. UNCHANGED <<length, piece_length, total_piece_count, offset, file, file_bad, saved>>
  BY DEF PushBlock, fileState
<1>2. Pieces' = Pieces /\ \A j : PieceLength(j)' = PieceLength(j)
  BY <1>1 DEF Pieces, PieceLength
<1>3. SizesInv' /\ FileInv'
  BY <1>1, <1>2 DEF Known, SizesInv, Sizes, FileInv, BytesInv, AllWritten, Holds, Smaller
<1>4. /\ blocks' = [blocks EXCEPT ![m] = Append(blocks[m], b)]
      /\ End(blocks[m]) < PieceLength(m)
  BY DEF PushBlock
<1>5. /\ kBlockSize \in Nat \ {0} /\ piece_length \in Nat
      /\ PieceLength(m) \in 1 .. piece_length /\ blocks[m] \in Seq(Record)
  BY LayoutAssumption, PieceEnds DEF Known, SizesInv, Sizes, BlocksInv
<1>6. End(blocks[m]) \in Nat
  <2>1. CASE blocks[m] = <<>>
    BY <2>1 DEF End
  <2>2. CASE blocks[m] # <<>>
    <3>1. blocks[m][Len(blocks[m])] \in Record
      BY <1>5, <2>2
    <3> QED
      BY <1>5, <2>2, <3>1 DEF End, Record
  <2> QED
    BY <2>1, <2>2
<1>7. b.length \in 1 .. kBlockSize /\ b.offset + b.length <= PieceLength(m) /\ b \in Record
  BY <1>4, <1>5, <1>6 DEF BlockLength, Smaller, Record
<1> HIDE DEF b
<1>8. blocks'[m] = Append(blocks[m], b) /\ \A j \in Pieces : j # m => blocks'[j] = blocks[j]
  BY <1>4 DEF Known, BlocksInv
<1>9. BlocksInv'
  <2>1. blocks' = [j \in Pieces' |-> blocks'[j]]
    BY <1>2, <1>4 DEF Known, BlocksInv
  <2>2. \A j \in Pieces : blocks'[j] \in Seq(Record)
    <3>1. Append(blocks[m], b) \in Seq(Record)
      BY <1>5, <1>7
    <3> QED
      BY <1>8, <3>1 DEF Known, BlocksInv
  <2> QED
    BY <1>2, <2>1, <2>2 DEF BlocksInv
<1>10. End(blocks'[m]) = b.offset + b.length
  BY <1>5, <1>7, <1>8 DEF End
<1>11. \A k \in DOMAIN blocks'[m] :
          /\ blocks'[m][k].length \in 1 .. kBlockSize
          /\ blocks'[m][k].offset = IF k = 1 THEN 0
                ELSE blocks'[m][k - 1].offset + blocks'[m][k - 1].length
  <2> SUFFICES ASSUME NEW k \in DOMAIN blocks'[m]
               PROVE  /\ blocks'[m][k].length \in 1 .. kBlockSize
                      /\ blocks'[m][k].offset = IF k = 1 THEN 0
                            ELSE blocks'[m][k - 1].offset + blocks'[m][k - 1].length
    OBVIOUS
  <2>1. CASE k \in DOMAIN blocks[m]
    <3>1. blocks'[m][k] = blocks[m][k] /\ (k # 1 => blocks'[m][k - 1] = blocks[m][k - 1])
      BY <1>5, <1>7, <1>8, <2>1
    <3> QED
      BY <2>1, <3>1 DEF Known, BlocksTile
  <2>2. CASE k = Len(blocks[m]) + 1
    <3>1. blocks'[m][k] = b /\ (k # 1 => blocks'[m][k - 1] = blocks[m][Len(blocks[m])])
      BY <1>5, <1>7, <1>8, <2>2
    <3>2. b.offset = End(blocks[m])
      BY DEF b
    <3>3. k = 1 <=> blocks[m] = <<>>
      BY <1>5, <2>2
    <3> QED
      BY <1>5, <1>7, <2>2, <3>1, <3>2, <3>3 DEF End
  <2> QED
    BY <1>5, <1>7, <1>8, <2>1, <2>2
<1>12. BlocksTile'
  <2>1. End(blocks'[m]) <= PieceLength(m)
    BY <1>7, <1>10
  <2>2. ASSUME NEW j \in Pieces, j # m
        PROVE  /\ \A k \in DOMAIN blocks'[j] :
                     /\ blocks'[j][k].length \in 1 .. kBlockSize
                     /\ blocks'[j][k].offset = IF k = 1 THEN 0
                           ELSE blocks'[j][k - 1].offset + blocks'[j][k - 1].length
               /\ End(blocks'[j]) <= PieceLength(j)
    BY <1>8, <2>2 DEF Known, BlocksTile
  <2> QED
    BY <1>2, <1>11, <2>1, <2>2 DEF BlocksTile
<1> QED
  BY <1>3, <1>9, <1>12 DEF Known

\* A stream that is bad stays bad, and then nothing is said of the rest.
LEMMA BadStays ==
  ASSUME NEW at, NEW n, NEW what, WriteBytes(at, n, what), file_bad \in BOOLEAN
  PROVE  \/ ~file_bad /\ file' = Written(at, n, what) /\ UNCHANGED file_bad
         \/ /\ file_bad' = TRUE
            /\ \/ ~file_bad /\ \E k \in 0 .. n - 1 : file' = Written(at, k, what)
               \/ UNCHANGED file
  BY DEF WriteBytes

\* Zeros are only written before pieces are, as many as the chunk has or fewer.
LEMMA WriteChunkStep ==
  ASSUME Known, WriteChunk
  PROVE  Known'
<1> DEFINE n == Smaller(chunk_size, length - offset)
<1>1. /\ UNCHANGED <<length, piece_length, total_piece_count, blocks, saved>>
      /\ offset < length /\ offset' = offset + chunk_size /\ WriteBytes(offset, n, Zero)
  BY DEF WriteChunk
<1>2. Pieces' = Pieces /\ \A j : PieceLength(j)' = PieceLength(j)
  BY <1>1 DEF Pieces, PieceLength
<1>3. offset \in Nat /\ length \in Nat /\ chunk_size \in Nat \ {0} /\ saved = {}
  BY <1>1, LayoutAssumption DEF Known, SizesInv, Sizes, FileInv, BytesInv
<1>4. SizesInv' /\ BlocksInv' /\ BlocksTile'
  <2>1. SizesInv'
    BY <1>1, <1>2, <1>3 DEF Known, SizesInv, Sizes
  <2>2. BlocksInv' /\ BlocksTile'
    BY <1>1, <1>2 DEF Known, BlocksInv, BlocksTile
  <2> QED
    BY <2>1, <2>2
<1>5. /\ n \in Nat /\ offset + n = Smaller(offset', length) /\ offset + n <= length
      /\ Smaller(offset, length) = offset
  BY <1>1, <1>3 DEF Smaller
<1> HIDE DEF n
<1>6. ASSUME NEW k \in 0 .. n, file' = Written(offset, k, Zero), ~file_bad
      PROVE  DOMAIN file' = 0 .. offset + k - 1 /\ \A p \in DOMAIN file' : file'[p] = Zero
  <2>1. DOMAIN file' = DOMAIN file \cup offset .. offset + k - 1
    BY <1>6 DEF Written
  <2>2. DOMAIN file = 0 .. offset - 1
    BY <1>5, <1>6 DEF Known, FileInv, AllWritten
  <2>3. DOMAIN file' = 0 .. offset + k - 1
    BY <2>1, <2>2, <1>3, <1>5
  <2>4. \A p \in DOMAIN file' : file'[p] = Zero
    BY <1>3, <1>6 DEF Written, Known, FileInv, BytesInv
  <2> QED
    BY <2>3, <2>4
<1>7. ASSUME ~file_bad, file' = Written(offset, n, Zero), UNCHANGED file_bad PROVE FileInv'
  <2>1. n \in 0 .. n
    BY <1>5
  <2>2. DOMAIN file' = 0 .. offset + n - 1 /\ \A p \in DOMAIN file' : file'[p] = Zero
    BY <1>6, <1>7, <2>1
  <2>3. 0 .. offset + n - 1 \subseteq 0 .. length - 1
    BY <1>3, <1>5
  <2>4. BytesInv' /\ AllWritten'
    BY <1>1, <1>3, <1>5, <2>2, <2>3 DEF BytesInv, AllWritten
  <2>5. file_bad' \in BOOLEAN
    BY <1>7 DEF Known, FileInv
  <2> QED
    BY <2>4, <2>5 DEF FileInv
<1>8. ASSUME NEW k \in 0 .. n - 1, file' = Written(offset, k, Zero), ~file_bad
      PROVE  BytesInv'
  <2>1. k \in 0 .. n
    BY <1>5
  <2>2. DOMAIN file' = 0 .. offset + k - 1 /\ \A p \in DOMAIN file' : file'[p] = Zero
    BY <1>6, <1>8, <2>1
  <2>3. 0 .. offset + k - 1 \subseteq 0 .. length - 1
    BY <1>3, <1>5
  <2> QED
    BY <1>1, <1>3, <2>2, <2>3 DEF BytesInv
<1>9. ASSUME UNCHANGED file PROVE BytesInv'
  BY <1>1, <1>3, <1>9 DEF Known, FileInv, BytesInv
<1>10. FileInv'
  <2>1. \/ ~file_bad /\ file' = Written(offset, n, Zero) /\ UNCHANGED file_bad
        \/ file_bad' = TRUE /\ BytesInv'
    BY <1>1, <1>8, <1>9, BadStays DEF Known, FileInv
  <2> QED
    BY <1>7, <2>1 DEF FileInv
<1> QED
  BY <1>4, <1>10 DEF Known

\* A save writes the place of its piece, or its first bytes, and nothing else.
LEMMA SavePieceStep ==
  ASSUME Known, NEW m \in Pieces, SavePiece(m)
  PROVE  Known'
<1>1. /\ UNCHANGED <<length, piece_length, total_piece_count, blocks, offset>>
      /\ offset >= length /\ saved' = saved \cup {m}
      /\ WriteBytes(m * piece_length, PieceLength(m), m)
  BY DEF SavePiece, Made, FileOffset
<1>2. Pieces' = Pieces /\ \A j : PieceLength(j)' = PieceLength(j)
  BY <1>1 DEF Pieces, PieceLength
<1>3. /\ Sizes /\ offset \in Nat /\ length \in Nat
      /\ ~file_bad => DOMAIN file = 0 .. length - 1
  BY <1>1 DEF Known, SizesInv, Sizes, FileInv, AllWritten, Smaller
<1>4. SizesInv' /\ BlocksInv' /\ BlocksTile'
  BY <1>1, <1>2, <1>3 DEF Known, SizesInv, Sizes, BlocksInv, BlocksTile
<1>5. \A j : \A p : Holds(j, p)' <=> Holds(j, p)
  BY <1>1 DEF Holds
<1>6. /\ m * piece_length \in Nat /\ PieceLength(m) \in Nat
      /\ m * piece_length + PieceLength(m) <= length
  BY <1>3, PieceEnds DEF Sizes, Pieces
<1> DEFINE at(k) == m * piece_length .. m * piece_length + k - 1
<1>7. ASSUME NEW k \in 0 .. PieceLength(m), file' = Written(m * piece_length, k, m), ~file_bad
      PROVE  /\ DOMAIN file' = 0 .. length - 1
             /\ \A p \in 0 .. length - 1 : file'[p] = IF p \in at(k) THEN m ELSE file[p]
             /\ \A p \in 0 .. length - 1 : \/ file'[p] = Zero
                                           \/ file'[p] \in saved' /\ Holds(file'[p], p)
  <2> DEFINE part == at(k)
  <2>1. part \subseteq 0 .. length - 1 /\ part \subseteq at(PieceLength(m))
    BY <1>3, <1>6
  <2>2. /\ DOMAIN file' = 0 .. length - 1
        /\ \A p \in 0 .. length - 1 : file'[p] = IF p \in part THEN m ELSE file[p]
    BY <1>3, <1>7, <2>1 DEF Written
  <2>3. \A p \in 0 .. length - 1 : p \in at(PieceLength(m)) => Holds(m, p)
    BY <1>3, WrittenIsPlace
  <2>4. \A p \in 0 .. length - 1 : p \in part => Holds(m, p)
    BY <2>1, <2>3
  <2>5. \A p \in 0 .. length - 1 : \/ file'[p] = Zero
                                   \/ file'[p] \in saved' /\ Holds(file'[p], p)
    <3> HIDE DEF part
    <3> QED
      BY <1>1, <1>3, <1>7, <2>2, <2>4 DEF Known, FileInv, BytesInv
  <2>6. \A p \in 0 .. length - 1 : file'[p] = IF p \in at(k) THEN m ELSE file[p]
    BY <2>2
  <2> QED
    BY <2>2, <2>5, <2>6
<1>8. ASSUME ~file_bad, file' = Written(m * piece_length, PieceLength(m), m), UNCHANGED file_bad
      PROVE  FileInv'
  <2>1. PieceLength(m) \in 0 .. PieceLength(m)
    BY <1>6
  <2> DEFINE all == at(PieceLength(m))
  <2>2. /\ DOMAIN file' = 0 .. length - 1
        /\ \A p \in 0 .. length - 1 : file'[p] = IF p \in all THEN m ELSE file[p]
        /\ \A p \in 0 .. length - 1 : \/ file'[p] = Zero
                                      \/ file'[p] \in saved' /\ Holds(file'[p], p)
    BY <1>7, <1>8, <2>1
  <2>3. \A p \in 0 .. length - 1 : p \in all <=> Holds(m, p)
    BY <1>3, WrittenIsPlace
  <2> HIDE DEF all
  <2>4. \A p \in 0 .. length - 1 : \A j \in saved' : Holds(j, p) => file'[p] = j
    <3> SUFFICES ASSUME NEW p \in 0 .. length - 1, NEW j \in saved', Holds(j, p)
                 PROVE  file'[p] = j
      OBVIOUS
    <3>1. CASE p \in all
      <4>1. m \in Int /\ j \in Int /\ p \in Int
        BY <1>1, <1>3 DEF Known, SizesInv, Pieces, Sizes
      <4> QED
        BY <3>1, <4>1, <1>3, <2>2, <2>3, OnePiece
    <3>2. CASE p \notin all
      BY <3>2, <1>1, <1>3, <1>8, <2>2, <2>3 DEF Known, FileInv, AllWritten
    <3> QED
      BY <3>1, <3>2
  <2>5. BytesInv'
    BY <1>1, <1>5, <2>2 DEF BytesInv
  <2>6. Smaller(offset, length)' = length' /\ length' = length
    BY <1>1, <1>3 DEF Smaller
  <2>7. AllWritten'
    BY <1>1, <1>5, <2>2, <2>4, <2>6 DEF AllWritten
  <2>8. file_bad' \in BOOLEAN
    BY <1>8 DEF Known, FileInv
  <2> QED
    BY <2>5, <2>7, <2>8 DEF FileInv
<1>9. ASSUME NEW k \in 0 .. PieceLength(m) - 1, file' = Written(m * piece_length, k, m), ~file_bad
      PROVE  BytesInv'
  <2>1. k \in 0 .. PieceLength(m)
    BY <1>6
  <2>2. /\ DOMAIN file' = 0 .. length - 1
        /\ \A p \in 0 .. length - 1 : \/ file'[p] = Zero
                                      \/ file'[p] \in saved' /\ Holds(file'[p], p)
    BY <1>7, <1>9, <2>1
  <2> QED
    BY <1>1, <1>5, <2>2 DEF BytesInv
<1>10. ASSUME UNCHANGED file PROVE BytesInv'
  BY <1>1, <1>5, <1>10 DEF Known, FileInv, BytesInv
<1>11. FileInv'
  <2>1. \/ ~file_bad /\ file' = Written(m * piece_length, PieceLength(m), m) /\ UNCHANGED file_bad
        \/ file_bad' = TRUE /\ BytesInv'
    BY <1>1, <1>9, <1>10, BadStays DEF Known, FileInv
  <2> QED
    BY <1>8, <2>1 DEF FileInv
<1> QED
  BY <1>4, <1>11 DEF Known

\* Sizes, blocks and bytes stay as they should be (IInv is inductive).
THEOREM LayoutInvariance == LayoutSpec => []IInv
<1>1. IInv /\ [LayoutNext]_layoutVars => IInv'
  <2> SUFFICES ASSUME IInv, [LayoutNext]_layoutVars PROVE IInv'
    OBVIOUS
  <2>1. CASE UNCHANGED layoutVars
    <3>1. CASE LayoutInit
      BY <2>1, <3>1 DEF layoutVars, fileState, IInv, LayoutInit, Pieces
    <3>2. CASE Known
      BY <2>1, <3>2 DEF layoutVars, fileState, IInv, Known, SizesInv, Sizes, BlocksInv,
                        BlocksTile, FileInv, BytesInv, AllWritten, Holds, Pieces, PieceLength,
                        Smaller
    <3> QED
      BY <3>1, <3>2 DEF IInv
  <2>2. CASE LayoutInit /\ LayoutNext
    <3>1. Pieces = {} /\ ~WriteChunk
      BY <2>2 DEF LayoutInit, Pieces, WriteChunk
    <3>2. PICK l \in Nat, n \in Nat, p \in Nat \ {0} : Construct(l, p, n)
      BY <2>2, <3>1 DEF LayoutNext
    <3> QED
      BY <2>2, <3>2, ConstructStep DEF IInv
  <2>3. CASE Known /\ LayoutNext
    <3>1. \A l, p, n : ~Construct(l, p, n)
      BY <2>3 DEF Known, SizesInv, Sizes, Construct
    <3> QED
      BY <2>3, <3>1, PushBlockStep, WriteChunkStep, SavePieceStep DEF LayoutNext, IInv
  <2> QED
    BY <2>1, <2>2, <2>3 DEF IInv
<1>2. LayoutInit => IInv
  BY DEF IInv
<1> QED
  BY <1>1, <1>2, PTL DEF LayoutSpec

\* The blocks of a piece cover it from the first byte on, without gap or overlap
\* (Piece.cpp:9-14).
THEOREM BlocksCoverPieces == LayoutSpec => []BlocksTile
<1>1. LayoutInit => BlocksTile
  BY DEF LayoutInit, BlocksTile, Pieces
<1>2. IInv => BlocksTile
  BY <1>1 DEF IInv, Known
<1> QED
  BY <1>2, LayoutInvariance, PTL

\* No save reaches into another piece, or past the end of the file, in any order and
\* whichever write fails; a piece saved has all its bytes as long as none has failed
\* (PieceStorage.cpp:19, 206, 216-220).
THEOREM SavesStayApart == LayoutSpec => []SavedInPlace
<1>1. Known => SavedInPlace
  <2> SUFFICES ASSUME Known PROVE SavedInPlace
    OBVIOUS
  <2>1. Sizes /\ saved \subseteq Int /\ Zero \notin saved
    BY DEF Known, SizesInv, Sizes, Pieces, Zero
  <2>2. DOMAIN file \subseteq 0 .. length - 1
    BY DEF Known, FileInv, BytesInv
  <2>3. ASSUME NEW p \in DOMAIN file
        PROVE  /\ file[p] # Zero => file[p] \in saved /\ p \div piece_length = file[p]
               /\ ~file_bad /\ p \div piece_length \in saved => file[p] # Zero
    <3>1. p \in Int /\ p \div piece_length \in Int /\ Holds(p \div piece_length, p)
      BY <2>1, <2>2, PlaceOf DEF Sizes
    <3>2. file[p] # Zero => file[p] \in saved /\ Holds(file[p], p)
      BY DEF Known, FileInv, BytesInv
    <3>3. file[p] # Zero => p \div piece_length = file[p]
      BY <2>1, <3>1, <3>2, OnePiece
    <3>4. ~file_bad /\ p \div piece_length \in saved => file[p] = p \div piece_length
      BY <3>1 DEF Known, FileInv, AllWritten
    <3> QED
      BY <2>1, <3>2, <3>3, <3>4
  <2> QED
    BY <2>2, <2>3 DEF SavedInPlace
<1>2. LayoutInit => SavedInPlace
  BY DEF LayoutInit, SavedInPlace
<1> QED
  BY <1>1, <1>2, LayoutInvariance, PTL DEF IInv

\* When every piece is saved, and written, every byte of the file comes from the piece at
\* its place.
LEMMA FileOfPieces ==
  ASSUME Known, saved = Pieces, ~file_bad
  PROVE  /\ DOMAIN file = 0 .. length - 1
         /\ \A p \in DOMAIN file : file[p] = p \div piece_length
<1>1. Sizes /\ offset \in Nat
  BY DEF Known, SizesInv
<1>2. DOMAIN file = 0 .. length - 1
  <2>1. CASE total_piece_count = 0
    <3>1. length = 0
      BY <1>1, <2>1 DEF Sizes
    <3> QED
      BY <1>1, <3>1 DEF Known, FileInv, AllWritten, Smaller
  <2>2. CASE total_piece_count # 0
    <3>1. 0 \in Pieces
      BY <1>1, <2>2 DEF Pieces, Sizes
    <3> QED
      BY <1>1, <3>1 DEF Known, FileInv, BytesInv, AllWritten, Smaller, Sizes
  <2> QED
    BY <2>1, <2>2
<1>3. ASSUME NEW p \in DOMAIN file PROVE file[p] = p \div piece_length
  <2>1. PICK m \in Pieces : Holds(m, p)
    BY <1>1, <1>2, SomePiece
  <2>2. file[p] = m
    BY <2>1 DEF Known, FileInv, AllWritten
  <2>3. Holds(p \div piece_length, p) /\ m \in Int /\ p \in Int /\ p \div piece_length \in Int
    BY <1>1, <1>2, PlaceOf DEF Pieces, Sizes
  <2> QED
    BY <1>1, <2>1, <2>2, <2>3, OnePiece
<1> QED
  BY <1>2, <1>3

-----------------------------------------------------------------------------
(***************************************************************************)
(* PeerCollection: packets and peers.                                      *)
(***************************************************************************)
(***************************************************************************)
(* A packet is put together part by part; each part is found again behind  *)
(* the bytes that come before it.                                          *)
(***************************************************************************)
Part(packet, first, bytes) ==
    /\ first \in Nat /\ bytes \in Seq(Int) /\ first + Len(bytes) <= Len(packet)
    /\ \A k \in 1 .. Len(bytes) : packet[first + k] = bytes[k]

Grown(packet, before, bytes) ==
    /\ packet \in Seq(Int) /\ Len(packet) = Len(before) + Len(bytes)
    /\ Part(packet, Len(before), bytes)
    /\ \A first, z : Part(before, first, z) => Part(packet, first, z)

\* One part more, at the end: the others stay where they are.
LEMMA PartAdded ==
  ASSUME NEW w \in Seq(Int), NEW y \in Seq(Int)
  PROVE  Grown(w \o y, w, y)
<1> DEFINE c == w \o y
<1>1. c \in Seq(Int) /\ Len(c) = Len(w) + Len(y)
      /\ \A k \in 1 .. Len(w) + Len(y) : c[k] = IF k <= Len(w) THEN w[k] ELSE y[k - Len(w)]
  BY ConcatProperties
<1>2. Len(w) \in Nat /\ Len(y) \in Nat
  BY LenProperties
<1> HIDE DEF c
<1>3. Part(c, Len(w), y)
  <2>1. \A k \in 1 .. Len(y) : c[Len(w) + k] = y[k]
    <3> TAKE k \in 1 .. Len(y)
    <3> /\ Len(w) + k \in 1 .. Len(w) + Len(y) /\ ~(Len(w) + k <= Len(w))
        /\ (Len(w) + k) - Len(w) = k
      BY <1>2
    <3> QED
      BY <1>1
  <2> QED
    BY <1>1, <1>2, <2>1 DEF Part
<1>4. ASSUME NEW first, NEW z, Part(w, first, z) PROVE Part(c, first, z)
  <2>1. first \in Nat /\ z \in Seq(Int) /\ first + Len(z) <= Len(w) /\ Len(z) \in Nat
        /\ \A k \in 1 .. Len(z) : w[first + k] = z[k]
    BY <1>4, LenProperties DEF Part
  <2>2. \A k \in 1 .. Len(z) : c[first + k] = z[k]
    <3> TAKE k \in 1 .. Len(z)
    <3> first + k \in 1 .. Len(w) + Len(y) /\ first + k <= Len(w)
      BY <1>2, <2>1
    <3> QED
      BY <1>1, <2>1
  <2> QED
    BY <1>1, <1>2, <2>1, <2>2 DEF Part
<1>5. Grown(c, w, y)
  BY <1>1, <1>3, <1>4 DEF Grown
<1> QED
  BY <1>5 DEF c

\* A field with the place and the length of a part is that part,
LEMMA PartIsField ==
  ASSUME NEW w \in Seq(Int), NEW first, NEW y, Part(w, first, y)
  PROVE  SubSeq(w, first + 1, first + Len(y)) = y
<1>1. first \in Nat /\ y \in Seq(Int) /\ first + Len(y) <= Len(w)
      /\ \A k \in 1 .. Len(y) : w[first + k] = y[k]
  BY DEF Part
<1>2. \A k \in 1 .. Len(y) : w[k + first] = y[k]
  <2> TAKE k \in 1 .. Len(y)
  <2> first + k = k + first
    BY <1>1, LenProperties
  <2> QED
    BY <1>1
<1> QED
  BY <1>1, <1>2, Behind

\* and its first bytes are the part's.
LEMMA PartBegins ==
  ASSUME NEW w \in Seq(Int), NEW first, NEW y, Part(w, first, y),
         NEW z \in Seq(Int), Len(z) <= Len(y), \A k \in 1 .. Len(z) : z[k] = y[k]
  PROVE  Part(w, first, z)
<1>1. first \in Nat /\ y \in Seq(Int) /\ first + Len(y) <= Len(w)
      /\ \A k \in 1 .. Len(y) : w[first + k] = y[k]
  BY DEF Part
<1>2. Len(y) \in Nat /\ Len(z) \in Nat /\ Len(w) \in Nat
  BY <1>1, LenProperties
<1>3. \A k \in 1 .. Len(z) : k \in 1 .. Len(y)
  BY <1>2
<1>4. \A k \in 1 .. Len(z) : w[first + k] = z[k]
  BY <1>1, <1>3
<1>5. first + Len(z) <= Len(w)
  BY <1>1, <1>2
<1> QED
  BY <1>1, <1>4, <1>5 DEF Part

-----------------------------------------------------------------------------
(* The integers in the packets. *)

\* How large an int is.
LEMMA IntSizes ==
  /\ Values(2) \in Nat \ {0} /\ Values(4) \in Nat \ {0} /\ Values(8) \in Nat \ {0}
  /\ Values(2) >= 4 /\ Values(4) >= 16 /\ Values(4) = Values(2) * Values(2)
  /\ Values(4) <= Values(8)
<1>1. Values(2) = Base * Base
  <2>1. 1 \in Nat /\ 1 + 1 = 2
    OBVIOUS
  <2>2. Values(1 + 1) = Values(1) * Values(1)
    BY <2>1, ValuesDef
  <2> QED
    BY <2>1, <2>2, ValuesDef
<1>2. Values(4) = Values(2) * Values(2)
  <2>1. 2 \in Nat /\ 2 + 2 = 4
    OBVIOUS
  <2>2. Values(2 + 2) = Values(2) * Values(2)
    BY <2>1, ValuesDef
  <2> QED
    BY <2>1, <2>2
<1>3. Values(8) = Values(4) * Values(4)
  <2>1. 4 \in Nat /\ 4 + 4 = 8
    OBVIOUS
  <2>2. Values(4 + 4) = Values(4) * Values(4)
    BY <2>1, ValuesDef
  <2> QED
    BY <2>1, <2>2
<1>4. \A n \in Nat : Values(n) \in Nat \ {0}
  BY ValuesDef
<1>5. \A x, m \in Nat : x >= m => x * x >= m * m
  <2> TAKE x, m \in Nat
  <2> HAVE x >= m
  <2>1. x * x = x * m + x * (x - m) /\ x * m = m * m + (x - m) * m
    OBVIOUS
  <2>2. x * (x - m) >= 0 /\ (x - m) * m >= 0
    <3>1. x - m \in Nat
      OBVIOUS
    <3>2. \A a, b \in Nat : a * b >= 0
      OBVIOUS
    <3> QED
      BY <3>1, <3>2
  <2>3. x * x \in Int /\ x * m \in Int /\ m * m \in Int /\ x * (x - m) \in Int /\ (x - m) * m \in Int
    OBVIOUS
  <2> QED
    BY <2>1, <2>2, <2>3
<1>6. Values(2) >= 4
  <2>1. Base * Base >= 2 * 2
    BY <1>5, ValuesDef
  <2> QED
    BY <1>1, <2>1
<1>7. Values(4) >= 16
  <2>1. Values(2) * Values(2) >= 4 * 4
    BY <1>4, <1>5, <1>6
  <2> QED
    BY <1>2, <2>1
<1>8. Values(4) <= Values(8)
  <2>1. \A x \in Nat : x >= 1 => x * x >= x
    OBVIOUS
  <2> QED
    BY <1>3, <1>4, <2>1
<1> QED
  BY <1>2, <1>4, <1>6, <1>7, <1>8

Ints == - (Values(4) \div 2) .. Values(4) \div 2 - 1

\* An int of a packet, where BytesToInt reads it.
LEMMA IntRead ==
  ASSUME NEW w \in Seq(Int), NEW v \in Ints, NEW first \in Nat,
         Part(w, first, IntToBytes(v))
  PROVE  /\ BytesToInt(SubSeq(w, first + 1, first + 4)) = v
         /\ first = 0 => BytesToInt(w) = v
<1> DEFINE y == IntToBytes(v)
<1>1. v \in Int /\ y \in Seq(Int) /\ Len(y) = 4
  <2>1. v \in Int
    BY IntSizes DEF Ints
  <2>2. BigEndian(v, 4) \in Seq(Byte) /\ Len(BigEndian(v, 4)) = 4
    BY <2>1, BigEndianType
  <2>3. Byte \subseteq Int
    BY ValuesDef DEF Byte
  <2> QED
    BY <2>1, <2>2, <2>3, SeqMonotonic DEF IntToBytes
<1>2. SubSeq(w, first + 1, first + 4) = y
  BY <1>1, PartIsField
<1>3. SubSeq(y, 1, 4) = y
  BY <1>1, SubSeqFull
<1>4. BytesToInt(y) = v
  <2>1. <<>> \in Seq(Int)
    BY EmptySeq
  <2>2. BytesToInt(y \o <<>>) = v
    BY <2>1, BytesToIntReads DEF Ints
  <2>3. y \o <<>> = y
    BY <1>1, ConcatEmptySeq
  <2> QED
    BY <2>2, <2>3
<1>5. ASSUME first = 0 PROVE BytesToInt(w) = v
  <2>1. SubSeq(w, 1, 4) = y
    <3> 0 + 1 = 1 /\ 0 + 4 = 4
      OBVIOUS
    <3> QED
      BY <1>2, <1>5
  <2> QED
    BY <1>3, <1>4, <2>1 DEF BytesToInt
<1> QED
  BY <1>2, <1>4, <1>5

\* A number of n bytes is a sequence of bytes, and of integers.
LEMMA NumberBytes ==
  ASSUME NEW v \in Int, NEW n \in Nat
  PROVE  BigEndian(v, n) \in Seq(Int) /\ Len(BigEndian(v, n)) = n
<1>1. BigEndian(v, n) \in Seq(Byte) /\ Len(BigEndian(v, n)) = n
  BY BigEndianType
<1>2. Byte \subseteq Int
  BY ValuesDef DEF Byte
<1> QED
  BY <1>1, <1>2, SeqMonotonic

\* An int has four bytes, a long eight.
LEMMA FourOrEight ==
  ASSUME NEW v \in Int
  PROVE  /\ IntToBytes(v) \in Seq(Int) /\ Len(IntToBytes(v)) = 4
         /\ Int64ToBytes(v) \in Seq(Int) /\ Len(Int64ToBytes(v)) = 8
BY NumberBytes DEF IntToBytes, Int64ToBytes

\* What rand() gives is its own transaction id.
LEMMA RandomIsId ==
  ASSUME NEW r \in Randoms
  PROVE  r \in Ints /\ r \in Int /\ TransactionId(r) = r /\ uint32_t(r) = r
<1>1. r \in Int /\ r \in Ints /\ r \in 0 .. Values(4) - 1
  BY IntSizes DEF Randoms, Ints
<1>2. BytesToInt(IntToBytes(r)) = r
  <2>1. <<>> \in Seq(Int)
    BY EmptySeq
  <2>2. BytesToInt(IntToBytes(r) \o <<>>) = r
    BY <1>1, <2>1, BytesToIntReads DEF Ints
  <2>3. IntToBytes(r) \in Seq(Int)
    BY <1>1, NumberBytes DEF IntToBytes
  <2>4. IntToBytes(r) \o <<>> = IntToBytes(r)
    BY <2>3, ConcatEmptySeq
  <2> QED
    BY <2>2, <2>4
<1>3. (r % Values(4)) = r
  <2>1. r = 0 * Values(4) + r
    BY <1>1, IntSizes
  <2> QED
    BY <1>1, <2>1, IntSizes, DivIs
<1> QED
  BY <1>1, <1>2, <1>3 DEF TransactionId, uint32_t

-----------------------------------------------------------------------------
(* Both requests and their answers. *)

\* Zero, one and two are ints; as ids they are themselves.
LEMMA SmallInts ==
  /\ 0 \in Ints /\ 1 \in Ints /\ 2 \in Ints /\ -1 \in Ints
  /\ uint32_t(0) = 0 /\ uint32_t(1) = 1
<1>1. 0 \in Ints /\ 1 \in Ints /\ 2 \in Ints /\ -1 \in Ints
  BY IntSizes DEF Ints
<1>2. 0 = 0 * Values(4) + 0 /\ 1 = 0 * Values(4) + 1
      /\ 0 \in 0 .. Values(4) - 1 /\ 1 \in 0 .. Values(4) - 1
  BY IntSizes
<1>3. (0 % Values(4)) = 0 /\ (1 % Values(4)) = 1
  BY <1>2, IntSizes, DivIs
<1> QED
  BY <1>1, <1>3 DEF uint32_t

\* An answer with its action and its transaction id at their places is accepted.
LEMMA AcceptedAnswer ==
  ASSUME NEW w \in Seq(Int), NEW action \in {0, 1}, NEW r \in Randoms, NEW size \in Nat,
         Part(w, 0, IntToBytes(action)), Part(w, 4, IntToBytes(r)), Len(w) >= size
  PROVE  Accepted(w, action, r, size)
<1>1. BytesToInt(w) = action
  BY SmallInts, IntRead
<1>2. BytesToInt(SubSeq(w, 5, 8)) = r
  <2>1. 4 + 1 = 5 /\ 4 + 4 = 8
    OBVIOUS
  <2>2. BytesToInt(SubSeq(w, 4 + 1, 4 + 4)) = r
    BY RandomIsId, IntRead
  <2> QED
    BY <2>1, <2>2
<1> QED
  BY <1>1, <1>2, RandomIsId, SmallInts DEF Accepted

\* A tracker finds the transaction id of a connect request,
LEMMA ConnectRequestRead ==
  ASSUME NEW r \in Randoms
  PROVE  Field(ConnectRequest(r), 12, 4) = IntToBytes(r)
<1> DEFINE a == Int64ToBytes(protocol_id)
           b == IntToBytes(0)
           c == IntToBytes(r)
           ab == a \o b
           abc == ab \o c
<1>1. /\ a \in Seq(Int) /\ Len(a) = 8 /\ b \in Seq(Int) /\ Len(b) = 4
      /\ c \in Seq(Int) /\ Len(c) = 4
  <2> protocol_id \in Int /\ r \in Int /\ 0 \in Int
    BY RandomIsId, PacketsAssumption, IntSizes
  <2> QED
    BY FourOrEight
<1>2. ConnectRequest(r) = abc
  BY RandomIsId DEF ConnectRequest
<1> HIDE DEF a, b, c
<1>3. Grown(ab, a, b)
  BY <1>1, PartAdded
<1> HIDE DEF ab
<1>4. ab \in Seq(Int) /\ Len(ab) = 12
  BY <1>1, <1>3 DEF Grown
<1>5. Grown(abc, ab, c)
  BY <1>1, <1>4, PartAdded
<1> HIDE DEF abc
<1>6. abc \in Seq(Int) /\ Part(abc, 12, c)
  BY <1>4, <1>5 DEF Grown
<1>7. SubSeq(abc, 12 + 1, 12 + 4) = c
  BY <1>1, <1>6, PartIsField
<1> QED
  BY <1>2, <1>7 DEF Field, c

\* A packet's first part is at its beginning.
LEMMA FirstPart ==
  ASSUME NEW a \in Seq(Int)
  PROVE  Part(a, 0, a)
BY LenProperties DEF Part

\* and the client accepts its answer and finds the connection id.
LEMMA ConnectionMade ==
  ASSUME NEW r \in Randoms, NEW id \in Ids
  PROVE  /\ Accepted(ConnectAnswer(ConnectRequest(r), id), 0, r, 16)
         /\ ConnectionId(ConnectAnswer(ConnectRequest(r), id)) = id
<1> DEFINE a == IntToBytes(0)
           b == IntToBytes(r)
           c == BigEndian(id, 8)
           ab == a \o b
           abc == ab \o c
<1>1. /\ a \in Seq(Int) /\ Len(a) = 4 /\ b \in Seq(Int) /\ Len(b) = 4
      /\ c \in Seq(Int) /\ Len(c) = 8 /\ Unsigned(c) = id
  <2>1. id \in Int /\ r \in Int /\ 0 \in Int /\ id \in 0 .. Values(8) - 1
    BY RandomIsId, IntSizes DEF Ids
  <2>2. Unsigned(c) = id
    BY <2>1, UnsignedOfBigEndian
  <2> QED
    BY <2>1, <2>2, FourOrEight, NumberBytes
<1>2. ConnectAnswer(ConnectRequest(r), id) = abc
  BY ConnectRequestRead DEF ConnectAnswer, IntToBytes
<1> HIDE DEF a, b, c
<1>3. Grown(ab, a, b) /\ Part(a, 0, a)
  BY <1>1, PartAdded, FirstPart
<1> HIDE DEF ab
<1>4. ab \in Seq(Int) /\ Len(ab) = 8 /\ Part(ab, 0, a) /\ Part(ab, 4, b)
  BY <1>1, <1>3 DEF Grown
<1>5. Grown(abc, ab, c)
  BY <1>1, <1>4, PartAdded
<1> HIDE DEF abc
<1>6. /\ abc \in Seq(Int) /\ Len(abc) = 16
      /\ Part(abc, 0, a) /\ Part(abc, 4, b) /\ Part(abc, 8, c)
  BY <1>1, <1>4, <1>5 DEF Grown
<1>7. Accepted(abc, 0, r, 16)
  <2> /\ 16 \in Nat /\ Len(abc) >= 16 /\ 0 \in {0, 1}
      /\ Part(abc, 0, IntToBytes(0)) /\ Part(abc, 4, IntToBytes(r))
    BY <1>6 DEF a, b
  <2> QED
    BY <1>6, AcceptedAnswer
<1>8. SubSeq(abc, 8 + 1, 8 + 8) = c
  BY <1>1, <1>6, PartIsField
<1>9. SubSeq(c, 1, 8) = c
  BY <1>1, SubSeqFull
<1>10. 8 + 1 = 9 /\ 8 + 8 = 16
  OBVIOUS
<1>11. ConnectionId(abc) = id
  BY <1>1, <1>8, <1>9, <1>10 DEF ConnectionId, BytesToInt64
<1> QED
  BY <1>2, <1>7, <1>11

\* Identity and hash are twenty bytes, the port four.
LEMMA PacketBytes ==
  /\ info_hash \in Seq(Int) /\ Len(info_hash) = 20
  /\ peer_id \in Seq(Int) /\ Len(peer_id) = 20
  /\ PortBytes \in Seq(Int) /\ Len(PortBytes) = 4
<1>1. Byte \subseteq Int
  BY ValuesDef DEF Byte
<1>2. info_hash \in Seq(Int) /\ peer_id \in Seq(Int)
  BY <1>1, PacketsAssumption, SeqMonotonic
<1>3. ToInt(port * Values(2) + port) \in Int
  <2> DEFINE n == port * Values(2) + port
  <2>1. n \in Int
    BY PacketsAssumption, IntSizes
  <2> HIDE DEF n
  <2> DEFINE e == Values(4)
  <2>2. e \in Nat \ {0}
    BY IntSizes
  <2>3. (n % e) \in Int
    <3> HIDE DEF e
    <3>1. (n % e) \in 0 .. e - 1
      BY <2>1, <2>2, DivMod
    <3> QED
      BY <2>2, <3>1
  <2>4. ToInt(n) \in Int
    <3> DEFINE m == n % e
    <3>1. m \in Int
      BY <2>3
    <3>2. ToInt(n) = IF m < e \div 2 THEN m ELSE m - e
      BY DEF ToInt
    <3> HIDE DEF m, e
    <3> QED
      BY <2>2, <3>1, <3>2
  <2> QED
    BY <2>4 DEF n
<1>4. PortBytes \in Seq(Int) /\ Len(PortBytes) = 4
  BY <1>3, FourOrEight DEF PortBytes
<1> QED
  BY <1>2, <1>4, PacketsAssumption

\* A long is read as it was written.
LEMMA LongRead ==
  ASSUME NEW v \in Int, v \in Ids \/ v \in Lengths
  PROVE  Unsigned(Int64ToBytes(v)) = v
<1>1. v \in 0 .. Values(8) - 1
  BY IntSizes DEF Ids, Lengths
<1>2. Unsigned(BigEndian(v, 8)) = v
  BY <1>1, UnsignedOfBigEndian
<1> QED
  BY <1>2 DEF Int64ToBytes

\* The action of an announce is 1.
LEMMA ActionRead == Unsigned(IntToBytes(1)) = 1
<1>1. 1 \in 0 .. Values(4) - 1
  BY IntSizes
<1>2. Unsigned(BigEndian(1, 4)) = 1
  BY <1>1, UnsignedOfBigEndian
<1> QED
  BY <1>2 DEF IntToBytes

\* -1 has all bits set.
LEMMA WantAll == IntToBytes(-1) = [k \in 1 .. 4 |-> Base - 1]
<1>1. \A n \in Nat : ((-1) \div Values(n)) % Base = Base - 1
  <2> TAKE n \in Nat
  <2> DEFINE d == Values(n)
  <2>1. d \in Nat \ {0} /\ Base \in Nat \ {0} /\ Base >= 2
    BY ValuesDef
  <2> HIDE DEF d
  <2>2. -1 \in Int /\ -1 = (-1) * d + (d - 1) /\ d - 1 \in 0 .. d - 1
    BY <2>1
  <2>3. (-1) \div d = -1
    BY <2>1, <2>2, DivIs
  <2>4. -1 = (-1) * Base + (Base - 1) /\ Base - 1 \in 0 .. Base - 1
    BY <2>1
  <2>5. ((-1) % Base) = Base - 1
    BY <2>1, <2>2, <2>4, DivIs
  <2> QED
    BY <2>3, <2>5 DEF d
<1>2. \A k \in 1 .. 4 : 4 - k \in Nat
  OBVIOUS
<1>3. \A k \in 1 .. 4 : ((-1) \div Values(4 - k)) % Base = Base - 1
  BY <1>1, <1>2
<1>4. BigEndian(-1, 4) = [k \in 1 .. 4 |-> Base - 1]
  BY <1>3 DEF BigEndian
<1> QED
  BY <1>4 DEF IntToBytes

\* The first two of the four bytes for the port are the port, whether or not the int
\* they were written as was too large.
LEMMA PortTwice == \A k \in 1 .. 2 : BigEndian(port, 2)[k] = PortBytes[k]
<1> DEFINE d == Values(2)
           n == port * d + port
           v == ToInt(n)
<1>1. d \in Nat \ {0} /\ port \in 0 .. d - 1 /\ port \in Int /\ Values(4) \in Nat \ {0}
  BY IntSizes, PacketsAssumption
<1>2. n \div d = port /\ n \in Int
  <2> HIDE DEF d
  <2>1. n \in Int
    BY <1>1
  <2> QED
    BY <1>1, <2>1, DivIs
<1>3. \E c \in {0, -1} : v = n + c * Values(4)
  <2>1. n \in 0 .. Values(4) - 1
    <3>1. \A a \in Nat, x \in Nat : x <= a - 1 => x * a + x <= a * a - 1
      <4> TAKE a \in Nat, x \in Nat
      <4> HAVE x <= a - 1
      <4>1. x * a <= (a - 1) * a
        <5>1. (a - 1 - x) * a >= 0
          <6>1. a - 1 - x \in Nat /\ \A p, q \in Nat : p * q >= 0
            OBVIOUS
          <6> QED
            BY <6>1
        <5>2. (a - 1 - x) * a = (a - 1) * a - x * a
          OBVIOUS
        <5> QED
          BY <5>1, <5>2
      <4>2. (a - 1) * a = a * a - a
        OBVIOUS
      <4> QED
        BY <4>1, <4>2
    <3>2. port * d + port <= d * d - 1
      BY <1>1, <3>1
    <3>3. port * d + port >= 0
      <4>1. \A x, y \in Nat : x * y + x >= 0
        OBVIOUS
      <4> QED
        BY <1>1, <4>1
    <3>4. Values(4) = d * d
      BY IntSizes
    <3> HIDE DEF d
    <3> QED
      BY <1>1, <1>2, <3>2, <3>3, <3>4
  <2>2. n \in Int
    BY <1>2
  <2> HIDE DEF n
  <2> DEFINE e == Values(4)
  <2>3. e \in Nat \ {0} /\ n \in 0 .. e - 1
    BY <1>1, <2>1
  <2>4. (n % e) = n
    <3> HIDE DEF e
    <3>1. n = 0 * e + n /\ 0 \in Int
      BY <2>2, <2>3
    <3> QED
      BY <2>2, <2>3, <3>1, DivIs
  <2>5. v = n \/ v = n - e
    BY <2>4 DEF ToInt
  <2>6. n = n + 0 * e /\ n - e = n + (-1) * e
    <3> HIDE DEF e
    <3> QED
      BY <2>2, <2>3
  <2> QED
    BY <2>5, <2>6
<1>4. BigEndian(v, 4) = BigEndian(n, 4)
  <2>1. PICK c \in {0, -1} : v = n + c * Values(4)
    BY <1>3
  <2> c \in Int /\ 4 \in Nat
    OBVIOUS
  <2> HIDE DEF n, v
  <2>2. BigEndian(n + c * Values(4), 4) = BigEndian(n, 4)
    BY <1>2, BigEndianCut
  <2> QED
    BY <2>1, <2>2
<1>5. PortBytes = BigEndian(n, 4)
  BY <1>4 DEF PortBytes, IntToBytes
<1>6. BigEndian(n, 4)[1] = (n \div Values(3)) % Base /\ BigEndian(n, 4)[2] = (n \div Values(2)) % Base
  <2> 4 - 1 = 3 /\ 4 - 2 = 2 /\ 1 \in 1 .. 4 /\ 2 \in 1 .. 4
    OBVIOUS
  <2> QED
    BY DEF BigEndian
<1>7. /\ BigEndian(port, 2)[1] = (port \div Values(1)) % Base
      /\ BigEndian(port, 2)[2] = (port \div Values(0)) % Base
  <2> 2 - 1 = 1 /\ 2 - 2 = 0 /\ 1 \in 1 .. 2 /\ 2 \in 1 .. 2
    OBVIOUS
  <2> QED
    BY DEF BigEndian
<1>8. n \div Values(3) = port \div Values(1)
  <2>1. Values(3) = d * Values(1) /\ Values(1) \in Nat \ {0}
    <3>1. 2 \in Nat /\ 1 \in Nat /\ 2 + 1 = 3
      OBVIOUS
    <3>2. Values(2 + 1) = Values(2) * Values(1)
      BY <3>1, ValuesDef
    <3> QED
      BY <3>1, <3>2, ValuesDef
  <2> HIDE DEF d, n
  <2>2. (n \div d) \div Values(1) = n \div (d * Values(1))
    BY <1>1, <1>2, <2>1, DivDiv
  <2> QED
    BY <1>2, <2>1, <2>2
<1>9. port \div Values(0) = port
  <2>1. port = port * 1 + 0 /\ 0 \in 0 .. 1 - 1
    BY <1>1
  <2>2. port \div 1 = port
    BY <1>1, <2>1, DivIs
  <2> QED
    BY <2>2, ValuesDef
<1>10. n \div Values(2) = port
  BY <1>2
<1> HIDE DEF n
<1>11. BigEndian(port, 2)[1] = PortBytes[1] /\ BigEndian(port, 2)[2] = PortBytes[2]
  BY <1>5, <1>6, <1>7, <1>8, <1>9, <1>10
<1>12. \A k \in 1 .. 2 : k = 1 \/ k = 2
  OBVIOUS
<1> QED
  BY <1>11, <1>12

\* A tracker reads of an announce what is meant by it.
LEMMA AnnounceRead ==
  ASSUME NEW c \in Ids, NEW s \in Randoms, NEW left \in Lengths
  PROVE  /\ Announced(AnnounceRequest(c, s, left)) = Meant(c, left)
         /\ Field(AnnounceRequest(c, s, left), 12, 4) = IntToBytes(s)
<1> DEFINE p1 == Int64ToBytes(c)
           p2 == IntToBytes(1)
           p3 == IntToBytes(s)
           p4 == info_hash
           p5 == peer_id
           p6 == Int64ToBytes(0)
           p7 == Int64ToBytes(left)
           p8 == Int64ToBytes(0)
           p9 == IntToBytes(2)
           p10 == IntToBytes(0)
           p11 == IntToBytes(s)
           p12 == IntToBytes(-1)
           p13 == PortBytes
           w2 == p1 \o p2
           w3 == w2 \o p3
           w4 == w3 \o p4
           w5 == w4 \o p5
           w6 == w5 \o p6
           w7 == w6 \o p7
           w8 == w7 \o p8
           w9 == w8 \o p9
           w10 == w9 \o p10
           w11 == w10 \o p11
           w12 == w11 \o p12
           w13 == w12 \o p13
<1>1. AnnounceRequest(c, s, left) = w13
  BY RandomIsId DEF AnnounceRequest
<1>2. c \in Int /\ s \in Int /\ left \in Int
  BY RandomIsId, IntSizes DEF Ids, Lengths
<1>3. /\ p1 \in Seq(Int) /\ Len(p1) = 8
      /\ p2 \in Seq(Int) /\ Len(p2) = 4
      /\ p3 \in Seq(Int) /\ Len(p3) = 4
      /\ p4 \in Seq(Int) /\ Len(p4) = 20
      /\ p5 \in Seq(Int) /\ Len(p5) = 20
      /\ p6 \in Seq(Int) /\ Len(p6) = 8
      /\ p7 \in Seq(Int) /\ Len(p7) = 8
      /\ p8 \in Seq(Int) /\ Len(p8) = 8
      /\ p9 \in Seq(Int) /\ Len(p9) = 4
      /\ p10 \in Seq(Int) /\ Len(p10) = 4
      /\ p11 \in Seq(Int) /\ Len(p11) = 4
      /\ p12 \in Seq(Int) /\ Len(p12) = 4
      /\ p13 \in Seq(Int) /\ Len(p13) = 4
  BY <1>2, FourOrEight, PacketBytes
<1>4. Unsigned(p1) = c /\ Unsigned(p2) = 1 /\ Unsigned(p7) = left
  <2>1. Unsigned(Int64ToBytes(c)) = c
    BY <1>2, LongRead
  <2>2. Unsigned(Int64ToBytes(left)) = left
    BY <1>2, LongRead
  <2> QED
    BY <2>1, <2>2, ActionRead
<1>5. p12 = [k \in 1 .. 4 |-> Base - 1]
  BY WantAll
<1>6. \A k \in 1 .. 2 : BigEndian(port, 2)[k] = p13[k]
  BY PortTwice
<1> HIDE DEF p1, p2, p3, p4, p5, p6, p7, p8, p9, p10, p11, p12, p13
<1>7. Part(p1, 0, p1)
  BY <1>3, FirstPart
<1>20. Grown(w2, p1, p2)
  BY <1>3, PartAdded
<1> HIDE DEF w2
<1>21. w2 \in Seq(Int) /\ Len(w2) = 12
  BY <1>3, <1>20 DEF Grown
<1>22. Part(w2, 0, p1) /\ Part(w2, 8, p2)
  BY <1>3, <1>20, <1>7 DEF Grown
<1>30. Grown(w3, w2, p3)
  BY <1>3, <1>21, PartAdded
<1> HIDE DEF w3
<1>31. w3 \in Seq(Int) /\ Len(w3) = 16
  BY <1>3, <1>30, <1>21 DEF Grown
<1>32. Part(w3, 0, p1) /\ Part(w3, 8, p2) /\ Part(w3, 12, p3)
  BY <1>3, <1>30, <1>21, <1>22 DEF Grown
<1>40. Grown(w4, w3, p4)
  BY <1>3, <1>31, PartAdded
<1> HIDE DEF w4
<1>41. w4 \in Seq(Int) /\ Len(w4) = 36
  BY <1>3, <1>40, <1>31 DEF Grown
<1>42. Part(w4, 0, p1) /\ Part(w4, 8, p2) /\ Part(w4, 12, p3) /\ Part(w4, 16, p4)
  BY <1>3, <1>40, <1>31, <1>32 DEF Grown
<1>50. Grown(w5, w4, p5)
  BY <1>3, <1>41, PartAdded
<1> HIDE DEF w5
<1>51. w5 \in Seq(Int) /\ Len(w5) = 56
  BY <1>3, <1>50, <1>41 DEF Grown
<1>52. /\ Part(w5, 0, p1) /\ Part(w5, 8, p2) /\ Part(w5, 12, p3) /\ Part(w5, 16, p4)
        /\ Part(w5, 36, p5)
  BY <1>3, <1>50, <1>41, <1>42 DEF Grown
<1>60. Grown(w6, w5, p6)
  BY <1>3, <1>51, PartAdded
<1> HIDE DEF w6
<1>61. w6 \in Seq(Int) /\ Len(w6) = 64
  BY <1>3, <1>60, <1>51 DEF Grown
<1>62. /\ Part(w6, 0, p1) /\ Part(w6, 8, p2) /\ Part(w6, 12, p3) /\ Part(w6, 16, p4)
        /\ Part(w6, 36, p5)
  BY <1>3, <1>60, <1>51, <1>52 DEF Grown
<1>70. Grown(w7, w6, p7)
  BY <1>3, <1>61, PartAdded
<1> HIDE DEF w7
<1>71. w7 \in Seq(Int) /\ Len(w7) = 72
  BY <1>3, <1>70, <1>61 DEF Grown
<1>72. /\ Part(w7, 0, p1) /\ Part(w7, 8, p2) /\ Part(w7, 12, p3) /\ Part(w7, 16, p4)
        /\ Part(w7, 36, p5) /\ Part(w7, 64, p7)
  BY <1>3, <1>70, <1>61, <1>62 DEF Grown
<1>80. Grown(w8, w7, p8)
  BY <1>3, <1>71, PartAdded
<1> HIDE DEF w8
<1>81. w8 \in Seq(Int) /\ Len(w8) = 80
  BY <1>3, <1>80, <1>71 DEF Grown
<1>82. /\ Part(w8, 0, p1) /\ Part(w8, 8, p2) /\ Part(w8, 12, p3) /\ Part(w8, 16, p4)
        /\ Part(w8, 36, p5) /\ Part(w8, 64, p7)
  BY <1>3, <1>80, <1>71, <1>72 DEF Grown
<1>90. Grown(w9, w8, p9)
  BY <1>3, <1>81, PartAdded
<1> HIDE DEF w9
<1>91. w9 \in Seq(Int) /\ Len(w9) = 84
  BY <1>3, <1>90, <1>81 DEF Grown
<1>92. /\ Part(w9, 0, p1) /\ Part(w9, 8, p2) /\ Part(w9, 12, p3) /\ Part(w9, 16, p4)
        /\ Part(w9, 36, p5) /\ Part(w9, 64, p7)
  BY <1>3, <1>90, <1>81, <1>82 DEF Grown
<1>100. Grown(w10, w9, p10)
  BY <1>3, <1>91, PartAdded
<1> HIDE DEF w10
<1>101. w10 \in Seq(Int) /\ Len(w10) = 88
  BY <1>3, <1>100, <1>91 DEF Grown
<1>102. /\ Part(w10, 0, p1) /\ Part(w10, 8, p2) /\ Part(w10, 12, p3) /\ Part(w10, 16, p4)
        /\ Part(w10, 36, p5) /\ Part(w10, 64, p7)
  BY <1>3, <1>100, <1>91, <1>92 DEF Grown
<1>110. Grown(w11, w10, p11)
  BY <1>3, <1>101, PartAdded
<1> HIDE DEF w11
<1>111. w11 \in Seq(Int) /\ Len(w11) = 92
  BY <1>3, <1>110, <1>101 DEF Grown
<1>112. /\ Part(w11, 0, p1) /\ Part(w11, 8, p2) /\ Part(w11, 12, p3) /\ Part(w11, 16, p4)
        /\ Part(w11, 36, p5) /\ Part(w11, 64, p7)
  BY <1>3, <1>110, <1>101, <1>102 DEF Grown
<1>120. Grown(w12, w11, p12)
  BY <1>3, <1>111, PartAdded
<1> HIDE DEF w12
<1>121. w12 \in Seq(Int) /\ Len(w12) = 96
  BY <1>3, <1>120, <1>111 DEF Grown
<1>122. /\ Part(w12, 0, p1) /\ Part(w12, 8, p2) /\ Part(w12, 12, p3) /\ Part(w12, 16, p4)
        /\ Part(w12, 36, p5) /\ Part(w12, 64, p7) /\ Part(w12, 92, p12)
  BY <1>3, <1>120, <1>111, <1>112 DEF Grown
<1>130. Grown(w13, w12, p13)
  BY <1>3, <1>121, PartAdded
<1> HIDE DEF w13
<1>131. w13 \in Seq(Int) /\ Len(w13) = 100
  BY <1>3, <1>130, <1>121 DEF Grown
<1>132. /\ Part(w13, 0, p1) /\ Part(w13, 8, p2) /\ Part(w13, 12, p3) /\ Part(w13, 16, p4)
        /\ Part(w13, 36, p5) /\ Part(w13, 64, p7) /\ Part(w13, 92, p12) /\ Part(w13, 96, p13)
  BY <1>3, <1>130, <1>121, <1>122 DEF Grown
<1>200. /\ SubSeq(w13, 0 + 1, 0 + 8) = p1 /\ SubSeq(w13, 8 + 1, 8 + 4) = p2
        /\ SubSeq(w13, 12 + 1, 12 + 4) = p3 /\ SubSeq(w13, 16 + 1, 16 + 20) = p4
        /\ SubSeq(w13, 36 + 1, 36 + 20) = p5 /\ SubSeq(w13, 64 + 1, 64 + 8) = p7
        /\ SubSeq(w13, 92 + 1, 92 + 4) = p12
  <2>1. \A first, y : Part(w13, first, y) => SubSeq(w13, first + 1, first + Len(y)) = y
    BY <1>131, PartIsField
  <2>2. SubSeq(w13, 0 + 1, 0 + 8) = p1
    <3>1. Part(w13, 0, p1) /\ Len(p1) = 8
      BY <1>3, <1>132, Zenon
    <3> QED
      BY <2>1, <3>1
  <2>3. SubSeq(w13, 8 + 1, 8 + 4) = p2
    <3>1. Part(w13, 8, p2) /\ Len(p2) = 4
      BY <1>3, <1>132, Zenon
    <3> QED
      BY <2>1, <3>1
  <2>4. SubSeq(w13, 12 + 1, 12 + 4) = p3
    <3>1. Part(w13, 12, p3) /\ Len(p3) = 4
      BY <1>3, <1>132, Zenon
    <3> QED
      BY <2>1, <3>1
  <2>5. SubSeq(w13, 16 + 1, 16 + 20) = p4
    <3>1. Part(w13, 16, p4) /\ Len(p4) = 20
      BY <1>3, <1>132, Zenon
    <3> QED
      BY <2>1, <3>1
  <2>6. SubSeq(w13, 36 + 1, 36 + 20) = p5
    <3>1. Part(w13, 36, p5) /\ Len(p5) = 20
      BY <1>3, <1>132, Zenon
    <3> QED
      BY <2>1, <3>1
  <2>7. SubSeq(w13, 64 + 1, 64 + 8) = p7
    <3>1. Part(w13, 64, p7) /\ Len(p7) = 8
      BY <1>3, <1>132, Zenon
    <3> QED
      BY <2>1, <3>1
  <2>8. SubSeq(w13, 92 + 1, 92 + 4) = p12
    <3>1. Part(w13, 92, p12) /\ Len(p12) = 4
      BY <1>3, <1>132, Zenon
    <3> QED
      BY <2>1, <3>1
  <2> QED
    BY <2>2, <2>3, <2>4, <2>5, <2>6, <2>7, <2>8
<1>201. SubSeq(w13, 96 + 1, 96 + 2) = BigEndian(port, 2) /\ Unsigned(BigEndian(port, 2)) = port
  <2> DEFINE z == BigEndian(port, 2)
  <2>1. z \in Seq(Int) /\ Len(z) = 2 /\ Unsigned(z) = port
    <3>1. 2 \in Nat /\ port \in 0 .. Values(2) - 1 /\ port \in Int
      BY PacketsAssumption, IntSizes
    <3>2. Unsigned(z) = port
      BY <3>1, UnsignedOfBigEndian
    <3> QED
      BY <3>1, <3>2, NumberBytes
  <2>2. \A k \in 1 .. 2 : z[k] = p13[k]
    BY <1>6
  <2> HIDE DEF z
  <2>3. Part(w13, 96, z)
    <3> /\ Len(z) <= Len(p13) /\ Part(w13, 96, p13)
        /\ \A k \in 1 .. Len(z) : z[k] = p13[k]
      BY <1>3, <1>132, <2>1, <2>2
    <3>1. \A first, y : Part(w13, first, y) /\ Len(z) <= Len(y)
                           /\ (\A k \in 1 .. Len(z) : z[k] = y[k]) => Part(w13, first, z)
      BY <1>131, <2>1, PartBegins
    <3> QED
      BY <3>1
  <2>4. SubSeq(w13, 96 + 1, 96 + 2) = z
    <3>1. \A first, y : Part(w13, first, y) => SubSeq(w13, first + 1, first + Len(y)) = y
      BY <1>131, PartIsField
    <3> QED
      BY <2>1, <2>3, <3>1
  <2> QED
    BY <2>1, <2>4 DEF z
<1>202. Announced(w13) = Meant(c, left)
  BY <1>4, <1>5, <1>200, <1>201 DEF Announced, Meant, Field, p4, p5
<1>203. Field(w13, 12, 4) = IntToBytes(s)
  BY <1>200 DEF Field, p3
<1> QED
  BY <1>1, <1>202, <1>203

-----------------------------------------------------------------------------
(***************************************************************************)
(* The peers in an answer, from the bytes on.                              *)
(***************************************************************************)
\* The bytes from one place on.
LEMMA Cut ==
  ASSUME NEW S, NEW w \in Seq(S), NEW o \in Nat, NEW n \in Nat, o + n <= Len(w)
  PROVE  /\ SubSeq(w, o + 1, o + n) \in Seq(S) /\ Len(SubSeq(w, o + 1, o + n)) = n
         /\ \A j \in 1 .. n : SubSeq(w, o + 1, o + n)[j] = w[o + j]
<1> DEFINE a == o + 1
           l == o + n
<1>1. a \in Int /\ l \in Int /\ l - a + 1 = n /\ (n > 0 <=> a <= l)
      /\ \A j \in Int : a + j - 1 = o + j
  OBVIOUS
<1>2. \A k \in a .. l : w[k] \in S
  <2> TAKE k \in a .. l
  <2> k \in 1 .. Len(w)
    BY LenProperties
  <2> QED
    BY ElementOfSeq
<1> HIDE DEF a, l
<1>3. /\ SubSeq(w, a, l) \in Seq(S)
      /\ Len(SubSeq(w, a, l)) = IF a <= l THEN l - a + 1 ELSE 0
      /\ \A j \in 1 .. l - a + 1 : SubSeq(w, a, l)[j] = w[a + j - 1]
  BY <1>1, <1>2, SubSeqProperties
<1>4. Len(SubSeq(w, a, l)) = n
  BY <1>1, <1>3
<1>5. \A j \in 1 .. n : SubSeq(w, a, l)[j] = w[o + j]
  BY <1>1, <1>3
<1> QED
  BY <1>3, <1>4, <1>5 DEF a, l

\* Two bytes as an integer.
LEMMA TwoBytes ==
  ASSUME NEW y \in Seq(Int), Len(y) = 2
  PROVE  Unsigned(y) = y[1] * Base + y[2]
<1>1. PICK f \in [0 .. 2 -> Int] : HornerTo(f, y, 2) /\ Unsigned(y) = f[2]
  BY UnsignedDef
<1>2. f[0] = 0 /\ f[1] = f[0] * Base + y[1] /\ f[2] = f[1] * Base + y[2]
  <2>1. 1 \in 1 .. 2 /\ 2 \in 1 .. 2 /\ 1 - 1 = 0 /\ 2 - 1 = 1
    OBVIOUS
  <2> QED
    BY <1>1, <2>1 DEF HornerTo
<1>3. f[1] = y[1]
  <2>1. y[1] \in Int /\ Base \in Int
    <3>1. \A n \in 1 .. Len(y) : y[n] \in Int
      BY ElementOfSeq
    <3> QED
      BY <3>1, ValuesDef
  <2>2. 0 * Base + y[1] = y[1]
    BY <2>1
  <2> QED
    BY <1>2, <2>2
<1> QED
  BY <1>1, <1>2, <1>3

AddressAt(bytes, k) ==
    [ip |-> SubSeq(bytes, 6 * k + 1, 6 * k + 1 + 4 - 1),
     port |-> Unsigned(SubSeq(bytes, 6 * k + 5, 6 * k + 5 + 2 - 1))]

\* Six bytes that are an address,
LEMMA OneAddress ==
  ASSUME NEW bytes \in Seq(Byte), NEW o \in Nat, o + 6 <= Len(bytes)
  PROVE  /\ SubSeq(bytes, o + 1, o + 1 + 4 - 1) = [j \in 1 .. 4 |-> bytes[o + j]]
         /\ [j \in 1 .. 4 |-> bytes[o + j]] \in [1 .. 4 -> Nat]
         /\ Unsigned(SubSeq(bytes, o + 5, o + 5 + 2 - 1)) = bytes[o + 5] * Base + bytes[o + 6]
         /\ bytes[o + 5] * Base + bytes[o + 6] \in Nat
<1> DEFINE ip == SubSeq(bytes, o + 1, o + 4)
           pt == SubSeq(bytes, (o + 4) + 1, (o + 4) + 2)
<1>1. Byte \subseteq Nat /\ Byte \subseteq Int /\ Base \in Nat
  BY ValuesDef DEF Byte
<1>2. \A j \in 1 .. 6 : bytes[o + j] \in Byte
  <2> TAKE j \in 1 .. 6
  <2> o + j \in 1 .. Len(bytes)
    BY LenProperties
  <2> QED
    BY ElementOfSeq
<1>3. ip \in Seq(Byte) /\ Len(ip) = 4 /\ \A j \in 1 .. 4 : ip[j] = bytes[o + j]
  <2>1. 4 \in Nat /\ o + 4 <= Len(bytes)
    BY LenProperties
  <2> QED
    BY <2>1, Cut
<1>4. pt \in Seq(Byte) /\ Len(pt) = 2 /\ \A j \in 1 .. 2 : pt[j] = bytes[(o + 4) + j]
  <2>1. 2 \in Nat /\ o + 4 \in Nat /\ (o + 4) + 2 <= Len(bytes)
    BY LenProperties
  <2> QED
    BY <2>1, Cut
<1>5. o + 1 + 4 - 1 = o + 4 /\ o + 5 = (o + 4) + 1 /\ o + 5 + 2 - 1 = (o + 4) + 2
      /\ (o + 4) + 1 = o + 5 /\ (o + 4) + 2 = o + 6
  OBVIOUS
<1> HIDE DEF ip, pt
<1>6. ip = [j \in 1 .. 4 |-> bytes[o + j]]
  <2>1. DOMAIN ip = 1 .. 4 /\ ip \in [1 .. 4 -> Byte]
    BY <1>3, LenProperties
  <2> QED
    BY <1>3, <2>1
<1>7. [j \in 1 .. 4 |-> bytes[o + j]] \in [1 .. 4 -> Nat]
  <2>1. \A j \in 1 .. 4 : j \in 1 .. 6
    OBVIOUS
  <2>2. \A j \in 1 .. 4 : bytes[o + j] \in Nat
    BY <1>1, <1>2, <2>1
  <2> QED
    BY <2>2
<1>8. Unsigned(pt) = bytes[o + 5] * Base + bytes[o + 6]
  <2>1. pt \in Seq(Int)
    BY <1>1, <1>4, SeqMonotonic
  <2>2. Unsigned(pt) = pt[1] * Base + pt[2]
    BY <1>4, <2>1, TwoBytes
  <2>3. pt[1] = bytes[o + 5] /\ pt[2] = bytes[o + 6]
    BY <1>4, <1>5
  <2> QED
    BY <2>2, <2>3
<1>9. bytes[o + 5] * Base + bytes[o + 6] \in Nat
  <2>1. bytes[o + 5] \in Nat /\ bytes[o + 6] \in Nat
    <3> 5 \in 1 .. 6 /\ 6 \in 1 .. 6
      OBVIOUS
    <3> QED
      BY <1>1, <1>2
  <2>2. \A a, b, c \in Nat : a * b + c \in Nat
    OBVIOUS
  <2> QED
    BY <1>1, <2>1, <2>2
<1> QED
  BY <1>5, <1>6, <1>7, <1>8, <1>9 DEF ip, pt

\* and the one at each place of a compact list.
LEMMA AddressAtPlace ==
  ASSUME NEW bytes \in Seq(Byte), NEW k \in 0 .. Len(bytes) \div 6 - 1
  PROVE  /\ AddressAt(bytes, k) \in Addresses
         /\ AddressAt(bytes, k) = [ip |-> [j \in 1 .. 4 |-> bytes[6 * k + j]],
                                   port |-> bytes[6 * k + 5] * Base + bytes[6 * k + 6]]
<1> DEFINE o == 6 * k
<1>1. o \in Nat /\ o + 6 <= Len(bytes)
  BY LenProperties
<1> HIDE DEF o
<1>2. /\ SubSeq(bytes, o + 1, o + 1 + 4 - 1) = [j \in 1 .. 4 |-> bytes[o + j]]
      /\ [j \in 1 .. 4 |-> bytes[o + j]] \in [1 .. 4 -> Nat]
      /\ Unsigned(SubSeq(bytes, o + 5, o + 5 + 2 - 1)) = bytes[o + 5] * Base + bytes[o + 6]
      /\ bytes[o + 5] * Base + bytes[o + 6] \in Nat
  BY <1>1, OneAddress
<1>3. AddressAt(bytes, k) = [ip |-> [j \in 1 .. 4 |-> bytes[o + j]],
                             port |-> bytes[o + 5] * Base + bytes[o + 6]]
  BY <1>2 DEF AddressAt, o
<1>4. AddressAt(bytes, k) \in Addresses
  BY <1>2, <1>3 DEF Addresses
<1> QED
  BY <1>3, <1>4 DEF o

Lists(peers, bytes) ==
    /\ peers \in Seq(Addresses)
    /\ ToSet(peers) = Swarm(bytes)

\* A list of the addresses one after the other is a list of the swarm.
LEMMA ListsSwarm ==
  ASSUME NEW bytes \in Seq(Byte), NEW peers, NEW m \in Nat, m = Len(bytes) \div 6,
         peers = [k \in 1 .. m |-> AddressAt(bytes, k - 1)]
  PROVE  Lists(peers, bytes)
<1>1. Swarm(bytes) = {AddressAt(bytes, k) : k \in 0 .. m - 1}
  BY DEF Swarm, AddressAt
<1>2. \A k \in 0 .. m - 1 : AddressAt(bytes, k) \in Addresses
  BY AddressAtPlace
<1>3. \A k \in 1 .. m : k - 1 \in 0 .. m - 1
  OBVIOUS
<1>4. peers \in [1 .. m -> Addresses]
  BY <1>2, <1>3
<1>5. ToSet(peers) = {AddressAt(bytes, k) : k \in 0 .. m - 1}
  <2>1. DOMAIN peers = 1 .. m
    BY <1>4
  <2>2. \A k \in 0 .. m - 1 : k + 1 \in 1 .. m /\ (k + 1) - 1 = k
    OBVIOUS
  <2> HIDE DEF AddressAt
  <2>3. \A k \in 1 .. m : peers[k] = AddressAt(bytes, k - 1)
    OBVIOUS
  <2> QED
    BY <1>3, <2>1, <2>2, <2>3 DEF ToSet
<1> QED
  BY <1>1, <1>4, <1>5 DEF Lists

\* That is what ParseCompactBinaryPeers makes of an HTTP tracker's list,
LEMMA ParsedPeers ==
  ASSUME NEW bytes \in Seq(Byte)
  PROVE  Lists(ParseCompactBinaryPeers(bytes), bytes)
<1> DEFINE m == Len(bytes) \div 6
           one(k) == [ip |-> [j \in 1 .. 4 |-> bytes[6 * k + j]],
                      port |-> bytes[6 * k + 5] * Base + bytes[6 * k + 6]]
<1>1. m \in Nat
  BY LenProperties
<1>2. \A k \in 1 .. m : k - 1 \in 0 .. m - 1
  OBVIOUS
<1>3. ParseCompactBinaryPeers(bytes) = [k \in 1 .. m |-> one(k - 1)]
  BY DEF ParseCompactBinaryPeers
<1>4. \A k \in 0 .. m - 1 : AddressAt(bytes, k) = one(k)
  BY AddressAtPlace
<1> HIDE DEF one
<1>5. ParseCompactBinaryPeers(bytes) = [k \in 1 .. m |-> AddressAt(bytes, k - 1)]
  BY <1>2, <1>3, <1>4
<1> QED
  BY <1>1, <1>5, ListsSwarm

\* An address as an int, and back: ConvertTrackerPeer finds the bytes again.
LEMMA AddressBack ==
  ASSUME NEW a \in Seq(Byte), Len(a) = 4
  PROVE  /\ uint32_t(ToInt(Unsigned(a))) = Unsigned(a)
         /\ \A p : ConvertTrackerPeer(Unsigned(a), p) = [ip |-> a, port |-> p]
<1> DEFINE u == Unsigned(a)
           e == Values(4)
<1>1. u \in 0 .. e - 1 /\ BigEndian(u, 4) = a
  BY BigEndianOfUnsigned
<1>2. e \in Nat \ {0}
  BY IntSizes
<1>3. \A p : ConvertTrackerPeer(u, p) = [ip |-> a, port |-> p]
  BY <1>1 DEF ConvertTrackerPeer, BigEndian
<1>4. uint32_t(ToInt(u)) = u
  <2> HIDE DEF u
  <2> DEFINE m == u % e
             i1 == IF m < e \div 2 THEN m ELSE m - e
  <2>1. ToInt(u) = i1
    BY DEF ToInt
  <2> HIDE DEF e
  <2>2. u = 0 * e + u /\ 0 \in Int
    BY <1>1, <1>2
  <2>3. m = u
    BY <1>1, <1>2, <2>2, DivIs
  <2> HIDE DEF m
  <2>4. i1 = 0 * e + u \/ i1 = (-1) * e + u
    BY <1>1, <1>2, <2>3
  <2> HIDE DEF i1
  <2>5. (i1 % e) = u
    <3> -1 \in Int /\ 0 \in Int
      OBVIOUS
    <3> QED
      BY <1>1, <1>2, <2>4, DivIs
  <2> QED
    BY <2>1, <2>5 DEF uint32_t, e
<1> QED
  BY <1>3, <1>4

\* Twenty bytes and a list: how often there is one more peer.
LEMMA HowManyPeers ==
  ASSUME NEW L \in Nat, NEW w, Len(w) = 20 + L
  PROVE  Cardinality({k \in 0 .. Len(w) \div 6 : OneMorePeer(w, 20 + 6 * k)}) = L \div 6
<1> DEFINE m == L \div 6
           M == Len(w) \div 6
<1>1. m \in Nat /\ M \in Nat /\ m <= M
      /\ \A k \in Nat : 20 + 6 * k + 6 <= 20 + L <=> k <= m - 1
  OBVIOUS
<1> HIDE DEF m, M
<1>2. {k \in 0 .. M : OneMorePeer(w, 20 + 6 * k)} = 0 .. m - 1
  <2>1. \A k \in 0 .. M : OneMorePeer(w, 20 + 6 * k) <=> k <= m - 1
    <3> TAKE k \in 0 .. M
    <3>1. k \in Nat
      OBVIOUS
    <3> QED
      BY <1>1, <3>1 DEF OneMorePeer
  <2>2. 0 .. m - 1 = {k \in 0 .. M : k <= m - 1}
    BY <1>1
  <2> QED
    BY <2>1, <2>2
<1>3. Cardinality(0 .. m - 1) = m
  <2>1. 0 \in Int /\ m - 1 \in Int
    BY <1>1
  <2>2. Cardinality(0 .. m - 1) = IF 0 > m - 1 THEN 0 ELSE m - 1 - 0 + 1
    BY <2>1, FS_Interval
  <2> QED
    BY <1>1, <2>2
<1> QED
  BY <1>2, <1>3 DEF m, M

\* and of a UDP tracker's answer what Announce makes.
LEMMA PeersOfAnswer ==
  ASSUME NEW w \in Seq(Byte), NEW bytes \in Seq(Byte), Len(w) = 20 + Len(bytes),
         \A j \in 1 .. Len(bytes) : w[20 + j] = bytes[j]
  PROVE  Lists(PeersIn(w), bytes)
<1> DEFINE m == Len(bytes) \div 6
           at(k) == SubSeq(w, 15 + 6 * k, 20 + 6 * k)
           one(k) == ConvertTrackerPeer(uint32_t(BytesToInt(at(k))), at(k)[5] * Base + at(k)[6])
<1>1. m \in Nat /\ Len(bytes) \in Nat
  BY LenProperties
<1>2. Cardinality({k \in 0 .. Len(w) \div 6 : OneMorePeer(w, 20 + 6 * k)}) = m
  BY <1>1, HowManyPeers
<1>3. PeersIn(w) = [k \in 1 .. m |-> one(k)]
  BY <1>2 DEF PeersIn
<1>4. ASSUME NEW k \in 1 .. m PROVE one(k) = AddressAt(bytes, k - 1)
  <2> DEFINE o == 6 * (k - 1)
             y == at(k)
             a == SubSeq(y, 1, 4)
  <2>1. /\ o \in Nat /\ o + 6 <= Len(bytes)
        /\ 15 + 6 * k = (20 + o) + 1 /\ 20 + 6 * k = (20 + o) + 6
    BY <1>1
  <2>2. k - 1 \in 0 .. m - 1
    OBVIOUS
  <2> HIDE DEF o
  <2>3. y = SubSeq(w, (20 + o) + 1, (20 + o) + 6)
    BY <2>1
  <2> HIDE DEF at
  <2>4. y \in Seq(Byte) /\ Len(y) = 6 /\ \A j \in 1 .. 6 : y[j] = w[(20 + o) + j]
    <3> DEFINE q == 20 + o
               six == 6
    <3>1. q \in Nat /\ six \in Nat /\ q + six <= Len(w)
      BY <1>1, <2>1
    <3>2. y = SubSeq(w, q + 1, q + six)
      BY <2>3
    <3> HIDE DEF q, six, y
    <3>3. y \in Seq(Byte) /\ Len(y) = six /\ \A j \in 1 .. six : y[j] = w[q + j]
      BY <3>1, <3>2, Cut
    <3> QED
      BY <3>3 DEF q, six
  <2>5. \A j \in 1 .. 6 : y[j] = bytes[o + j]
    <3> TAKE j \in 1 .. 6
    <3>1. o + j \in 1 .. Len(bytes) /\ (20 + o) + j = 20 + (o + j)
      BY <1>1, <2>1
    <3> QED
      BY <2>4, <3>1
  <2> HIDE DEF y
  <2>6. a \in Seq(Byte) /\ Len(a) = 4 /\ \A j \in 1 .. 4 : a[j] = y[j]
    <3> DEFINE one1 == 1
               four == 4
    <3>1. one1 \in Int /\ four \in Int /\ one1 <= four /\ four - one1 + 1 = 4
          /\ (\A j \in Int : one1 + j - 1 = j) /\ a = SubSeq(y, one1, four)
      OBVIOUS
    <3>2. \A j \in one1 .. four : y[j] \in Byte
      <4> \A j \in 1 .. 4 : j \in 1 .. Len(y)
        BY <2>4
      <4> QED
        BY <2>4, ElementOfSeq
    <3> HIDE DEF one1, four, a
    <3>3. a \in Seq(Byte) /\ Len(a) = four - one1 + 1
          /\ \A j \in 1 .. four - one1 + 1 : a[j] = y[one1 + j - 1]
      BY <3>1, <3>2, SubSeqProperties
    <3> QED
      BY <3>1, <3>3
  <2> HIDE DEF a
  <2>7. a = [j \in 1 .. 4 |-> bytes[o + j]]
    <3>1. a \in [1 .. 4 -> Byte]
      BY <2>6, LenProperties
    <3>2. \A j \in 1 .. 4 : j \in 1 .. 6
      OBVIOUS
    <3>3. \A j \in 1 .. 4 : a[j] = bytes[o + j]
      BY <2>5, <2>6, <3>2
    <3> QED
      BY <3>1, <3>3
  <2>8. y[5] = bytes[o + 5] /\ y[6] = bytes[o + 6]
    <3> 5 \in 1 .. 6 /\ 6 \in 1 .. 6
      OBVIOUS
    <3> QED
      BY <2>5
  <2>9. uint32_t(BytesToInt(y)) = Unsigned(a)
    <3>1. BytesToInt(y) = ToInt(Unsigned(a))
      BY DEF BytesToInt, a
    <3> QED
      BY <2>6, <3>1, AddressBack
  <2>10. ConvertTrackerPeer(uint32_t(BytesToInt(y)), y[5] * Base + y[6])
         = [ip |-> a, port |-> y[5] * Base + y[6]]
    BY <2>6, <2>9, AddressBack
  <2>11. AddressAt(bytes, k - 1) = [ip |-> [j \in 1 .. 4 |-> bytes[o + j]],
                                    port |-> bytes[o + 5] * Base + bytes[o + 6]]
    BY <2>2, AddressAtPlace DEF o
  <2> QED
    BY <2>7, <2>8, <2>10, <2>11 DEF y
<1> HIDE DEF one
<1>5. PeersIn(w) = [k \in 1 .. m |-> AddressAt(bytes, k - 1)]
  BY <1>3, <1>4
<1> QED
  BY <1>1, <1>5, ListsSwarm

\* The client accepts the answer to its announce and finds the tracker's peers.
LEMMA AnnounceAnswered ==
  ASSUME NEW w, NEW r \in Randoms, NEW bytes \in Seq(Byte),
         Field(w, 12, 4) = IntToBytes(r)
  PROVE  /\ Accepted(AnnounceAnswer(w, bytes), 1, r, 20)
         /\ Lists(PeersIn(AnnounceAnswer(w, bytes)), bytes)
<1> DEFINE a == IntToBytes(1)
           b == IntToBytes(r)
           c == BigEndian(0, 12)
           ab == a \o b
           abc == ab \o c
           all == abc \o bytes
<1>1. /\ a \in Seq(Byte) /\ Len(a) = 4 /\ b \in Seq(Byte) /\ Len(b) = 4
      /\ c \in Seq(Byte) /\ Len(c) = 12
  <2>1. 1 \in Int /\ r \in Int /\ 0 \in Int /\ 4 \in Nat /\ 12 \in Nat
    BY RandomIsId
  <2>2. c \in Seq(Byte) /\ Len(c) = 12
    BY <2>1, BigEndianType
  <2>3. \A v \in Int : IntToBytes(v) \in Seq(Byte) /\ Len(IntToBytes(v)) = 4
    BY <2>1, BigEndianType DEF IntToBytes
  <2> QED
    BY <2>1, <2>2, <2>3
<1>2. AnnounceAnswer(w, bytes) = all
  BY DEF AnnounceAnswer, IntToBytes
<1>3. \A s \in Seq(Byte) : s \in Seq(Int)
  <2> Byte \subseteq Int
    BY ValuesDef DEF Byte
  <2> QED
    BY SeqMonotonic
<1> HIDE DEF a, b, c
<1>4. /\ ab \in Seq(Byte) /\ Grown(ab, a, b) /\ Part(a, 0, a)
  BY <1>1, <1>3, ConcatProperties, PartAdded, FirstPart
<1> HIDE DEF ab
<1>5. Len(ab) = 8 /\ Part(ab, 0, a) /\ Part(ab, 4, b)
  BY <1>1, <1>4 DEF Grown
<1>6. abc \in Seq(Byte) /\ Grown(abc, ab, c)
  BY <1>1, <1>3, <1>4, ConcatProperties, PartAdded
<1> HIDE DEF abc
<1>7. Len(abc) = 20 /\ Part(abc, 0, a) /\ Part(abc, 4, b)
  BY <1>1, <1>5, <1>6 DEF Grown
<1>8. all \in Seq(Byte) /\ Grown(all, abc, bytes)
  BY <1>3, <1>6, ConcatProperties, PartAdded
<1> HIDE DEF all
<1>9. /\ Len(all) = 20 + Len(bytes) /\ Part(all, 0, a) /\ Part(all, 4, b)
      /\ Part(all, 20, bytes)
  BY <1>7, <1>8 DEF Grown
<1>10. Len(all) >= 20
  BY <1>9, LenProperties
<1>11. Accepted(all, 1, r, 20)
  <2> all \in Seq(Int) /\ 20 \in Nat /\ 1 \in {0, 1}
    BY <1>3, <1>8
  <2> Part(all, 0, IntToBytes(1)) /\ Part(all, 4, IntToBytes(r))
    BY <1>9 DEF a, b
  <2> QED
    BY <1>10, AcceptedAnswer
<1>12. Lists(PeersIn(all), bytes)
  <2>1. \A j \in 1 .. Len(bytes) : all[20 + j] = bytes[j]
    BY <1>9 DEF Part
  <2> QED
    BY <1>8, <1>9, <2>1, PeersOfAnswer
<1> QED
  BY <1>2, <1>11, <1>12

-----------------------------------------------------------------------------
(***************************************************************************)
(* The order of addresses.                                                 *)
(***************************************************************************)
Numbers == [1 .. 4 -> Nat]

\* The texts of two different addresses come one before the other,
LEMMA LessTotal ==
  ASSUME NEW a \in Numbers, NEW b \in Numbers, a # b
  PROVE  Less(a, b) \/ Less(b, a)
<1> DEFINE T == {k \in 1 .. 4 : a[k] # b[k]}
<1>1. T # {} /\ T \subseteq Nat
  BY DEF Numbers
<1>2. PICK k \in T : \A j \in T : k <= j
  BY <1>1, LeastNat
<1>3. \A j \in 1 .. k - 1 : a[j] = b[j] /\ b[j] = a[j]
  <2> TAKE j \in 1 .. k - 1
  <2> j \in 1 .. 4 /\ ~(k <= j)
    OBVIOUS
  <2> QED
    BY <1>2
<1>4. a[k] \in Nat /\ b[k] \in Nat /\ a[k] # b[k] /\ DOMAIN a = 1 .. 4 /\ DOMAIN b = 1 .. 4
  BY DEF Numbers
<1>5. a[k] < b[k] \/ b[k] < a[k]
  BY <1>4
<1> QED
  BY <1>3, <1>4, <1>5 DEF Less

\* no address before itself,
LEMMA LessStrict ==
  ASSUME NEW a \in Numbers
  PROVE  ~Less(a, a)
<1>1. \A k \in 1 .. 4 : a[k] \in Nat /\ ~(a[k] < a[k])
  BY DEF Numbers
<1>2. DOMAIN a = 1 .. 4
  BY DEF Numbers
<1> QED
  BY <1>1, <1>2 DEF Less

\* and what comes before one comes before what follows it.
LEMMA LessTransitive ==
  ASSUME NEW a \in Numbers, NEW b \in Numbers, NEW c \in Numbers, Less(a, b), Less(b, c)
  PROVE  Less(a, c)
<1>1. DOMAIN a = 1 .. 4 /\ DOMAIN b = 1 .. 4
      /\ \A k \in 1 .. 4 : a[k] \in Nat /\ b[k] \in Nat /\ c[k] \in Nat
  BY DEF Numbers
<1>2. PICK k \in 1 .. 4 : a[k] < b[k] /\ \A j \in 1 .. k - 1 : a[j] = b[j]
  BY <1>1 DEF Less
<1>3. PICK l \in 1 .. 4 : b[l] < c[l] /\ \A j \in 1 .. l - 1 : b[j] = c[j]
  BY <1>1 DEF Less
<1>4. CASE k < l
  <2>1. k \in 1 .. l - 1 /\ \A j \in 1 .. k - 1 : j \in 1 .. l - 1
    BY <1>4
  <2>2. a[k] < c[k] /\ \A j \in 1 .. k - 1 : a[j] = c[j]
    BY <1>2, <1>3, <2>1
  <2> QED
    BY <1>1, <2>2 DEF Less
<1>5. CASE l < k
  <2>1. l \in 1 .. k - 1 /\ \A j \in 1 .. l - 1 : j \in 1 .. k - 1
    BY <1>5
  <2>2. a[l] < c[l] /\ \A j \in 1 .. l - 1 : a[j] = c[j]
    BY <1>2, <1>3, <2>1
  <2> QED
    BY <1>1, <2>2 DEF Less
<1>6. CASE l = k
  <2>1. a[k] < c[k] /\ \A j \in 1 .. k - 1 : a[j] = c[j]
    BY <1>1, <1>2, <1>3, <1>6
  <2> QED
    BY <1>1, <2>1 DEF Less
<1> QED
  BY <1>4, <1>5, <1>6

\* An address and its port.
LEMMA AddressParts ==
  ASSUME NEW x \in Addresses, NEW y \in Addresses
  PROVE  /\ x.ip \in Numbers /\ x.port \in Nat /\ y.ip \in Numbers /\ y.port \in Nat
         /\ Same(x, y) <=> x = y
BY DEF Addresses, Numbers, Same

\* Peers are ordered as their addresses, and as their ports for one address.
LEMMA BeforeTotal ==
  ASSUME NEW x \in Addresses, NEW y \in Addresses, ~Before(x, y), ~Before(y, x)
  PROVE  x = y
<1>1. x.ip \in Numbers /\ x.port \in Nat /\ y.ip \in Numbers /\ y.port \in Nat
  BY AddressParts
<1>2. x.ip = y.ip
  BY <1>1, LessTotal DEF Before
<1>3. x.port = y.port
  <2>1. ~(x.port < y.port) /\ ~(y.port < x.port)
    BY <1>2 DEF Before
  <2> QED
    BY <1>1, <2>1
<1> QED
  BY <1>2, <1>3, AddressParts DEF Same

LEMMA BeforeStrict ==
  ASSUME NEW x \in Addresses
  PROVE  ~Before(x, x)
<1>1. x.ip \in Numbers /\ x.port \in Nat
  BY AddressParts
<1>2. ~(x.port < x.port)
  BY <1>1
<1> QED
  BY <1>1, <1>2, LessStrict DEF Before

LEMMA BeforeTransitive ==
  ASSUME NEW x \in Addresses, NEW y \in Addresses, NEW z \in Addresses,
         Before(x, y), Before(y, z)
  PROVE  Before(x, z)
<1>1. /\ x.ip \in Numbers /\ y.ip \in Numbers /\ z.ip \in Numbers
      /\ x.port \in Nat /\ y.port \in Nat /\ z.port \in Nat
  BY AddressParts
<1>2. CASE Less(x.ip, y.ip) /\ Less(y.ip, z.ip)
  BY <1>1, <1>2, LessTransitive DEF Before
<1>3. CASE Less(x.ip, y.ip) /\ y.ip = z.ip
  BY <1>3 DEF Before
<1>4. CASE x.ip = y.ip /\ Less(y.ip, z.ip)
  BY <1>4 DEF Before
<1>5. CASE x.ip = y.ip /\ x.port < y.port /\ y.ip = z.ip /\ y.port < z.port
  <2>1. x.port < z.port
    BY <1>1, <1>5
  <2> QED
    BY <1>5, <2>1 DEF Before
<1> QED
  BY <1>2, <1>3, <1>4, <1>5 DEF Before

-----------------------------------------------------------------------------
(***************************************************************************)
(* Sorting: the ranks of the elements are 1 .. Len, each once.             *)
(***************************************************************************)
Ahead(s, j, k) == Before(s[j], s[k]) \/ (~Before(s[k], s[j]) /\ j <= k)

Upto(s, k) == {j \in DOMAIN s : Ahead(s, j, k)}

\* Of two places one is ahead of the other, and what is ahead of it ahead of both.
LEMMA AheadOrder ==
  ASSUME NEW s \in Seq(Addresses), NEW j \in DOMAIN s, NEW k \in DOMAIN s
  PROVE  /\ Ahead(s, k, k)
         /\ Ahead(s, j, k) \/ Ahead(s, k, j)
         /\ Ahead(s, j, k) /\ Ahead(s, k, j) => j = k
         /\ Ahead(s, j, k) => \A i1 \in DOMAIN s : Ahead(s, i1, j) => Ahead(s, i1, k)
<1>1. DOMAIN s = 1 .. Len(s) /\ Len(s) \in Nat
  BY LenProperties
<1>2. \A i1 \in DOMAIN s : s[i1] \in Addresses /\ i1 \in Nat
  BY <1>1, ElementOfSeq
<1>3. \A i1, i2 \in DOMAIN s :
         Ahead(s, i1, i2) <=> Before(s[i1], s[i2]) \/ (s[i1] = s[i2] /\ i1 <= i2)
  BY <1>2, BeforeTotal, BeforeStrict DEF Ahead
<1>4. Ahead(s, k, k)
  BY <1>2, <1>3
<1>5. Ahead(s, j, k) \/ Ahead(s, k, j)
  <2>1. j <= k \/ k <= j
    BY <1>2
  <2>2. Before(s[j], s[k]) \/ Before(s[k], s[j]) \/ s[j] = s[k]
    BY <1>2, BeforeTotal
  <2> QED
    BY <1>3, <2>1, <2>2
<1>6. ASSUME Ahead(s, j, k), Ahead(s, k, j) PROVE j = k
  <2>1. ~(Before(s[j], s[k]) /\ Before(s[k], s[j]))
    BY <1>2, BeforeTransitive, BeforeStrict
  <2>2. ~Before(s[j], s[j])
    BY <1>2, BeforeStrict
  <2>3. j <= k /\ k <= j
    BY <1>3, <1>6, <2>1, <2>2
  <2> QED
    BY <1>2, <2>3
<1>7. ASSUME Ahead(s, j, k), NEW i1 \in DOMAIN s, Ahead(s, i1, j) PROVE Ahead(s, i1, k)
  <2>1. s[i1] \in Addresses /\ s[j] \in Addresses /\ s[k] \in Addresses
    BY <1>2
  <2>2. i1 <= j /\ j <= k => i1 <= k
    BY <1>2
  <2>3. Before(s[i1], s[j]) /\ Before(s[j], s[k]) => Before(s[i1], s[k])
    BY <2>1, BeforeTransitive
  <2> QED
    BY <1>3, <1>7, <2>2, <2>3
<1> QED
  BY <1>4, <1>5, <1>6, <1>7

\* A place further on has a higher rank.
LEMMA RankGrows ==
  ASSUME NEW s \in Seq(Addresses), NEW j \in DOMAIN s, NEW k \in DOMAIN s
  PROVE  /\ Rank(s, k) \in 1 .. Len(s)
         /\ Ahead(s, j, k) /\ j # k => Rank(s, j) < Rank(s, k)
<1>1. DOMAIN s = 1 .. Len(s) /\ Len(s) \in Nat
  BY LenProperties
<1>2. IsFiniteSet(1 .. Len(s)) /\ Cardinality(1 .. Len(s)) = Len(s)
  <2>1. 1 \in Int /\ Len(s) \in Int
    BY <1>1
  <2>2. IsFiniteSet(1 .. Len(s))
        /\ Cardinality(1 .. Len(s)) = IF 1 > Len(s) THEN 0 ELSE Len(s) - 1 + 1
    BY <2>1, FS_Interval
  <2> QED
    BY <1>1, <2>2
<1>3. \A i1 : Rank(s, i1) = Cardinality(Upto(s, i1)) /\ Upto(s, i1) \in SUBSET (1 .. Len(s))
  BY <1>1 DEF Rank, Upto, Ahead
<1>4. \A i1 : IsFiniteSet(Upto(s, i1)) /\ Cardinality(Upto(s, i1)) <= Len(s)
              /\ Cardinality(Upto(s, i1)) \in Nat
  BY <1>2, <1>3, FS_Subset, FS_CardinalityType
<1>5. Rank(s, k) \in 1 .. Len(s)
  <2>1. k \in Upto(s, k)
    BY AheadOrder DEF Upto
  <2>2. Cardinality(Upto(s, k)) # 0
    BY <1>4, <2>1, FS_EmptySet
  <2> QED
    BY <1>1, <1>3, <1>4, <2>2
<1>6. ASSUME Ahead(s, j, k), j # k PROVE Rank(s, j) < Rank(s, k)
  <2>1. Upto(s, j) \in SUBSET Upto(s, k)
    BY <1>6, AheadOrder DEF Upto
  <2>2. k \in Upto(s, k) /\ k \notin Upto(s, j)
    BY <1>6, AheadOrder DEF Upto
  <2>3. Cardinality(Upto(s, j)) <= Cardinality(Upto(s, k))
        /\ (Cardinality(Upto(s, k)) = Cardinality(Upto(s, j)) => Upto(s, k) = Upto(s, j))
    BY <1>4, <2>1, FS_Subset
  <2>4. Cardinality(Upto(s, j)) # Cardinality(Upto(s, k))
    BY <2>2, <2>3
  <2> QED
    BY <1>3, <1>4, <2>3, <2>4
<1> QED
  BY <1>5, <1>6

\* Every rank is some element's,
LEMMA EveryRank ==
  ASSUME NEW s \in Seq(Addresses), NEW r \in DOMAIN s
  PROVE  \E k \in DOMAIN s : Rank(s, k) = r
<1> DEFINE D == 1 .. Len(s)
           f == [k \in D |-> Rank(s, k)]
<1>1. DOMAIN s = D /\ D \subseteq Nat
  BY LenProperties
<1>2. \A j, k \in D : Rank(s, k) \in D /\ (j # k => Rank(s, j) # Rank(s, k))
  <2> TAKE j, k \in D
  <2>1. Rank(s, k) \in D /\ Rank(s, j) \in D /\ Rank(s, k) \in Nat /\ Rank(s, j) \in Nat
    BY <1>1, RankGrows
  <2>2. j # k => Rank(s, j) < Rank(s, k) \/ Rank(s, k) < Rank(s, j)
    BY <1>1, AheadOrder, RankGrows
  <2> QED
    BY <2>1, <2>2
<1>3. IsFiniteSet(D)
  <2> 1 \in Int /\ Len(s) \in Int
    BY LenProperties
  <2> QED
    BY FS_Interval
<1> HIDE DEF D
<1>4. f \in Injection(D, D)
  BY <1>2 DEF Injection, IsInjective
<1>5. f \in Surjection(D, D)
  BY <1>3, <1>4, FS_Injection
<1>6. \E k \in D : f[k] = r
  BY <1>1, <1>5 DEF Surjection
<1> QED
  BY <1>1, <1>6

\* so that std::sort leaves the same elements, none before an earlier one.
LEMMA SortedSorts ==
  ASSUME NEW s \in Seq(Addresses)
  PROVE  /\ Sorted(s) \in Seq(Addresses) /\ Len(Sorted(s)) = Len(s)
         /\ ToSet(Sorted(s)) = ToSet(s)
         /\ \A q, r \in 1 .. Len(s) : q < r => ~Before(Sorted(s)[r], Sorted(s)[q])
<1> DEFINE at(r) == CHOOSE k \in DOMAIN s : Rank(s, k) = r
           t == Sorted(s)
<1>1. DOMAIN s = 1 .. Len(s) /\ Len(s) \in Nat /\ \A k \in DOMAIN s : s[k] \in Addresses
  BY LenProperties, ElementOfSeq
<1>2. \A r \in DOMAIN s : at(r) \in DOMAIN s /\ Rank(s, at(r)) = r
  BY EveryRank
<1>3. t = [r \in 1 .. Len(s) |-> s[at(r)]]
  BY <1>1 DEF Sorted
<1> HIDE DEF at, t
<1>4. t \in [1 .. Len(s) -> Addresses]
  BY <1>1, <1>2, <1>3
<1>5. t \in Seq(Addresses) /\ Len(t) = Len(s) /\ DOMAIN t = DOMAIN s
  BY <1>1, <1>4
<1>6. \A k \in DOMAIN s : at(Rank(s, k)) = k
  <2> TAKE k \in DOMAIN s
  <2> DEFINE j == at(Rank(s, k))
  <2>1. Rank(s, k) \in DOMAIN s
    BY <1>1, RankGrows
  <2>2. j \in DOMAIN s /\ Rank(s, j) = Rank(s, k)
    BY <1>2, <2>1
  <2> HIDE DEF j
  <2>3. ~(Rank(s, j) < Rank(s, k)) /\ ~(Rank(s, k) < Rank(s, j))
    BY <1>1, <2>1, <2>2
  <2>4. j = k
    BY <2>2, <2>3, AheadOrder, RankGrows
  <2> QED
    BY <2>4 DEF j
<1>7. ToSet(t) = ToSet(s)
  <2>1. \A r \in DOMAIN s : t[r] = s[at(r)] /\ at(r) \in DOMAIN s
    BY <1>1, <1>2, <1>3
  <2>2. \A k \in DOMAIN s : Rank(s, k) \in DOMAIN s /\ t[Rank(s, k)] = s[k]
    BY <1>1, <1>6, <2>1, RankGrows
  <2> QED
    BY <1>5, <2>1, <2>2 DEF ToSet
<1>8. ASSUME NEW q \in 1 .. Len(s), NEW r \in 1 .. Len(s), q < r PROVE ~Before(t[r], t[q])
  <2> DEFINE j == at(q)
             k == at(r)
  <2>1. j \in DOMAIN s /\ k \in DOMAIN s /\ Rank(s, j) = q /\ Rank(s, k) = r
        /\ t[q] = s[j] /\ t[r] = s[k]
    BY <1>1, <1>2, <1>3
  <2> HIDE DEF j, k
  <2>2. ~(r < q) /\ q # r
    BY <1>8
  <2>3. ~Ahead(s, k, j)
    BY <2>1, <2>2, RankGrows
  <2> QED
    BY <2>1, <2>3 DEF Ahead
<1> QED
  BY <1>5, <1>7, <1>8 DEF t

-----------------------------------------------------------------------------
(***************************************************************************)
(* std::unique, element by element.                                        *)
(***************************************************************************)
Repeats(s, n) == n > 1 /\ Same(s[n - 1], s[n])

\* The function in Unique: what is kept of the first n elements.
KeptTo(f, s, L) ==
    /\ f[0] = <<>>
    /\ \A n \in 1 .. L : f[n] = IF Repeats(s, n) THEN f[n - 1] ELSE Append(f[n - 1], s[n])

\* Something is kept after every element,
LEMMA KeptExists ==
  ASSUME NEW s \in Seq(Addresses), NEW L \in Nat, L <= Len(s)
  PROVE  \E f \in [0 .. L -> Seq(Addresses)] : KeptTo(f, s, L)
<1> DEFINE P == {N \in Nat : N <= L => \E f \in [0 .. N -> Seq(Addresses)] : KeptTo(f, s, N)}
<1>1. 0 \in P
  <2> DEFINE g == [n \in 0 .. 0 |-> <<>>]
  <2>1. g \in [0 .. 0 -> Seq(Addresses)]
    BY EmptySeq
  <2>2. KeptTo(g, s, 0)
    BY DEF KeptTo
  <2> HIDE DEF g
  <2> QED
    BY <2>1, <2>2
<1>2. ASSUME NEW N \in Nat, N \in P PROVE N + 1 \in P
  <2> SUFFICES ASSUME N + 1 <= L
               PROVE  \E f \in [0 .. N + 1 -> Seq(Addresses)] : KeptTo(f, s, N + 1)
    OBVIOUS
  <2>1. PICK f \in [0 .. N -> Seq(Addresses)] : KeptTo(f, s, N)
    BY <1>2
  <2> DEFINE x == IF Repeats(s, N + 1) THEN f[N] ELSE Append(f[N], s[N + 1])
             g == [n \in 0 .. N + 1 |-> IF n = N + 1 THEN x ELSE f[n]]
  <2>2. x \in Seq(Addresses)
    <3>1. f[N] \in Seq(Addresses) /\ N + 1 \in 1 .. Len(s)
      BY LenProperties
    <3>2. s[N + 1] \in Addresses
      BY <3>1, ElementOfSeq
    <3>3. Append(f[N], s[N + 1]) \in Seq(Addresses)
      BY <3>1, <3>2, AppendProperties
    <3> QED
      BY <3>1, <3>3
  <2>3. g \in [0 .. N + 1 -> Seq(Addresses)]
    <3> HIDE DEF x
    <3> QED
      BY <2>2
  <2>4. g[0] = f[0] /\ g[N + 1] = x /\ g[N] = f[N] /\ \A n \in 1 .. N : g[n] = f[n] /\ g[n - 1] = f[n - 1]
    <3> HIDE DEF x
    <3> QED
      OBVIOUS
  <2> HIDE DEF g
  <2>5. KeptTo(g, s, N + 1)
    <3>1. \A n \in 1 .. N + 1 : n = N + 1 \/ n \in 1 .. N
      OBVIOUS
    <3>2. (N + 1) - 1 = N
      OBVIOUS
    <3>3. ASSUME NEW n \in 1 .. N + 1
          PROVE  g[n] = IF Repeats(s, n) THEN g[n - 1] ELSE Append(g[n - 1], s[n])
      <4>1. CASE n = N + 1
        BY <2>4, <3>2, <4>1
      <4>2. CASE n \in 1 .. N
        BY <2>1, <2>4, <4>2 DEF KeptTo
      <4> QED
        BY <3>1, <4>1, <4>2
    <3> QED
      BY <2>1, <2>4, <3>3 DEF KeptTo
  <2> QED
    BY <2>3, <2>5
<1>3. L \in P
  BY <1>1, <1>2, SetInduction
<1> QED
  BY <1>3

\* and Unique is what is kept at the end.
LEMMA UniqueDef ==
  ASSUME NEW s \in Seq(Addresses)
  PROVE  \E f : KeptTo(f, s, Len(s)) /\ Unique(s) = f[Len(s)]
<1> DEFINE L == Len(s)
           Body(f) == [n \in 0 .. L |->
                          IF n = 0 THEN <<>>
                          ELSE IF n > 1 /\ Same(s[n - 1], s[n]) THEN f[n - 1]
                          ELSE Append(f[n - 1], s[n])]
           kept == CHOOSE f : f = Body(f)
<1>1. L \in Nat /\ L <= Len(s)
  BY LenProperties
<1>2. Unique(s) = kept[L]
  BY DEF Unique
<1>3. PICK h \in [0 .. L -> Seq(Addresses)] : KeptTo(h, s, L)
  BY <1>1, KeptExists
<1>4. h = Body(h)
  <2>1. \A n \in 0 .. L : n = 0 \/ n \in 1 .. L
    OBVIOUS
  <2>2. \A n \in 0 .. L : h[n] = Body(h)[n]
    BY <1>3, <2>1 DEF KeptTo, Repeats
  <2> QED
    BY <2>2
<1>5. kept = Body(kept)
  <2> HIDE DEF Body
  <2> QED
    BY <1>4
<1> HIDE DEF kept
<1>6. KeptTo(kept, s, L)
  <2>1. \A n \in 1 .. L : n \in 0 .. L /\ n # 0
    OBVIOUS
  <2>2. 0 \in 0 .. L
    BY <1>1
  <2> QED
    BY <1>5, <2>1, <2>2 DEF KeptTo, Repeats
<1> QED
  BY <1>2, <1>6

\* The values of a sequence and of one that is longer by an element.
LEMMA ValuesOfAppend ==
  ASSUME NEW f \in Seq(Addresses), NEW x \in Addresses
  PROVE  ToSet(Append(f, x)) = ToSet(f) \cup {x}
<1> DEFINE g == Append(f, x)
<1>1. /\ g \in Seq(Addresses) /\ Len(g) = Len(f) + 1
      /\ \A n \in 1 .. Len(f) : g[n] = f[n]
      /\ g[Len(f) + 1] = x
  BY AppendProperties
<1> HIDE DEF g
<1>2. DOMAIN f = 1 .. Len(f) /\ DOMAIN g = 1 .. Len(f) + 1 /\ Len(f) \in Nat
  BY <1>1, LenProperties
<1>3. \A n \in 1 .. Len(f) + 1 : n \in 1 .. Len(f) \/ n = Len(f) + 1
  BY <1>2
<1>4. \A n \in 1 .. Len(f) : n \in 1 .. Len(f) + 1
  BY <1>2
<1>5. Len(f) + 1 \in 1 .. Len(f) + 1
  BY <1>2
<1>6. ToSet(g) = ToSet(f) \cup {x}
  BY <1>1, <1>2, <1>3, <1>4, <1>5 DEF ToSet
<1> QED
  BY <1>6 DEF g

Once(s) == \A j, k \in DOMAIN s : s[j] = s[k] => j = k

\* A new value at the end leaves every value there once.
LEMMA OnceMore ==
  ASSUME NEW f \in Seq(Addresses), NEW x \in Addresses, Once(f), x \notin ToSet(f)
  PROVE  Once(Append(f, x))
<1> DEFINE g == Append(f, x)
<1>1. /\ g \in Seq(Addresses) /\ Len(g) = Len(f) + 1
      /\ \A n \in 1 .. Len(f) : g[n] = f[n]
      /\ g[Len(f) + 1] = x
  BY AppendProperties
<1> HIDE DEF g
<1>2. DOMAIN f = 1 .. Len(f) /\ DOMAIN g = 1 .. Len(f) + 1 /\ Len(f) \in Nat
  BY <1>1, LenProperties
<1>3. \A n \in 1 .. Len(f) + 1 : n \in 1 .. Len(f) \/ n = Len(f) + 1
  BY <1>2
<1>4. \A n \in 1 .. Len(f) : g[n] # x
  BY <1>1, <1>2 DEF ToSet
<1>5. Once(g)
  BY <1>1, <1>2, <1>3, <1>4 DEF Once
<1> QED
  BY <1>5 DEF g

Ordered(s) == \A q, r \in 1 .. Len(s) : q < r => ~Before(s[r], s[q])

\* Of ordered elements std::unique leaves every value, and once.
LEMMA UniqueKeeps ==
  ASSUME NEW s \in Seq(Addresses), Ordered(s)
  PROVE  /\ Unique(s) \in Seq(Addresses)
         /\ ToSet(Unique(s)) = ToSet(s)
         /\ Once(Unique(s))
<1> DEFINE L == Len(s)
           To(n) == {s[j] : j \in 1 .. n}
<1>1. L \in Nat /\ DOMAIN s = 1 .. L /\ \A n \in 1 .. L : s[n] \in Addresses
  BY LenProperties, ElementOfSeq
<1>2. PICK f : KeptTo(f, s, L) /\ Unique(s) = f[L]
  BY UniqueDef
<1> DEFINE Good(n) == f[n] \in Seq(Addresses) /\ ToSet(f[n]) = To(n) /\ Once(f[n])
           P == {n \in Nat : n <= L => Good(n)}
<1>3. 0 \in P
  <2>1. f[0] = <<>>
    BY <1>2 DEF KeptTo
  <2>2. <<>> \in Seq(Addresses)
    BY EmptySeq
  <2>3. To(0) = {}
    OBVIOUS
  <2>4. DOMAIN <<>> = {}
    OBVIOUS
  <2>5. ToSet(<<>>) = {} /\ Once(<<>>)
    BY <2>4 DEF ToSet, Once
  <2> QED
    BY <2>1, <2>2, <2>3, <2>5
<1>4. ASSUME NEW n \in Nat, n \in P PROVE n + 1 \in P
  <2> SUFFICES ASSUME n + 1 <= L PROVE Good(n + 1)
    OBVIOUS
  <2> DEFINE x == s[n + 1]
  <2>1. f[n + 1] = IF Repeats(s, n + 1) THEN f[n] ELSE Append(f[n], x)
    <3> n + 1 \in 1 .. L /\ (n + 1) - 1 = n
      BY <1>1
    <3> QED
      BY <1>2 DEF KeptTo
  <2>2. Good(n)
    BY <1>1, <1>4
  <2>3. x \in Addresses
    BY <1>1
  <2>4. To(n + 1) = To(n) \cup {x}
    <3>1. \A j \in 1 .. n + 1 : j \in 1 .. n \/ j = n + 1
      OBVIOUS
    <3>2. (\A j \in 1 .. n : j \in 1 .. n + 1) /\ n + 1 \in 1 .. n + 1
      OBVIOUS
    <3> QED
      BY <3>1, <3>2
  <2>5. Repeats(s, n + 1) <=> n \in 1 .. L /\ s[n] = x
    <3>1. n + 1 > 1 <=> n \in 1 .. L
      BY <1>1
    <3>2. (n + 1) - 1 = n
      OBVIOUS
    <3>3. n \in 1 .. L => (Same(s[n], x) <=> s[n] = x)
      BY <1>1, <2>3, AddressParts
    <3> QED
      BY <3>1, <3>2, <3>3 DEF Repeats
  <2>6. CASE Repeats(s, n + 1)
    <3>1. x \in To(n)
      <4> n \in 1 .. n
        BY <2>5, <2>6
      <4> QED
        BY <2>5, <2>6
    <3> HIDE DEF To, x
    <3>2. To(n) \cup {x} = To(n)
      BY <3>1
    <3> QED
      BY <2>1, <2>2, <2>4, <2>6, <3>2
  <2>7. CASE ~Repeats(s, n + 1)
    <3>1. x \notin To(n)
      <4> SUFFICES ASSUME NEW j \in 1 .. n, s[j] = x PROVE FALSE
        OBVIOUS
      <4>1. n \in 1 .. L /\ j \in 1 .. L /\ n + 1 \in 1 .. L /\ n < n + 1
        BY <1>1
      <4>2. s[n] # x
        BY <2>5, <2>7, <4>1
      <4>3. j < n
        BY <4>2
      <4>4. ~Before(s[n], s[j]) /\ ~Before(s[n + 1], s[n])
        BY <4>1, <4>3 DEF Ordered
      <4>5. s[n] = x
        BY <1>1, <2>3, <4>1, <4>4, BeforeTotal
      <4> QED
        BY <4>2, <4>5
    <3> HIDE DEF To, x
    <3>2. f[n + 1] = Append(f[n], x)
      BY <2>1, <2>7
    <3>3. Append(f[n], x) \in Seq(Addresses)
      BY <2>2, <2>3, AppendProperties
    <3>4. ToSet(Append(f[n], x)) = To(n) \cup {x}
      BY <2>2, <2>3, ValuesOfAppend
    <3>5. Once(Append(f[n], x))
      BY <2>2, <2>3, <3>1, OnceMore
    <3> QED
      BY <2>4, <3>2, <3>3, <3>4, <3>5
  <2> QED
    BY <2>6, <2>7
<1>5. L \in P
  BY <1>1, <1>3, <1>4, SetInduction
<1>6. To(L) = ToSet(s)
  BY <1>1 DEF ToSet
<1>7. Good(L)
  <2> HIDE DEF Good
  <2> QED
    BY <1>1, <1>5
<1>8. f[L] \in Seq(Addresses) /\ ToSet(f[L]) = ToSet(s) /\ Once(f[L])
  BY <1>6, <1>7
<1> QED
  BY <1>2, <1>8

\* The merged peers are those that were collected, each once.
LEMMA MergedOnce ==
  ASSUME NEW s \in Seq(Addresses)
  PROVE  /\ SortAndUnique(s) \in Seq(Addresses)
         /\ ToSet(SortAndUnique(s)) = ToSet(s)
         /\ Once(SortAndUnique(s))
<1> DEFINE t == Sorted(s)
<1>1. t \in Seq(Addresses) /\ Ordered(t) /\ ToSet(t) = ToSet(s)
  BY SortedSorts DEF Ordered
<1> HIDE DEF t
<1>2. Unique(t) \in Seq(Addresses) /\ ToSet(Unique(t)) = ToSet(s) /\ Once(Unique(t))
  BY <1>1, UniqueKeeps
<1> QED
  BY <1>2 DEF SortAndUnique, t

-----------------------------------------------------------------------------
(***************************************************************************)
(* The cycle.  While trackers are asked, all_peers holds what they named;  *)
(* once it is merged, each of them once.                                   *)
(***************************************************************************)
CollectInv ==
    /\ length \in Lengths
    /\ place \in {"Load", "Construct"} => recorded = <<>>
    /\ RecordedAsMeant
    /\ all_peers \in Seq(Addresses)
    /\ place = "Ask" => ToSet(all_peers) = named
    /\ StartsWithEveryPeerOnce

\* The values of two sequences, one behind the other.
LEMMA ConcatValues ==
  ASSUME NEW s \in Seq(Addresses), NEW t \in Seq(Addresses)
  PROVE  s \o t \in Seq(Addresses) /\ ToSet(s \o t) = ToSet(s) \cup ToSet(t)
<1> DEFINE c == s \o t
           m == Len(s)
           n == Len(t)
<1>1. /\ c \in Seq(Addresses) /\ Len(c) = m + n
      /\ \A k \in 1 .. m + n : c[k] = IF k <= m THEN s[k] ELSE t[k - m]
  BY ConcatProperties
<1>2. m \in Nat /\ n \in Nat /\ DOMAIN s = 1 .. m /\ DOMAIN t = 1 .. n
  BY LenProperties
<1> HIDE DEF c, m, n
<1>3. DOMAIN c = 1 .. m + n
  BY <1>1, LenProperties
<1>4. \A k \in 1 .. m : k \in 1 .. m + n /\ k <= m
  BY <1>2
<1>5. \A k \in 1 .. n : k + m \in 1 .. m + n /\ ~(k + m <= m) /\ (k + m) - m = k
  BY <1>2
<1>6. \A k \in 1 .. m + n : k \in 1 .. m \/ (~(k <= m) /\ k - m \in 1 .. n)
  BY <1>2
<1>7. \A k \in 1 .. m : c[k] = s[k]
  BY <1>1, <1>4
<1>8. \A k \in 1 .. n : c[k + m] = t[k]
  BY <1>1, <1>5
<1>9. \A k \in 1 .. m + n : (k \in 1 .. m /\ c[k] = s[k]) \/ (k - m \in 1 .. n /\ c[k] = t[k - m])
  BY <1>1, <1>6, <1>7
<1>10. ToSet(c) = ToSet(s) \cup ToSet(t)
  <2>1. /\ ToSet(c) = {c[k] : k \in 1 .. m + n}
        /\ ToSet(s) = {s[k] : k \in 1 .. m} /\ ToSet(t) = {t[k] : k \in 1 .. n}
    BY <1>2, <1>3 DEF ToSet
  <2>2. ToSet(c) \subseteq ToSet(s) \cup ToSet(t)
    BY <1>9, <2>1
  <2>3. ToSet(s) \subseteq ToSet(c)
    BY <1>4, <1>7, <2>1
  <2>4. \A k \in 1 .. n : t[k] \in ToSet(c)
    BY <1>5, <1>8, <2>1
  <2>5. ToSet(t) \subseteq ToSet(c)
    BY <2>1, <2>4
  <2> QED
    BY <2>2, <2>3, <2>5
<1> QED
  BY <1>1, <1>10 DEF c

\* One announce to a UDP tracker, over both packets and both answers.
LEMMA UdpAsked ==
  ASSUME NEW id \in Ids, NEW r \in Randoms, NEW s \in Randoms, NEW compact \in Seq(Byte),
         length \in Lengths, AskUdp(id, r, s, compact)
  PROVE  /\ \E peers : Lists(peers, compact) /\ UpdatePeers(peers)
         /\ recorded' = [as |-> Meant(id, length), id |-> id]
         /\ named' = named \cup Swarm(compact)
<1> DEFINE connected == ConnectAnswer(ConnectRequest(r), id)
           request   == AnnounceRequest(ConnectionId(connected), s, length)
           response  == AnnounceAnswer(request, compact)
           peers     == IF Accepted(connected, 0, r, 16) /\ Accepted(response, 1, s, 20)
                        THEN PeersIn(response) ELSE <<>>
<1>1. /\ UpdatePeers(peers)
      /\ recorded' = [as |-> Announced(request), id |-> id]
      /\ named' = named \cup Swarm(compact)
  BY DEF AskUdp
<1>2. Accepted(connected, 0, r, 16) /\ ConnectionId(connected) = id
  BY ConnectionMade
<1> HIDE DEF connected
<1>3. Announced(request) = Meant(id, length) /\ Field(request, 12, 4) = IntToBytes(s)
  BY <1>2, AnnounceRead
<1> HIDE DEF request
<1>4. Accepted(response, 1, s, 20) /\ Lists(PeersIn(response), compact)
  BY <1>3, AnnounceAnswered
<1> HIDE DEF response
<1>5. Lists(peers, compact)
  BY <1>2, <1>4
<1> HIDE DEF peers
<1> QED
  BY <1>1, <1>3, <1>5

\* Peers that a tracker named are taken.
LEMMA PeersTaken ==
  ASSUME CollectInv, NEW bytes, NEW peers, Lists(peers, bytes),
         UpdatePeers(peers), named' = named \cup Swarm(bytes)
  PROVE  /\ all_peers' \in Seq(Addresses) /\ ToSet(all_peers') = named'
         /\ length' = length /\ place' = "Ask"
<1>1. place = "Ask" /\ all_peers' = all_peers \o peers /\ UNCHANGED <<layoutVars, place>>
  BY DEF UpdatePeers
<1>2. all_peers \in Seq(Addresses) /\ ToSet(all_peers) = named
  BY <1>1 DEF CollectInv
<1>3. /\ all_peers \o peers \in Seq(Addresses)
      /\ ToSet(all_peers \o peers) = ToSet(all_peers) \cup ToSet(peers)
  BY <1>2, ConcatValues DEF Lists
<1> QED
  BY <1>1, <1>2, <1>3 DEF Lists, layoutVars

\* No step loses a peer, takes one twice, or changes what was announced.
THEOREM CollectInvariance == CollectSpec => []CollectInv
<1>1. CollectInit => CollectInv
  <2> SUFFICES ASSUME CollectInit PROVE CollectInv
    OBVIOUS
  <2>1. length = 0 /\ place = "Load" /\ recorded = <<>> /\ all_peers = <<>>
    BY DEF CollectInit, CycleInit, LayoutInit
  <2>2. 0 \in Lengths
    <3>1. Values(8) \in Nat /\ Values(8) >= 16
      BY IntSizes
    <3> DEFINE v == Values(8)
    <3> HIDE DEF v
    <3>2. v \in Nat /\ v >= 16 => 0 \in 0 .. v \div 2 - 1
      OBVIOUS
    <3> QED
      BY <3>1, <3>2 DEF v, Lengths
  <2>3. all_peers \in Seq(Addresses)
    BY <2>1, EmptySeq
  <2> QED
    BY <2>1, <2>2, <2>3 DEF CollectInv, RecordedAsMeant, StartsWithEveryPeerOnce
<1>2. CollectInv /\ [CollectNext]_collectVars => CollectInv'
  <2> SUFFICES ASSUME CollectInv, [CollectNext]_collectVars PROVE CollectInv'
    OBVIOUS
  <2> USE DEF CollectInv, RecordedAsMeant, StartsWithEveryPeerOnce
  <2>1. CASE LoadTorrentFile /\ UNCHANGED answerVars
    BY <2>1 DEF LoadTorrentFile, answerVars, layoutVars, askVars
  <2>2. ASSUME NEW l \in Lengths, NEW p \in Nat \ {0}, NEW n \in Nat, BeginStorage(l, p, n),
               UNCHANGED answerVars
        PROVE  CollectInv'
    BY <2>2 DEF BeginStorage, Construct, answerVars, askVars
  <2>3. ASSUME NEW announce \in STRING, EndStorage(announce), UNCHANGED answerVars
        PROVE  CollectInv'
    BY <2>3 DEF EndStorage, answerVars, layoutVars, askVars
  <2>4. CASE Fails /\ UNCHANGED answerVars
    BY <2>4 DEF Fails, answerVars, layoutVars, askVars
  <2>5. CASE FillStorage /\ UNCHANGED answerVars
    BY <2>5 DEF FillStorage, WriteChunk, PushBlock, answerVars, askVars
  <2>6. CASE UpdatePeersThrows /\ UNCHANGED answerVars
    <3>1. all_peers' = all_peers \o <<>>
      BY <2>6 DEF UpdatePeersThrows, UpdatePeers
    <3>2. all_peers' = all_peers
      BY <3>1, ConcatEmptySeq
    <3> QED
      BY <2>6, <3>2 DEF UpdatePeersThrows, UpdatePeers, answerVars, layoutVars
  <2>7. CASE Merge /\ UNCHANGED answerVars
    <3>1. /\ SortAndUnique(all_peers) \in Seq(Addresses)
          /\ ToSet(SortAndUnique(all_peers)) = ToSet(all_peers)
          /\ Once(SortAndUnique(all_peers))
      BY MergedOnce
    <3>2. /\ place = "Ask" /\ all_peers' = SortAndUnique(all_peers)
          /\ place' \in {"Cycle", "Run"} /\ UNCHANGED <<length, named, recorded>>
      BY <2>7 DEF Merge, layoutVars, answerVars
    <3>3. ToSet(all_peers') = named' /\ Once(all_peers')
      BY <3>1, <3>2
    <3> QED
      BY <3>1, <3>2, <3>3 DEF Once
  <2>8. CASE Report /\ UNCHANGED answerVars
    BY <2>8 DEF Report, answerVars, layoutVars, askVars
  <2>9. CASE RunWithoutConnections /\ UNCHANGED answerVars
    BY <2>9 DEF RunWithoutConnections, AfterRun, answerVars, layoutVars, askVars
  <2>10. CASE RunDownloadMultithread /\ UNCHANGED answerVars
    BY <2>10 DEF RunDownloadMultithread, answerVars, layoutVars, askVars
  <2>11. CASE EndDownload /\ UNCHANGED answerVars
    BY <2>11 DEF EndDownload, AfterRun, answerVars, layoutVars, askVars
  <2>12. ASSUME NEW k \in Pieces, SaveQueued(k), UNCHANGED answerVars PROVE CollectInv'
    BY <2>12 DEF SaveQueued, SavePiece, answerVars, askVars
  <2>13. CASE NextCycle
    <3>1. /\ all_peers' = <<>> /\ named' = {} /\ recorded' = <<>> /\ length' = length
          /\ place' \in {"Ask", "Report"}
      BY <2>13 DEF NextCycle, Cycle, layoutVars
    <3>2. <<>> \in Seq(Addresses)
      BY EmptySeq
    <3>3. DOMAIN <<>> = {}
      OBVIOUS
    <3>4. ToSet(<<>>) = {}
      BY <3>3 DEF ToSet
    <3> QED
      BY <3>1, <3>2, <3>4
  <2>14. ASSUME NEW compact \in Seq(Byte),
                AskHttp(ParseCompactBinaryPeers(compact), Swarm(compact))
         PROVE  CollectInv'
    <3>1. /\ all_peers' \in Seq(Addresses) /\ ToSet(all_peers') = named'
          /\ length' = length /\ place' = "Ask"
      BY <2>14, ParsedPeers, PeersTaken DEF AskHttp
    <3>2. recorded' = recorded
      BY <2>14 DEF AskHttp
    <3> QED
      BY <3>1, <3>2
  <2>15. ASSUME NEW id \in Ids, NEW r \in Randoms, NEW s \in Randoms,
                NEW compact \in Seq(Byte), AskUdp(id, r, s, compact)
         PROVE  CollectInv'
    <3>1. /\ \E peers : Lists(peers, compact) /\ UpdatePeers(peers)
          /\ recorded' = [as |-> Meant(id, length), id |-> id]
          /\ named' = named \cup Swarm(compact)
      BY <2>15, UdpAsked
    <3>2. /\ all_peers' \in Seq(Addresses) /\ ToSet(all_peers') = named'
          /\ length' = length /\ place' = "Ask"
      BY <3>1, PeersTaken
    <3>3. recorded'.as = Meant(recorded'.id, length)
      BY <3>1
    <3> QED
      BY <3>2, <3>3
  <2>16. CASE UNCHANGED collectVars
    BY <2>16 DEF collectVars, cycleVars, answerVars, layoutVars, askVars
  <2> QED
    BY <2>1, <2>2, <2>3, <2>4, <2>5, <2>6, <2>7, <2>8, <2>9, <2>10, <2>11, <2>12, <2>13,
       <2>14, <2>15, <2>16 DEF CollectNext, Prepare, Unasked
<1> QED
  BY <1>1, <1>2, PTL DEF CollectSpec

\* Every UDP tracker reads the session, hash, identity, port and length that are meant.
THEOREM RecordsAsMeant == CollectSpec => []RecordedAsMeant
<1>1. CollectInv => RecordedAsMeant
  BY DEF CollectInv
<1> QED
  BY <1>1, CollectInvariance, PTL

\* The download starts with every peer named in this cycle, and with each once.
THEOREM EveryPeerOnce == CollectSpec => []StartsWithEveryPeerOnce
<1>1. CollectInv => StartsWithEveryPeerOnce
  BY DEF CollectInv
<1> QED
  BY <1>1, CollectInvariance, PTL

\* With its bytes the cycle is still the one of TrackerCycle (refinement): every answer
\* gives it a list of addresses.
THEOREM ImplementsCycle == CollectSpec => CycleSpec
<1>1. CollectInit => CycleInit
  BY DEF CollectInit
<1>2. CollectInv /\ [CollectNext]_collectVars => [CycleNext]_cycleVars
  <2> SUFFICES ASSUME CollectInv, [CollectNext]_collectVars PROVE [CycleNext]_cycleVars
    OBVIOUS
  <2>1. CASE Prepare
    <3>1. Lengths \subseteq Nat
      BY DEF Lengths
    <3>2. ASSUME NEW l \in Lengths, NEW p \in Nat \ {0}, NEW n \in Nat, BeginStorage(l, p, n)
          PROVE  \E l2, n2 \in Nat, p2 \in Nat \ {0} : BeginStorage(l2, p2, n2)
      BY <3>1, <3>2
    <3> QED
      BY <2>1, <3>2 DEF Prepare, CycleNext
  <2>2. CASE Unasked
    <3>1. UpdatePeersThrows => \E peers \in Seq(Addresses) : UpdatePeers(peers)
      <4> <<>> \in Seq(Addresses)
        BY EmptySeq
      <4> QED
        BY DEF UpdatePeersThrows
    <3> QED
      BY <2>2, <3>1 DEF Unasked, CycleNext
  <2>3. CASE NextCycle
    BY <2>3 DEF NextCycle, CycleNext
  <2>4. ASSUME NEW compact \in Seq(Byte),
               AskHttp(ParseCompactBinaryPeers(compact), Swarm(compact))
        PROVE  CycleNext
    <3>1. ParseCompactBinaryPeers(compact) \in Seq(Addresses)
      BY ParsedPeers DEF Lists
    <3> QED
      BY <2>4, <3>1 DEF AskHttp, CycleNext
  <2>5. ASSUME NEW id \in Ids, NEW r \in Randoms, NEW s \in Randoms,
               NEW compact \in Seq(Byte), AskUdp(id, r, s, compact)
        PROVE  CycleNext
    <3>1. length \in Lengths
      BY DEF CollectInv
    <3>2. \E peers : Lists(peers, compact) /\ UpdatePeers(peers)
      BY <2>5, <3>1, UdpAsked
    <3> QED
      BY <3>2 DEF Lists, CycleNext
  <2>6. CASE UNCHANGED collectVars
    BY <2>6 DEF collectVars
  <2> QED
    BY <2>1, <2>2, <2>3, <2>4, <2>5, <2>6 DEF CollectNext
<1> QED
  BY <1>1, <1>2, CollectInvariance, PTL DEF CollectSpec, CycleSpec

-----------------------------------------------------------------------------
(***************************************************************************)
(* The main thread implements the layout of the file, so that what is      *)
(* proved of FileLayout holds of it; and DownloadFromTracker is never left *)
(* with pieces missing, whatever the trackers answer and however often:    *)
(* what main prints after it is true, unless a write failed.  The reason   *)
(* is not the retry limit but that it is never reached: the queue is       *)
(* refilled, and the retry counted, when it is empty while pieces are      *)
(* missing, and between two runs of the download it has them all.          *)
(***************************************************************************)

\* The main thread makes and writes pieces as FileLayout has it (refinement).
THEOREM ImplementsLayout == CycleSpec => LayoutSpec
<1>1. CycleInit => LayoutInit
  BY DEF CycleInit
<1>2. [CycleNext]_cycleVars => [LayoutNext]_layoutVars
  <2> SUFFICES ASSUME [CycleNext]_cycleVars PROVE [LayoutNext]_layoutVars
    OBVIOUS
  <2>1. ASSUME NEW l \in Nat, NEW n \in Nat, NEW p \in Nat \ {0}, BeginStorage(l, p, n)
        PROVE  LayoutNext
    BY <2>1 DEF BeginStorage, LayoutNext
  <2>2. CASE FillStorage
    BY <2>2 DEF FillStorage, LayoutNext
  <2>3. ASSUME NEW k \in Pieces, SaveQueued(k) PROVE LayoutNext
    BY <2>3 DEF SaveQueued, LayoutNext
  <2>4. CASE \/ LoadTorrentFile \/ Fails \/ Cycle \/ Merge \/ Report
             \/ RunWithoutConnections \/ RunDownloadMultithread \/ EndDownload
             \/ \E announce \in STRING : EndStorage(announce)
             \/ \E peers \in Seq(Addresses) : UpdatePeers(peers)
    BY <2>4 DEF LoadTorrentFile, Fails, EndStorage, Cycle, UpdatePeers, Merge, Report,
                RunWithoutConnections, RunDownloadMultithread, EndDownload
  <2>5. CASE UNCHANGED cycleVars
    BY <2>5 DEF cycleVars
  <2> QED
    BY <2>1, <2>2, <2>3, <2>4, <2>5 DEF CycleNext
<1> QED
  BY <1>1, <1>2, PTL DEF CycleSpec, LayoutSpec

-----------------------------------------------------------------------------
Early == {"Load", "Construct", "Storage"}

CycleInv ==
    /\ retry_count = 0
    /\ place \in Early => saved = {}
    /\ place \in {"Cycle", "Ask", "Run", "Download"} => queued = Pieces \ saved
    /\ is_terminated => IsDownloadComplete /\ place \in {"Cycle", "Report", "Exit"}
    /\ place = "Report" => IsDownloadComplete
    /\ outcome = "success" => IsDownloadComplete /\ place = "Exit"
    /\ saved \subseteq Pieces

\* Steps that leave the pieces alone.
LEMMA PiecesStay ==
  ASSUME UNCHANGED layoutVars
  PROVE  UNCHANGED <<Pieces, saved, IsDownloadComplete>>
  BY DEF layoutVars, Pieces, IsDownloadComplete

\* Nothing is lost between the runs, and no retry is ever counted.
THEOREM CycleInvariance == CycleSpec => []CycleInv
<1>1. CycleInit => CycleInv
  BY DEF CycleInit, LayoutInit, CycleInv, IsDownloadComplete, Early
<1>2. CycleInv /\ [CycleNext]_cycleVars => CycleInv'
  <2> SUFFICES ASSUME CycleInv, [CycleNext]_cycleVars PROVE CycleInv'
    OBVIOUS
  <2>1. CASE LoadTorrentFile
    BY <2>1, PiecesStay DEF LoadTorrentFile, CycleInv, Early
  <2>2. CASE Fails
    BY <2>2, PiecesStay DEF Fails, CycleInv, Early
  <2>3. ASSUME NEW l \in Nat, NEW n \in Nat, NEW p \in Nat \ {0}, BeginStorage(l, p, n)
        PROVE  CycleInv'
    BY <2>3 DEF BeginStorage, Construct, CycleInv, Early
  <2>4. CASE FillStorage
    <3>1. UNCHANGED <<Pieces, saved>>
      BY <2>4 DEF FillStorage, WriteChunk, PushBlock, Pieces
    <3> QED
      BY <2>4, <3>1 DEF FillStorage, CycleInv, Early, IsDownloadComplete
  <2>5. ASSUME NEW announce \in STRING, EndStorage(announce) PROVE CycleInv'
    BY <2>5, PiecesStay DEF EndStorage, CycleInv, Early
  <2>6. CASE Cycle
    BY <2>6, PiecesStay DEF Cycle, CycleInv, Early
  <2>7. ASSUME NEW peers \in Seq(Addresses), UpdatePeers(peers) PROVE CycleInv'
    BY <2>7, PiecesStay DEF UpdatePeers, CycleInv, Early
  <2>8. CASE Merge
    <3>1. ~(queued = {} /\ ~IsDownloadComplete)
      BY <2>8 DEF Merge, CycleInv, IsDownloadComplete
    <3> QED
      BY <2>8, <3>1, PiecesStay DEF Merge, CycleInv, Early
  <2>9. CASE RunWithoutConnections
    BY <2>9, PiecesStay DEF RunWithoutConnections, AfterRun, max_retries, CycleInv, Early
  <2>10. CASE RunDownloadMultithread
    BY <2>10, PiecesStay DEF RunDownloadMultithread, CycleInv, Early
  <2>11. ASSUME NEW k \in Pieces, SaveQueued(k) PROVE CycleInv'
    <3>1. UNCHANGED Pieces /\ saved' = saved \cup {k} /\ queued' = queued \ {k}
      BY <2>11 DEF SaveQueued, SavePiece, Pieces
    <3> QED
      BY <2>11, <3>1 DEF SaveQueued, CycleInv, Early, IsDownloadComplete
  <2>12. CASE EndDownload
    BY <2>12, PiecesStay DEF EndDownload, AfterRun, CycleInv, Early
  <2>13. CASE Report
    BY <2>13, PiecesStay DEF Report, CycleInv, Early
  <2>14. CASE UNCHANGED cycleVars
    BY <2>14, PiecesStay DEF cycleVars, askVars, CycleInv
  <2> QED
    BY <2>1, <2>2, <2>3, <2>4, <2>5, <2>6, <2>7, <2>8, <2>9, <2>10, <2>11, <2>12, <2>13, <2>14
       DEF CycleNext
<1> QED
  BY <1>1, <1>2, PTL DEF CycleSpec

\* "Download completed successfully!" (main.cpp:68) is only printed when every piece was
\* handed to a write, and then, unless one of the writes failed, the file is there from
\* the first byte to the last, each from its piece.
THEOREM SuccessUnlessAWriteFailed == CycleSpec => []SuccessIsComplete
<1>1. IInv /\ CycleInv => SuccessIsComplete
  <2> SUFFICES ASSUME IInv, CycleInv, outcome = "success"
               PROVE  /\ IsDownloadComplete
                      /\ ~file_bad => /\ DOMAIN file = 0 .. length - 1
                                      /\ \A p \in DOMAIN file : file[p] = p \div piece_length
    BY DEF SuccessIsComplete
  <2>1. IsDownloadComplete
    BY DEF CycleInv
  <2>2. CASE LayoutInit
    BY <2>1, <2>2 DEF LayoutInit
  <2>3. CASE Known
    BY <2>1, <2>3, FileOfPieces DEF IsDownloadComplete
  <2> QED
    BY <2>2, <2>3 DEF IInv
<1> QED
  BY <1>1, ImplementsLayout, LayoutInvariance, CycleInvariance, PTL

\* So what is proved of the file and of the exit code holds with the trackers' bytes:
\* blocks tile their pieces, saves stay in their places, and success means that all is
\* saved, and in the file unless a write failed.
THEOREM FileIsRight ==
  CollectSpec => [](BlocksTile /\ SavedInPlace /\ SuccessIsComplete)
BY ImplementsCycle, ImplementsLayout, BlocksCoverPieces, SavesStayApart,
   SuccessUnlessAWriteFailed, PTL

-----------------------------------------------------------------------------
(***************************************************************************)
(* Session: the torrent file and the answers of HTTP trackers as texts.    *)
(***************************************************************************)
\* The file is open until its sizes are known, and read until the trackers are.
SessionInv ==
    /\ place \in {"Load", "Construct"} => torrent \in Torrents
    /\ place = "Construct" => torrent_file = Loaded(torrent.text)
    /\ place = "Storage" => torrent_file.announce \in STRING

\* What a torrent file says can be used for the sizes and the trackers.
LEMMA FileFields ==
  ASSUME NEW v \in Torrents
  PROVE  /\ ReadRight(v, Loaded(v.text))
         /\ stol(Loaded(v.text).length) \in Lengths
         /\ stol(Loaded(v.text).piece_length) \in Nat \ {0}
         /\ Len(Loaded(v.text).piece_hashes) \in Nat
         /\ Loaded(v.text).announce \in STRING
<1>1. /\ IsTorrent(v)
      /\ stol(ValueAt(ValueAt(v, "info"), "length").of) \in Lengths
      /\ stol(ValueAt(ValueAt(v, "info"), "piece length").of) \in Nat \ {0}
  BY FilesAssumption
<1> DEFINE loaded == Loaded(v.text)
<1>2. ReadRight(v, loaded) /\ Len(loaded.piece_hashes) \in Nat
  BY <1>1, FileLoaded
<1>3. ValueAt(v, "announce").of \in STRING
  BY <1>1 DEF IsTorrent
<1> HIDE DEF loaded
<1>4. /\ \A f \in {"announce", "comment"} : loaded[f] = ValueAt(v, f).of
      /\ \A f \in {"piece_length", "length", "name"} :
            loaded[f] = ValueAt(ValueAt(v, "info"), Fields[f]).of
  BY <1>2 DEF ReadRight
<1>5. /\ loaded.announce = ValueAt(v, "announce").of
      /\ loaded.length = ValueAt(ValueAt(v, "info"), "length").of
      /\ loaded.piece_length = ValueAt(ValueAt(v, "info"), "piece length").of
  BY <1>4, FieldsAre
<1> QED
  BY <1>1, <1>2, <1>3, <1>5 DEF loaded

\* A step of the main thread that has to do with neither file nor answer.
LEMMA MainMoves ==
  ASSUME Main
  PROVE  place' = place \/ place' \notin {"Load", "Construct", "Storage"}
<1>1. CASE NextCycle
  BY <1>1 DEF NextCycle, Cycle
<1>2. CASE Unasked
  <2>1. CASE Fails \/ FillStorage \/ UpdatePeersThrows \/ Merge \/ Report
    BY <2>1 DEF Fails, FillStorage, UpdatePeersThrows, UpdatePeers, Merge, Report
  <2>2. CASE RunWithoutConnections \/ RunDownloadMultithread \/ EndDownload
    BY <2>2 DEF RunWithoutConnections, RunDownloadMultithread, EndDownload, AfterRun
  <2>3. CASE \E k \in Pieces : SaveQueued(k)
    BY <2>3 DEF SaveQueued
  <2> QED
    BY <1>2, <2>1, <2>2, <2>3 DEF Unasked
<1> QED
  BY <1>1, <1>2 DEF Main

\* What an HTTP tracker answers is a list of whole peers, or as good as no answer.
LEMMA AnswerIs ==
  ASSUME NEW answer \in Answers
  PROVE  \/ \E compact \in Seq(Byte) :
               /\ Len(compact) % 6 = 0
               /\ answer.peers = ParseCompactBinaryPeers(compact) /\ answer.named = Swarm(compact)
         \/ answer.peers = <<>> /\ answer.named = {}
<1>1. PICK reply \in Replies :
         answer = [peers |-> ParseTrackerResponse(reply.text),
                   named |-> IF HasPeers(reply)
                             THEN Swarm(BytesOf(ValueAt(reply, "peers").of)) ELSE {}]
  BY DEF Answers
<1>2. IsReply(reply)
  BY TrackersAssumption
<1> DEFINE string == ValueAt(reply, "peers").of
           compact == BytesOf(string)
<1>3. ParseTrackerResponse(reply.text) =
        IF HasPeers(reply) THEN ParseCompactBinaryPeers(compact) ELSE <<>>
  BY <1>2, PeersFound DEF HasPeers
<1>4. CASE HasPeers(reply)
  <2>1. ValueAt(reply, "peers").kind = "str" /\ IsCompact(string)
    BY <1>4 DEF HasPeers
  <2>2. Len(string) \in Nat /\ compact \in Seq(Byte)
    BY <1>2, <2>1 DEF IsReply
  <2>3. Len(compact) = Len(string)
    BY <2>2 DEF BytesOf
  <2>4. Len(compact) % 6 = 0
    BY <2>1, <2>3 DEF IsCompact
  <2>5. answer.peers = ParseCompactBinaryPeers(compact) /\ answer.named = Swarm(compact)
    BY <1>1, <1>3, <1>4
  <2> HIDE DEF compact
  <2> QED
    BY <2>2, <2>4, <2>5
<1>5. CASE ~HasPeers(reply)
  BY <1>1, <1>3, <1>5
<1> QED
  BY <1>4, <1>5

\* While the sizes are taken from torrent_file it is what LoadTorrentFile made of the file
\* (TorrentClient.cpp:258-264), and while the trackers are taken from it (151-163) its
\* announce is a string.
THEOREM SessionInvariance == Spec => []SessionInv
<1>1. Init => SessionInv
  BY DEF Init, CollectInit, CycleInit, SessionInv
<1>2. SessionInv /\ [Next]_vars => SessionInv'
  <2> SUFFICES ASSUME SessionInv, [Next]_vars PROVE SessionInv'
    OBVIOUS
  <2>1. CASE Load
    BY <2>1 DEF Load, LoadTorrentFile, SessionInv
  <2>2. CASE ConstructStorage
    <3>1. place = "Construct" /\ place' = "Storage" /\ torrent_file.announce \in STRING
      <4>1. place = "Construct" /\ place' = "Storage"
        BY <2>2 DEF ConstructStorage, BeginStorage
      <4> QED
        BY <4>1, FileFields DEF SessionInv
    <3>2. torrent_file' = [NoTorrentFile EXCEPT !.announce = torrent_file.announce]
      BY <2>2 DEF ConstructStorage
    <3>3. "announce" \in DOMAIN NoTorrentFile
      BY FieldsAre
    <3>4. torrent_file'.announce = torrent_file.announce
      BY <3>2, <3>3
    <3> QED
      BY <3>1, <3>4 DEF SessionInv
  <2>3. CASE BeginCycle
    BY <2>3 DEF BeginCycle, EndStorage, SessionInv
  <2>4. CASE Ask
    <3>1. place = "Ask" /\ place' = "Ask"
      BY <2>4 DEF Ask, AskUdp, AskHttp, UpdatePeers
    <3> QED
      BY <3>1 DEF SessionInv
  <2>5. CASE Main
    <3>1. UNCHANGED <<torrent, torrent_file>>
      BY <2>5 DEF Main, fileVars
    <3> QED
      BY <2>5, <3>1, MainMoves DEF SessionInv
  <2>6. CASE UNCHANGED vars
    BY <2>6 DEF vars, collectVars, cycleVars, fileVars, SessionInv
  <2> QED
    BY <2>1, <2>2, <2>3, <2>4, <2>5, <2>6 DEF Next, Over
<1> QED
  BY <1>1, <1>2, PTL DEF Spec

\* What the sizes and trackers are computed from is what the file says at the fields'
\* places, whatever other strings it has (TorrentFile.cpp:9-49, BencodeParser.cpp:45-136).
THEOREM LoadsAsWritten == Spec => []LoadedAsWritten
<1>1. SessionInv => LoadedAsWritten
  BY FileFields DEF SessionInv, LoadedAsWritten
<1> QED
  BY <1>1, SessionInvariance, PTL

\* With the torrent file and the answers as texts the main thread is still the one of
\* PeerCollection (refinement): the sizes are in range, and of every answer of an HTTP
\* tracker it takes the compact peers the answer means, or none (TorrentTracker.cpp:186-230).
THEOREM SessionCollects == Spec => CollectSpec
<1>1. Init => CollectInit
  BY DEF Init
<1>2. SessionInv /\ [Next]_vars => [CollectNext]_collectVars
  <2> SUFFICES ASSUME SessionInv, [Next]_vars PROVE [CollectNext]_collectVars
    OBVIOUS
  <2>1. CASE Load
    BY <2>1 DEF Load, CollectNext, Prepare
  <2>2. CASE ConstructStorage
    <3> DEFINE l == stol(torrent_file.length)
               p == stol(torrent_file.piece_length)
               n == Len(torrent_file.piece_hashes)
    <3>1. place = "Construct"
      BY <2>2 DEF ConstructStorage, BeginStorage
    <3>2. l \in Lengths /\ p \in Nat \ {0} /\ n \in Nat
      BY <3>1, FileFields DEF SessionInv
    <3>3. BeginStorage(l, p, n) /\ UNCHANGED answerVars
      BY <2>2 DEF ConstructStorage
    <3> HIDE DEF l, p, n
    <3> QED
      BY <3>2, <3>3 DEF CollectNext, Prepare
  <2>3. CASE BeginCycle
    <3>1. place = "Storage"
      BY <2>3 DEF BeginCycle, EndStorage
    <3> QED
      BY <2>3, <3>1 DEF BeginCycle, SessionInv, CollectNext, Prepare
  <2>4. ASSUME NEW id \in ConnectionIds, NEW r \in TransactionIds, NEW s \in TransactionIds,
               NEW swarm \in Swarms, AskUdp(id, r, s, BytesOf(swarm))
        PROVE  CollectNext
    <3>1. id \in Ids /\ r \in Randoms /\ s \in Randoms /\ BytesOf(swarm) \in Seq(Byte)
      BY TrackersAssumption
    <3> QED
      BY <2>4, <3>1 DEF CollectNext
  <2>5. ASSUME NEW answer \in Answers, AskHttp(answer.peers, answer.named) PROVE CollectNext
    <3>1. CASE answer.peers = <<>> /\ answer.named = {}
      <4>1. UpdatePeersThrows /\ UNCHANGED answerVars
        BY <2>5, <3>1 DEF AskHttp, UpdatePeersThrows, answerVars
      <4> QED
        BY <4>1 DEF CollectNext, Unasked
    <3>2. CASE \E compact \in Seq(Byte) :
                  /\ Len(compact) % 6 = 0
                  /\ answer.peers = ParseCompactBinaryPeers(compact)
                  /\ answer.named = Swarm(compact)
      BY <2>5, <3>2 DEF CollectNext
    <3> QED
      BY <3>1, <3>2, AnswerIs
  <2>6. CASE Main
    BY <2>6 DEF Main, CollectNext
  <2>7. CASE UNCHANGED vars
    BY <2>7 DEF vars
  <2> QED
    BY <2>1, <2>2, <2>3, <2>4, <2>5, <2>6, <2>7 DEF Next, Ask, Over
<1> QED
  BY <1>1, <1>2, SessionInvariance, PTL DEF Spec, CollectSpec

\* So all that is proved of the layout, the announces and the peers holds from the texts
\* on: blocks tile pieces, saves stay in their places, "Download completed" is true unless
\* a write failed, trackers read what is meant, and a download has every peer named, once.
THEOREM SessionIsRight ==
  Spec => [](BlocksTile /\ SavedInPlace /\ SuccessIsComplete /\ RecordedAsMeant
             /\ StartsWithEveryPeerOnce)
BY SessionCollects, FileIsRight, RecordsAsMeant, EveryPeerOnce, PTL
=============================================================================
