----------------------------- MODULE FileLayout -----------------------------
(***************************************************************************)
(* Which bytes of the output file belong to which piece and block: the     *)
(* lengths and offsets that the constructors of PieceStorage and Piece,    *)
(* InitializeOutputFile and SavePieceToDisk compute.  Who saves a piece    *)
(* and when is in StorageWorkers; here any piece may be saved next.  The   *)
(* main thread goes through these steps in module TrackerCycle.            *)
(***************************************************************************)
EXTENDS Integers, Sequences

CONSTANTS
    kBlockSize, chunk_size,
    Torn   \* bound: how many bytes of a failing write reach the file

ASSUME LayoutAssumption == kBlockSize \in Nat \ {0} /\ chunk_size \in Nat \ {0}

VARIABLES
    length, piece_length,
    total_piece_count,
    blocks,        \* of each piece, once made: a sequence of offsets and lengths
    offset,        \* of the next chunk of zeros
    file,          \* the piece each byte of the file comes from, Zero for none
    file_bad,      \* the error bit of the output stream, which stays set
    saved          \* the pieces recorded as saved, whatever became of the write

fileState == <<offset, file, file_bad>>
layoutVars == <<length, piece_length, total_piece_count, blocks, fileState, saved>>

Zero   == -1
Pieces == 0 .. total_piece_count - 1

\* Nothing is known of the torrent.
LayoutInit ==
    /\ length = 0 /\ piece_length = 0 /\ total_piece_count = 0
    /\ blocks = [i \in Pieces |-> <<>>]
    /\ offset = 0 /\ file = <<>> /\ file_bad = FALSE /\ saved = {}

Smaller(a, b) == IF a <= b THEN a ELSE b

-----------------------------------------------------------------------------
\* The file is as long as its pieces: one hash per piece, none too many.
WellFormed(l, p, n) == (n - 1) * p < l /\ l <= n * p

\* The sizes of the torrent file, with which the constructor of PieceStorage begins.
Construct(l, p, n) ==
    /\ piece_length = 0
    /\ WellFormed(l, p, n)
    /\ length' = l /\ piece_length' = p /\ total_piece_count' = n
    /\ blocks' = [i \in 0 .. n - 1 |-> <<>>]
    /\ UNCHANGED <<fileState, saved>>

\* Slip: without the ?: for a length that is a multiple of the piece length.
SlipNoDefault(i) ==
    IF i = total_piece_count - 1 THEN length % piece_length ELSE piece_length

PieceLength(i) ==
    IF i = total_piece_count - 1 /\ length % piece_length # 0
    THEN length % piece_length
    ELSE piece_length

\* Where the blocks of a piece end so far.
End(bs) == IF bs = <<>> THEN 0 ELSE bs[Len(bs)].offset + bs[Len(bs)].length

\* Slip: every block has the full size.
SlipFullBlock(i) == kBlockSize

BlockLength(i) == Smaller(kBlockSize, PieceLength(i) - End(blocks[i]))

Made(i) == End(blocks[i]) = PieceLength(i)

\* The loop of the constructor of Piece, in that of the constructor of PieceStorage.
PushBlock(i) ==
    /\ \A j \in Pieces : j < i => Made(j)
    /\ End(blocks[i]) < PieceLength(i)
    /\ blocks' = [blocks EXCEPT ![i] =
           Append(@, [offset |-> End(@), length |-> BlockLength(i)])]
    /\ UNCHANGED <<length, piece_length, total_piece_count, fileState, saved>>

\* What a write of n bytes at position at makes of the file.
Written(at, n, what) ==
    [p \in DOMAIN file \cup at .. at + n - 1 |->
        IF p \in at .. at + n - 1 THEN what ELSE file[p]]

\* seekp, write, flush of n bytes: all of them on a good stream; some of them, and the
\* stream is bad from then on; none on a bad one.  The code looks at none of this.
WriteBytes(at, n, what) ==
    \/ ~file_bad /\ file' = Written(at, n, what) /\ UNCHANGED file_bad
    \/ ~file_bad /\ file_bad' = TRUE /\ \E m \in Torn \cap 0 .. n - 1 : file' = Written(at, m, what)
    \/ file_bad /\ UNCHANGED <<file, file_bad>>

\* The loop of InitializeOutputFile.
WriteChunk ==
    /\ \A i \in Pieces : Made(i)
    /\ offset < length
    /\ WriteBytes(offset, Smaller(chunk_size, length - offset), Zero)
    /\ offset' = offset + chunk_size
    /\ UNCHANGED <<length, piece_length, total_piece_count, blocks, saved>>

\* Slip: pieces one after another, with the length of this one.
SlipOwnLength(i) == i * PieceLength(i)

FileOffset(i) == i * piece_length

\* SavePieceToDisk, once all blocks are there: GetData has the bytes of all blocks.
SavePiece(i) ==
    /\ offset >= length
    /\ i \notin saved
    /\ Made(i)
    /\ WriteBytes(FileOffset(i), End(blocks[i]), i)
    /\ saved' = saved \cup {i}
    /\ UNCHANGED <<length, piece_length, total_piece_count, blocks, offset>>

LayoutNext ==
    \/ \E l, n \in Nat, p \in Nat \ {0} : Construct(l, p, n)
    \/ \E i \in Pieces : PushBlock(i) \/ SavePiece(i)
    \/ WriteChunk

LayoutSpec == LayoutInit /\ [][LayoutNext]_layoutVars

-----------------------------------------------------------------------------
(***************************************************************************)
(* Properties.                                                             *)
(***************************************************************************)

\* The blocks of a piece cover it from its first byte on, without gap or overlap, and
\* none is larger than a peer serves or empty (Piece.cpp:9-14).
BlocksTile ==
    \A i \in Pieces :
        /\ \A k \in DOMAIN blocks[i] :
              /\ blocks[i][k].length \in 1 .. kBlockSize
              /\ blocks[i][k].offset = IF k = 1 THEN 0
                    ELSE blocks[i][k - 1].offset + blocks[i][k - 1].length
        /\ End(blocks[i]) <= PieceLength(i)

\* No piece saved later reaches into another, whatever the order and whichever write
\* failed: a byte of the file is a zero or comes from the piece, recorded as saved, whose
\* place it is in, and the file never grows past the length of the torrent
\* (PieceStorage.cpp:19, 40, 206).  While no write failed, a saved piece has all its bytes.
SavedInPlace ==
    /\ DOMAIN file \subseteq 0 .. length - 1
    /\ \A p \in DOMAIN file :
          /\ file[p] # Zero => file[p] \in saved /\ p \div piece_length = file[p]
          /\ ~file_bad /\ p \div piece_length \in saved => file[p] # Zero
=============================================================================
