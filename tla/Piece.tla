------------------------------- MODULE Piece --------------------------------
(***************************************************************************)
(* class Piece: the blocks of one piece as a function from block numbers   *)
(* (offset / kBlockSize) to their status.  The bytes of a retrieved block  *)
(* matter only as far as the SHA-1 of the piece does: the status of a      *)
(* retrieved block (kRetrieved) says whether its bytes are the right ones. *)
(***************************************************************************)
EXTENDS Naturals

CONSTANT NumBlocks   \* blocks per piece; a piece has at least one byte

ASSUME PieceAssumption == NumBlocks \in Nat \ {0}

Blocks == 1 .. NumBlocks

Retrieved == {"good", "bad"}
BlockStatus == {"missing", "pending"} \cup Retrieved
BlockLists == [Blocks -> BlockStatus]

\* A new piece, and what Reset makes of any piece.
Reset == [b \in Blocks |-> "missing"]

AllBlocksRetrieved(bs) == \A b \in Blocks : bs[b] \in Retrieved

\* SHA-1 collides for no bytes a peer sends.
HashMatches(bs) == AllBlocksRetrieved(bs) /\ \A b \in Blocks : bs[b] = "good"

\* The bytes of all blocks together, zeros for the blocks that are not there.
GetData(bs) == IF \A b \in Blocks : bs[b] = "good" THEN "good" ELSE "bad"

IsFirstMissing(bs, b) ==
    /\ bs[b] = "missing"
    /\ \A c \in Blocks : c < b => bs[c] # "missing"

\* GetFirstMissingBlock hands the block out: it is pending from then on.
MarkPending(bs, b) == [bs EXCEPT ![b] = "pending"]

\* SaveBlock throws for a block that is not pending; else it keeps the bytes.
CanSaveBlock(bs, b) == bs[b] = "pending"
SaveBlock(bs, b, bytes) == [bs EXCEPT ![b] = bytes]
=============================================================================
