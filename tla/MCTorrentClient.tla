-------------------------- MODULE MCTorrentClient ---------------------------
(***************************************************************************)
(* TorrentClient on small instances.  Peers that are not honest are        *)
(* interchangeable.  What a BITFIELD may announce is bounded per run.      *)
(***************************************************************************)
EXTENDS TorrentClient, TLC

PeerSymmetry == Permutations(Peers)

AllPieces      == {Pieces}
FirstPieceOnly == {{0}}
NoBitfield     == {}
=============================================================================
