----------------------------- MODULE MCPeerWire -----------------------------
(* PeerWire on a small instance: bytes of 3 bits, so that an int has 12 bits, *)
(* the message numbers just fit a byte and 4 pieces need two bytes.           *)
EXTENDS PeerWire

MCBlocks == {<<0, 0, 1>>, <<3, 2047, 1>>}
MCFirstPieces == {{}, {0}}
MCNewPieces == {3}
=============================================================================
