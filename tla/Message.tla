------------------------------ MODULE Message -------------------------------
(***************************************************************************)
(* struct Message and class PeerPiecesAvailability: a message of the peer  *)
(* wire protocol and a bitfield, as the bytes they are sent as.            *)
(***************************************************************************)
EXTENDS Bytes

kChoke     == 0
kUnchoke   == 1
kHave      == 4
kBitField  == 5
kRequest   == 6
kPiece     == 7
kKeepAlive == 10   \* has no byte on the wire: Parse gives it to an empty message

\* Message::Init
NewMessage(id, payload) == [id |-> id, messageLength |-> Len(payload) + 1, payload |-> payload]

\* Message::ToString
Serialized(m) == IntToBytes(m.messageLength) \o <<m.id>> \o m.payload

\* The payload is what follows, not what messageLength says.
Parse(s) ==
    IF BytesToInt(s) = 0
    THEN [id |-> kKeepAlive, messageLength |-> 0, payload |-> <<>>]
    ELSE [id |-> s[5], messageLength |-> BytesToInt(s),
          payload |-> IF s[5] > 3 THEN SubSeq(s, 6, Len(s)) ELSE <<>>]

-----------------------------------------------------------------------------
\* PeerPiecesAvailability: pieces are counted from the highest bit of the first byte.
Mask(i) == Bit[Bits - 1 - (i % Bits)]

IsPieceAvailable(a, i) ==
    i < a.size * Bits /\ (a.bitfield[i \div Bits + 1] \div Mask(i)) % 2 = 1

SetPieceAvailability(a, i) ==
    IF i >= a.size * Bits \/ IsPieceAvailable(a, i) THEN a
    ELSE [a EXCEPT !.bitfield[i \div Bits + 1] = @ + Mask(i)]
=============================================================================
