------------------------------ MODULE PeerWire ------------------------------
(***************************************************************************)
(* One connection after another to one peer, byte for byte: what the       *)
(* client writes and reads (EstablishConnection, RequestPiece,             *)
(* ProcessMessage), how ReceiveData cuts the stream into messages, and a   *)
(* peer that keeps to the protocol at the other end.  A recv returns as    *)
(* many bytes as have come, so that messages may arrive in any pieces and  *)
(* several at once.  What a message does to the download is in module      *)
(* PeerConnect, with timeouts and closed connections.                      *)
(***************************************************************************)
EXTENDS Message

CONSTANTS
    NumPieces,       \* torrent_file.piece_hashes.size()
    HandshakeSize,   \* kResponseSize, 68 in the code
    MaxSize,         \* 100'000 in the code
    Blocks,          \* bound: the blocks asked for, <<piece, offset, length>>
    FirstPieces,     \* bound: what the peer may have at the start
    NewPieces,       \* bound: what it may get later
    MaxConnects,     \* bound: connections made
    MaxStream,       \* bound: bytes from the peer that were not read
    MaxAsked         \* bound: requests on their way

Pieces        == 0 .. NumPieces - 1
bitfield_size == (NumPieces + Bits - 1) \div Bits

\* What an int holds of sizes and indices.
Sizes == 0 .. Values(4) \div 2 - 1

ASSUME WireAssumption ==
    /\ NumPieces \in Nat \ {0} /\ Pieces \subseteq Sizes
    /\ HandshakeSize \in Nat \ {0} /\ MaxSize \in Sizes
    /\ Blocks \subseteq Sizes \X Sizes \X Sizes
    /\ FirstPieces \subseteq SUBSET Pieces /\ NewPieces \subseteq Pieces
    /\ MaxConnects \in Nat /\ MaxStream \in Nat /\ MaxAsked \in Nat

\* No message of the peer is too long for the client: HAVE, the bitfield (of less than
\* 800'000 pieces in the code), and a block with its header.
ASSUME FitsAssumption ==
    /\ 5 <= MaxSize /\ bitfield_size + 1 <= MaxSize
    /\ \A b \in Blocks : b[3] + 9 <= MaxSize

VARIABLES
    place,                \* "Closed", "Handshake", "Bitfield" (the first message),
                          \* "MainLoop", or "Lost": out of step, and not followed on
    pieces_availability,
    is_choked,
    pending,              \* the block asked for while block_is_pending, else NoBlock
    message, buffer_size, to_read,   \* locals of ReceiveData
    to_peer, from_peer,   \* the bytes on their way
    connects,
    has,                  \* peer: the pieces it has
    flight,               \* peer: the messages in from_peer, as it meant them
    asked,                \* history: the blocks whose requests are in to_peer
    greeted,              \* history: this connection's first message was a bitfield
    split,                \* history: some recv of this connection returned less
                          \*    than ReceiveData waits for
    last                  \* history: the message just returned, as meant and as read

askVars  == <<is_choked, pending>>
readVars == <<message, buffer_size, to_read>>
toPeer   == <<to_peer, asked>>
peerVars == <<has, flight>>
vars == <<place, pieces_availability, askVars, readVars, toPeer, from_peer, connects,
          peerVars, greeted, split, last>>

NoBlock == <<-1, 0, 0>>

Init ==
    /\ place = "Closed"
    /\ pieces_availability = [bitfield |-> <<>>, size |-> 0]
    /\ is_choked = TRUE /\ pending = NoBlock
    /\ message = <<>> /\ buffer_size = 0 /\ to_read = 0
    /\ to_peer = <<>> /\ asked = <<>> /\ from_peer = <<>>
    /\ connects = 0 /\ greeted = FALSE /\ split = FALSE
    /\ has \in FirstPieces
    /\ flight = <<>>
    /\ last = <<>>

-----------------------------------------------------------------------------
\* The peer (external).  A peer without pieces need not send a bitfield.
Wire(id, payload) == BigEndian(Len(payload) + 1, 4) \o <<id>> \o payload

BitfieldOf(pieces) ==
    [k \in 1 .. bitfield_size |->
        CHOOSE b \in Byte : \A j \in 1 .. Bits :
            (b \div Bit[Bits - j]) % 2 = 1 <=> (k - 1) * Bits + j - 1 \in pieces]

\* A message as it is meant, the block it answers a request for, and as it is sent.
AsMeant(id, payload, of, bytes) == [id |-> id, payload |-> payload, of |-> of, bytes |-> bytes]

Sends(id, payload, of, bytes) ==
    /\ place \notin {"Closed", "Lost"}
    /\ from_peer' = from_peer \o bytes
    /\ Len(from_peer') <= MaxStream
    /\ flight' = Append(flight, AsMeant(id, payload, of, bytes))
    /\ UNCHANGED <<place, pieces_availability, askVars, readVars, connects, greeted, split,
                   last>>

PeerSays ==
    /\ \/ Sends(kKeepAlive, <<>>, NoBlock, <<0, 0, 0, 0>>)
       \/ \E id \in {kChoke, kUnchoke} : Sends(id, <<>>, NoBlock, Wire(id, <<>>))
    /\ UNCHANGED <<toPeer, has>>

PeerGets(i) ==
    /\ i \notin has
    /\ has' = has \cup {i}
    /\ Sends(kHave, BigEndian(i, 4), NoBlock, Wire(kHave, BigEndian(i, 4)))
    /\ UNCHANGED toPeer

\* A request is 17 bytes: it is read, and answered with as many bytes as it asks for.
PeerAnswers ==
    /\ Len(to_peer) >= 17
    /\ LET field(k) == SubSeq(to_peer, 4 * k + 2, 4 * k + 5)
           payload  == field(1) \o field(2) \o [k \in 1 .. Unsigned(field(3)) |-> 0]
       IN  Sends(kPiece, payload, Head(asked), Wire(kPiece, payload))
    /\ to_peer' = SubSeq(to_peer, 18, Len(to_peer)) /\ asked' = Tail(asked)
    /\ UNCHANGED has

-----------------------------------------------------------------------------
Hello == AsMeant(-1, <<>>, NoBlock, [k \in 1 .. HandshakeSize |-> 0])

\* EstablishConnection up to the first ReceiveData; what was on its way is lost, and
\* HandleConnectionError has forgotten the block.
Connect ==
    /\ connects < MaxConnects
    /\ connects' = connects + 1
    /\ place' = "Handshake"
    /\ message' = <<>> /\ buffer_size' = HandshakeSize /\ to_read' = HandshakeSize
    /\ to_peer' = <<>> /\ asked' = <<>>
    /\ LET first == AsMeant(kBitField, BitfieldOf(has), NoBlock, Wire(kBitField, BitfieldOf(has)))
       IN
       \/ flight' = <<Hello, first>> /\ from_peer' = Hello.bytes \o first.bytes
       \/ has = {} /\ flight' = <<Hello>> /\ from_peer' = Hello.bytes
    /\ pending' = NoBlock
    /\ greeted' = FALSE /\ split' = FALSE /\ last' = <<>>
    /\ UNCHANGED <<pieces_availability, is_choked, has>>

\* recv: at most size bytes, and no more than have come; wanted are waited for.
Recv(n, size, wanted) ==
    /\ n \in 1 .. size /\ n <= Len(from_peer)
    /\ message' = message \o SubSeq(from_peer, 1, n)
    /\ from_peer' = SubSeq(from_peer, n + 1, Len(from_peer))
    /\ split' = (split \/ n < wanted)
    /\ last' = <<>>
    /\ UNCHANGED <<pieces_availability, askVars, toPeer, connects, peerVars, greeted>>

Calls == place \in {"Bitfield", "MainLoop"} /\ message = <<>>

\* Slip: the size of the message is taken with that of the prefix.
SlipWholeSize(n) ==
    /\ Calls
    /\ Recv(n, 4, 4)
    /\ IF n < 4 \/ BytesToInt(message') \notin 0 .. MaxSize
       THEN place' = "Closed" /\ UNCHANGED <<buffer_size, to_read>>
       ELSE /\ buffer_size' = BytesToInt(message') + 4
            /\ to_read' = buffer_size'
            /\ UNCHANGED place

\* The prefix.  Less than four bytes make BytesToInt throw: they are not completed by
\* another recv.  "Too much data" throws, too (a negative size is a huge size_t).
ReadPrefix(n) ==
    /\ Calls
    /\ Recv(n, 4, 4)
    /\ IF n < 4 \/ BytesToInt(message') \notin 0 .. MaxSize
       THEN place' = "Closed" /\ UNCHANGED <<buffer_size, to_read>>
       ELSE /\ buffer_size' = BytesToInt(message')
            /\ to_read' = buffer_size'
            /\ UNCHANGED place

\* Slip: the loop counts the calls of recv, not the bytes.
SlipNoLoop(n) ==
    /\ to_read > 0
    /\ Recv(n, buffer_size, to_read)
    /\ to_read' = 0
    /\ UNCHANGED <<place, buffer_size>>

\* sizeof(data_2): the whole size, however much of the message has been read.
ReadBody(n) ==
    /\ place \notin {"Closed", "Lost"} /\ to_read > 0
    /\ Recv(n, buffer_size, to_read)
    /\ to_read' = to_read - n
    /\ UNCHANGED <<place, buffer_size>>

\* ReceiveData returns, and what comes is done in one step with it.  The caller has
\* what the peer meant, or is out of step from here on.
Return(next) ==
    /\ message # <<>> /\ to_read <= 0
    /\ last' = [meant |-> Head(flight), got |-> message]
    /\ place' = IF message = Head(flight).bytes THEN next ELSE "Lost"
    /\ flight' = Tail(flight)
    /\ message' = <<>> /\ buffer_size' = 0 /\ to_read' = 0
    /\ UNCHANGED <<toPeer, from_peer, connects, has, split>>

PerformHandshake ==
    /\ place = "Handshake" /\ Return("Bitfield")
    /\ UNCHANGED <<pieces_availability, askVars, greeted>>

\* Slip: the size rounded down.
SlipRoundDown ==
    /\ place = "Bitfield" /\ Return("MainLoop")
    /\ LET m == Parse(message) IN
       /\ greeted' = (m.id = kBitField)
       /\ pieces_availability' = IF greeted' THEN [bitfield |-> m.payload, size |-> NumPieces \div Bits]
                                 ELSE pieces_availability
       /\ is_choked' = (is_choked /\ m.id # kUnchoke)
    /\ UNCHANGED pending

\* The first message, whatever it is; only an unchoke or a bitfield is looked at.
ReceiveBitfield ==
    /\ place = "Bitfield" /\ Return("MainLoop")
    /\ LET m == Parse(message) IN
       /\ greeted' = (m.id = kBitField)
       /\ pieces_availability' = IF greeted' THEN [bitfield |-> m.payload, size |-> bitfield_size]
                                 ELSE pieces_availability
       /\ is_choked' = (is_choked /\ m.id # kUnchoke)
    /\ UNCHANGED pending

\* Slip: the fields in another order.
SlipLengthFirst(b) == IntToBytes(b[1]) \o IntToBytes(b[3]) \o IntToBytes(b[2])

Payload(b) == IntToBytes(b[1]) \o IntToBytes(b[2]) \o IntToBytes(b[3])

\* One block at a time, as far as the client knows: a request whose answer it no longer
\* waits for may still be on its way, or its answer.
RequestPiece(b) ==
    /\ Calls /\ place = "MainLoop"
    /\ ~is_choked /\ pending = NoBlock
    /\ Len(asked) < MaxAsked
    /\ pending' = b
    /\ to_peer' = to_peer \o Serialized(NewMessage(kRequest, Payload(b)))
    /\ asked' = Append(asked, b)
    /\ UNCHANGED <<place, pieces_availability, is_choked, readVars, from_peer, connects,
                   peerVars, greeted, split, last>>

\* No answer in time: the client asks again, for this block or another.
BlockTimeout ==
    /\ Calls /\ place = "MainLoop"
    /\ pending # NoBlock /\ pending' = NoBlock
    /\ UNCHANGED <<place, pieces_availability, is_choked, readVars, toPeer, from_peer,
                   connects, peerVars, greeted, split, last>>

\* The block that a message brings: piece, offset and how many bytes.
BlockIn(m) ==
    <<BytesToInt(m.payload), BytesToInt(SubSeq(m.payload, 5, 8)), Len(m.payload) - 8>>

\* A choke, or a block of the piece in progress: that of the pending block.
NoLongerPending(m) ==
    \/ m.id = kChoke
    \/ m.id = kPiece /\ Len(m.payload) >= 8 /\ BlockIn(m)[1] = pending[1]

\* A block of the piece in progress that is not pending makes SaveBlock throw, and the
\* client connects anew (module PeerConnect); here it may, or may read on.
ProcessMessage ==
    /\ place = "MainLoop" /\ Return("MainLoop")
    /\ UNCHANGED greeted
    /\ LET m == Parse(message) IN
       /\ pieces_availability' =
             IF m.id = kHave /\ Len(m.payload) >= 4
             THEN SetPieceAvailability(pieces_availability, BytesToInt(m.payload))
             ELSE pieces_availability
       /\ is_choked' = (m.id = kChoke \/ (is_choked /\ m.id # kUnchoke))
       /\ pending' = IF NoLongerPending(m) THEN NoBlock ELSE pending

Next ==
    \/ Connect
    \/ \E n \in 1 .. Len(from_peer) : ReadPrefix(n) \/ ReadBody(n)
    \/ PerformHandshake \/ ReceiveBitfield \/ ProcessMessage
    \/ \E b \in Blocks : RequestPiece(b)
    \/ BlockTimeout
    \/ PeerSays \/ PeerAnswers
    \/ \E i \in NewPieces : PeerGets(i)

Spec == Init /\ [][Next]_vars

-----------------------------------------------------------------------------
(***************************************************************************)
(* Properties.                                                             *)
(***************************************************************************)

\* As long as no recv ends inside a message, every call of ReceiveData returns one
\* message and none fails, however many messages wait in the socket; and the message is
\* parsed as what it was sent as (TcpConnect.cpp:118-185, Message.cpp:4).  This is what
\* PeerConnect takes for granted of honest peers.
InStepUnlessSplit ==
    /\ ~split => place # "Lost" /\ (connects > 0 => place # "Closed")
    /\ last # <<>> /\ ~split /\ last.meant.id # -1 =>
          /\ Parse(last.got).id = last.meant.id
          /\ Parse(last.got).payload = last.meant.payload

\* Whatever the pieces in which bytes come: if a call returns something else than its
\* message, it is that message and more, never a part of it (TcpConnect.cpp:167-183).
NeverCutShort == last # <<>> => IsPrefix(last.meant.bytes, last.got)

\* The block that comes is the one that the request it answers asked for: piece, offset
\* and length are written, read by the peer, written back and read again
\* (PeerConnect.cpp:333, 374) without a change, up to the largest int; also if the answer
\* is late, and others have been asked for after a choke or a timeout.
AnswerFitsRequest ==
    last # <<>> /\ place # "Lost" /\ last.meant.id = kPiece =>
        Parse(last.got).id = kPiece /\ BlockIn(Parse(last.got)) = last.meant.of

\* When everything the peer said is read, the client knows which pieces the peer has
\* (PeerConnect.cpp:14-24, 178), over reconnections too, if this connection began with
\* a bitfield.
KnowsWhatItHas ==
    Calls /\ place = "MainLoop" /\ greeted /\ from_peer = <<>> =>
        has = {i \in Pieces : IsPieceAvailable(pieces_availability, i)}
=============================================================================
