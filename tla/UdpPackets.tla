----------------------------- MODULE UdpPackets -----------------------------
(***************************************************************************)
(* The packets of the UDP tracker protocol byte for byte: what UdpTracker  *)
(* writes, what a tracker that keeps to the protocol reads of it and       *)
(* answers, and what UdpTracker and TorrentTracker make of the answer.     *)
(* Losses, late answers and errors are in module UdpTracker.               *)
(***************************************************************************)
EXTENDS Bytes

CONSTANTS
    protocol_id,          \* the magic number of a connect request
    info_hash, peer_id,   \* 20 bytes each
    port                  \* 12345 in the code

ASSUME PacketsAssumption ==
    /\ protocol_id \in 0 .. Values(8) - 1
    /\ info_hash \in Seq(Byte) /\ Len(info_hash) = 20
    /\ peer_id \in Seq(Byte) /\ Len(peer_id) = 20
    /\ port \in 0 .. Values(2) - 1

uint32_t(n) == n % Values(4)

\* r is what rand() gives.
TransactionId(r) == uint32_t(BytesToInt(IntToBytes(r)))

ConnectRequest(r) == Int64ToBytes(protocol_id) \o IntToBytes(0) \o IntToBytes(TransactionId(r))

ConnectionId(response) == BytesToInt64(SubSeq(response, 9, 16))

\* Slip: the port as an int, in four bytes.
SlipPlainPort == IntToBytes(port)

\* The port is written as an int, twice; an int that is too large wraps around.
PortBytes == IntToBytes(ToInt(port * Values(2) + port))

AnnounceRequest(connection_id, r, left) ==
    Int64ToBytes(connection_id) \o IntToBytes(1) \o IntToBytes(TransactionId(r))
    \o info_hash \o peer_id \o Int64ToBytes(0) \o Int64ToBytes(left) \o Int64ToBytes(0)
    \o IntToBytes(2) \o IntToBytes(0) \o IntToBytes(r) \o IntToBytes(-1) \o PortBytes

\* The checks of both answers.
Accepted(response, action, r, size) ==
    /\ Len(response) >= size
    /\ uint32_t(BytesToInt(response)) = action
    /\ uint32_t(BytesToInt(SubSeq(response, 5, 8))) = TransactionId(r)

\* An address as TorrentTracker keeps it: the four numbers, and the port.
ConvertTrackerPeer(ip, p) ==
    [ip |-> [k \in 1 .. 4 |-> (ip \div Values(4 - k)) % Base], port |-> p]

OneMorePeer(response, offset) == offset + 6 <= Len(response)

PeersIn(response) ==
    LET n == {k \in 0 .. Len(response) \div 6 : OneMorePeer(response, 20 + 6 * k)}
        at(k) == SubSeq(response, 15 + 6 * k, 20 + 6 * k)
    IN  [k \in 1 .. Cardinality(n) |->
            ConvertTrackerPeer(uint32_t(BytesToInt(at(k))), at(k)[5] * Base + at(k)[6])]

-----------------------------------------------------------------------------
\* The tracker (external), as the protocol has it: a connect is answered with an id,
\* an announce with three numbers and six bytes per peer.
Field(packet, first, n) == SubSeq(packet, first + 1, first + n)

ConnectAnswer(packet, id) == BigEndian(0, 4) \o Field(packet, 12, 4) \o BigEndian(id, 8)

AnnounceAnswer(packet, compact) ==
    BigEndian(1, 4) \o Field(packet, 12, 4) \o BigEndian(0, 12) \o compact

\* What the tracker reads of an announce.
Announced(packet) ==
    [connection |-> Unsigned(Field(packet, 0, 8)), action |-> Unsigned(Field(packet, 8, 4)),
     hash |-> Field(packet, 16, 20), id |-> Field(packet, 36, 20),
     left |-> Unsigned(Field(packet, 64, 8)), want |-> Field(packet, 92, 4),
     port |-> Unsigned(Field(packet, 96, 2))]

-----------------------------------------------------------------------------
\* The announce that the code means, in a session the tracker knows; the port is read
\* at byte 96, though UdpTracker writes four bytes there (UdpTracker.cpp:101).
Meant(connection_id, left) ==
    [connection |-> connection_id, action |-> 1, hash |-> info_hash, id |-> peer_id,
     left |-> left, want |-> [k \in 1 .. 4 |-> Base - 1], port |-> port]
=============================================================================
