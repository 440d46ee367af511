------------------------------- MODULE Bytes --------------------------------
(***************************************************************************)
(* utils/byte_tools: integers as big-endian strings of bytes.  A string is *)
(* a sequence of bytes.  Bits is the width of a byte, 8 in the code; an    *)
(* int has 4 bytes and two's complement, a uint64_t has 8 bytes.           *)
(***************************************************************************)
EXTENDS Integers, SequencesExt

CONSTANT Bits

ASSUME BytesAssumption == Bits \in Nat \ {0}

\* 1 << n
Bit[n \in Nat] == IF n = 0 THEN 1 ELSE 2 * Bit[n - 1]

\* How many values n bytes have.
Values(n) == Bit[n * Bits]

Base == Values(1)
Byte == 0 .. Base - 1

\* The int whose 32 bits are those of n.
ToInt(n) ==
    LET m == n % Values(4) IN IF m < Values(4) \div 2 THEN m ELSE m - Values(4)

Unsigned(bytes) ==
    LET result[n \in 0 .. Len(bytes)] ==
            IF n = 0 THEN 0 ELSE result[n - 1] * Base + bytes[n]
    IN  result[Len(bytes)]

\* Both throw for a shorter string; their callers test the size or have made it.
BytesToInt(bytes)   == ToInt(Unsigned(SubSeq(bytes, 1, 4)))
BytesToInt64(bytes) == Unsigned(SubSeq(bytes, 1, 8))

\* value >> Bits * (n - k), & 0xFF; the shift of a negative int keeps its sign.
BigEndian(value, n) == [k \in 1 .. n |-> (value \div Values(n - k)) % Base]

IntToBytes(value)   == BigEndian(value, 4)
Int64ToBytes(value) == BigEndian(value, 8)
=============================================================================
