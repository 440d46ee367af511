--------------------------- MODULE PeerWireProofs ---------------------------
(***************************************************************************)
(* The peer wire protocol between the client and a peer that keeps to it,  *)
(* for every width of a byte, number of pieces, size of blocks and order   *)
(* and size of the pieces in which bytes come.  The invariant says which   *)
(* messages the bytes between the two ends are, where ReceiveData stands   *)
(* in the first of them, which blocks they ask for and bring, and what     *)
(* they say of pieces.                                                     *)
(***************************************************************************)
EXTENDS PeerWire, BytesProofs

-----------------------------------------------------------------------------
(***************************************************************************)
(* A stream of bytes is cut into messages: message k begins behind byte    *)
(* at[k].                                                                  *)
(***************************************************************************)
Messages == [id : Int, payload : Seq(Int), of : Blocks \cup {NoBlock}, bytes : Seq(Int)]

Cuts(at, stream, messages) ==
    /\ at[1] = 0 /\ at[Len(messages) + 1] = Len(stream)
    /\ \A j, k \in 1 .. Len(messages) + 1 : j <= k => at[j] <= at[k]
    /\ \A k \in 1 .. Len(messages) :
          /\ at[k + 1] = at[k] + Len(messages[k].bytes)
          /\ \A j \in 1 .. Len(messages[k].bytes) : stream[at[k] + j] = messages[k].bytes[j]

InStream(stream, messages) ==
    \E at \in [1 .. Len(messages) + 1 -> 0 .. Len(stream)] : Cuts(at, stream, messages)

\* No messages, no bytes.
LEMMA InStreamEmpty == InStream(<<>>, <<>>)
<1> DEFINE at == [k \in 1 .. 1 |-> 0]
<1>1. at \in [1 .. 1 -> 0 .. 0] /\ at[1] = 0
  OBVIOUS
<1> HIDE DEF at
<1>2. Len(<<>>) = 0 /\ 0 + 1 = 1
  OBVIOUS
<1>3. Cuts(at, <<>>, <<>>)
  BY <1>1 DEF Cuts
<1> QED
  BY <1>1, <1>2, <1>3 DEF InStream

\* A message more, at the end: its bytes come after all others.
LEMMA InStreamAppend ==
  ASSUME NEW stream \in Seq(Int), NEW messages \in Seq(Messages), NEW m \in Messages,
         InStream(stream, messages)
  PROVE  InStream(stream \o m.bytes, Append(messages, m))
<1> DEFINE n == Len(messages)
           L == Len(stream)
           b == m.bytes
           s == stream \o b
           ms == Append(messages, m)
<1>1. PICK at \in [1 .. n + 1 -> 0 .. L] : Cuts(at, stream, messages)
  BY DEF InStream
<1>2. n \in Nat /\ L \in Nat /\ b \in Seq(Int) /\ Len(b) \in Nat
  BY LenProperties DEF Messages
<1>3. Len(s) = L + Len(b) /\ \A i \in 1 .. L + Len(b) : s[i] = IF i <= L THEN stream[i] ELSE b[i - L]
  BY <1>2, ConcatProperties
<1>4. Len(ms) = n + 1 /\ ms[n + 1] = m /\ \A k \in 1 .. n : ms[k] = messages[k]
  BY AppendProperties
<1>0. /\ at[1] = 0 /\ at[n + 1] = L
      /\ \A j, k \in 1 .. n + 1 : j <= k => at[j] <= at[k]
      /\ \A k \in 1 .. n :
            /\ at[k + 1] = at[k] + Len(messages[k].bytes)
            /\ \A j \in 1 .. Len(messages[k].bytes) :
                  stream[at[k] + j] = messages[k].bytes[j]
  BY <1>1 DEF Cuts
<1>12. \A k \in 1 .. n : Len(messages[k].bytes) \in Nat
  <2> TAKE k \in 1 .. n
  <2> messages[k] \in Messages
    BY ElementOfSeq
  <2> QED
    BY LenProperties DEF Messages
<1> HIDE DEF n, L
<1> DEFINE to == [k \in 1 .. n + 2 |-> IF k = n + 2 THEN L + Len(b) ELSE at[k]]
<1>5. to \in [1 .. (n + 1) + 1 -> 0 .. L + Len(b)]
  BY <1>2
<1>6. \A k \in 1 .. n + 1 : to[k] = at[k] /\ at[k] \in 0 .. L
  BY <1>2
<1>7. to[(n + 1) + 1] = L + Len(b)
  BY <1>2
<1> HIDE DEF to, s, ms, b
<1>8. to[1] = 0
  BY <1>0, <1>2, <1>6
<1>9. \A j, k \in 1 .. (n + 1) + 1 : j <= k => to[j] <= to[k]
  <2> TAKE j, k \in 1 .. (n + 1) + 1
  <2>1. CASE k = (n + 1) + 1
    BY <1>2, <1>5, <1>7, <2>1
  <2>2. CASE k # (n + 1) + 1
    <3> j <= k => j \in 1 .. n + 1 /\ k \in 1 .. n + 1
      BY <1>2, <2>2
    <3> QED
      BY <1>0, <1>6
  <2> QED
    BY <2>1, <2>2
<1>10. ASSUME NEW k \in 1 .. n + 1
       PROVE  /\ to[k + 1] = to[k] + Len(ms[k].bytes)
              /\ \A j \in 1 .. Len(ms[k].bytes) : s[to[k] + j] = ms[k].bytes[j]
  <2>1. CASE k = n + 1
    <3>1. to[k] = L
      BY <1>0, <1>2, <1>6, <2>1
    <3>2. ms[k].bytes = b
      BY <1>4, <2>1 DEF b
    <3> QED
      <4>1. \A j \in 1 .. Len(b) : s[L + j] = b[j]
        <5> TAKE j \in 1 .. Len(b)
        <5> L + j \in 1 .. L + Len(b) /\ ~(L + j <= L) /\ (L + j) - L = j
          BY <1>2
        <5> QED
          BY <1>3
      <4> QED
        BY <1>2, <1>7, <2>1, <3>1, <3>2, <4>1
  <2>2. CASE k # n + 1
    <3>1. k \in 1 .. n /\ k \in 1 .. n + 1 /\ k + 1 \in 1 .. n + 1
      BY <1>2, <2>2
    <3>2. ms[k] = messages[k] /\ to[k] = at[k] /\ to[k + 1] = at[k + 1] /\ at[k + 1] <= L
          /\ at[k] \in Nat
      BY <1>4, <1>6, <3>1
    <3>3. /\ at[k + 1] = at[k] + Len(messages[k].bytes)
          /\ \A j \in 1 .. Len(messages[k].bytes) :
                stream[at[k] + j] = messages[k].bytes[j]
      BY <1>0, <3>1
    <3>4. Len(messages[k].bytes) \in Nat
      BY <1>12, <3>1
    <3>5. ASSUME NEW j \in 1 .. Len(messages[k].bytes) PROVE s[at[k] + j] = stream[at[k] + j]
      <4> DEFINE x == at[k]
                 y == at[k + 1]
                 l == Len(messages[k].bytes)
      <4>1. y = x + l /\ x \in Nat /\ y <= L /\ l \in Nat /\ j \in 1 .. l
        BY <3>2, <3>3, <3>4
      <4> HIDE DEF x, y, l
      <4>2. x + j \in 1 .. L + Len(b) /\ x + j <= L
        BY <1>2, <4>1
      <4>3. s[x + j] = stream[x + j]
        BY <1>3, <4>2
      <4> QED
        BY <4>3 DEF x
    <3> QED
      BY <3>2, <3>3, <3>5
  <2> QED
    BY <2>1, <2>2
<1>11. Cuts(to, s, ms)
  BY <1>3, <1>4, <1>7, <1>8, <1>9, <1>10 DEF Cuts
<1>13. InStream(s, ms)
  BY <1>3, <1>4, <1>5, <1>11 DEF InStream
<1> QED
  BY <1>13 DEF s, ms, b

\* The stream begins with the first message.
LEMMA InStreamHead ==
  ASSUME NEW stream \in Seq(Int), NEW messages \in Seq(Messages), messages # <<>>,
         InStream(stream, messages)
  PROVE  /\ Head(messages) \in Messages /\ Len(Head(messages).bytes) <= Len(stream)
         /\ \A j \in 1 .. Len(Head(messages).bytes) : stream[j] = Head(messages).bytes[j]
<1>1. PICK at \in [1 .. Len(messages) + 1 -> 0 .. Len(stream)] : Cuts(at, stream, messages)
  BY DEF InStream
<1>2. Len(messages) \in Nat \ {0} /\ Head(messages) = messages[1]
      /\ Head(messages) \in Messages /\ Len(stream) \in Nat
  BY EmptySeq, HeadTailProperties, LenProperties
<1>3. 1 \in 1 .. Len(messages) /\ 1 \in 1 .. Len(messages) + 1 /\ 2 \in 1 .. Len(messages) + 1
  BY <1>2
<1>4. at[1] = 0 /\ at[1 + 1] = at[1] + Len(messages[1].bytes) /\ at[1 + 1] \in 0 .. Len(stream)
      /\ \A j \in 1 .. Len(messages[1].bytes) : stream[at[1] + j] = messages[1].bytes[j]
  <2>1. at[1 + 1] \in 0 .. Len(stream)
    BY <1>3
  <2> QED
    BY <1>1, <1>3, <2>1 DEF Cuts
<1>5. Len(messages[1].bytes) \in Nat
  BY <1>2, LenProperties DEF Messages
<1> QED
  BY <1>2, <1>4, <1>5

\* Behind the first message come the others.
LEMMA InStreamTail ==
  ASSUME NEW rest \in Seq(Int), NEW messages \in Seq(Messages), messages # <<>>,
         InStream(Head(messages).bytes \o rest, messages)
  PROVE  InStream(rest, Tail(messages))
<1> DEFINE n == Len(messages)
           b == Head(messages).bytes
           s == b \o rest
           ms == Tail(messages)
<1>1. PICK at \in [1 .. n + 1 -> 0 .. Len(s)] : Cuts(at, s, messages)
  BY DEF InStream
<1>2. n \in Nat \ {0} /\ Head(messages) = messages[1] /\ Head(messages) \in Messages
      /\ b \in Seq(Int) /\ Len(b) \in Nat /\ Len(rest) \in Nat
  <2>1. n \in Nat \ {0} /\ Head(messages) = messages[1] /\ Head(messages) \in Messages
    BY EmptySeq, HeadTailProperties, LenProperties
  <2>2. b \in Seq(Int)
    BY <2>1 DEF Messages
  <2> QED
    BY <2>1, <2>2, LenProperties
<1>3. Len(s) = Len(b) + Len(rest)
      /\ \A i \in 1 .. Len(b) + Len(rest) : s[i] = IF i <= Len(b) THEN b[i] ELSE rest[i - Len(b)]
  BY <1>2, ConcatProperties
<1>4. ms \in Seq(Messages) /\ Len(ms) = n - 1 /\ \A k \in 1 .. n - 1 : ms[k] = messages[k + 1]
  BY HeadTailProperties
<1>13. \A k \in 1 .. n : Len(messages[k].bytes) \in Nat
  <2> TAKE k \in 1 .. n
  <2> messages[k] \in Messages
    BY ElementOfSeq
  <2> QED
    BY LenProperties DEF Messages
<1>0. /\ at[1] = 0 /\ at[n + 1] = Len(s)
      /\ \A j, k \in 1 .. n + 1 : j <= k => at[j] <= at[k]
      /\ \A k \in 1 .. n :
            /\ at[k + 1] = at[k] + Len(messages[k].bytes)
            /\ \A j \in 1 .. Len(messages[k].bytes) :
                  s[at[k] + j] = messages[k].bytes[j]
  BY <1>1 DEF Cuts
<1> HIDE DEF s, ms, n
<1>5. at[1 + 1] = Len(b) /\ at[n + 1] = Len(b) + Len(rest)
  <2> 1 \in 1 .. n
    BY <1>2
  <2> at[1 + 1] = at[1] + Len(b)
    BY <1>0, <1>2
  <2> QED
    BY <1>0, <1>2, <1>3
<1>6. \A k \in 1 .. n : at[k + 1] \in Len(b) .. Len(b) + Len(rest)
  <2> TAKE k \in 1 .. n
  <2>1. 1 + 1 \in 1 .. n + 1 /\ k + 1 \in 1 .. n + 1 /\ 1 + 1 <= k + 1
    BY <1>2
  <2>2. at[1 + 1] <= at[k + 1] /\ at[k + 1] \in 0 .. Len(s)
    BY <1>0, <2>1
  <2> QED
    BY <1>2, <1>3, <1>5, <2>2
<1> DEFINE to == [k \in 1 .. n |-> at[k + 1] - Len(b)]
<1>7. to \in [1 .. (n - 1) + 1 -> 0 .. Len(rest)]
  BY <1>2, <1>6
<1>8. \A k \in 1 .. n : to[k] = at[k + 1] - Len(b)
  OBVIOUS
<1> HIDE DEF to, b
<1>9. to[1] = 0 /\ to[(n - 1) + 1] = Len(rest)
  <2> 1 \in 1 .. n /\ n \in 1 .. n /\ (n - 1) + 1 = n
    BY <1>2
  <2> to[1] = at[1 + 1] - Len(b) /\ to[n] = at[n + 1] - Len(b)
    BY <1>8
  <2> QED
    BY <1>2, <1>5
<1>10. \A j, k \in 1 .. (n - 1) + 1 : j <= k => to[j] <= to[k]
  <2> TAKE j, k \in 1 .. (n - 1) + 1
  <2> j \in 1 .. n /\ k \in 1 .. n /\ j + 1 \in 1 .. n + 1 /\ k + 1 \in 1 .. n + 1
    BY <1>2
  <2> DEFINE x == at[j + 1]
             y == at[k + 1]
  <2>1. j <= k => x <= y
    BY <1>0
  <2>2. x \in Len(b) .. Len(b) + Len(rest) /\ y \in Len(b) .. Len(b) + Len(rest)
    BY <1>6
  <2>3. to[j] = x - Len(b) /\ to[k] = y - Len(b)
    BY <1>8
  <2> HIDE DEF x, y
  <2> QED
    BY <1>2, <2>1, <2>2, <2>3
<1>11. ASSUME NEW k \in 1 .. n - 1
       PROVE  /\ to[k + 1] = to[k] + Len(ms[k].bytes)
              /\ \A j \in 1 .. Len(ms[k].bytes) : rest[to[k] + j] = ms[k].bytes[j]
  <2>1. k + 1 \in 1 .. n /\ k \in 1 .. n /\ ms[k] = messages[k + 1]
    BY <1>2, <1>4
  <2>2. /\ at[(k + 1) + 1] = at[k + 1] + Len(ms[k].bytes)
        /\ \A j \in 1 .. Len(ms[k].bytes) : s[at[k + 1] + j] = ms[k].bytes[j]
    BY <1>0, <2>1
  <2>3. at[k + 1] \in Len(b) .. Len(b) + Len(rest) /\ at[(k + 1) + 1] \in Len(b) .. Len(b) + Len(rest)
    BY <1>6, <2>1
  <2>4. to[k] = at[k + 1] - Len(b) /\ to[k + 1] = at[(k + 1) + 1] - Len(b)
    BY <1>8, <2>1
  <2>5. Len(ms[k].bytes) \in Nat
    BY <1>13, <2>1
  <2>6. ASSUME NEW j \in 1 .. Len(ms[k].bytes) PROVE rest[to[k] + j] = s[at[k + 1] + j]
    <3> DEFINE x == at[k + 1]
               y == at[(k + 1) + 1]
               l == Len(ms[k].bytes)
               c == Len(b)
               r == Len(rest)
               z == to[k]
    <3>1. y = x + l /\ x \in c .. c + r /\ y \in c .. c + r /\ z = x - c
          /\ l \in Nat /\ j \in 1 .. l /\ c \in Nat /\ r \in Nat
      BY <1>2, <2>2, <2>3, <2>4, <2>5
    <3> HIDE DEF x, y, l, c, r, z
    <3>2. x + j \in 1 .. c + r /\ ~(x + j <= c) /\ (x + j) - c = z + j
      BY <3>1
    <3>3. rest[z + j] = s[x + j]
      BY <1>3, <3>2 DEF c, r
    <3> QED
      BY <3>3 DEF x, z
  <2>7. to[k + 1] = to[k] + Len(ms[k].bytes)
    <3> DEFINE x == at[k + 1]
               l == Len(ms[k].bytes)
               c == Len(b)
    <3>1. x \in Int /\ l \in Nat /\ c \in Nat /\ to[k] = x - c /\ to[k + 1] = (x + l) - c
      BY <1>2, <2>2, <2>3, <2>4, <2>5
    <3> HIDE DEF x, l, c
    <3>2. to[k + 1] = to[k] + l
      BY <3>1
    <3> QED
      BY <3>2 DEF l
  <2> QED
    BY <2>2, <2>6, <2>7
<1>12. Cuts(to, rest, ms)
  BY <1>4, <1>9, <1>10, <1>11 DEF Cuts
<1> QED
  BY <1>4, <1>7, <1>12 DEF InStream, ms

\* No bytes, no messages, as no message is empty.
LEMMA InStreamNone ==
  ASSUME NEW messages \in Seq(Messages), InStream(<<>>, messages),
         \A k \in DOMAIN messages : messages[k].bytes # <<>>
  PROVE  messages = <<>>
<1> SUFFICES ASSUME messages # <<>> PROVE FALSE
  OBVIOUS
<1>1. <<>> \in Seq(Int) /\ Len(<<>>) = 0
  OBVIOUS
<1>2. Len(Head(messages).bytes) <= 0 /\ Head(messages) \in Messages
  BY <1>1, InStreamHead
<1>3. Head(messages) = messages[1] /\ 1 \in DOMAIN messages
  BY EmptySeq, LenProperties, HeadTailProperties
<1>4. messages[1].bytes \in Seq(Int) /\ messages[1].bytes # <<>>
  BY <1>2, <1>3 DEF Messages
<1> QED
  BY <1>2, <1>3, <1>4, EmptySeq

-----------------------------------------------------------------------------
(***************************************************************************)
(* The messages of a peer that keeps to the protocol, and what Parse makes *)
(* of their bytes.                                                         *)
(***************************************************************************)
Request(b) == Serialized(NewMessage(kRequest, Payload(b)))

Answer(b) == IntToBytes(b[1]) \o IntToBytes(b[2]) \o [k \in 1 .. b[3] |-> 0]

\* A message with a length prefix; a block is an answer to the request for it.
Said(id, payload, of) ==
    /\ id \in {kChoke, kUnchoke, kHave, kBitField, kPiece}
    /\ id \in {kChoke, kUnchoke} => payload = <<>>
    /\ id = kPiece => of \in Blocks /\ payload = Answer(of)
    /\ Len(payload) + 1 <= MaxSize

Good(m) ==
    \/ m.id = kKeepAlive /\ m.payload = <<>> /\ m.bytes = <<0, 0, 0, 0>>
    \/ Said(m.id, m.payload, m.of) /\ m.bytes = Wire(m.id, m.payload)

\* What fits into an int of the client.
LEMMA SizesAreInts ==
  /\ \A v \in Sizes : v \in - (Values(4) \div 2) .. Values(4) \div 2 - 1 /\ v \in Nat
  /\ MaxSize \in Nat /\ \A v \in 0 .. MaxSize : v \in Sizes
<1>1. Values(4) \div 2 \in Nat
  <2> Values(4) \in Nat \ {0}
    BY ValuesDef
  <2> QED
    OBVIOUS
<1> QED
  BY <1>1, WireAssumption DEF Sizes

\* A size is sent as four bytes, which read as that size again.
LEMMA FourBytes ==
  ASSUME NEW v \in Sizes
  PROVE  /\ IntToBytes(v) \in Seq(Int) /\ Len(IntToBytes(v)) = 4
         /\ \A t \in Seq(Int) : BytesToInt(IntToBytes(v) \o t) = v
         /\ BytesToInt(IntToBytes(v)) = v
         /\ Unsigned(IntToBytes(v)) = v
<1>1. v \in Int /\ v \in - (Values(4) \div 2) .. Values(4) \div 2 - 1
  BY SizesAreInts
<1>2. IntToBytes(v) \in Seq(Int) /\ Len(IntToBytes(v)) = 4
  <2> Byte \subseteq Int
    BY ValuesDef DEF Byte
  <2> QED
    BY <1>1, BigEndianType, SeqMonotonic DEF IntToBytes
<1>3. \A t \in Seq(Int) : BytesToInt(IntToBytes(v) \o t) = v
  BY <1>1, BytesToIntReads
<1>4. IntToBytes(v) \o <<>> = IntToBytes(v) /\ <<>> \in Seq(Int)
  BY <1>2, ConcatEmptySeq
<1>5. v \in 0 .. Values(4) - 1
  <2> Values(4) \in Nat \ {0}
    BY ValuesDef
  <2> Values(4) \div 2 <= Values(4) /\ Values(4) \div 2 \in Nat
    OBVIOUS
  <2> QED
    BY DEF Sizes
<1>6. Unsigned(IntToBytes(v)) = v
  BY <1>5, UnsignedOfBigEndian DEF IntToBytes
<1> QED
  BY <1>2, <1>3, <1>4, <1>6

\* Three parts put together, in either order.
LEMMA Regroup ==
  ASSUME NEW p \in Seq(Int), NEW h \in Seq(Int), NEW y \in Seq(Int)
  PROVE  (p \o h) \o y = p \o (h \o y)
<1> DEFINE cat(a, b) == a \o b
<1>1. \A S : \A s, t, u \in Seq(S) : cat(cat(s, t), u) = cat(s, cat(t, u))
  BY ConcatAssociative, Zenon
<1> HIDE DEF cat
<1>2. cat(cat(p, h), y) = cat(p, cat(h, y))
  BY <1>1
<1> QED
  BY <1>2 DEF cat

\* Four bytes, one byte, and more: where they are.
Framed(w, p, i, y) ==
    /\ w \in Seq(Int) /\ Len(w) = Len(y) + 5
    /\ SubSeq(w, 1, 4) = p /\ w[5] = i /\ SubSeq(w, 6, Len(w)) = y

\* Length, id and payload of a message, where Parse looks for them.
LEMMA Prefixed ==
  ASSUME NEW p \in Seq(Int), Len(p) = 4, NEW h \in Seq(Int), Len(h) = 1,
         NEW y \in Seq(Int)
  PROVE  Framed((p \o h) \o y, p, h[1], y)
<1> DEFINE w == (p \o h) \o y
           t == h \o y
           l == Len(y)
<1>1. l \in Nat
  BY LenProperties
<1>3. t \in Seq(Int) /\ Len(t) = Len(h) + Len(y)
      /\ \A k \in 1 .. Len(h) + Len(y) : t[k] = IF k <= Len(h) THEN h[k] ELSE y[k - Len(h)]
  BY ConcatProperties
<1>4. w = p \o t
  BY Regroup
<1> HIDE DEF t, w
<1>12. t \in Seq(Int)
  BY <1>3
<1>2. p \o t \in Seq(Int) /\ Len(p \o t) = Len(p) + Len(t)
      /\ \A k \in 1 .. Len(p) + Len(t) :
            (p \o t)[k] = IF k <= Len(p) THEN p[k] ELSE t[k - Len(p)]
  BY <1>12, ConcatProperties
<1>5. w \in Seq(Int) /\ Len(w) = Len(p) + Len(t)
      /\ \A k \in 1 .. Len(p) + Len(t) : w[k] = IF k <= Len(p) THEN p[k] ELSE t[k - Len(p)]
  BY <1>2, <1>4
<1> HIDE DEF l
<1>6. Len(t) = l + 1 /\ Len(w) = l + 5
  BY <1>1, <1>3, <1>5 DEF l
<1>7. SubSeq(w, 1, 4) = p
  <2>1. 1 \in 1 .. Len(p) /\ 4 \in 1 .. Len(p)
    OBVIOUS
  <2>2. SubSeq(p \o t, 1, 4) = SubSeq(p, 1, 4)
    BY <1>3, <2>1, SubSeqOfConcat1, Zenon
  <2>3. SubSeq(p, 1, Len(p)) = p
    BY SubSeqFull
  <2> QED
    BY <1>4, <2>2, <2>3
<1>8. \A k \in 1 .. l + 1 : w[k + 4] = t[k]
  <2> TAKE k \in 1 .. l + 1
  <2> k + 4 \in 1 .. Len(p) + Len(t) /\ ~(k + 4 <= Len(p)) /\ (k + 4) - Len(p) = k
    BY <1>1, <1>6
  <2> QED
    BY <1>5
<1>9. \A k \in 1 .. l : w[k + 5] = y[k]
  <2> TAKE k \in 1 .. l
  <2>1. k + 1 \in 1 .. l + 1 /\ (k + 1) + 4 = k + 5
    BY <1>1
  <2>2. k + 1 \in 1 .. Len(h) + Len(y) /\ ~(k + 1 <= Len(h)) /\ (k + 1) - Len(h) = k
    BY <1>1 DEF l
  <2>3. w[(k + 1) + 4] = t[k + 1] /\ t[k + 1] = y[k]
    BY <1>3, <1>8, <2>1, <2>2
  <2> QED
    BY <2>1, <2>3
<1>10. w[5] = h[1]
  <2>1. 1 \in 1 .. l + 1 /\ 1 + 4 = 5 /\ 1 \in 1 .. Len(h) + Len(y) /\ 1 <= Len(h)
    BY <1>1 DEF l
  <2>2. w[1 + 4] = t[1] /\ t[1] = h[1]
    BY <1>3, <1>8, <2>1
  <2> QED
    BY <1>1, <2>1, <2>2
<1>11. SubSeq(w, 6, Len(w)) = y
  <2>2. 5 + Len(y) <= Len(w) /\ Len(w) = 5 + Len(y)
    BY <1>1, <1>6 DEF l
  <2>1. SubSeq(w, 5 + 1, 5 + Len(y)) = y
    BY <1>5, <1>9, <2>2, Behind DEF l
  <2> QED
    BY <2>1, <2>2
<1>13. Framed(w, p, h[1], y)
  BY <1>5, <1>6, <1>7, <1>10, <1>11 DEF l, Framed
<1> QED
  BY <1>13 DEF w

\* A message on the wire: its length, what its prefix says, what it is parsed as.
LEMMA WireFacts ==
  ASSUME NEW id \in Int, NEW payload \in Seq(Int), Len(payload) + 1 \in Sizes
  PROVE  LET w == Wire(id, payload)
         IN  /\ w \in Seq(Int) /\ Len(w) = Len(payload) + 5
             /\ BytesToInt(SubSeq(w, 1, 4)) = Len(payload) + 1
             /\ BytesToInt(w) = Len(payload) + 1
             /\ w[5] = id /\ SubSeq(w, 6, Len(w)) = payload
<1> DEFINE w == Wire(id, payload)
           v == Len(payload) + 1
           p == IntToBytes(v)
<1>1. v \in Sizes
  OBVIOUS
<1> HIDE DEF v
<1>2. p \in Seq(Int) /\ Len(p) = 4 /\ BytesToInt(p) = v
  BY <1>1, FourBytes
<1> DEFINE h == <<id>>
<1>3. w = (p \o h) \o payload
  BY DEF Wire, IntToBytes, v, w
<1>7. h \in Seq(Int) /\ Len(h) = 1 /\ h[1] = id
  OBVIOUS
<1> HIDE DEF p, h
<1>6. p \in Seq(Int) /\ Len(p) = 4
  BY <1>2
<1> HIDE DEF w
<1>8. Framed((p \o h) \o payload, p, h[1], payload)
  BY <1>6, <1>7, Prefixed
<1>4. /\ w \in Seq(Int) /\ Len(w) = Len(payload) + 5
      /\ SubSeq(w, 1, 4) = p /\ w[5] = h[1] /\ SubSeq(w, 6, Len(w)) = payload
  BY <1>3, <1>8 DEF Framed
<1>9. SubSeq(p, 1, 4) = p
  BY <1>6, SubSeqFull
<1>5. BytesToInt(w) = v /\ BytesToInt(SubSeq(w, 1, 4)) = v
  BY <1>2, <1>4, <1>9, Zenon DEF BytesToInt
<1> QED
  BY <1>4, <1>5, <1>7 DEF v, w

\* What Parse makes of bytes with these fields.
LEMMA ParseFacts ==
  ASSUME NEW w, NEW i, NEW y, NEW n \in Int, BytesToInt(w) = n,
         w[5] = i, SubSeq(w, 6, Len(w)) = y
  PROVE  /\ n = 0 => Parse(w).id = kKeepAlive /\ Parse(w).payload = <<>>
         /\ n # 0 => /\ Parse(w).id = i
                     /\ Parse(w).payload = IF i > 3 THEN y ELSE <<>>
BY DEF Parse

\* A keep-alive is the length 0.
LEMMA KeepAliveBytes == <<0, 0, 0, 0>> = IntToBytes(0)
<1>1. \A n \in Nat : (0 \div Values(n)) % Base = 0
  <2> TAKE n \in Nat
  <2> DEFINE d == Values(n)
             B == Base
  <2>1. d \in Nat \ {0} /\ B \in Nat \ {0}
    BY ValuesDef
  <2> HIDE DEF d, B
  <2>2. 0 \div d = 0 /\ 0 % B = 0
    BY <2>1
  <2> QED
    BY <2>2 DEF d, B
<1>2. \A k \in 1 .. 4 : (0 \div Values(4 - k)) % Base = 0
  BY <1>1
<1>3. IntToBytes(0) = [k \in 1 .. 4 |-> 0]
  BY <1>2 DEF IntToBytes, BigEndian
<1> QED
  BY <1>3

\* The length prefix is what is behind it; and Parse gives what was meant.
LEMMA GoodFacts ==
  ASSUME NEW m \in Messages, Good(m)
  PROVE  /\ Len(m.bytes) \in 4 .. MaxSize + 4
         /\ BytesToInt(SubSeq(m.bytes, 1, 4)) = Len(m.bytes) - 4
         /\ Parse(m.bytes).id = m.id /\ Parse(m.bytes).payload = m.payload
         /\ m.id = kPiece => m.of \in Blocks /\ m.payload = Answer(m.of)
<1> DEFINE w == m.bytes
           i == m.id
           y == m.payload
<1>0. i \in Int /\ y \in Seq(Int) /\ Len(y) \in Nat /\ MaxSize \in Nat
  BY LenProperties, SizesAreInts DEF Messages
<1>1. CASE i = kKeepAlive /\ y = <<>> /\ w = <<0, 0, 0, 0>>
  <2>1. w = IntToBytes(0) /\ 0 \in Sizes
    BY <1>1, KeepAliveBytes, SizesAreInts
  <2>2. Len(w) = 4 /\ BytesToInt(w) = 0 /\ w \in Seq(Int)
    BY <2>1, FourBytes
  <2>3. SubSeq(w, 1, 4) = w
    <3> SubSeq(w, 1, Len(w)) = w
      BY <2>2, SubSeqFull
    <3> QED
      BY <2>2
  <2> HIDE DEF w, i, y
  <2>4. Parse(w).id = kKeepAlive /\ Parse(w).payload = <<>>
    BY <2>2 DEF Parse
  <2>7. BytesToInt(SubSeq(w, 1, 4)) = 0
    BY <2>2, <2>3, Zenon
  <2>5. Len(w) \in 4 .. MaxSize + 4 /\ BytesToInt(SubSeq(w, 1, 4)) = Len(w) - 4
    BY <1>0, <2>2, <2>7
  <2>6. Parse(w).id = i /\ Parse(w).payload = y
    BY <1>1, <2>4
  <2>8. i # kPiece
    BY <1>1 DEF kKeepAlive, kPiece
  <2> QED
    BY <2>5, <2>6, <2>8 DEF w, i, y
<1>2. CASE Said(i, y, m.of) /\ w = Wire(i, y)
  <2>1. /\ i \in {kChoke, kUnchoke, kHave, kBitField, kPiece}
        /\ i \in {kChoke, kUnchoke} => y = <<>>
        /\ i = kPiece => m.of \in Blocks /\ y = Answer(m.of)
        /\ Len(y) + 1 <= MaxSize
    BY <1>2 DEF Said
  <2>2. Len(y) + 1 \in Sizes
    <3> Len(y) + 1 \in 0 .. MaxSize
      BY <1>0, <2>1
    <3> QED
      BY SizesAreInts
  <2> HIDE DEF w, i, y
  <2>3. /\ Len(w) = Len(y) + 5
        /\ BytesToInt(SubSeq(w, 1, 4)) = Len(y) + 1
        /\ BytesToInt(w) = Len(y) + 1
        /\ w[5] = i
        /\ SubSeq(w, 6, Len(w)) = y
    BY <1>0, <1>2, <2>2, WireFacts
  <2>4. Len(y) + 1 \in Int /\ Len(y) + 1 # 0
    BY <1>0
  <2>5. Parse(w).id = i /\ Parse(w).payload = IF i > 3 THEN y ELSE <<>>
    BY <2>3, <2>4, ParseFacts
  <2>6. i > 3 \/ y = <<>>
    BY <2>1 DEF kChoke, kUnchoke, kHave, kBitField, kPiece
  <2>7. Len(w) \in 4 .. MaxSize + 4 /\ BytesToInt(SubSeq(w, 1, 4)) = Len(w) - 4
    BY <1>0, <2>1, <2>3
  <2> QED
    BY <2>1, <2>5, <2>6, <2>7 DEF w, i, y
<1> QED
  BY <1>1, <1>2 DEF Good

-----------------------------------------------------------------------------
(***************************************************************************)
(* A request and its answer.                                               *)
(***************************************************************************)
\* A block to ask for is three sizes.
LEMMA BlockFields ==
  ASSUME NEW b \in Blocks
  PROVE  /\ b[1] \in Sizes /\ b[2] \in Sizes /\ b[3] \in Sizes /\ b = <<b[1], b[2], b[3]>>
         /\ b[3] \in Nat /\ b # NoBlock
<1>1. b \in Sizes \X Sizes \X Sizes
  BY WireAssumption
<1>2. b[1] \in Sizes /\ b[2] \in Sizes /\ b[3] \in Sizes /\ b = <<b[1], b[2], b[3]>>
  BY <1>1
<1>3. b[1] \in Nat /\ b[3] \in Nat
  BY <1>2, SizesAreInts
<1> QED
  BY <1>2, <1>3 DEF NoBlock

\* Where the parts of a request and of an answer are.
Fields(w, x, y, z) ==
    /\ w \in Seq(Int) /\ Len(w) = Len(z) + 8
    /\ SubSeq(w, 1, 4) = x /\ SubSeq(w, 5, 8) = y /\ SubSeq(w, 9, Len(w)) = z

\* Three fields of four bytes, cut out of the payload.
LEMMA FieldsFound ==
  ASSUME NEW x \in Seq(Int), Len(x) = 4, NEW y \in Seq(Int), Len(y) = 4, NEW z \in Seq(Int)
  PROVE  Fields((x \o y) \o z, x, y, z)
<1> DEFINE t == x \o y
           w == t \o z
           l == Len(z)
<1>1. l \in Nat
  BY LenProperties
<1>2. t \in Seq(Int) /\ Len(t) = Len(x) + Len(y)
      /\ \A k \in 1 .. Len(x) + Len(y) : t[k] = IF k <= Len(x) THEN x[k] ELSE y[k - Len(x)]
  BY ConcatProperties
<1> HIDE DEF t
<1>11. t \in Seq(Int)
  BY <1>2
<1>3. w \in Seq(Int) /\ Len(w) = Len(t) + Len(z)
      /\ \A k \in 1 .. Len(t) + Len(z) : w[k] = IF k <= Len(t) THEN t[k] ELSE z[k - Len(t)]
  BY <1>11, ConcatProperties
<1> HIDE DEF w, l
<1>4. Len(t) = 8 /\ Len(w) = l + 8
  BY <1>1, <1>2, <1>3 DEF l
<1>5. \A k \in 1 .. Len(x) : w[k + 0] = x[k]
  <2> TAKE k \in 1 .. Len(x)
  <2> k + 0 = k /\ k \in 1 .. Len(x) + Len(y) /\ k \in 1 .. Len(t) + Len(z)
      /\ k <= Len(t) /\ k <= Len(x)
    BY <1>1, <1>4 DEF l
  <2> QED
    BY <1>2, <1>3
<1>6. \A k \in 1 .. Len(y) : w[k + 4] = y[k]
  <2> TAKE k \in 1 .. Len(y)
  <2> k + 4 \in 1 .. Len(x) + Len(y) /\ k + 4 \in 1 .. Len(t) + Len(z)
      /\ k + 4 <= Len(t) /\ ~(k + 4 <= Len(x)) /\ (k + 4) - Len(x) = k
    BY <1>1, <1>4 DEF l
  <2> QED
    BY <1>2, <1>3
<1>7. \A k \in 1 .. Len(z) : w[k + 8] = z[k]
  <2> TAKE k \in 1 .. Len(z)
  <2> k + 8 \in 1 .. Len(t) + Len(z) /\ ~(k + 8 <= Len(t)) /\ (k + 8) - Len(t) = k
    BY <1>1, <1>4 DEF l
  <2> QED
    BY <1>3
<1>8. SubSeq(w, 1, 4) = x
  <2> SubSeq(w, 0 + 1, 0 + Len(x)) = x
    BY <1>1, <1>3, <1>4, <1>5, Behind
  <2> QED
    OBVIOUS
<1>9. SubSeq(w, 5, 8) = y
  <2>1. 4 \in Nat /\ 4 + Len(y) <= Len(w)
    BY <1>1, <1>4
  <2>2. SubSeq(w, 4 + 1, 4 + Len(y)) = y
    BY <1>3, <1>6, <2>1, Behind
  <2> QED
    BY <2>2
<1>10. SubSeq(w, 9, Len(w)) = z
  <2>1. 8 + Len(z) <= Len(w) /\ Len(w) = 8 + Len(z)
    BY <1>1, <1>4 DEF l
  <2>2. SubSeq(w, 8 + 1, 8 + Len(z)) = z
    BY <1>3, <1>7, <2>1, Behind
  <2> QED
    BY <2>1, <2>2
<1>12. Fields(w, x, y, z)
  BY <1>3, <1>4, <1>8, <1>9, <1>10 DEF Fields, l
<1> QED
  BY <1>12 DEF w, t

\* What the peer reads in a request.
LEMMA RequestFacts ==
  ASSUME NEW b \in Blocks
  PROVE  /\ Request(b) \in Seq(Int) /\ Len(Request(b)) = 17
         /\ SubSeq(Request(b), 6, 9) = IntToBytes(b[1])
         /\ SubSeq(Request(b), 10, 13) = IntToBytes(b[2])
         /\ SubSeq(Request(b), 14, 17) = IntToBytes(b[3])
<1> DEFINE x == IntToBytes(b[1])
           y == IntToBytes(b[2])
           z == IntToBytes(b[3])
           p == Payload(b)
           w == Request(b)
           s == IntToBytes(Len(p) + 1)
           h == <<kRequest>>
<1>1. /\ x \in Seq(Int) /\ Len(x) = 4 /\ y \in Seq(Int) /\ Len(y) = 4
      /\ z \in Seq(Int) /\ Len(z) = 4
  BY BlockFields, FourBytes
<1>2. h \in Seq(Int) /\ Len(h) = 1
  BY DEF kRequest
<1>3. p = (x \o y) \o z
  BY DEF Payload
<1>4. w = (s \o h) \o p
  BY DEF Request, Serialized, NewMessage
<1> HIDE DEF x, y, z, p, w, h
<1>5. Fields((x \o y) \o z, x, y, z)
  BY <1>1, FieldsFound
<1>6. p \in Seq(Int) /\ Len(p) = 12 /\ SubSeq(p, 1, 4) = x /\ SubSeq(p, 5, 8) = y
      /\ SubSeq(p, 9, 12) = z
  <2>1. Fields(p, x, y, z)
    BY <1>3, <1>5
  <2>2. Len(p) = 12
    BY <1>1, <2>1 DEF Fields
  <2> QED
    BY <2>1, <2>2 DEF Fields
<1>7. s \in Seq(Int) /\ Len(s) = 4
  <2>1. 13 \in Int /\ 4 \in Nat /\ s = BigEndian(13, 4)
    BY <1>6 DEF IntToBytes
  <2>2. s \in Seq(Byte) /\ Len(s) = 4
    BY <2>1, BigEndianType
  <2>3. Byte \subseteq Int
    BY ValuesDef DEF Byte
  <2> QED
    BY <2>2, <2>3, SeqMonotonic
<1> HIDE DEF s
<1>8. Framed((s \o h) \o p, s, h[1], p)
  BY <1>2, <1>6, <1>7, Prefixed
<1>9. w \in Seq(Int) /\ Len(w) = 17 /\ SubSeq(w, 6, 17) = p
  <2>1. Framed(w, s, h[1], p)
    BY <1>4, <1>8
  <2>2. Len(w) = 17
    BY <1>6, <2>1 DEF Framed
  <2> QED
    BY <2>1, <2>2 DEF Framed
<1>10. ASSUME NEW m \in 1 .. 12, NEW n \in 1 .. 12
       PROVE  SubSeq(p, m, n) = SubSeq(w, 6 + m - 1, 6 + n - 1)
  <2> DEFINE i == 6
             j == 17
  <2>1. w \in Seq(Int) /\ i \in 1 .. Len(w) /\ j \in 1 .. Len(w)
        /\ m \in 1 .. j - i + 1 /\ n \in 1 .. j - i + 1
    BY <1>9
  <2> HIDE DEF i, j
  <2>3. SubSeq(SubSeq(w, i, j), m, n) = SubSeq(w, i + m - 1, i + n - 1)
    BY <2>1, SubSeqOfSubSeq
  <2>2. SubSeq(SubSeq(w, 6, 17), m, n) = SubSeq(w, 6 + m - 1, 6 + n - 1)
    BY <2>3, Zenon DEF i, j
  <2> QED
    BY <1>9, <2>2, Zenon
<1>11. SubSeq(w, 6, 9) = x
  <2> SubSeq(p, 1, 4) = SubSeq(w, 6 + 1 - 1, 6 + 4 - 1)
    BY <1>10
  <2> QED
    BY <1>6
<1>12. SubSeq(w, 10, 13) = y
  <2> SubSeq(p, 5, 8) = SubSeq(w, 6 + 5 - 1, 6 + 8 - 1)
    BY <1>10
  <2> QED
    BY <1>6
<1>13. SubSeq(w, 14, 17) = z
  <2> SubSeq(p, 9, 12) = SubSeq(w, 6 + 9 - 1, 6 + 12 - 1)
    BY <1>10
  <2> QED
    BY <1>6
<1> QED
  BY <1>9, <1>11, <1>12, <1>13 DEF w, x, y, z

\* What the client reads in an answer.
LEMMA AnswerFacts ==
  ASSUME NEW b \in Blocks
  PROVE  /\ Answer(b) \in Seq(Int) /\ Len(Answer(b)) = b[3] + 8
         /\ BytesToInt(Answer(b)) = b[1] /\ BytesToInt(SubSeq(Answer(b), 5, 8)) = b[2]
<1> DEFINE x == IntToBytes(b[1])
           y == IntToBytes(b[2])
           z == [k \in 1 .. b[3] |-> 0]
           w == Answer(b)
<1>1. /\ x \in Seq(Int) /\ Len(x) = 4 /\ y \in Seq(Int) /\ Len(y) = 4
      /\ BytesToInt(x) = b[1] /\ BytesToInt(y) = b[2] /\ b[3] \in Nat
  BY BlockFields, FourBytes
<1>2. z \in Seq(Int) /\ Len(z) = b[3]
  BY <1>1
<1>3. w = (x \o y) \o z
  BY DEF Answer
<1> HIDE DEF x, y, z, w
<1>4. Fields((x \o y) \o z, x, y, z)
  BY <1>1, <1>2, FieldsFound
<1>5. w \in Seq(Int) /\ Len(w) = Len(z) + 8 /\ SubSeq(w, 1, 4) = x /\ SubSeq(w, 5, 8) = y
  BY <1>3, <1>4 DEF Fields
<1>6. SubSeq(x, 1, 4) = x
  BY <1>1, SubSeqFull
<1>7. BytesToInt(w) = b[1] /\ BytesToInt(SubSeq(w, 5, 8)) = b[2]
  BY <1>1, <1>5, <1>6, Zenon DEF BytesToInt
<1> QED
  BY <1>2, <1>5, <1>7 DEF w

\* The bytes of requests, one behind the other.
Requested(bytes, blocks) ==
    /\ Len(bytes) = 17 * Len(blocks)
    /\ \A k \in DOMAIN blocks :
          \A j \in 1 .. 17 : bytes[17 * (k - 1) + j] = Request(blocks[k])[j]

\* No blocks, no bytes.
LEMMA NoneRequested == <<>> \in Seq(Blocks) /\ Requested(<<>>, <<>>)
BY EmptySeq DEF Requested

\* One request more.
LEMMA RequestedAppend ==
  ASSUME NEW bytes \in Seq(Int), NEW blocks \in Seq(Blocks), NEW b \in Blocks,
         Requested(bytes, blocks)
  PROVE  Requested(bytes \o Request(b), Append(blocks, b))
<1> DEFINE n == Len(blocks)
           l == Len(bytes)
           r == Request(b)
           w == bytes \o r
           bs == Append(blocks, b)
<1>1. r \in Seq(Int) /\ Len(r) = 17
  BY RequestFacts
<1>2. /\ Len(w) = l + 17
      /\ \A i \in 1 .. l + 17 : w[i] = IF i <= l THEN bytes[i] ELSE r[i - l]
  <2> HIDE DEF r
  <2>1. /\ Len(bytes \o r) = Len(bytes) + Len(r)
        /\ \A i \in 1 .. Len(bytes) + Len(r) :
              (bytes \o r)[i] = IF i <= Len(bytes) THEN bytes[i] ELSE r[i - Len(bytes)]
    BY <1>1, ConcatProperties
  <2> QED
    BY <1>1, <2>1, Zenon
<1>3. /\ DOMAIN bs = 1 .. n + 1 /\ Len(bs) = n + 1 /\ n \in Nat
      /\ bs[n + 1] = b /\ \A k \in 1 .. n : bs[k] = blocks[k]
  <2>1. /\ bs \in Seq(Blocks) /\ Len(bs) = n + 1 /\ bs[n + 1] = b
        /\ \A k \in 1 .. n : bs[k] = blocks[k]
    BY AppendProperties
  <2> QED
    BY <2>1, LenProperties
<1>4. l = 17 * n /\ DOMAIN blocks = 1 .. n
  BY LenProperties DEF Requested
<1>5. \A k \in 1 .. n : \A j \in 1 .. 17 : bytes[17 * (k - 1) + j] = Request(blocks[k])[j]
  BY <1>4 DEF Requested
<1> HIDE DEF w, l, n, bs, r
<1>6. ASSUME NEW k \in 1 .. n + 1, NEW j \in 1 .. 17
      PROVE  w[17 * (k - 1) + j] = Request(bs[k])[j]
  <2> DEFINE i == 17 * (k - 1) + j
  <2>1. CASE k = n + 1
    <3>1. i \in 1 .. l + 17 /\ ~(i <= l) /\ i - l = j
      BY <1>3, <1>4, <2>1
    <3> HIDE DEF i
    <3>2. w[i] = r[j]
      BY <1>2, <3>1
    <3>3. bs[k] = b
      BY <1>3, <2>1
    <3> QED
      BY <3>2, <3>3 DEF i, r
  <2>2. CASE k # n + 1
    <3>1. k \in 1 .. n
      BY <1>3, <2>2
    <3>2. i \in 1 .. l + 17 /\ i <= l
      BY <1>3, <1>4, <3>1
    <3> HIDE DEF i
    <3>3. w[i] = bytes[i]
      BY <1>2, <3>2
    <3>4. bs[k] = blocks[k]
      BY <1>3, <3>1
    <3>5. bytes[i] = Request(blocks[k])[j]
      BY <1>5, <3>1 DEF i
    <3> QED
      BY <3>3, <3>4, <3>5 DEF i
  <2> QED
    BY <2>1, <2>2
<1>7. Len(w) = 17 * Len(bs)
  BY <1>2, <1>3, <1>4
<1>8. Requested(w, bs)
  BY <1>3, <1>6, <1>7 DEF Requested
<1> QED
  BY <1>8 DEF w, bs, r

\* The first request is that for the first block, and the others are behind it.
LEMMA RequestedHead ==
  ASSUME NEW bytes \in Seq(Int), NEW blocks \in Seq(Blocks), Requested(bytes, blocks),
         Len(bytes) >= 17
  PROVE  /\ blocks # <<>> /\ Head(blocks) \in Blocks /\ Tail(blocks) \in Seq(Blocks)
         /\ SubSeq(bytes, 6, 9) = IntToBytes(Head(blocks)[1])
         /\ SubSeq(bytes, 10, 13) = IntToBytes(Head(blocks)[2])
         /\ SubSeq(bytes, 14, 17) = IntToBytes(Head(blocks)[3])
         /\ SubSeq(bytes, 18, Len(bytes)) \in Seq(Int)
         /\ Requested(SubSeq(bytes, 18, Len(bytes)), Tail(blocks))
<1> DEFINE n == Len(blocks)
           l == Len(bytes)
           b == Head(blocks)
           r == Request(b)
           w == SubSeq(bytes, 18, l)
           bs == Tail(blocks)
<1>1. n \in Nat /\ l \in Nat /\ l = 17 * n /\ l >= 17
  BY LenProperties DEF Requested
<1> HIDE DEF l, n
<1>2. n >= 1
  BY <1>1
<1>3. blocks # <<>>
  BY <1>2, EmptySeq DEF n
<1>4. /\ b \in Blocks /\ b = blocks[1] /\ bs \in Seq(Blocks) /\ Len(bs) = n - 1
      /\ \A k \in 1 .. Len(bs) : bs[k] = blocks[k + 1]
      /\ DOMAIN blocks = 1 .. n /\ DOMAIN bs = 1 .. n - 1
  <2>1. /\ b \in Blocks /\ b = blocks[1] /\ bs \in Seq(Blocks) /\ Len(bs) = n - 1
        /\ \A k \in 1 .. Len(bs) : bs[k] = blocks[k + 1]
    BY <1>3, HeadTailProperties DEF n
  <2> QED
    BY <2>1, LenProperties DEF n
<1>5. \A k \in 1 .. n : \A j \in 1 .. 17 : bytes[17 * (k - 1) + j] = Request(blocks[k])[j]
  BY <1>4 DEF Requested
<1>6. r \in Seq(Int) /\ Len(r) = 17
  BY <1>4, RequestFacts
<1>7. /\ SubSeq(r, 6, 9) = IntToBytes(b[1]) /\ SubSeq(r, 10, 13) = IntToBytes(b[2])
      /\ SubSeq(r, 14, 17) = IntToBytes(b[3])
  BY <1>4, RequestFacts
<1> HIDE DEF b, bs, r, w
<1>8. \A j \in 1 .. 17 : bytes[j] = r[j]
  <2> TAKE j \in 1 .. 17
  <2>1. 17 * (1 - 1) + j = j /\ 1 \in 1 .. n
    BY <1>1, <1>2
  <2>2. bytes[17 * (1 - 1) + j] = Request(blocks[1])[j]
    BY <1>5, <2>1
  <2> QED
    BY <1>4, <2>1, <2>2, Zenon DEF r
<1>9. SubSeq(bytes, 1, 17) = r
  <2>1. \A k \in 1 .. Len(r) : bytes[k + 0] = r[k]
    <3> TAKE k \in 1 .. Len(r)
    <3> k \in 1 .. 17 /\ k + 0 = k
      BY <1>6
    <3> QED
      BY <1>8
  <2>2. 0 \in Nat /\ 0 + Len(r) <= Len(bytes)
    BY <1>1, <1>6 DEF l
  <2>3. SubSeq(bytes, 0 + 1, 0 + Len(r)) = r
    BY <1>6, <2>1, <2>2, Behind
  <2> QED
    BY <1>6, <2>3
<1>10. ASSUME NEW i \in 1 .. 17, NEW j \in 1 .. 17
       PROVE  SubSeq(r, i, j) = SubSeq(bytes, i, j)
  <2>1. 1 \in 1 .. Len(bytes) /\ 17 \in 1 .. Len(bytes)
        /\ i \in 1 .. 17 - 1 + 1 /\ j \in 1 .. 17 - 1 + 1
    BY <1>1 DEF l
  <2>2. SubSeq(SubSeq(bytes, 1, 17), i, j) = SubSeq(bytes, 1 + i - 1, 1 + j - 1)
    BY <2>1, SubSeqOfSubSeq
  <2>3. 1 + i - 1 = i /\ 1 + j - 1 = j
    OBVIOUS
  <2> QED
    BY <1>9, <2>2, <2>3, Zenon
<1>11. /\ SubSeq(bytes, 6, 9) = IntToBytes(b[1]) /\ SubSeq(bytes, 10, 13) = IntToBytes(b[2])
       /\ SubSeq(bytes, 14, 17) = IntToBytes(b[3])
  BY <1>7, <1>10
<1>12. /\ w \in Seq(Int) /\ Len(w) = l - 17
       /\ \A i \in 1 .. l - 17 : w[i] = bytes[i + 17]
  <2>1. 18 \in Int /\ l \in Int /\ \A i \in 18 .. l : bytes[i] \in Int
    BY <1>1, ElementOfSeq DEF l
  <2>2. /\ w \in Seq(Int) /\ Len(w) = (IF 18 <= l THEN l - 18 + 1 ELSE 0)
        /\ \A i \in 1 .. l - 18 + 1 : w[i] = bytes[18 + i - 1]
    BY <2>1, SubSeqProperties DEF w
  <2>3. Len(w) = l - 17
    BY <1>1, <2>2
  <2>4. ASSUME NEW i \in 1 .. l - 17 PROVE w[i] = bytes[i + 17]
    <3> i \in 1 .. l - 18 + 1 /\ 18 + i - 1 = i + 17
      BY <1>1
    <3> QED
      BY <2>2
  <2> QED
    BY <2>2, <2>3, <2>4
<1>13. ASSUME NEW k \in 1 .. n - 1, NEW j \in 1 .. 17
       PROVE  w[17 * (k - 1) + j] = Request(bs[k])[j]
  <2> DEFINE i == 17 * (k - 1) + j
             i2 == 17 * ((k + 1) - 1) + j
  <2>1. i \in 1 .. l - 17 /\ i + 17 = i2 /\ k + 1 \in 1 .. n
    BY <1>1
  <2>2. bytes[i2] = Request(blocks[k + 1])[j]
    BY <1>5, <2>1
  <2> HIDE DEF i, i2
  <2>3. w[i] = bytes[i2]
    BY <1>12, <2>1
  <2>4. bs[k] = blocks[k + 1]
    BY <1>4
  <2> QED
    BY <2>2, <2>3, <2>4 DEF i
<1>14. Len(w) = 17 * Len(bs)
  BY <1>1, <1>4, <1>12
<1>15. Requested(w, bs)
  BY <1>4, <1>13, <1>14 DEF Requested
<1> QED
  BY <1>3, <1>4, <1>11, <1>12, <1>15 DEF b, w, bs, l

-----------------------------------------------------------------------------
(***************************************************************************)
(* Bitfields.                                                              *)
(***************************************************************************)
Bitfields == [bitfield : [1 .. bitfield_size -> Byte], size : {bitfield_size}]

Known(a) == {i \in Pieces : IsPieceAvailable(a, i)}

\* Where a piece is in a bitfield: in a byte of it, at a bit of that byte.
LEMMA PiecePlace ==
  /\ bitfield_size \in Nat
  /\ \A i \in Pieces :
        /\ i \in Nat /\ i < bitfield_size * Bits
        /\ i \div Bits + 1 \in 1 .. bitfield_size /\ i % Bits \in 0 .. Bits - 1
        /\ i = (i \div Bits) * Bits + (i % Bits)
<1> DEFINE B == Bits
           x == NumPieces + B - 1
           s == x \div B
           r == x % B
<1>1. B \in Nat \ {0} /\ NumPieces \in Nat \ {0} /\ x \in Nat
  BY BytesAssumption, WireAssumption
<1>2. bitfield_size = s
  BY DEF bitfield_size
<1> HIDE DEF B, x
<1>3. s \in Int /\ r \in 0 .. B - 1 /\ x = s * B + r
  BY <1>1, DivMod
<1> HIDE DEF s, r
<1>4. s * B \in Int /\ s * B >= NumPieces
  BY <1>1, <1>3 DEF x
<1>5. s \in Nat
  <2> SUFFICES ASSUME s < 0 PROVE FALSE
    BY <1>3
  <2> s * B <= 0
    BY <1>1, <1>3
  <2> QED
    BY <1>1, <1>4
<1>6. ASSUME NEW i \in Pieces
      PROVE  /\ i \in Nat /\ i < s * B
             /\ i \div B + 1 \in 1 .. s /\ i % B \in 0 .. B - 1
             /\ i = (i \div B) * B + (i % B)
  <2>1. i \in Nat /\ i \in Int /\ i < NumPieces
    BY <1>1 DEF Pieces
  <2>2. i < s * B /\ i \in 0 .. s * B - 1
    BY <1>1, <1>4, <2>1
  <2>3. i \div B \in 0 .. s - 1
    BY <1>1, <1>5, <2>2, DivBounds
  <2>4. i % B \in 0 .. B - 1 /\ i = (i \div B) * B + (i % B)
    BY <1>1, <2>1, DivMod
  <2>5. i \div B + 1 \in 1 .. s
    BY <1>5, <2>3
  <2> QED
    BY <2>1, <2>2, <2>4, <2>5
<1> QED
  BY <1>2, <1>5, <1>6 DEF B

\* A piece is in the bitfield if its bit is set.
LEMMA AvailableMeans ==
  ASSUME NEW a \in Bitfields, NEW i \in Pieces
  PROVE  IsPieceAvailable(a, i) <=>
            HasBit(a.bitfield[i \div Bits + 1], Bits - 1 - (i % Bits))
BY PiecePlace DEF IsPieceAvailable, HasBit, Mask, Bitfields

\* The bitfield of a set of pieces exists, and has just their bits.
LEMMA BitfieldFacts ==
  ASSUME NEW S \in SUBSET Pieces
  PROVE  /\ BitfieldOf(S) \in [1 .. bitfield_size -> Byte]
         /\ BitfieldOf(S) \in Seq(Int) /\ Len(BitfieldOf(S)) = bitfield_size
         /\ Known([bitfield |-> BitfieldOf(S), size |-> bitfield_size]) = S
<1> DEFINE B == Bits
           D(b, k) == \A j \in 1 .. B : (b \div Bit[B - j]) % 2 = 1 <=> (k - 1) * B + j - 1 \in S
           f == BitfieldOf(S)
           a == [bitfield |-> f, size |-> bitfield_size]
<1>1. B \in Nat \ {0}
  BY BytesAssumption
<1>2. ASSUME NEW k \in 1 .. bitfield_size PROVE \E b \in Byte : D(b, k)
  <2>1. k \in Int
    BY PiecePlace
  <2> DEFINE T == {p \in 0 .. B - 1 : (k - 1) * B + (B - p) - 1 \in S}
  <2>2. PICK b \in Byte : \A p \in 0 .. B - 1 : HasBit(b, p) <=> p \in T
    BY ByteWithBits
  <2>3. D(b, k)
    <3> TAKE j \in 1 .. B
    <3>1. B - j \in 0 .. B - 1 /\ B - (B - j) = j
      BY <1>1
    <3>2. HasBit(b, B - j) <=> (k - 1) * B + (B - (B - j)) - 1 \in S
      BY <2>2, <3>1
    <3> QED
      BY <3>1, <3>2 DEF HasBit
  <2> QED
    BY <2>3
<1> HIDE DEF D
<1>3. f = [k \in 1 .. bitfield_size |-> CHOOSE b \in Byte : D(b, k)]
  BY DEF BitfieldOf, D
<1> HIDE DEF f
<1>4. \A k \in 1 .. bitfield_size : f[k] \in Byte /\ D(f[k], k)
  <2> TAKE k \in 1 .. bitfield_size
  <2>1. f[k] = CHOOSE b \in Byte : D(b, k)
    BY <1>3
  <2>2. (CHOOSE b \in Byte : D(b, k)) \in Byte /\ D(CHOOSE b \in Byte : D(b, k), k)
    BY <1>2, Zenon
  <2> QED
    BY <2>1, <2>2
<1>5. f \in [1 .. bitfield_size -> Byte]
  BY <1>3, <1>4
<1>6. f \in Seq(Int) /\ Len(f) = bitfield_size
  <2>1. Byte \subseteq Int
    BY ValuesDef DEF Byte
  <2>2. f \in [1 .. bitfield_size -> Int] /\ bitfield_size \in Nat
    BY <1>5, <2>1, PiecePlace
  <2> QED
    BY <2>2
<1>7. a \in Bitfields /\ a.bitfield = f
  BY <1>5 DEF Bitfields
<1> HIDE DEF a
<1>8. \A i \in Pieces : IsPieceAvailable(a, i) <=> i \in S
  <2> TAKE i \in Pieces
  <2> DEFINE k == i \div B + 1
             r == i % B
  <2>1. i \in Nat /\ k \in 1 .. bitfield_size /\ r \in 0 .. B - 1 /\ i = (k - 1) * B + r
    <3>1. i \in Nat /\ i \div B \in Int
      BY PiecePlace, <1>1, DivMod
    <3> QED
      BY <3>1, PiecePlace
  <2>2. IsPieceAvailable(a, i) <=> HasBit(f[k], B - 1 - r)
    BY <1>7, AvailableMeans
  <2> HIDE DEF k, r
  <2>3. r + 1 \in 1 .. B /\ B - (r + 1) = B - 1 - r
    BY <1>1, <2>1
  <2>4. (f[k] \div Bit[B - (r + 1)]) % 2 = 1 <=> (k - 1) * B + (r + 1) - 1 \in S
    BY <1>4, <2>1, <2>3 DEF D
  <2>6. (k - 1) * B + (r + 1) - 1 = i
    <3> (k - 1) * B \in Int
      BY <1>1, <2>1
    <3> QED
      BY <2>1
  <2> QED
    BY <2>2, <2>3, <2>4, <2>6 DEF HasBit
<1>9. Known(a) = S
  BY <1>8 DEF Known
<1> QED
  BY <1>5, <1>6, <1>9 DEF f, a

\* SetPieceAvailability adds the piece and nothing else.
LEMMA SetKnown ==
  ASSUME NEW a \in Bitfields, NEW i \in Pieces
  PROVE  /\ SetPieceAvailability(a, i) \in Bitfields
         /\ Known(SetPieceAvailability(a, i)) = Known(a) \cup {i}
<1> DEFINE B == Bits
           k == i \div B + 1
           p == B - 1 - (i % B)
           b == a.bitfield[k]
           c == SetPieceAvailability(a, i)
<1>1. CASE IsPieceAvailable(a, i)
  BY <1>1 DEF SetPieceAvailability, Known
<1>2. CASE ~IsPieceAvailable(a, i)
  <2>1. B \in Nat \ {0} /\ Byte = 0 .. Bit[B] - 1
    <3> 1 * Bits = Bits
      BY BytesAssumption
    <3> QED
      BY BytesAssumption DEF Byte, Base, Values
  <2>2. a.bitfield \in [1 .. bitfield_size -> Byte] /\ a.size = bitfield_size
        /\ a = [bitfield |-> a.bitfield, size |-> a.size]
    BY DEF Bitfields
  <2>3. i \in Nat /\ k \in 1 .. bitfield_size /\ i % B \in 0 .. B - 1 /\ p \in 0 .. B - 1
        /\ i < bitfield_size * B
    <3> DEFINE u == i % B
    <3>1. i \in Nat /\ k \in 1 .. bitfield_size /\ u \in 0 .. B - 1 /\ i < bitfield_size * B
      BY PiecePlace
    <3> HIDE DEF u
    <3>2. B - 1 - u \in 0 .. B - 1
      BY <2>1, <3>1
    <3> QED
      BY <3>1, <3>2 DEF u
  <2>4. b \in 0 .. Bit[B] - 1 /\ ~HasBit(b, p)
    BY <1>2, <2>1, <2>2, <2>3, AvailableMeans
  <2>5. /\ b + Bit[p] \in 0 .. Bit[B] - 1
        /\ \A q \in 0 .. B - 1 : HasBit(b + Bit[p], q) <=> q = p \/ HasBit(b, q)
    BY <2>1, <2>3, <2>4, BitSet
  <2>6. c = [a EXCEPT !.bitfield[k] = @ + Bit[p]]
    <3>1. i \in Nat /\ bitfield_size * Bits \in Int
      BY <2>1, <2>3, PiecePlace
    <3>2. ~(i >= a.size * Bits)
      BY <2>2, <2>3, <3>1
    <3> QED
      BY <1>2, <3>2 DEF SetPieceAvailability, Mask
  <2>7. c.size = bitfield_size /\ c.bitfield = [a.bitfield EXCEPT ![k] = b + Bit[p]]
        /\ c = [bitfield |-> c.bitfield, size |-> c.size]
    BY <2>2, <2>6
  <2>8. c.bitfield \in [1 .. bitfield_size -> Byte]
        /\ \A j \in 1 .. bitfield_size :
              c.bitfield[j] = IF j = k THEN b + Bit[p] ELSE a.bitfield[j]
    BY <2>1, <2>2, <2>3, <2>5, <2>7
  <2>9. c \in Bitfields
    BY <2>7, <2>8 DEF Bitfields
  <2>10. \A q \in Pieces : IsPieceAvailable(c, q) <=> q = i \/ IsPieceAvailable(a, q)
    <3> TAKE q \in Pieces
    <3> DEFINE n == q \div B + 1
               m == B - 1 - (q % B)
    <3>1. IsPieceAvailable(c, q) <=> HasBit(c.bitfield[n], m)
      BY <2>9, AvailableMeans
    <3>2. IsPieceAvailable(a, q) <=> HasBit(a.bitfield[n], m)
      BY AvailableMeans
    <3>3. n \in 1 .. bitfield_size /\ m \in 0 .. B - 1
      <4> DEFINE u == q % B
      <4>1. n \in 1 .. bitfield_size /\ u \in 0 .. B - 1
        BY PiecePlace
      <4> HIDE DEF u
      <4>2. B - 1 - u \in 0 .. B - 1
        BY <2>1, <4>1
      <4> QED
        BY <4>1, <4>2 DEF u
    <3>4. CASE n = k
      <4>1. HasBit(c.bitfield[n], m) <=> m = p \/ HasBit(b, m)
        BY <2>5, <2>8, <3>3, <3>4
      <4>2. m = p <=> q = i
        <5> DEFINE x == q \div B
                   y == i \div B
                   u == q % B
                   v == i % B
        <5>1. x \in Int /\ y \in Int /\ u \in Int /\ v \in Int
              /\ q = x * B + u /\ i = y * B + v
          <6>1. q \in Int /\ i \in Int
            BY PiecePlace
          <6>2. x \in Int /\ u \in 0 .. B - 1 /\ q = x * B + u
            BY <2>1, <6>1, DivMod
          <6>3. y \in Int /\ v \in 0 .. B - 1 /\ i = y * B + v
            BY <2>1, <6>1, DivMod
          <6> HIDE DEF x, y, u, v
          <6> QED
            BY <2>1, <6>2, <6>3
        <5>2. x + 1 = y + 1
          BY <3>4
        <5> HIDE DEF x, y, u, v
        <5>3. B - 1 - u = B - 1 - v <=> u = v
          BY <2>1, <5>1
        <5>4. x = y
          BY <5>1, <5>2
        <5>5. x * B \in Int
          BY <2>1, <5>1
        <5>6. q = i <=> u = v
          BY <5>1, <5>4, <5>5
        <5> QED
          BY <5>3, <5>6 DEF u, v
      <4> QED
        BY <3>1, <3>2, <3>4, <4>1, <4>2
    <3>5. CASE n # k
      <4>1. c.bitfield[n] = a.bitfield[n]
        BY <2>8, <3>3, <3>5
      <4>2. q # i
        BY <3>5
      <4> QED
        BY <3>1, <3>2, <4>1, <4>2
    <3> QED
      BY <3>4, <3>5
  <2> QED
    BY <2>9, <2>10 DEF Known
<1> QED
  BY <1>1, <1>2

-----------------------------------------------------------------------------
(***************************************************************************)
(* The invariant.                                                          *)
(***************************************************************************)
Live == {"Handshake", "Bitfield", "MainLoop"}

TypeInv ==
    /\ place \in Live \cup {"Closed", "Lost"}
    /\ greeted \in BOOLEAN /\ split \in BOOLEAN
    /\ has \in SUBSET Pieces /\ connects \in Nat
    /\ message \in Seq(Int) /\ to_peer \in Seq(Int) /\ from_peer \in Seq(Int)
    /\ buffer_size \in Nat /\ to_read \in Int
    /\ flight \in Seq(Messages)

\* ReceiveData has begun to read a message, or is about to read the handshake.
Reading == message # <<>> \/ place = "Handshake"

\* What was read and what is on its way are the messages in flight, whole and in
\* order; to_read is what is missing of the first of them.
StreamInv ==
    place \in Live =>
        /\ InStream(message \o from_peer, flight)
        /\ \A k \in DOMAIN flight :
              IF place = "Handshake" /\ k = 1 THEN flight[k] = Hello ELSE Good(flight[k])
        /\ Reading => flight # <<>> /\ Len(message) + to_read = Len(Head(flight).bytes)
        /\ ~Reading => to_read = 0
        /\ to_read <= buffer_size
        /\ ~split => to_read \in {0, buffer_size}

LastInv ==
    /\ last # <<>> =>
         /\ last.meant = Hello \/ (last.meant \in Messages /\ Good(last.meant))
         /\ IsPrefix(last.meant.bytes, last.got)
         /\ place # "Lost" => last.got = last.meant.bytes
    /\ ~split => place # "Lost" /\ (connects > 0 => place # "Closed")

\* The bytes on their way to the peer are requests for the blocks asked for, in order.
BlockInv == asked \in Seq(Blocks) /\ Requested(to_peer, asked)

\* The pieces announced in flight.
Haves(messages) ==
    {i \in Pieces : \E k \in DOMAIN messages :
        messages[k].id = kHave /\ messages[k].payload = IntToBytes(i)}

\* What the client knows and what is in flight are what the peer has; a bitfield is
\* the first message, and comes before what it does not say.
KnowInv ==
    place \in Live =>
        /\ \A k \in DOMAIN flight :
              /\ flight[k].id = kHave => \E i \in Pieces : flight[k].payload = IntToBytes(i)
              /\ flight[k].id = kBitField =>
                    /\ place # "MainLoop" /\ k = (IF place = "Handshake" THEN 2 ELSE 1)
                    /\ \E h \in SUBSET Pieces :
                          flight[k].payload = BitfieldOf(h) /\ has = h \cup Haves(flight)
        /\ place = "MainLoop" /\ greeted =>
              /\ pieces_availability \in Bitfields
              /\ has = Known(pieces_availability) \cup Haves(flight)

Inv == TypeInv /\ StreamInv /\ LastInv /\ BlockInv /\ KnowInv

-----------------------------------------------------------------------------
\* The handshake is a message without a length prefix.
LEMMA HelloFacts ==
  /\ Hello \in Messages /\ Hello.id = -1 /\ Hello.bytes # <<>>
  /\ Len(Hello.bytes) = HandshakeSize /\ HandshakeSize \in Nat \ {0}
<1> DEFINE z == [k \in 1 .. HandshakeSize |-> 0]
<1>1. HandshakeSize \in Nat \ {0}
  BY WireAssumption
<1>2. z \in Seq(Int) /\ Len(z) = HandshakeSize
  BY <1>1
<1>3. z # <<>>
  BY <1>1, <1>2
<1> HIDE DEF z
<1>4. Hello = [id |-> -1, payload |-> <<>>, of |-> NoBlock, bytes |-> z]
  BY DEF Hello, AsMeant, z
<1> QED
  BY <1>1, <1>2, <1>3, <1>4 DEF Messages

\* The messages that a step of the peer appends.
LEMMA WireIsGood ==
  ASSUME NEW id, NEW payload \in Seq(Int), NEW of \in Blocks \cup {NoBlock},
         Said(id, payload, of)
  PROVE  /\ AsMeant(id, payload, of, Wire(id, payload)) \in Messages
         /\ Good(AsMeant(id, payload, of, Wire(id, payload)))
<1> DEFINE w == Wire(id, payload)
           m == AsMeant(id, payload, of, w)
<1>0. id \in {kChoke, kUnchoke, kHave, kBitField, kPiece} /\ Len(payload) + 1 <= MaxSize
  BY DEF Said
<1>1. id \in Int /\ Len(payload) + 1 \in Sizes
  <2> Len(payload) + 1 \in 0 .. MaxSize
    BY <1>0, LenProperties, SizesAreInts
  <2> QED
    BY <1>0, SizesAreInts DEF kChoke, kUnchoke, kHave, kBitField, kPiece
<1>2. w \in Seq(Int)
  BY <1>1, WireFacts
<1>3. w = Wire(id, payload)
  OBVIOUS
<1> HIDE DEF w
<1>4. m.id = id /\ m.payload = payload /\ m.of = of /\ m.bytes = w /\ m \in Messages
  BY <1>1, <1>2 DEF AsMeant, Messages
<1> HIDE DEF m
<1>5. Good(m)
  BY <1>3, <1>4 DEF Good
<1> QED
  BY <1>4, <1>5 DEF m, w

\* What sending a message does to the stream.
LEMMA SendsKeeps ==
  ASSUME Inv, NEW id, NEW payload, NEW of, NEW bytes, Sends(id, payload, of, bytes),
         has' \in SUBSET Pieces, to_peer' \in Seq(Int),
         AsMeant(id, payload, of, bytes) \in Messages, Good(AsMeant(id, payload, of, bytes))
  PROVE  TypeInv' /\ StreamInv' /\ LastInv'
<1> DEFINE m == AsMeant(id, payload, of, bytes)
<1>1. /\ place \in Live /\ flight' = Append(flight, m) /\ from_peer' = from_peer \o m.bytes
      /\ m \in Messages /\ Good(m) /\ m.bytes \in Seq(Int)
      /\ flight \in Seq(Messages) /\ message \in Seq(Int) /\ from_peer \in Seq(Int)
      /\ UNCHANGED <<place, readVars, connects, greeted, split, last>>
  BY DEF Sends, Inv, TypeInv, AsMeant, Messages
<1> HIDE DEF m
<1>2. flight' \in Seq(Messages) /\ from_peer' \in Seq(Int)
  BY <1>1, AppendProperties, ConcatProperties
<1>3. TypeInv'
  BY <1>1, <1>2 DEF Inv, TypeInv, readVars
<1>4. InStream(message' \o from_peer', flight')
  <2>1. InStream(message \o from_peer, flight) /\ message \o from_peer \in Seq(Int)
    BY <1>1, ConcatProperties DEF Inv, StreamInv
  <2>2. InStream((message \o from_peer) \o m.bytes, Append(flight, m))
    BY <1>1, <2>1, InStreamAppend
  <2>3. (message \o from_peer) \o m.bytes = message \o (from_peer \o m.bytes)
    BY <1>1, Regroup
  <2> QED
    BY <1>1, <2>2, <2>3 DEF readVars
<1>5. /\ Len(flight') = Len(flight) + 1 /\ flight'[Len(flight) + 1] = m
      /\ \A k \in 1 .. Len(flight) : flight'[k] = flight[k]
      /\ DOMAIN flight' = 1 .. Len(flight) + 1 /\ DOMAIN flight = 1 .. Len(flight)
      /\ Len(flight) \in Nat
  BY <1>1, <1>2, AppendProperties, LenProperties
<1>6. flight # <<>> => Head(flight') = Head(flight)
  BY <1>1, HeadTailAppend
<1>7. place = "Handshake" => flight # <<>>
  BY <1>1 DEF Inv, StreamInv, Reading
<1>8. ASSUME NEW k \in DOMAIN flight'
      PROVE  IF place' = "Handshake" /\ k = 1 THEN flight'[k] = Hello ELSE Good(flight'[k])
  <2>1. CASE k \in 1 .. Len(flight)
    BY <1>1, <1>5, <2>1 DEF Inv, StreamInv
  <2>2. CASE k \notin 1 .. Len(flight)
    <3>1. k = Len(flight) + 1
      BY <1>5, <2>2
    <3>2. place = "Handshake" => k # 1
      BY <1>1, <1>5, <1>7, <3>1, EmptySeq
    <3> QED
      BY <1>1, <1>5, <3>1, <3>2
  <2> QED
    BY <2>1, <2>2
<1>9. StreamInv'
  <2>1. Reading' <=> Reading
    BY <1>1 DEF Reading, readVars
  <2>2. flight # <<>> => flight' # <<>>
    BY <1>5
  <2> QED
    BY <1>1, <1>4, <1>6, <1>8, <2>1, <2>2 DEF Inv, StreamInv, readVars
<1>10. LastInv'
  BY <1>1 DEF Inv, LastInv
<1> QED
  BY <1>3, <1>9, <1>10

\* What recv does to the stream: bytes move from one end to the other.
LEMMA RecvKeeps ==
  ASSUME Inv, NEW n, NEW size, NEW wanted, size \in Nat, Recv(n, size, wanted)
  PROVE  /\ n \in 1 .. size /\ n <= Len(from_peer)
         /\ message' \in Seq(Int) /\ from_peer' \in Seq(Int)
         /\ Len(message') = Len(message) + n /\ message' # <<>>
         /\ message' \o from_peer' = message \o from_peer
<1> DEFINE a == SubSeq(from_peer, 1, n)
           b == SubSeq(from_peer, n + 1, Len(from_peer))
<1>1. /\ message \in Seq(Int) /\ from_peer \in Seq(Int) /\ n \in 1 .. size
      /\ n <= Len(from_peer) /\ message' = message \o a /\ from_peer' = b
      /\ Len(from_peer) \in Nat
  BY LenProperties DEF Inv, TypeInv, Recv
<1>2. n \in 1 .. Len(from_peer) /\ n \in Nat /\ n >= 1
  BY <1>1
<1>3. a \o b = from_peer
  <2> DEFINE l == Len(from_peer)
  <2>1. 1 \in 1 .. l + 1 /\ n \in 1 - 1 .. l /\ l \in n .. l
    BY <1>1, <1>2
  <2>2. SubSeq(from_peer, 1, n) \o SubSeq(from_peer, n + 1, l) = SubSeq(from_peer, 1, l)
    BY <1>1, <2>1, ConcatAdjacentSubSeq
  <2>3. SubSeq(from_peer, 1, l) = from_peer
    BY <1>1, SubSeqFull
  <2> QED
    BY <2>2, <2>3
<1>4. a \in Seq(Int) /\ Len(a) = n /\ b \in Seq(Int)
  <2>1. \A i \in 1 .. n : from_peer[i] \in Int
    BY <1>1, <1>2, ElementOfSeq
  <2>2. \A i \in n + 1 .. Len(from_peer) : from_peer[i] \in Int
    BY <1>1, <1>2, ElementOfSeq
  <2>3. a \in Seq(Int) /\ Len(a) = (IF 1 <= n THEN n - 1 + 1 ELSE 0)
    BY <1>2, <2>1, SubSeqProperties
  <2>4. b \in Seq(Int)
    BY <1>1, <1>2, <2>2, SubSeqProperties
  <2> QED
    BY <1>2, <2>3, <2>4
<1> HIDE DEF a, b
<1>5. message' \in Seq(Int) /\ Len(message') = Len(message) + n
  BY <1>1, <1>4, ConcatProperties
<1>6. message' # <<>>
  <2> Len(message) \in Nat
    BY <1>1, LenProperties
  <2> QED
    BY <1>2, <1>5
<1>7. message' \o from_peer' = message \o from_peer
  <2> (message \o a) \o b = message \o (a \o b)
    BY <1>1, <1>4, Regroup
  <2> QED
    BY <1>1, <1>3
<1> QED
  BY <1>1, <1>4, <1>5, <1>6, <1>7

\* What a return of ReceiveData does to the stream: one message less, or out of step.
LEMMA ReturnKeeps ==
  ASSUME Inv, place \in Live, NEW next \in {"Bitfield", "MainLoop"}, Return(next),
         greeted' \in BOOLEAN
  PROVE  /\ flight # <<>> /\ Head(flight) \in Messages /\ flight' = Tail(flight)
         /\ IF place = "Handshake" THEN Head(flight) = Hello ELSE Good(Head(flight))
         /\ place' = "Lost" \/ (place' = next /\ message = Head(flight).bytes)
         /\ TypeInv' /\ StreamInv' /\ LastInv' /\ BlockInv'
<1> DEFINE m == Head(flight)
           l == Len(m.bytes)
<1>1. /\ message \in Seq(Int) /\ from_peer \in Seq(Int) /\ flight \in Seq(Messages)
      /\ message # <<>> /\ to_read <= 0 /\ to_read \in Int /\ buffer_size \in Nat
      /\ message' = <<>> /\ buffer_size' = 0 /\ to_read' = 0 /\ flight' = Tail(flight)
      /\ last' = [meant |-> m, got |-> message]
      /\ place' = IF message = m.bytes THEN next ELSE "Lost"
      /\ UNCHANGED <<to_peer, asked, from_peer, connects, has, split>>
  BY DEF Inv, TypeInv, Return, toPeer
<1>2. /\ InStream(message \o from_peer, flight) /\ flight # <<>>
      /\ Len(message) + to_read = l
      /\ \A k \in DOMAIN flight :
            IF place = "Handshake" /\ k = 1 THEN flight[k] = Hello ELSE Good(flight[k])
      /\ ~split => to_read = 0
  BY <1>1 DEF Inv, StreamInv, Reading
<1>3. /\ m \in Messages /\ m = flight[1] /\ Len(flight) \in Nat \ {0}
      /\ DOMAIN flight = 1 .. Len(flight)
  BY <1>1, <1>2, EmptySeq, HeadTailProperties, LenProperties
<1>4. IF place = "Handshake" THEN m = Hello ELSE Good(m)
  <2> 1 \in DOMAIN flight
    BY <1>3
  <2> QED
    BY <1>2, <1>3
<1>5. m.bytes \in Seq(Int) /\ l \in Nat /\ Len(message) \in Nat /\ Len(from_peer) \in Nat
  BY <1>1, <1>3, LenProperties DEF Messages
<1> HIDE DEF m
<1>6. l <= Len(message)
  BY <1>1, <1>2, <1>5
<1>7. \A j \in 1 .. l : message[j] = m.bytes[j]
  <2>1. message \o from_peer \in Seq(Int)
        /\ \A j \in 1 .. Len(message) + Len(from_peer) :
              (message \o from_peer)[j] =
                 IF j <= Len(message) THEN message[j] ELSE from_peer[j - Len(message)]
    BY <1>1, ConcatProperties
  <2>2. \A j \in 1 .. l : (message \o from_peer)[j] = m.bytes[j]
    BY <1>1, <1>2, <2>1, InStreamHead DEF m
  <2> TAKE j \in 1 .. l
  <2>3. j \in 1 .. Len(message) + Len(from_peer) /\ j <= Len(message)
    BY <1>5, <1>6
  <2>4. (message \o from_peer)[j] = message[j]
    BY <2>1, <2>3, Zenon
  <2> QED
    BY <2>2, <2>4, Zenon
<1>8. SubSeq(message, 1, l) = m.bytes
  <2>1. \A k \in 1 .. l : message[k + 0] = m.bytes[k]
    BY <1>5, <1>7
  <2>2. 0 + l <= Len(message) /\ 0 \in Nat
    BY <1>5, <1>6
  <2>3. SubSeq(message, 0 + 1, 0 + l) = m.bytes
    BY <1>1, <1>5, <2>1, <2>2, Behind
  <2> QED
    BY <1>5, <2>3
<1>9. SubSeq(m.bytes, 1, l) = m.bytes
  BY <1>5, SubSeqFull
<1>10. IsPrefix(m.bytes, message)
  BY <1>6, <1>8, <1>9, Zenon DEF IsPrefix
<1>11. ~split => message = m.bytes
  <2> SUFFICES ASSUME ~split PROVE message = m.bytes
    OBVIOUS
  <2>1. Len(message) = l
    BY <1>2, <1>5
  <2>2. SubSeq(message, 1, Len(message)) = message
    BY <1>1, SubSeqFull
  <2> QED
    BY <1>8, <2>1, <2>2, Zenon
<1>12. Tail(flight) \in Seq(Messages) /\ Len(Tail(flight)) = Len(flight) - 1
       /\ \A k \in 1 .. Len(Tail(flight)) : Tail(flight)[k] = flight[k + 1]
  BY <1>1, <1>2, HeadTailProperties
<1>13. TypeInv'
  <2>1. message' \in Seq(Int)
    BY <1>1, EmptySeq
  <2>2. place' \in Live \cup {"Closed", "Lost"}
    BY <1>1 DEF Live
  <2> QED
    BY <1>1, <1>12, <2>1, <2>2 DEF Inv, TypeInv
<1>14. StreamInv'
  <2> SUFFICES ASSUME place' \in Live
               PROVE  /\ InStream(message' \o from_peer', flight')
                      /\ \A k \in DOMAIN flight' :
                            IF place' = "Handshake" /\ k = 1 THEN flight'[k] = Hello
                            ELSE Good(flight'[k])
                      /\ ~Reading' /\ to_read' = 0 /\ buffer_size' = 0
    BY <1>1 DEF StreamInv
  <2>1. message = m.bytes /\ place' = next
    BY <1>1 DEF Live
  <2>2. InStream(from_peer, Tail(flight))
    <3> InStream(Head(flight).bytes \o from_peer, flight)
      BY <1>2, <2>1 DEF m
    <3> QED
      BY <1>1, <1>2, InStreamTail
  <2>3. message' \o from_peer' = from_peer
    BY <1>1, ConcatEmptySeq
  <2>4. ASSUME NEW k \in DOMAIN flight' PROVE Good(flight'[k])
    <3>1. k \in 1 .. Len(Tail(flight)) /\ Len(Tail(flight)) = Len(flight) - 1
      BY <1>1, <1>12, LenProperties
    <3>2. k + 1 \in DOMAIN flight /\ k + 1 # 1
      BY <1>3, <3>1
    <3> QED
      BY <1>1, <1>2, <1>12, <3>1, <3>2
  <2>5. ~Reading'
    BY <1>1, <2>1 DEF Reading
  <2> QED
    BY <1>1, <2>1, <2>2, <2>3, <2>4, <2>5
<1>15. LastInv'
  <2>1. last'.meant = m /\ last'.got = message
    BY <1>1
  <2>2. last'.meant = Hello \/ (last'.meant \in Messages /\ Good(last'.meant))
    <3> m = Hello \/ Good(m)
      BY <1>4
    <3> QED
      BY <1>3, <2>1, Zenon
  <2>3. place' # "Lost" => last'.got = last'.meant.bytes
    BY <1>1, <2>1
  <2>4. IsPrefix(last'.meant.bytes, last'.got)
    BY <1>10, <2>1
  <2>5. ~split' => place' # "Lost" /\ place' # "Closed"
    BY <1>1, <1>11
  <2> QED
    BY <2>2, <2>3, <2>4, <2>5 DEF LastInv
<1>16. place' = "Lost" \/ (place' = next /\ message = m.bytes)
  BY <1>1
<1>17. BlockInv'
  BY <1>1 DEF Inv, BlockInv
<1> QED
  BY <1>1, <1>2, <1>3, <1>4, <1>13, <1>14, <1>15, <1>16, <1>17, Zenon DEF m

\* What a message more, or one less, does to the pieces announced.
LEMMA AppendSets ==
  ASSUME NEW messages \in Seq(Messages), NEW m \in Messages
  PROVE  /\ \A k \in DOMAIN messages : /\ k \in DOMAIN Append(messages, m)
                                       /\ Append(messages, m)[k] = messages[k]
         /\ DOMAIN Append(messages, m) = DOMAIN messages \cup {Len(messages) + 1}
         /\ Append(messages, m)[Len(messages) + 1] = m /\ Len(messages) + 1 \notin DOMAIN messages
         /\ m.id # kHave => Haves(Append(messages, m)) = Haves(messages)
         /\ \A i \in Pieces : m.id = kHave /\ m.payload = IntToBytes(i) =>
                Haves(Append(messages, m)) = Haves(messages) \cup {i}
<1> DEFINE ms == Append(messages, m)
           n == Len(messages) + 1
<1>1. /\ DOMAIN ms = 1 .. n /\ DOMAIN messages = 1 .. n - 1 /\ n \in Nat \ {0}
      /\ ms[n] = m /\ \A k \in 1 .. n - 1 : ms[k] = messages[k]
  <2>1. Len(ms) = n /\ ms \in Seq(Messages) /\ Len(messages) \in Nat
        /\ ms[n] = m /\ \A k \in 1 .. Len(messages) : ms[k] = messages[k]
    BY AppendProperties, LenProperties
  <2>2. DOMAIN ms = 1 .. n /\ DOMAIN messages = 1 .. Len(messages)
    BY <2>1, LenProperties
  <2> QED
    BY <2>1, <2>2
<1> HIDE DEF ms, n
<1>2. DOMAIN ms = DOMAIN messages \cup {n} /\ n \notin DOMAIN messages
      /\ \A k \in DOMAIN messages : ms[k] = messages[k]
  BY <1>1
<1>5. m.id # kHave => Haves(ms) = Haves(messages)
  BY <1>1, <1>2 DEF Haves
<1>6. ASSUME NEW i \in Pieces, m.id = kHave, m.payload = IntToBytes(i)
      PROVE  Haves(ms) = Haves(messages) \cup {i}
  <2>1. \A j \in Pieces : IntToBytes(j) = IntToBytes(i) => j = i
    BY FourBytes, WireAssumption
  <2> QED
    BY <1>1, <1>2, <1>6, <2>1 DEF Haves
<1> QED
  BY <1>1, <1>2, <1>5, <1>6 DEF ms, n

\* What is left of a list without its first message.
LEMMA TailSets ==
  ASSUME NEW messages \in Seq(Messages), messages # <<>>
  PROVE  /\ 1 \in DOMAIN messages /\ Head(messages) = messages[1]
         /\ \A k \in DOMAIN Tail(messages) :
                k \in Nat /\ k + 1 \in DOMAIN messages /\ Tail(messages)[k] = messages[k + 1]
         /\ \A k \in DOMAIN messages : k # 1 =>
                k - 1 \in DOMAIN Tail(messages) /\ Tail(messages)[k - 1] = messages[k]
         /\ Head(messages).id # kHave => Haves(messages) = Haves(Tail(messages))
         /\ \A i \in Pieces : Head(messages).id = kHave /\ Head(messages).payload = IntToBytes(i) =>
                Haves(messages) = Haves(Tail(messages)) \cup {i}
<1> DEFINE ms == Tail(messages)
           m == Head(messages)
           n == Len(messages)
<1>1. /\ n \in Nat \ {0} /\ DOMAIN messages = 1 .. n /\ DOMAIN ms = 1 .. n - 1
      /\ m = messages[1] /\ \A k \in 1 .. n - 1 : ms[k] = messages[k + 1]
  <2>1. /\ n \in Nat \ {0} /\ ms \in Seq(Messages) /\ Len(ms) = n - 1 /\ m = messages[1]
        /\ \A k \in 1 .. Len(ms) : ms[k] = messages[k + 1]
    BY EmptySeq, HeadTailProperties
  <2>2. DOMAIN messages = 1 .. n /\ DOMAIN ms = 1 .. Len(ms)
    BY <2>1, LenProperties
  <2> QED
    BY <2>1, <2>2
<1> HIDE DEF ms, m, n
<1>2. \A k \in DOMAIN ms : k \in Nat /\ k + 1 \in DOMAIN messages /\ k + 1 # 1
                             /\ (k + 1) - 1 = k /\ ms[k] = messages[k + 1]
  BY <1>1
<1>3. \A k \in DOMAIN messages : k # 1 => k - 1 \in DOMAIN ms /\ ms[k - 1] = messages[k]
  <2> TAKE k \in DOMAIN messages
  <2> SUFFICES ASSUME k # 1 PROVE k - 1 \in DOMAIN ms /\ ms[k - 1] = messages[k]
    OBVIOUS
  <2> k - 1 \in 1 .. n - 1 /\ (k - 1) + 1 = k
    BY <1>1
  <2> QED
    BY <1>1
<1>4. 1 \in DOMAIN messages
  BY <1>1
<1>9. m.id # kHave => Haves(messages) = Haves(ms)
  BY <1>1, <1>2, <1>3, <1>4 DEF Haves
<1>10. ASSUME NEW i \in Pieces, m.id = kHave, m.payload = IntToBytes(i)
       PROVE  Haves(messages) = Haves(ms) \cup {i}
  <2>1. \A j \in Pieces : IntToBytes(j) = IntToBytes(i) => j = i
    BY FourBytes, WireAssumption
  <2> DEFINE Says(x, j) == x.id = kHave /\ x.payload = IntToBytes(j)
  <2>2. \A x : Haves(x) = {j \in Pieces : \E k \in DOMAIN x : Says(x[k], j)}
    BY DEF Haves
  <2>3. \A j \in Pieces : Says(messages[1], j) <=> j = i
    BY <1>1, <1>10, <2>1
  <2> HIDE DEF Says
  <2>4. ASSUME NEW j \in Pieces
        PROVE  (\E k \in DOMAIN messages : Says(messages[k], j)) <=>
                  (\E k \in DOMAIN ms : Says(ms[k], j)) \/ j = i
    <3>1. ASSUME NEW k \in DOMAIN messages, Says(messages[k], j)
          PROVE  (\E l \in DOMAIN ms : Says(ms[l], j)) \/ j = i
      BY <1>3, <2>3, <3>1
    <3>2. ASSUME NEW k \in DOMAIN ms, Says(ms[k], j)
          PROVE  \E l \in DOMAIN messages : Says(messages[l], j)
      BY <1>2, <3>2
    <3> QED
      BY <1>4, <2>3, <3>1, <3>2
  <2> QED
    BY <2>2, <2>4
<1> QED
  BY <1>1, <1>2, <1>3, <1>4, <1>9, <1>10 DEF ms, m

\* A message that tells of the pieces E, which the peer has got.
LEMMA KnowSends ==
  ASSUME KnowInv, flight \in Seq(Messages), place \in Live,
         NEW m \in Messages, m.id # kBitField,
         m.id = kHave => \E i \in Pieces : m.payload = IntToBytes(i),
         NEW E, has' = has \cup E, Haves(Append(flight, m)) = Haves(flight) \cup E,
         flight' = Append(flight, m), UNCHANGED <<place, pieces_availability, greeted>>
  PROVE  KnowInv'
<1>1. /\ DOMAIN flight' = DOMAIN flight \cup {Len(flight) + 1} /\ flight'[Len(flight) + 1] = m
      /\ \A k \in DOMAIN flight : flight'[k] = flight[k]
  BY AppendSets
<1>2. Haves(flight') = Haves(flight) \cup E
  OBVIOUS
<1>3. ASSUME NEW k \in DOMAIN flight'
      PROVE  /\ flight'[k].id = kHave => \E i \in Pieces : flight'[k].payload = IntToBytes(i)
             /\ flight'[k].id = kBitField =>
                   /\ place' # "MainLoop" /\ k = (IF place' = "Handshake" THEN 2 ELSE 1)
                   /\ \E h \in SUBSET Pieces :
                         flight'[k].payload = BitfieldOf(h) /\ has' = h \cup Haves(flight')
  <2>1. CASE k \in DOMAIN flight
    <3>1. flight'[k] = flight[k]
      BY <1>1, <2>1
    <3>2. flight[k].id = kHave => \E i \in Pieces : flight[k].payload = IntToBytes(i)
      BY <2>1 DEF KnowInv
    <3>3. flight[k].id = kBitField =>
             /\ place # "MainLoop" /\ k = (IF place = "Handshake" THEN 2 ELSE 1)
             /\ \E h \in SUBSET Pieces :
                   flight[k].payload = BitfieldOf(h) /\ has = h \cup Haves(flight)
      BY <2>1 DEF KnowInv
    <3>4. \A h \in SUBSET Pieces : has = h \cup Haves(flight) => has' = h \cup Haves(flight')
      BY <1>2
    <3> QED
      BY <3>1, <3>2, <3>3, <3>4
  <2>2. CASE k \notin DOMAIN flight
    <3> flight'[k] = m
      BY <1>1, <2>2
    <3> QED
      OBVIOUS
  <2> QED
    BY <2>1, <2>2
<1>4. place' = "MainLoop" /\ greeted' =>
         /\ pieces_availability' \in Bitfields
         /\ has' = Known(pieces_availability)' \cup Haves(flight')
  <2>1. place = "MainLoop" /\ greeted =>
           /\ pieces_availability \in Bitfields
           /\ has = Known(pieces_availability) \cup Haves(flight)
    BY DEF KnowInv
  <2>2. Known(pieces_availability)' = Known(pieces_availability)
    BY DEF Known
  <2> QED
    BY <1>2, <2>1, <2>2
<1> QED
  BY <1>3, <1>4 DEF KnowInv

-----------------------------------------------------------------------------
(***************************************************************************)
(* Every action keeps the invariant.                                       *)
(***************************************************************************)
LEMMA InitInv == Init => Inv
<1> SUFFICES ASSUME Init PROVE Inv
  OBVIOUS
<1>1. has \in SUBSET Pieces
  BY WireAssumption DEF Init
<1>2. <<>> \in Seq(Int) /\ <<>> \in Seq(Messages)
  BY EmptySeq
<1>3. TypeInv
  <2>1. message \in Seq(Int) /\ to_peer \in Seq(Int) /\ from_peer \in Seq(Int)
        /\ flight \in Seq(Messages)
    BY <1>2, Zenon DEF Init
  <2>2. buffer_size \in Nat /\ to_read \in Int /\ connects \in Nat
    BY DEF Init
  <2>3. place \in Live \cup {"Closed", "Lost"} /\ greeted \in BOOLEAN /\ split \in BOOLEAN
    BY DEF Init
  <2> QED
    BY <1>1, <2>1, <2>2, <2>3 DEF TypeInv
<1>4. StreamInv /\ KnowInv
  BY DEF Init, StreamInv, KnowInv, Live
<1>5. LastInv
  BY DEF Init, LastInv
<1>6. BlockInv
  BY NoneRequested DEF Init, BlockInv
<1> QED
  BY <1>3, <1>4, <1>5, <1>6 DEF Inv

\* Two messages, one appended to the other.
LEMMA AppendPair ==
  ASSUME NEW x, NEW y
  PROVE  Append(<<x>>, y) = <<x, y>>
<1> DEFINE s == Append(<<x>>, y)
<1>1. Len(s) = 2 /\ s[1] = x /\ s[2] = y
  OBVIOUS
<1>2. s \in Seq({x, y})
  OBVIOUS
<1>3. <<x, y>> \in Seq({x, y})
  OBVIOUS
<1> HIDE DEF s
<1>4. ASSUME NEW k \in 1 .. 2 PROVE s[k] = <<x, y>>[k]
  <2>1. CASE k = 1
    BY <1>1, <2>1
  <2>2. CASE k = 2
    BY <1>1, <2>2
  <2> QED
    BY <2>1, <2>2
<1>5. s = <<x, y>>
  BY <1>1, <1>2, <1>3, <1>4, SeqEqual
<1> QED
  BY <1>5 DEF s

\* Connecting puts the handshake, and perhaps a bitfield, into an empty stream.
LEMMA ConnectInv == Inv /\ Connect => Inv'
<1> SUFFICES ASSUME Inv, Connect PROVE Inv'
  OBVIOUS
<1> DEFINE p == BitfieldOf(has)
           w == Wire(kBitField, p)
           first == AsMeant(kBitField, p, NoBlock, w)
<1>1. /\ connects' = connects + 1 /\ place' = "Handshake" /\ message' = <<>>
      /\ buffer_size' = HandshakeSize /\ to_read' = HandshakeSize /\ to_peer' = <<>>
      /\ asked' = <<>> /\ greeted' = FALSE /\ split' = FALSE
      /\ last' = <<>> /\ has' = has
      /\ \/ flight' = <<Hello, first>> /\ from_peer' = Hello.bytes \o first.bytes
         \/ flight' = <<Hello>> /\ from_peer' = Hello.bytes
  BY DEF Connect
<1>2. has \in SUBSET Pieces /\ connects \in Nat
  BY DEF Inv, TypeInv
<1>3. p \in Seq(Int) /\ Len(p) = bitfield_size
  BY <1>2, BitfieldFacts
<1>4. first \in Messages /\ Good(first)
  <2> Len(p) + 1 <= MaxSize
    BY <1>3, FitsAssumption
  <2> Said(kBitField, p, NoBlock)
    BY DEF Said, kBitField, kChoke, kUnchoke, kPiece
  <2> QED
    BY <1>3, WireIsGood
<1>5. first.id = kBitField /\ first.payload = BitfieldOf(has) /\ first.bytes \in Seq(Int)
  BY <1>4 DEF AsMeant, Messages
<1> HIDE DEF first
<1>6. /\ Hello \in Messages /\ Hello.id = -1 /\ Hello.bytes \in Seq(Int)
      /\ Len(Hello.bytes) = HandshakeSize /\ HandshakeSize \in Nat \ {0}
  BY HelloFacts DEF Messages
<1> DEFINE e == <<>>
           one == Append(e, Hello)
           two == Append(one, first)
           b == e \o Hello.bytes
<1>7. one = <<Hello>> /\ two = <<Hello, first>> /\ b = Hello.bytes
  <2>1. b = Hello.bytes
    BY <1>6, ConcatEmptySeq
  <2>2. one = <<Hello>>
    OBVIOUS
  <2> HIDE DEF one
  <2>4. Append(<<Hello>>, first) = <<Hello, first>>
    BY AppendPair
  <2>3. two = <<Hello, first>>
    BY <2>2, <2>4
  <2> QED
    BY <2>1, <2>2, <2>3
<1>8. InStream(b, one) /\ one \in Seq(Messages) /\ b \in Seq(Int)
  <2> e \in Seq(Messages) /\ e \in Seq(Int) /\ InStream(e, e)
    BY EmptySeq, InStreamEmpty
  <2> QED
    BY <1>6, InStreamAppend, AppendProperties, ConcatProperties
<1>9. InStream(b \o first.bytes, two) /\ two \in Seq(Messages)
  BY <1>4, <1>8, InStreamAppend, AppendProperties
<1>10. b \o first.bytes \in Seq(Int)
  BY <1>5, <1>8, ConcatProperties
<1>11. /\ flight' \in Seq(Messages) /\ from_peer' \in Seq(Int) /\ InStream(from_peer', flight')
       /\ flight' = <<Hello>> \/ flight' = <<Hello, first>>
  <2>1. CASE flight' = <<Hello, first>> /\ from_peer' = Hello.bytes \o first.bytes
    BY <1>7, <1>9, <1>10, <2>1
  <2>2. CASE flight' = <<Hello>> /\ from_peer' = Hello.bytes
    BY <1>7, <1>8, <2>2
  <2> QED
    BY <1>1, <2>1, <2>2
<1>12. /\ flight' # <<>> /\ Head(flight') = Hello /\ flight'[1] = Hello
       /\ \A k \in DOMAIN flight' : k = 1 \/ (k = 2 /\ flight'[k] = first)
  BY <1>11
<1>13. TypeInv'
  <2>1. <<>> \in Seq(Int)
    BY EmptySeq
  <2>2. message' \in Seq(Int) /\ to_peer' \in Seq(Int) /\ from_peer' \in Seq(Int)
        /\ flight' \in Seq(Messages)
    BY <1>1, <1>11, <2>1, Zenon
  <2>3. buffer_size' \in Nat /\ to_read' \in Int /\ connects' \in Nat
    BY <1>1, <1>2, <1>6
  <2>4. /\ place' \in Live \cup {"Closed", "Lost"} /\ greeted' \in BOOLEAN
        /\ split' \in BOOLEAN /\ has' \in SUBSET Pieces
    BY <1>1, <1>2 DEF Live
  <2> QED
    BY <2>2, <2>3, <2>4 DEF TypeInv
<1>14. StreamInv'
  <2>1. message' \o from_peer' = from_peer'
    BY <1>1, <1>11, ConcatEmptySeq
  <2>2. Len(message') = 0
    BY <1>1
  <2>3. Reading'
    BY <1>1 DEF Reading
  <2>4. \A k \in DOMAIN flight' :
          IF place' = "Handshake" /\ k = 1 THEN flight'[k] = Hello ELSE Good(flight'[k])
    BY <1>1, <1>4, <1>12
  <2>5. Len(message') + to_read' = Len(Head(flight').bytes)
    BY <1>1, <1>6, <1>12, <2>2
  <2> QED
    BY <1>1, <1>6, <1>11, <1>12, <2>1, <2>3, <2>4, <2>5 DEF StreamInv
<1>15. LastInv'
  BY <1>1 DEF LastInv
<1>16. Haves(flight') = {}
  <2>1. \A k \in DOMAIN flight' : flight'[k].id # kHave
    BY <1>5, <1>6, <1>12 DEF kHave, kBitField
  <2> QED
    BY <2>1 DEF Haves
<1>17. BlockInv'
  BY <1>1, NoneRequested DEF BlockInv
<1>18. KnowInv'
  <2>1. ASSUME NEW k \in DOMAIN flight'
        PROVE  flight'[k].id # kHave /\ (flight'[k].id = kBitField =>
                  k = 2 /\ \E h \in SUBSET Pieces :
                        flight'[k].payload = BitfieldOf(h) /\ has' = h \cup Haves(flight'))
    <3>1. CASE k = 1
      BY <1>6, <1>12, <3>1 DEF kHave, kBitField
    <3>2. CASE k = 2 /\ flight'[k] = first
      <4>1. has' = has \cup Haves(flight')
        BY <1>1, <1>16
      <4> QED
        BY <1>2, <1>5, <3>2, <4>1 DEF kHave, kBitField
    <3> QED
      BY <1>12, <3>1, <3>2
  <2> QED
    BY <1>1, <2>1 DEF KnowInv
<1> QED
  BY <1>13, <1>14, <1>15, <1>17, <1>18 DEF Inv

\* Between two messages the next one begins with the length of what follows.
LEMMA PrefixFacts ==
  ASSUME Inv, place \in {"Bitfield", "MainLoop"}, message = <<>>, from_peer # <<>>
  PROVE  /\ flight # <<>> /\ Head(flight) \in Messages /\ Good(Head(flight))
         /\ 4 <= Len(from_peer) /\ to_read = 0
         /\ BytesToInt(SubSeq(from_peer, 1, 4)) = Len(Head(flight).bytes) - 4
         /\ Len(Head(flight).bytes) - 4 \in 0 .. MaxSize
<1> DEFINE m == Head(flight)
           l == Len(m.bytes)
<1>1. /\ place \in Live /\ place # "Handshake" /\ from_peer \in Seq(Int) /\ flight \in Seq(Messages)
      /\ InStream(message \o from_peer, flight) /\ ~Reading
      /\ \A k \in DOMAIN flight : Good(flight[k])
  BY DEF Inv, TypeInv, StreamInv, Live, Reading
<1>2. InStream(from_peer, flight)
  <2> message \o from_peer = from_peer
    BY <1>1, ConcatEmptySeq
  <2> QED
    BY <1>1
<1>3. flight # <<>>
  <2> SUFFICES ASSUME flight = <<>> PROVE FALSE
    OBVIOUS
  <2>1. PICK at \in [1 .. Len(flight) + 1 -> 0 .. Len(from_peer)] : Cuts(at, from_peer, flight)
    BY <1>2 DEF InStream
  <2>2. Len(flight) + 1 = 1
    OBVIOUS
  <2>3. Len(from_peer) = 0
    BY <2>1, <2>2 DEF Cuts
  <2> QED
    BY <1>1, <2>3, EmptySeq
<1>4. m \in Messages /\ l <= Len(from_peer) /\ \A j \in 1 .. l : from_peer[j] = m.bytes[j]
  BY <1>1, <1>2, <1>3, InStreamHead
<1>5. Good(m)
  <2> 1 \in DOMAIN flight /\ m = flight[1]
    BY <1>1, <1>3, TailSets
  <2> QED
    BY <1>1
<1> HIDE DEF m
<1>6. l \in 4 .. MaxSize + 4 /\ BytesToInt(SubSeq(m.bytes, 1, 4)) = l - 4
      /\ m.bytes \in Seq(Int) /\ MaxSize \in Nat /\ Len(from_peer) \in Nat
  BY <1>1, <1>4, <1>5, GoodFacts, SizesAreInts, LenProperties DEF Messages
<1> HIDE DEF l
<1>7. 4 <= Len(from_peer) /\ l - 4 \in 0 .. MaxSize
  BY <1>4, <1>6
<1>8. SubSeq(from_peer, 1, 4) = SubSeq(m.bytes, 1, 4)
  <2> DEFINE y == SubSeq(m.bytes, 1, 4)
  <2>1. y \in Seq(Int) /\ Len(y) = 4 /\ \A k \in 1 .. 4 : y[k] = m.bytes[k]
    <3>1. \A k \in 1 .. 4 : m.bytes[k] \in Int
      <4> TAKE k \in 1 .. 4
      <4> k \in 1 .. Len(m.bytes)
        BY <1>6 DEF l
      <4> QED
        BY <1>6, ElementOfSeq
    <3>2. y \in Seq(Int) /\ Len(y) = (IF 1 <= 4 THEN 4 - 1 + 1 ELSE 0)
          /\ \A k \in 1 .. 4 - 1 + 1 : y[k] = m.bytes[1 + k - 1]
      BY <3>1, SubSeqProperties
    <3> HIDE DEF y
    <3>3. \A k \in 1 .. 4 : k \in 1 .. 4 - 1 + 1 /\ 1 + k - 1 = k
      OBVIOUS
    <3> QED
      BY <3>2, <3>3
  <2> HIDE DEF y
  <2>2. \A k \in 1 .. Len(y) : from_peer[k + 0] = y[k]
    <3> TAKE k \in 1 .. Len(y)
    <3> k \in 1 .. 4 /\ k \in 1 .. l /\ k + 0 = k
      BY <1>6, <2>1
    <3> QED
      BY <1>4, <2>1
  <2>3. SubSeq(from_peer, 0 + 1, 0 + Len(y)) = y
    <3> 0 \in Nat /\ 0 + Len(y) <= Len(from_peer)
      BY <1>6, <1>7, <2>1
    <3> QED
      BY <1>1, <2>1, <2>2, Behind
  <2>4. SubSeq(from_peer, 1, 4) = y
    BY <2>1, <2>3
  <2> QED
    BY <2>4 DEF y
<1>9. BytesToInt(SubSeq(from_peer, 1, 4)) = l - 4
  BY <1>6, <1>8, Zenon
<1>10. to_read = 0
  BY <1>1 DEF Inv, StreamInv
<1> QED
  BY <1>3, <1>4, <1>5, <1>7, <1>9, <1>10 DEF l, m

\* The first recv of ReceiveData takes the length, or loses the connection.
LEMMA ReadPrefixInv == Inv /\ (\E n \in 1 .. Len(from_peer) : ReadPrefix(n)) => Inv'
<1> SUFFICES ASSUME Inv, NEW n \in 1 .. Len(from_peer), ReadPrefix(n) PROVE Inv'
  OBVIOUS
<1>1. /\ place \in {"Bitfield", "MainLoop"} /\ message = <<>> /\ Recv(n, 4, 4)
      /\ IF n < 4 \/ BytesToInt(message') \notin 0 .. MaxSize
         THEN place' = "Closed" /\ UNCHANGED <<buffer_size, to_read>>
         ELSE /\ buffer_size' = BytesToInt(message') /\ to_read' = BytesToInt(message')
              /\ place' = place
  BY DEF ReadPrefix, Calls
<1>2. /\ n \in 1 .. 4 /\ n <= Len(from_peer) /\ message' \in Seq(Int) /\ from_peer' \in Seq(Int)
      /\ Len(message') = Len(message) + n /\ message' # <<>>
      /\ message' \o from_peer' = message \o from_peer
  BY <1>1, RecvKeeps
<1>3. /\ message' = message \o SubSeq(from_peer, 1, n) /\ last' = <<>>
      /\ split' = (split \/ n < 4)
      /\ UNCHANGED <<pieces_availability, to_peer, asked, connects, has, flight, greeted>>
  BY <1>1 DEF Recv, peerVars, toPeer
<1>4. /\ from_peer \in Seq(Int) /\ from_peer # <<>> /\ flight \in Seq(Messages)
      /\ place \in Live /\ place # "Handshake"
  <2> from_peer \in Seq(Int) /\ flight \in Seq(Messages)
    BY DEF Inv, TypeInv
  <2> from_peer # <<>>
    BY <1>2
  <2> QED
    BY <1>1 DEF Live
<1>5. /\ flight # <<>> /\ Head(flight) \in Messages /\ to_read = 0
      /\ BytesToInt(SubSeq(from_peer, 1, 4)) = Len(Head(flight).bytes) - 4
      /\ Len(Head(flight).bytes) - 4 \in 0 .. MaxSize
  BY <1>1, <1>4, PrefixFacts
<1>6. n = 4 => BytesToInt(message') = Len(Head(flight).bytes) - 4
  <2> SUFFICES ASSUME n = 4 PROVE BytesToInt(message') = Len(Head(flight).bytes) - 4
    OBVIOUS
  <2>1. SubSeq(from_peer, 1, 4) \in Seq(Int)
    <3>1. 4 <= Len(from_peer) /\ Len(from_peer) \in Nat
      BY <1>2, <1>4, LenProperties
    <3>2. \A i \in 1 .. 4 : from_peer[i] \in Int
      BY <1>4, <3>1, ElementOfSeq
    <3> QED
      BY <3>2, SubSeqProperties
  <2>2. message' = SubSeq(from_peer, 1, 4)
    BY <1>1, <1>3, <2>1, ConcatEmptySeq
  <2> QED
    BY <1>5, <2>2, Zenon
<1>7. place' = "Closed" => n < 4 /\ split'
  <2> SUFFICES ASSUME ~(n < 4) PROVE place' # "Closed"
    BY <1>3
  <2>1. n = 4
    BY <1>2
  <2>2. BytesToInt(message') \in 0 .. MaxSize
    BY <1>5, <1>6, <2>1
  <2> QED
    BY <1>1, <1>2, <2>1, <2>2
<1>8. CASE place' = "Closed"
  <2>1. UNCHANGED <<buffer_size, to_read>>
    BY <1>1, <1>8
  <2>2. TypeInv'
    <3> split' \in BOOLEAN /\ place' \in Live \cup {"Closed", "Lost"}
      BY <1>7, <1>8, <1>3
    <3> QED
      BY <1>2, <1>3, <2>1 DEF Inv, TypeInv
  <2>3. StreamInv' /\ KnowInv'
    BY <1>8 DEF StreamInv, KnowInv, Live
  <2>4. LastInv'
    BY <1>3, <1>7, <1>8 DEF LastInv
  <2>5. BlockInv'
    BY <1>3 DEF Inv, BlockInv
  <2> QED
    BY <2>2, <2>3, <2>4, <2>5 DEF Inv
<1>9. CASE place' # "Closed"
  <2>1. /\ n = 4 /\ buffer_size' = BytesToInt(message') /\ to_read' = BytesToInt(message')
        /\ place' = place /\ buffer_size' = Len(Head(flight).bytes) - 4
        /\ to_read' = Len(Head(flight).bytes) - 4
    BY <1>1, <1>2, <1>6, <1>9
  <2>2. buffer_size' \in Nat /\ to_read' \in Int /\ Len(Head(flight).bytes) \in Nat
    <3>1. Len(Head(flight).bytes) \in Nat
      BY <1>5, LenProperties DEF Messages
    <3>2. MaxSize \in Nat
      BY SizesAreInts
    <3> QED
      BY <1>5, <2>1, <3>1, <3>2
  <2>3. TypeInv'
    <3> split' \in BOOLEAN
      BY <1>3 DEF Inv, TypeInv
    <3> QED
      BY <1>2, <1>3, <2>1, <2>2 DEF Inv, TypeInv
  <2>4. StreamInv'
    <3>1. Len(message') + to_read' = Len(Head(flight').bytes)
      <4> Len(message) = 0
        BY <1>1
      <4> QED
        BY <1>2, <1>3, <2>1, <2>2
    <3>2. InStream(message' \o from_peer', flight')
      BY <1>2, <1>3, <1>4 DEF Inv, StreamInv
    <3>3. \A k \in DOMAIN flight' :
            IF place' = "Handshake" /\ k = 1 THEN flight'[k] = Hello ELSE Good(flight'[k])
      BY <1>3, <1>4, <2>1 DEF Inv, StreamInv
    <3> QED
      BY <1>2, <1>3, <1>5, <2>1, <2>2, <3>1, <3>2, <3>3 DEF StreamInv, Reading
  <2>5. LastInv'
    BY <1>3, <1>4, <2>1 DEF Inv, LastInv, Live
  <2>6. BlockInv'
    BY <1>3 DEF Inv, BlockInv
  <2>7. KnowInv'
    BY <1>3, <2>1 DEF Inv, KnowInv, Known
  <2> QED
    BY <2>3, <2>4, <2>5, <2>6, <2>7 DEF Inv
<1> QED
  BY <1>8, <1>9

\* The second takes the rest of that message, unless the network split it.
LEMMA ReadBodyInv == Inv /\ (\E n \in 1 .. Len(from_peer) : ReadBody(n)) => Inv'
<1> SUFFICES ASSUME Inv, NEW n \in 1 .. Len(from_peer), ReadBody(n) PROVE Inv'
  OBVIOUS
<1>1. /\ place \notin {"Closed", "Lost"} /\ to_read > 0 /\ Recv(n, buffer_size, to_read)
      /\ to_read' = to_read - n /\ UNCHANGED <<place, buffer_size>>
  BY DEF ReadBody
<1>2. buffer_size \in Nat /\ to_read \in Int /\ place \in Live
  BY <1>1 DEF Inv, TypeInv
<1>3. /\ n \in 1 .. buffer_size /\ message' \in Seq(Int) /\ from_peer' \in Seq(Int)
      /\ Len(message') = Len(message) + n /\ message' # <<>>
      /\ message' \o from_peer' = message \o from_peer
  BY <1>1, <1>2, RecvKeeps
<1>4. /\ last' = <<>> /\ split' = (split \/ n < to_read)
      /\ UNCHANGED <<pieces_availability, to_peer, asked, connects, has, flight, greeted>>
  BY <1>1 DEF Recv, peerVars, toPeer
<1>5. /\ InStream(message \o from_peer, flight) /\ Reading
      /\ flight # <<>> /\ Len(message) + to_read = Len(Head(flight).bytes)
      /\ to_read <= buffer_size /\ (~split => to_read = buffer_size)
      /\ \A k \in DOMAIN flight :
            IF place = "Handshake" /\ k = 1 THEN flight[k] = Hello ELSE Good(flight[k])
  BY <1>1, <1>2 DEF Inv, StreamInv
<1>11. /\ n \in Nat /\ n >= 1 /\ n <= buffer_size /\ Len(message) \in Nat
       /\ Len(message') = Len(message) + n
  <2> Len(message) \in Nat
    BY LenProperties DEF Inv, TypeInv
  <2> QED
    BY <1>2, <1>3
<1>6. TypeInv'
  <2>1. to_read' \in Int
    BY <1>1, <1>2, <1>3
  <2>2. split' \in BOOLEAN
    BY <1>4 DEF Inv, TypeInv
  <2> QED
    BY <1>1, <1>3, <1>4, <2>1, <2>2 DEF Inv, TypeInv
<1>7. StreamInv'
  <2>1. Len(message') + to_read' = Len(Head(flight').bytes)
    <3> DEFINE a == Len(message)
               b == Len(message')
               l == Len(Head(flight).bytes)
    <3>1. a \in Nat /\ b = a + n /\ n \in Nat /\ a + to_read = l /\ to_read' = to_read - n
      BY <1>1, <1>5, <1>11
    <3> HIDE DEF a, b, l
    <3>2. b + to_read' = l
      BY <1>2, <3>1
    <3> QED
      BY <1>4, <3>2 DEF b, l
  <2>2. to_read' <= buffer_size' /\ (~split' => to_read' = 0)
    <3>1. to_read <= buffer_size /\ (~split => to_read = buffer_size)
      BY <1>5
    <3>2. ~split' => ~split /\ ~(n < to_read)
      BY <1>4
    <3>3. to_read - n <= buffer_size /\ (~(n < to_read) /\ to_read = buffer_size => to_read - n = 0)
      BY <1>2, <1>11, <3>1
    <3> QED
      BY <1>1, <3>1, <3>2, <3>3
  <2>3. Reading'
    BY <1>3 DEF Reading
  <2> QED
    BY <1>1, <1>3, <1>4, <1>5, <2>1, <2>2, <2>3 DEF StreamInv
<1>8. LastInv'
  BY <1>1, <1>2, <1>4 DEF Inv, LastInv, Live
<1>9. BlockInv'
  BY <1>1, <1>4 DEF Inv, BlockInv
<1>10. KnowInv'
  BY <1>1, <1>4 DEF Inv, KnowInv, Known
<1> QED
  BY <1>6, <1>7, <1>8, <1>9, <1>10 DEF Inv

\* The first message gone, the others are as they were.
LEMMA KnowReturns ==
  ASSUME KnowInv, place \in Live, flight \in Seq(Messages), flight # <<>>,
         flight' = Tail(flight), has' = has,
         place = "Handshake" => place' = "Bitfield" /\ Head(flight).id \notin {kHave, kBitField},
         place # "Handshake" => place' = "MainLoop",
         place' = "MainLoop" /\ greeted' =>
            /\ pieces_availability' \in Bitfields
            /\ has = Known(pieces_availability)' \cup Haves(Tail(flight))
  PROVE  KnowInv'
<1>1. ASSUME NEW k \in DOMAIN flight'
      PROVE  /\ flight'[k].id = kHave => \E i \in Pieces : flight'[k].payload = IntToBytes(i)
             /\ flight'[k].id = kBitField =>
                   /\ place' # "MainLoop" /\ k = (IF place' = "Handshake" THEN 2 ELSE 1)
                   /\ \E h \in SUBSET Pieces :
                         flight'[k].payload = BitfieldOf(h) /\ has' = h \cup Haves(flight')
  <2>1. k \in Nat /\ k + 1 \in DOMAIN flight /\ flight'[k] = flight[k + 1] /\ k \in DOMAIN Tail(flight)
    BY TailSets
  <2>2. flight[k + 1].id = kHave => \E i \in Pieces : flight[k + 1].payload = IntToBytes(i)
    BY <2>1 DEF KnowInv
  <2>3. flight[k + 1].id = kBitField =>
           /\ place # "MainLoop" /\ k + 1 = (IF place = "Handshake" THEN 2 ELSE 1)
           /\ \E h \in SUBSET Pieces :
                 flight[k + 1].payload = BitfieldOf(h) /\ has = h \cup Haves(flight)
    BY <2>1 DEF KnowInv
  <2>4. k # 0
    <3> Tail(flight) \in Seq(Messages)
      BY HeadTailProperties
    <3> DOMAIN Tail(flight) = 1 .. Len(Tail(flight))
      BY LenProperties
    <3> QED
      BY <2>1
  <2>5. CASE place = "Handshake"
    <3>1. place' = "Bitfield" /\ Haves(flight) = Haves(flight')
      BY <2>5, TailSets
    <3>2. k + 1 = 2 => k = 1
      BY <2>1
    <3> QED
      BY <2>1, <2>2, <2>3, <2>5, <3>1, <3>2
  <2>6. CASE place # "Handshake"
    <3> k + 1 # 1
      BY <2>1, <2>4
    <3> QED
      BY <2>1, <2>2, <2>3, <2>6
  <2> QED
    BY <2>5, <2>6
<1>2. place' = "MainLoop" /\ greeted' =>
         /\ pieces_availability' \in Bitfields
         /\ has' = Known(pieces_availability)' \cup Haves(flight')
  OBVIOUS
<1> QED
  BY <1>1, <1>2 DEF KnowInv

\* Out of step, nothing is claimed but what is remembered of the stream.
LEMMA LostIsInv ==
  ASSUME TypeInv', StreamInv', LastInv', BlockInv', place' = "Lost"
  PROVE  Inv'
BY DEF Inv, KnowInv, Live

\* The handshake takes its own bytes off the stream.
LEMMA PerformHandshakeInv == Inv /\ PerformHandshake => Inv'
<1> SUFFICES ASSUME Inv, PerformHandshake PROVE Inv'
  OBVIOUS
<1>1. place = "Handshake" /\ Return("Bitfield")
      /\ UNCHANGED <<pieces_availability, greeted>>
  BY DEF PerformHandshake
<1>2. place \in Live /\ greeted' \in BOOLEAN /\ flight \in Seq(Messages)
  BY <1>1 DEF Inv, TypeInv, Live
<1>3. /\ flight # <<>> /\ flight' = Tail(flight) /\ Head(flight) = Hello
      /\ place' = "Lost" \/ place' = "Bitfield"
      /\ TypeInv' /\ StreamInv' /\ LastInv' /\ BlockInv'
  BY <1>1, <1>2, ReturnKeeps
<1>4. has' = has
  BY <1>1 DEF Return
<1>5. Head(flight).id \notin {kHave, kBitField}
  BY <1>3, HelloFacts DEF kHave, kBitField
<1>6. CASE place' = "Bitfield"
  <2>1. KnowInv'
    BY <1>1, <1>2, <1>3, <1>4, <1>5, <1>6, KnowReturns DEF Inv
  <2> QED
    BY <1>3, <2>1 DEF Inv
<1> QED
  BY <1>3, <1>6, LostIsInv

\* The bitfield that is read has the bits of the pieces the peer had when it sent it.
LEMMA ReceiveBitfieldInv == Inv /\ ReceiveBitfield => Inv'
<1> SUFFICES ASSUME Inv, ReceiveBitfield PROVE Inv'
  OBVIOUS
<1> DEFINE m == Head(flight)
<1>1. /\ place = "Bitfield" /\ Return("MainLoop") /\ greeted' = (Parse(message).id = kBitField)
      /\ pieces_availability' =
            IF greeted' THEN [bitfield |-> Parse(message).payload, size |-> bitfield_size]
            ELSE pieces_availability
  BY DEF ReceiveBitfield
<1>2. place \in Live /\ greeted' \in BOOLEAN /\ flight \in Seq(Messages)
  BY <1>1 DEF Inv, TypeInv, Live
<1>3. /\ flight # <<>> /\ flight' = Tail(flight) /\ m \in Messages /\ Good(m)
      /\ place' = "Lost" \/ (place' = "MainLoop" /\ message = m.bytes)
      /\ TypeInv' /\ StreamInv' /\ LastInv' /\ BlockInv'
  BY <1>1, <1>2, ReturnKeeps
<1>4. has' = has
  BY <1>1 DEF Return
<1>5. CASE place' = "MainLoop" /\ message = m.bytes
  <2>1. Parse(message).id = m.id /\ Parse(message).payload = m.payload
    BY <1>3, <1>5, GoodFacts
  <2>2. m = flight[1] /\ 1 \in DOMAIN flight
    BY <1>2, <1>3, TailSets
  <2>6. greeted' => /\ pieces_availability' \in Bitfields
                    /\ has = Known(pieces_availability)' \cup Haves(Tail(flight))
    <3> SUFFICES ASSUME greeted'
                 PROVE  /\ pieces_availability' \in Bitfields
                        /\ has = Known(pieces_availability)' \cup Haves(Tail(flight))
      OBVIOUS
    <3>1. m.id = kBitField
      BY <1>1, <2>1
    <3>2. PICK h \in SUBSET Pieces : flight[1].payload = BitfieldOf(h) /\ has = h \cup Haves(flight)
      BY <1>2, <2>2, <3>1 DEF Inv, KnowInv
    <3> DEFINE a == [bitfield |-> BitfieldOf(h), size |-> bitfield_size]
    <3>3. pieces_availability' = a
      BY <1>1, <2>1, <2>2, <3>2
    <3>4. BitfieldOf(h) \in [1 .. bitfield_size -> Byte] /\ Known(a) = h
      BY BitfieldFacts
    <3>5. a \in Bitfields
      BY <3>4 DEF Bitfields
    <3>6. Haves(flight) = Haves(Tail(flight))
      <4> m.id # kHave
        BY <3>1 DEF kBitField, kHave
      <4> QED
        BY <1>2, <1>3, TailSets
    <3> HIDE DEF a
    <3>7. Known(pieces_availability)' = Known(a)
      BY <3>3 DEF Known
    <3> QED
      BY <3>2, <3>3, <3>4, <3>5, <3>6, <3>7
  <2>7. KnowInv'
    BY <1>1, <1>2, <1>3, <1>4, <1>5, <2>6, KnowReturns DEF Inv
  <2> QED
    BY <1>3, <2>7 DEF Inv
<1> QED
  BY <1>3, <1>5, LostIsInv

\* HAVE adds a piece to what is known.
LEMMA ProcessMessageInv == Inv /\ ProcessMessage => Inv'
<1> SUFFICES ASSUME Inv, ProcessMessage PROVE Inv'
  OBVIOUS
<1> DEFINE m == Head(flight)
           q == Parse(message)
<1>1. /\ place = "MainLoop" /\ Return("MainLoop") /\ greeted' = greeted
      /\ pieces_availability' =
            IF q.id = kHave /\ Len(q.payload) >= 4
            THEN SetPieceAvailability(pieces_availability, BytesToInt(q.payload))
            ELSE pieces_availability
  BY DEF ProcessMessage
<1>2. place \in Live /\ greeted' \in BOOLEAN /\ flight \in Seq(Messages)
  BY <1>1 DEF Inv, TypeInv, Live
<1>3. /\ flight # <<>> /\ flight' = Tail(flight) /\ m \in Messages /\ Good(m)
      /\ place' = "Lost" \/ (place' = "MainLoop" /\ message = m.bytes)
      /\ TypeInv' /\ StreamInv' /\ LastInv' /\ BlockInv'
  BY <1>1, <1>2, ReturnKeeps
<1>4. has' = has
  BY <1>1 DEF Return
<1>5. CASE place' = "MainLoop" /\ message = m.bytes
  <2>1. q.id = m.id /\ q.payload = m.payload
    BY <1>3, <1>5, GoodFacts
  <2>2. m = flight[1] /\ 1 \in DOMAIN flight
    BY <1>2, <1>3, TailSets
  <2>4. greeted' => /\ pieces_availability' \in Bitfields
                    /\ has = Known(pieces_availability)' \cup Haves(Tail(flight))
    <3> SUFFICES ASSUME greeted
                 PROVE  /\ pieces_availability' \in Bitfields
                        /\ has = Known(pieces_availability)' \cup Haves(Tail(flight))
      BY <1>1
    <3>1. /\ pieces_availability \in Bitfields
          /\ has = Known(pieces_availability) \cup Haves(flight)
      BY <1>1, <1>2 DEF Inv, KnowInv
    <3>2. Known(pieces_availability)' = Known(pieces_availability')
      BY DEF Known
    <3>3. CASE m.id # kHave
      <4>1. pieces_availability' = pieces_availability
        BY <1>1, <2>1, <3>3
      <4>2. Haves(flight) = Haves(Tail(flight))
        BY <1>2, <1>3, <3>3, TailSets
      <4> QED
        BY <3>1, <3>2, <4>1, <4>2
    <3>4. CASE m.id = kHave
      <4>1. PICK i \in Pieces : flight[1].payload = IntToBytes(i)
        BY <1>2, <2>2, <3>4 DEF Inv, KnowInv
      <4>2. m.payload = IntToBytes(i) /\ q.payload = IntToBytes(i)
        BY <2>1, <2>2, <4>1
      <4>3. i \in Sizes /\ Len(IntToBytes(i)) = 4 /\ BytesToInt(IntToBytes(i)) = i
        BY FourBytes, WireAssumption
      <4>4. Haves(flight) = Haves(Tail(flight)) \cup {i}
        BY <1>2, <1>3, <3>4, <4>2, TailSets
      <4>5. pieces_availability' = SetPieceAvailability(pieces_availability, i)
        <5> Len(q.payload) >= 4 /\ BytesToInt(q.payload) = i
          BY <4>2, <4>3
        <5> QED
          BY <1>1, <2>1, <3>4
      <4>6. /\ pieces_availability' \in Bitfields
            /\ Known(pieces_availability') = Known(pieces_availability) \cup {i}
        BY <3>1, <4>5, SetKnown
      <4> QED
        BY <3>1, <3>2, <4>4, <4>6
    <3> QED
      BY <3>3, <3>4
  <2>5. KnowInv'
    BY <1>1, <1>2, <1>3, <1>4, <1>5, <2>4, KnowReturns DEF Inv
  <2> QED
    BY <1>3, <2>5 DEF Inv
<1> QED
  BY <1>3, <1>5, LostIsInv

\* A request goes behind those on their way.
LEMMA RequestPieceInv == Inv /\ (\E b \in Blocks : RequestPiece(b)) => Inv'
<1> SUFFICES ASSUME Inv, NEW b \in Blocks, RequestPiece(b) PROVE Inv'
  OBVIOUS
<1>1. /\ to_peer' = to_peer \o Request(b) /\ asked' = Append(asked, b)
      /\ UNCHANGED <<place, pieces_availability, message, buffer_size, to_read, from_peer,
                     connects, has, flight, greeted, split, last>>
  BY DEF RequestPiece, Request, readVars, peerVars
<1>2. to_peer \in Seq(Int) /\ asked \in Seq(Blocks) /\ Requested(to_peer, asked)
  BY DEF Inv, TypeInv, BlockInv
<1>3. BlockInv'
  <2>1. Append(asked, b) \in Seq(Blocks)
    BY <1>2, AppendProperties
  <2> QED
    BY <1>1, <1>2, <2>1, RequestedAppend DEF BlockInv
<1>4. to_peer' \in Seq(Int)
  BY <1>1, <1>2, RequestFacts, ConcatProperties
<1>5. TypeInv'
  BY <1>1, <1>4 DEF Inv, TypeInv
<1>6. StreamInv' /\ LastInv'
  BY <1>1 DEF Inv, StreamInv, Reading, LastInv
<1>7. KnowInv'
  BY <1>1 DEF Inv, KnowInv, Known
<1> QED
  BY <1>3, <1>5, <1>6, <1>7 DEF Inv

\* A client that waits no longer leaves the bytes on their way alone.
LEMMA BlockTimeoutInv == Inv /\ BlockTimeout => Inv'
<1> SUFFICES ASSUME Inv, BlockTimeout PROVE Inv'
  OBVIOUS
<1>1. UNCHANGED <<place, pieces_availability, message, buffer_size, to_read, to_peer, asked,
                  from_peer, connects, has, flight, greeted, split, last>>
  BY DEF BlockTimeout, readVars, peerVars, toPeer
<1>2. TypeInv' /\ LastInv' /\ BlockInv'
  BY <1>1 DEF Inv, TypeInv, LastInv, BlockInv
<1>3. StreamInv' /\ KnowInv'
  BY <1>1 DEF Inv, StreamInv, Reading, KnowInv, Known
<1> QED
  BY <1>2, <1>3 DEF Inv

\* A message without a payload, or a keep-alive, joins the stream.
LEMMA PeerSaysInv == Inv /\ PeerSays => Inv'
<1> SUFFICES ASSUME Inv, PeerSays PROVE Inv'
  OBVIOUS
<1>1. PICK id \in {kKeepAlive, kChoke, kUnchoke}, bytes \in Seq(Int) :
         /\ Sends(id, <<>>, NoBlock, bytes) /\ AsMeant(id, <<>>, NoBlock, bytes) \in Messages
         /\ Good(AsMeant(id, <<>>, NoBlock, bytes))
  <2>1. CASE Sends(kKeepAlive, <<>>, NoBlock, <<0, 0, 0, 0>>)
    <3> DEFINE b == <<0, 0, 0, 0>>
               m == AsMeant(kKeepAlive, <<>>, NoBlock, b)
    <3>1. b \in Seq(Int) /\ <<>> \in Seq(Int) /\ b = <<0, 0, 0, 0>>
      OBVIOUS
    <3> HIDE DEF b
    <3>2. m.id = kKeepAlive /\ m.payload = <<>> /\ m.bytes = b /\ m \in Messages
      BY <3>1 DEF AsMeant, Messages, kKeepAlive
    <3> HIDE DEF m
    <3>3. Good(m)
      BY <3>1, <3>2 DEF Good
    <3> QED
      BY <2>1, <3>1, <3>2, <3>3 DEF m
  <2>2. ASSUME NEW id \in {kChoke, kUnchoke}, Sends(id, <<>>, NoBlock, Wire(id, <<>>))
        PROVE  /\ AsMeant(id, <<>>, NoBlock, Wire(id, <<>>)) \in Messages
               /\ Good(AsMeant(id, <<>>, NoBlock, Wire(id, <<>>)))
               /\ Wire(id, <<>>) \in Seq(Int)
    <3> DEFINE e == <<>>
    <3>1. e \in Seq(Int) /\ e = <<>> /\ Len(e) + 1 <= MaxSize
      <4> Len(e) = 0
        OBVIOUS
      <4> QED
        BY EmptySeq, FitsAssumption, SizesAreInts
    <3> HIDE DEF e
    <3>2. Said(id, e, NoBlock)
      BY <3>1 DEF Said, kChoke, kUnchoke, kPiece
    <3>3. /\ AsMeant(id, e, NoBlock, Wire(id, e)) \in Messages
          /\ Good(AsMeant(id, e, NoBlock, Wire(id, e)))
      BY <3>1, <3>2, WireIsGood
    <3>4. Wire(id, e) \in Seq(Int)
      BY <3>3 DEF AsMeant, Messages
    <3> QED
      BY <3>3, <3>4 DEF e
  <2> QED
    BY <2>1, <2>2 DEF PeerSays
<1> DEFINE m == AsMeant(id, <<>>, NoBlock, bytes)
<1>2. /\ flight' = Append(flight, m) /\ flight \in Seq(Messages) /\ place \in Live
      /\ UNCHANGED <<place, pieces_availability, greeted, to_peer, asked, has>>
      /\ has' \in SUBSET Pieces /\ to_peer' \in Seq(Int)
  BY <1>1 DEF PeerSays, Sends, Inv, TypeInv, toPeer
<1>3. TypeInv' /\ StreamInv' /\ LastInv'
  BY <1>1, <1>2, SendsKeeps
<1>4. m \in Messages /\ m.id \notin {kHave, kBitField}
  BY <1>1 DEF AsMeant, kKeepAlive, kChoke, kUnchoke, kHave, kBitField
<1> HIDE DEF m
<1>5. BlockInv'
  BY <1>2 DEF Inv, BlockInv
<1>6. KnowInv'
  <2> DEFINE E == {}
  <2>1. has' = has \cup E /\ Haves(Append(flight, m)) = Haves(flight) \cup E
    BY <1>2, <1>4, AppendSets
  <2> HIDE DEF E
  <2> QED
    BY <1>2, <1>4, <2>1, KnowSends DEF Inv
<1> QED
  BY <1>3, <1>5, <1>6 DEF Inv

\* A HAVE joins the stream with the piece it is about.
LEMMA PeerGetsInv == Inv /\ (\E i \in NewPieces : PeerGets(i)) => Inv'
<1> SUFFICES ASSUME Inv, NEW i \in Pieces, PeerGets(i) PROVE Inv'
  BY WireAssumption
<1> DEFINE p == IntToBytes(i)
           w == Wire(kHave, p)
           m == AsMeant(kHave, p, NoBlock, w)
<1>1. Sends(kHave, p, NoBlock, w) /\ has' = has \cup {i} /\ to_peer' = to_peer /\ asked' = asked
  BY DEF PeerGets, IntToBytes, toPeer
<1>2. p \in Seq(Int) /\ Len(p) = 4 /\ p = IntToBytes(i)
  BY FourBytes, WireAssumption
<1> HIDE DEF p
<1>3. m \in Messages /\ Good(m)
  <2>1. Len(p) + 1 <= MaxSize
    BY <1>2, FitsAssumption
  <2>2. Said(kHave, p, NoBlock)
    BY <2>1 DEF Said, kHave, kChoke, kUnchoke, kPiece
  <2> QED
    BY <1>2, <2>2, WireIsGood
<1>4. m.id = kHave /\ m.payload = p
  BY DEF AsMeant
<1>5. /\ flight' = Append(flight, m) /\ flight \in Seq(Messages) /\ place \in Live
      /\ UNCHANGED <<place, pieces_availability, greeted>>
      /\ has' \in SUBSET Pieces /\ to_peer' \in Seq(Int)
  BY <1>1 DEF Sends, Inv, TypeInv
<1>6. TypeInv' /\ StreamInv' /\ LastInv'
  BY <1>1, <1>3, <1>5, SendsKeeps
<1> HIDE DEF m
<1>7. m.id # kBitField
  BY <1>4 DEF kHave, kBitField
<1>8. BlockInv'
  BY <1>1 DEF Inv, BlockInv
<1>9. KnowInv'
  <2> DEFINE E == {i}
  <2>1. has' = has \cup E /\ Haves(Append(flight, m)) = Haves(flight) \cup E
    BY <1>1, <1>2, <1>3, <1>4, <1>5, AppendSets
  <2>2. \E j \in Pieces : m.payload = IntToBytes(j)
    BY <1>2, <1>4
  <2> HIDE DEF E
  <2> QED
    BY <1>3, <1>5, <1>7, <2>1, <2>2, KnowSends DEF Inv
<1> QED
  BY <1>6, <1>8, <1>9 DEF Inv

\* An answer joins the stream with the block of the oldest request, read in its bytes.
LEMMA PeerAnswersInv == Inv /\ PeerAnswers => Inv'
<1> SUFFICES ASSUME Inv, PeerAnswers PROVE Inv'
  OBVIOUS
<1> DEFINE x == SubSeq(to_peer, 4 * 1 + 2, 4 * 1 + 5)
           y == SubSeq(to_peer, 4 * 2 + 2, 4 * 2 + 5)
           z == SubSeq(to_peer, 4 * 3 + 2, 4 * 3 + 5)
           b == Head(asked)
           p == x \o y \o [k \in 1 .. Unsigned(z) |-> 0]
           w == Wire(kPiece, p)
           m == AsMeant(kPiece, p, b, w)
<1>1. /\ Len(to_peer) >= 17 /\ Sends(kPiece, p, b, w) /\ has' = has
      /\ to_peer' = SubSeq(to_peer, 18, Len(to_peer)) /\ asked' = Tail(asked)
  BY DEF PeerAnswers
<1>2. /\ flight' = Append(flight, m) /\ flight \in Seq(Messages) /\ place \in Live
      /\ UNCHANGED <<place, pieces_availability, greeted>>
      /\ has \in SUBSET Pieces
  BY <1>1 DEF Sends, Inv, TypeInv
<1>3. to_peer \in Seq(Int) /\ asked \in Seq(Blocks) /\ Requested(to_peer, asked)
  BY DEF Inv, TypeInv, BlockInv
<1>4. /\ b \in Blocks /\ x = IntToBytes(b[1]) /\ y = IntToBytes(b[2]) /\ z = IntToBytes(b[3])
      /\ to_peer' \in Seq(Int) /\ asked' \in Seq(Blocks) /\ Requested(to_peer', asked')
  BY <1>1, <1>3, RequestedHead
<1>6. p = Answer(b)
  <2> Unsigned(z) = b[3]
    BY <1>4, BlockFields, FourBytes
  <2> QED
    BY <1>4 DEF Answer
<1> HIDE DEF x, y, z, p, b
<1>7. p \in Seq(Int) /\ Len(p) = b[3] + 8 /\ b[3] \in Nat
  BY <1>4, <1>6, AnswerFacts, BlockFields
<1>8. m \in Messages /\ Good(m)
  <2>1. b[3] + 9 <= MaxSize
    BY <1>4, FitsAssumption
  <2>2. Len(p) + 1 <= MaxSize
    BY <1>7, <2>1
  <2>3. Said(kPiece, p, b)
    BY <1>4, <1>6, <2>2 DEF Said, kPiece, kChoke, kUnchoke
  <2> QED
    BY <1>4, <1>7, <2>3, WireIsGood
<1>9. m.id = kPiece
  BY DEF AsMeant
<1>11. TypeInv' /\ StreamInv' /\ LastInv'
  BY <1>1, <1>2, <1>4, <1>8, SendsKeeps
<1> HIDE DEF m
<1>12. BlockInv'
  BY <1>4 DEF BlockInv
<1>13. KnowInv'
  <2> DEFINE E == {}
  <2>1. m.id # kHave /\ m.id # kBitField
    BY <1>9 DEF kPiece, kHave, kBitField
  <2>2. has' = has \cup E /\ Haves(Append(flight, m)) = Haves(flight) \cup E
    BY <1>1, <1>2, <1>8, <2>1, AppendSets
  <2> HIDE DEF E
  <2> QED
    BY <1>2, <1>8, <2>1, <2>2, KnowSends DEF Inv
<1> QED
  BY <1>11, <1>12, <1>13 DEF Inv

\* Every step keeps the invariant.
LEMMA NextInv == Inv /\ [Next]_vars => Inv'
<1> SUFFICES ASSUME Inv, [Next]_vars PROVE Inv'
  OBVIOUS
<1>1. CASE Connect
  BY <1>1, ConnectInv
<1>2. CASE \E n \in 1 .. Len(from_peer) : ReadPrefix(n) \/ ReadBody(n)
  BY <1>2, ReadPrefixInv, ReadBodyInv
<1>3. CASE PerformHandshake
  BY <1>3, PerformHandshakeInv
<1>4. CASE ReceiveBitfield
  BY <1>4, ReceiveBitfieldInv
<1>5. CASE ProcessMessage
  BY <1>5, ProcessMessageInv
<1>6. CASE \E b \in Blocks : RequestPiece(b)
  BY <1>6, RequestPieceInv
<1>7. CASE PeerSays
  BY <1>7, PeerSaysInv
<1>8. CASE PeerAnswers
  BY <1>8, PeerAnswersInv
<1>9. CASE \E i \in NewPieces : PeerGets(i)
  BY <1>9, PeerGetsInv
<1>11. CASE BlockTimeout
  BY <1>11, BlockTimeoutInv
<1>10. CASE UNCHANGED vars
  <2>1. /\ UNCHANGED <<place, pieces_availability, message, buffer_size, to_read>>
        /\ UNCHANGED <<to_peer, asked, from_peer, connects, has, flight, greeted, split, last>>
    BY <1>10 DEF vars, readVars, peerVars, toPeer
  <2>2. TypeInv' /\ LastInv' /\ BlockInv'
    BY <2>1 DEF Inv, TypeInv, LastInv, BlockInv
  <2>3. StreamInv' /\ KnowInv'
    BY <2>1 DEF Inv, StreamInv, Reading, KnowInv, Known
  <2> QED
    BY <2>2, <2>3 DEF Inv
<1> QED
  BY <1>1, <1>2, <1>3, <1>4, <1>5, <1>6, <1>7, <1>8, <1>9, <1>10, <1>11 DEF Next

\* The state is of its type, what is on its way is the messages that are meant, and
\* they say what the client and the peer hold, in every reachable state.
THEOREM Invariance == Spec => []Inv
<1> QED
  BY InitInv, NextInv, PTL DEF Spec

-----------------------------------------------------------------------------
(***************************************************************************)
(* The properties.                                                         *)
(***************************************************************************)
\* As long as no recv ends inside a message, ReceiveData neither fails nor loses its
\* place, whatever the sizes of messages and however many wait in the socket, and Parse
\* gives what was sent (TcpConnect.cpp:118-185, Message.cpp:4).
THEOREM ReceivesInStep == Spec => []InStepUnlessSplit
<1>1. Inv => InStepUnlessSplit
  <2> SUFFICES ASSUME Inv PROVE InStepUnlessSplit
    OBVIOUS
  <2>1. ~split => place # "Lost" /\ (connects > 0 => place # "Closed")
    BY DEF Inv, LastInv
  <2>2. ASSUME last # <<>>, ~split, last.meant.id # -1
        PROVE  /\ Parse(last.got).id = last.meant.id
               /\ Parse(last.got).payload = last.meant.payload
    <3>1. last.meant \in Messages /\ Good(last.meant) /\ last.got = last.meant.bytes
      BY <2>2, HelloFacts DEF Inv, LastInv
    <3> QED
      BY <3>1, GoodFacts
  <2> QED
    BY <2>1, <2>2 DEF InStepUnlessSplit
<1> QED
  BY <1>1, Invariance, PTL

\* Out of step or not, what ReceiveData returns begins with the whole message: it takes
\* more than the message, never less (TcpConnect.cpp:167-183).
THEOREM NeverReturnsTooLittle == Spec => []NeverCutShort
<1>1. Inv => NeverCutShort
  BY DEF Inv, LastInv, NeverCutShort
<1> QED
  BY <1>1, Invariance, PTL

\* Piece, offset and length survive the way there and back, for all that an int holds
\* (PeerConnect.cpp:333, 374), and every block that comes is that of the request it
\* answers, however many requests are on their way after a choke or a timeout.
THEOREM AnswersFit == Spec => []AnswerFitsRequest
<1>1. Inv => AnswerFitsRequest
  <2> SUFFICES ASSUME Inv, last # <<>>, place # "Lost", last.meant.id = kPiece
               PROVE  /\ Parse(last.got).id = kPiece
                      /\ BlockIn(Parse(last.got)) = last.meant.of
    BY DEF AnswerFitsRequest
  <2> DEFINE b == last.meant.of
             q == Parse(last.got)
  <2>1. last.meant \in Messages /\ Good(last.meant) /\ last.got = last.meant.bytes
    <3> last.meant # Hello
      BY HelloFacts DEF kPiece
    <3> QED
      BY DEF Inv, LastInv
  <2>2. q.id = kPiece /\ q.payload = Answer(b) /\ b \in Blocks
    BY <2>1, GoodFacts
  <2>3. /\ Len(q.payload) = b[3] + 8 /\ BytesToInt(q.payload) = b[1]
        /\ BytesToInt(SubSeq(q.payload, 5, 8)) = b[2]
        /\ b[3] \in Nat /\ b = <<b[1], b[2], b[3]>>
    BY <2>2, AnswerFacts, BlockFields
  <2> HIDE DEF b, q
  <2>4. Len(q.payload) - 8 = b[3]
    BY <2>3
  <2>5. BlockIn(q) = b
    BY <2>3, <2>4 DEF BlockIn
  <2> QED
    BY <2>2, <2>5 DEF b, q
<1> QED
  BY <1>1, Invariance, PTL

\* When all is read, the client's bitfield is what the peer has, for every number of
\* pieces and width of a byte (PeerConnect.cpp:14-24, 178).
THEOREM KnowsThePieces == Spec => []KnowsWhatItHas
<1>1. Inv => KnowsWhatItHas
  <2> SUFFICES ASSUME Inv, Calls, place = "MainLoop", greeted, from_peer = <<>>
               PROVE  has = {i \in Pieces : IsPieceAvailable(pieces_availability, i)}
    BY DEF KnowsWhatItHas
  <2>1. place \in Live /\ message = <<>> /\ flight \in Seq(Messages)
    BY DEF Inv, TypeInv, Live, Calls
  <2>2. message \o from_peer = <<>>
    <3> <<>> \in Seq(Int)
      BY EmptySeq
    <3> QED
      BY <2>1, ConcatEmptySeq
  <2>3. InStream(<<>>, flight) /\ \A k \in DOMAIN flight : Good(flight[k])
    BY <2>1, <2>2 DEF Inv, StreamInv
  <2>4. \A k \in DOMAIN flight : flight[k].bytes # <<>>
    <3> TAKE k \in DOMAIN flight
    <3>1. flight[k] \in Messages
      BY <2>1, LenProperties, ElementOfSeq
    <3>2. Len(flight[k].bytes) \in 4 .. MaxSize + 4
      BY <2>3, <3>1, GoodFacts
    <3>3. Len(<<>>) = 0
      OBVIOUS
    <3> QED
      BY <3>2, <3>3
  <2>5. flight = <<>>
    BY <2>1, <2>3, <2>4, InStreamNone
  <2>6. Haves(flight) = {}
    BY <2>5 DEF Haves
  <2>7. has = Known(pieces_availability) \cup Haves(flight)
    BY <2>1 DEF Inv, KnowInv
  <2> QED
    BY <2>6, <2>7 DEF Known
<1> QED
  BY <1>1, Invariance, PTL
=============================================================================
