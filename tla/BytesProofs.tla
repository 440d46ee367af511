---------------------------- MODULE BytesProofs ----------------------------
(***************************************************************************)
(* What the integers written as bytes have to do with those read again,    *)
(* for every width of a byte and every number of bytes; and what a byte    *)
(* has to do with its bits.  The induction theorems of the library take an *)
(* operator, which the provers cannot instantiate; SetInduction says the   *)
(* same of a set, and is a consequence of the well-foundedness of <.       *)
(***************************************************************************)
EXTENDS Bytes, SequenceTheorems, WellFoundedInduction, TLAPS

\* A set of numbers has a least one.
LEMMA LeastNat ==
  ASSUME NEW T, T \subseteq Nat, T # {}
  PROVE  \E x \in T : \A y \in T : x <= y
<1>1. \E x \in T : \A y \in T : <<y, x>> \notin OpToRel(<, Nat)
  BY NatLessThanWellFounded, WFMin
<1>2. \A x, y \in Nat : <<y, x>> \notin OpToRel(<, Nat) => x <= y
  BY DEF OpToRel
<1> QED
  BY <1>1, <1>2

\* Induction, of sets: what has 0 and every successor of its members has all numbers.
LEMMA SetInduction ==
  ASSUME NEW P, 0 \in P, \A n \in Nat : n \in P => n + 1 \in P
  PROVE  Nat \subseteq P
<1> SUFFICES ASSUME Nat \ P # {} PROVE FALSE
  OBVIOUS
<1>1. PICK x \in Nat \ P : \A y \in Nat \ P : x <= y
  BY LeastNat
<1>2. x # 0 /\ x - 1 \in Nat /\ x - 1 \in P
  BY <1>1
<1> QED
  BY <1>1, <1>2

-----------------------------------------------------------------------------
(***************************************************************************)
(* The powers of two.  A recursive function is a CHOOSE: that there is one *)
(* is shown first for each 0 .. N.                                         *)
(***************************************************************************)
Powers(f, N) == f[0] = 1 /\ \A n \in 1 .. N : f[n] = 2 * f[n - 1]

\* The powers of two up to any number make a function,
LEMMA PowersExist == \A N \in Nat : \E f \in [0 .. N -> Nat \ {0}] : Powers(f, N)
<1> DEFINE P == {N \in Nat : \E f \in [0 .. N -> Nat \ {0}] : Powers(f, N)}
<1>1. 0 \in P
  <2> [n \in 0 .. 0 |-> 1] \in [0 .. 0 -> Nat \ {0}] /\ Powers([n \in 0 .. 0 |-> 1], 0)
    BY DEF Powers
  <2> QED
    OBVIOUS
<1>2. ASSUME NEW N \in Nat, N \in P PROVE N + 1 \in P
  <2>1. PICK f \in [0 .. N -> Nat \ {0}] : Powers(f, N)
    BY <1>2
  <2> DEFINE g == [n \in 0 .. N + 1 |-> IF n = N + 1 THEN 2 * f[N] ELSE f[n]]
  <2>2. g \in [0 .. N + 1 -> Nat \ {0}] /\ Powers(g, N + 1)
    BY <2>1 DEF Powers
  <2> QED
    BY <2>2
<1> QED
  BY <1>1, <1>2, SetInduction

\* and one function only.
LEMMA PowersUnique ==
  ASSUME NEW M \in Nat, NEW N \in Nat, NEW f, NEW g, Powers(f, M), Powers(g, N)
  PROVE  \A n \in Nat : n <= M /\ n <= N => f[n] = g[n]
<1> DEFINE P == {n \in Nat : n <= M /\ n <= N => f[n] = g[n]}
<1>1. 0 \in P
  BY DEF Powers
<1>2. ASSUME NEW n \in Nat, n \in P PROVE n + 1 \in P
  BY <1>2 DEF Powers
<1> QED
  BY <1>1, <1>2, SetInduction

\* So Bit is what its definition says: the powers of two.
LEMMA BitDef ==
  /\ \A n \in Nat : Bit[n] \in Nat \ {0}
  /\ Bit[0] = 1
  /\ \A n \in Nat : Bit[n + 1] = 2 * Bit[n]
<1> DEFINE Body(h) == [n \in Nat |-> IF n = 0 THEN 1 ELSE 2 * h[n - 1]]
           up(N)   == CHOOSE f \in [0 .. N -> Nat \ {0}] : Powers(f, N)
           F       == [n \in Nat |-> up(n)[n]]
<1>1. \A N \in Nat : up(N) \in [0 .. N -> Nat \ {0}] /\ Powers(up(N), N)
  BY PowersExist
<1> HIDE DEF up
<1>2. \A n \in Nat : up(n + 1)[n] = up(n)[n]
  BY <1>1, PowersUnique
<1>3. \A n \in Nat : F[n] = IF n = 0 THEN 1 ELSE 2 * F[n - 1]
  <2> TAKE n \in Nat
  <2>1. CASE n = 0
    BY <2>1, <1>1 DEF Powers
  <2>2. CASE n # 0
    <3>1. n - 1 \in Nat /\ (n - 1) + 1 = n
      BY <2>2
    <3>2. up(n)[n - 1] = up(n - 1)[n - 1]
      BY <3>1, <1>2
    <3>3. up(n)[n] = 2 * up(n)[n - 1]
      BY <2>2, <1>1 DEF Powers
    <3> QED
      BY <3>1, <3>2, <3>3, <2>2
  <2> QED
    BY <2>1, <2>2
<1>4. Bit = Body(Bit)
  <2> HIDE DEF F
  <2>1. \E h : h = Body(h)
    <3> F = Body(F)
      BY <1>3 DEF F
    <3> QED
      OBVIOUS
  <2> QED
    BY <2>1 DEF Bit
<1>5. Bit[0] = 1 /\ \A n \in Nat : Bit[n + 1] = 2 * Bit[n]
  BY <1>4
<1> DEFINE P == {n \in Nat : Bit[n] \in Nat \ {0}}
<1>6. 0 \in P
  BY <1>5
<1>7. ASSUME NEW n \in Nat, n \in P PROVE n + 1 \in P
  BY <1>7, <1>5
<1> QED
  BY <1>5, <1>6, <1>7, SetInduction

\* 1 << (m + n) is the product of the two.
LEMMA BitSum == \A m, n \in Nat : Bit[m + n] = Bit[m] * Bit[n]
<1> TAKE m \in Nat
<1> DEFINE P == {n \in Nat : Bit[m + n] = Bit[m] * Bit[n]}
<1>1. 0 \in P
  BY BitDef
<1>2. ASSUME NEW n \in Nat, n \in P PROVE n + 1 \in P
  <2>1. Bit[m + (n + 1)] = 2 * Bit[m + n] /\ Bit[n + 1] = 2 * Bit[n]
    BY BitDef
  <2>2. 2 * (Bit[m] * Bit[n]) = Bit[m] * (2 * Bit[n])
    BY BitDef
  <2> QED
    BY <1>2, <2>1, <2>2
<1> QED
  BY <1>1, <1>2, SetInduction

\* How many values some bytes have: a power of Base.
LEMMA ValuesDef ==
  /\ \A n \in Nat : Values(n) \in Nat \ {0}
  /\ Values(0) = 1 /\ Values(1) = Base
  /\ \A m, n \in Nat : Values(m + n) = Values(m) * Values(n)
  /\ Base \in Nat /\ Base >= 2
<1>1. \A n \in Nat : n * Bits \in Nat
  BY BytesAssumption
<1>2. \A m, n \in Nat : (m + n) * Bits = m * Bits + n * Bits
  BY BytesAssumption
<1>3. Bits - 1 \in Nat /\ Bit[Bits] = 2 * Bit[Bits - 1] /\ 1 * Bits = Bits /\ 0 * Bits = 0
  <2> Bits - 1 \in Nat /\ (Bits - 1) + 1 = Bits
    BY BytesAssumption
  <2> QED
    BY BitDef
<1>4. \A n \in Nat : Values(n) \in Nat \ {0}
  BY <1>1, BitDef DEF Values
<1>5. Values(0) = 1 /\ Values(1) = Base
  BY <1>3, BitDef DEF Values, Base
<1>6. \A m, n \in Nat : Values(m + n) = Values(m) * Values(n)
  BY <1>1, <1>2, BitSum DEF Values
<1>7. Base \in Nat /\ Base >= 2
  BY <1>3, BitDef DEF Values, Base
<1> QED
  BY <1>4, <1>5, <1>6, <1>7

-----------------------------------------------------------------------------
(***************************************************************************)
(* Quotients and remainders.                                               *)
(***************************************************************************)
LEMMA DivMod ==
  ASSUME NEW x \in Int, NEW d \in Nat \ {0}
  PROVE  /\ x \div d \in Int /\ x % d \in 0 .. d - 1
         /\ x = (x \div d) * d + (x % d)
OBVIOUS

\* A quotient and a remainder in its range are those of \div and %.
LEMMA DivUnique ==
  ASSUME NEW q \in Int, NEW d \in Nat \ {0}, NEW r \in 0 .. d - 1
  PROVE  (q * d + r) \div d = q /\ (q * d + r) % d = r
<1> DEFINE x == q * d + r
           p == x \div d
           s == x % d
<1>1. x \in Int /\ p \in Int /\ s \in 0 .. d - 1 /\ x = p * d + s
  BY DivMod
<1>2. (q - p) * d = s - r
  <2> (q - p) * d = q * d - p * d
    BY <1>1
  <2> QED
    BY <1>1
<1>3. q - p \in Int /\ s - r \in Int /\ s - r < d /\ s - r > - d
  BY <1>1
<1>4. ~(q - p >= 1)
  <2> HIDE DEF p, s
  <2> SUFFICES ASSUME q - p >= 1 PROVE FALSE
    OBVIOUS
  <2> (q - p) * d >= 1 * d
    BY <1>1
  <2> QED
    BY <1>2, <1>3
<1>5. ~(q - p <= -1)
  <2> HIDE DEF p, s
  <2> SUFFICES ASSUME q - p <= -1 PROVE FALSE
    OBVIOUS
  <2> (q - p) * d <= (-1) * d
    BY <1>1
  <2> QED
    BY <1>2, <1>3
<1>6. q = p
  BY <1>1, <1>4, <1>5
<1> QED
  BY <1>1, <1>2, <1>6

\* The same, of a number given as their sum.
LEMMA DivIs ==
  ASSUME NEW x, NEW q \in Int, NEW d \in Nat \ {0}, NEW r \in 0 .. d - 1, x = q * d + r
  PROVE  x \div d = q /\ x % d = r
BY DivUnique

\* A remainder is its own remainder.
LEMMA ModMod ==
  ASSUME NEW x \in Int, NEW d \in Nat \ {0}
  PROVE  (x % d) % d = x % d
<1> DEFINE r == x % d
<1>1. r \in 0 .. d - 1
  BY DivMod
<1> HIDE DEF r
<1>2. r = 0 * d + r /\ 0 \in Int
  BY <1>1
<1>3. r % d = r
  BY <1>1, <1>2, DivIs, Zenon
<1> QED
  BY <1>3 DEF r

\* Adding multiples of the divisor moves the quotient and leaves the remainder.
LEMMA DivShift ==
  ASSUME NEW x \in Int, NEW c \in Int, NEW d \in Nat \ {0}
  PROVE  (x + c * d) \div d = x \div d + c /\ (x + c * d) % d = x % d
<1> DEFINE q == x \div d
           r == x % d
<1>1. q \in Int /\ r \in 0 .. d - 1 /\ x = q * d + r
  BY DivMod
<1> HIDE DEF q, r
<1>2. x + c * d = (q + c) * d + r
  <2> (q + c) * d = q * d + c * d
    BY <1>1
  <2> QED
    BY <1>1
<1>3. q + c \in Int
  BY <1>1
<1>4. ((q + c) * d + r) \div d = q + c /\ ((q + c) * d + r) % d = r
  BY <1>1, <1>3, DivUnique
<1> QED
  BY <1>2, <1>4 DEF q, r

\* Dividing twice is dividing by the product.
LEMMA DivDiv ==
  ASSUME NEW x \in Int, NEW a \in Nat \ {0}, NEW b \in Nat \ {0}
  PROVE  (x \div a) \div b = x \div (a * b)
<1> DEFINE p == x \div a
           r == x % a
           q == p \div b
           s == p % b
<1>1. p \in Int /\ r \in 0 .. a - 1 /\ x = p * a + r
  BY DivMod
<1>2. q \in Int /\ s \in 0 .. b - 1 /\ p = q * b + s
  BY <1>1, DivMod
<1> HIDE DEF p, r, q, s
<1>3. x = q * (a * b) + (s * a + r)
  <2>1. p * a = (q * b) * a + s * a
    BY <1>2
  <2>2. (q * b) * a = q * (a * b)
    BY <1>2
  <2> QED
    BY <1>1, <1>2, <2>1, <2>2
<1>4. a * b \in Nat \ {0} /\ s * a + r \in 0 .. a * b - 1
  <2>1. s * a <= (b - 1) * a /\ s * a >= 0
    BY <1>2
  <2>2. (b - 1) * a = a * b - a
    OBVIOUS
  <2>3. s * a \in Int /\ a * b \in Nat \ {0}
    BY <1>2
  <2> QED
    BY <1>1, <2>1, <2>2, <2>3
<1>5. x \div (a * b) = q
  BY <1>2, <1>3, <1>4, DivUnique
<1> QED
  BY <1>5 DEF q, p

\* What is less than n times the divisor has a quotient less than n.
LEMMA DivBounds ==
  ASSUME NEW d \in Nat \ {0}, NEW n \in Nat, NEW x \in 0 .. n * d - 1
  PROVE  x \div d \in 0 .. n - 1
<1> DEFINE q == x \div d
           r == x % d
<1>1. x \in Int /\ n * d \in Int
  OBVIOUS
<1>2. q \in Int /\ r \in 0 .. d - 1 /\ x = q * d + r
  BY <1>1, DivMod
<1> HIDE DEF q, r
<1>3. q > -1
  <2> SUFFICES ASSUME q <= -1 PROVE FALSE
    BY <1>2
  <2> q * d <= (-1) * d
    BY <1>2
  <2> QED
    BY <1>1, <1>2
<1>4. q < n
  <2> SUFFICES ASSUME q >= n PROVE FALSE
    BY <1>2
  <2> q * d >= n * d
    BY <1>2
  <2> QED
    BY <1>1, <1>2
<1> QED
  BY <1>2, <1>3, <1>4 DEF q

-----------------------------------------------------------------------------
(***************************************************************************)
(* Bytes and integers.                                                     *)
(***************************************************************************)
\* The function in Unsigned: the value of the first n bytes.
HornerTo(f, bytes, L) ==
    f[0] = 0 /\ \A n \in 1 .. L : f[n] = f[n - 1] * Base + bytes[n]

\* The loop of BytesToInt has a value after every byte,
LEMMA HornerExists ==
  ASSUME NEW bytes, NEW L \in Nat, \A n \in 1 .. L : bytes[n] \in Int
  PROVE  \E f \in [0 .. L -> Int] : HornerTo(f, bytes, L)
<1> DEFINE P == {N \in Nat : N <= L => \E f \in [0 .. N -> Int] : HornerTo(f, bytes, N)}
<1>1. 0 \in P
  <2> [n \in 0 .. 0 |-> 0] \in [0 .. 0 -> Int] /\ HornerTo([n \in 0 .. 0 |-> 0], bytes, 0)
    BY DEF HornerTo
  <2> QED
    OBVIOUS
<1>2. ASSUME NEW N \in Nat, N \in P PROVE N + 1 \in P
  <2> SUFFICES ASSUME N + 1 <= L
               PROVE  \E f \in [0 .. N + 1 -> Int] : HornerTo(f, bytes, N + 1)
    OBVIOUS
  <2>1. PICK f \in [0 .. N -> Int] : HornerTo(f, bytes, N)
    BY <1>2
  <2> DEFINE x == f[N] * Base + bytes[N + 1]
             g == [n \in 0 .. N + 1 |-> IF n = N + 1 THEN x ELSE f[n]]
  <2>2. x \in Int
    <3>1. f[N] \in Int /\ Base \in Int /\ bytes[N + 1] \in Int
      BY ValuesDef
    <3> QED
      BY <3>1
  <2>3. g \in [0 .. N + 1 -> Int]
    <3> HIDE DEF x
    <3> QED
      BY <2>2
  <2>4. HornerTo(g, bytes, N + 1)
    BY <2>1 DEF HornerTo
  <2> QED
    BY <2>3, <2>4
<1>3. L \in P
  BY <1>1, <1>2, SetInduction
<1> QED
  BY <1>3

\* and Unsigned is the last of them.
LEMMA UnsignedDef ==
  ASSUME NEW bytes \in Seq(Int)
  PROVE  \E f \in [0 .. Len(bytes) -> Int] :
            HornerTo(f, bytes, Len(bytes)) /\ Unsigned(bytes) = f[Len(bytes)]
<1> DEFINE L == Len(bytes)
           Body(f) == [n \in 0 .. L |-> IF n = 0 THEN 0 ELSE f[n - 1] * Base + bytes[n]]
           result  == CHOOSE f : f = Body(f)
<1>1. L \in Nat /\ \A n \in 1 .. L : bytes[n] \in Int
  BY LenProperties
<1>2. Unsigned(bytes) = result[L]
  BY DEF Unsigned
<1>3. PICK h \in [0 .. L -> Int] : HornerTo(h, bytes, L)
  BY <1>1, HornerExists
<1>4. h = Body(h)
  BY <1>1, <1>3 DEF HornerTo
<1>5. result = Body(result)
  <2> HIDE DEF Body
  <2> QED
    BY <1>4
<1> HIDE DEF result
<1>6. HornerTo(result, bytes, L)
  BY <1>1, <1>5 DEF HornerTo
<1> DEFINE P == {n \in Nat : n <= L => result[n] \in Int}
<1>7. 0 \in P
  BY <1>6 DEF HornerTo
<1>8. ASSUME NEW n \in Nat, n \in P PROVE n + 1 \in P
  <2> SUFFICES ASSUME n + 1 <= L PROVE result[n + 1] \in Int
    OBVIOUS
  <2>1. result[n + 1] = result[n] * Base + bytes[n + 1]
    BY <1>1, <1>6 DEF HornerTo
  <2>2. result[n] \in Int /\ Base \in Int /\ bytes[n + 1] \in Int
    BY <1>1, <1>8, ValuesDef
  <2> QED
    BY <2>1, <2>2
<1>9. \A n \in 0 .. L : result[n] \in Int
  <2>1. Nat \subseteq P
    BY <1>7, <1>8, SetInduction
  <2> QED
    BY <1>1, <2>1
<1>10. result \in [0 .. L -> Int]
  <2> result = [n \in 0 .. L |-> result[n]]
    BY <1>5
  <2> QED
    BY <1>9
<1> QED
  BY <1>2, <1>6, <1>10

\* BigEndian makes n bytes.
LEMMA BigEndianType ==
  ASSUME NEW v \in Int, NEW n \in Nat
  PROVE  /\ BigEndian(v, n) \in Seq(Byte)
         /\ Len(BigEndian(v, n)) = n
         /\ \A k \in 1 .. n : BigEndian(v, n)[k] = (v \div Values(n - k)) % Base
<1>1. \A k \in 1 .. n : (v \div Values(n - k)) % Base \in Byte
  <2> TAKE k \in 1 .. n
  <2>1. n - k \in Nat
    OBVIOUS
  <2>2. Values(n - k) \in Nat \ {0} /\ Base \in Nat \ {0}
    BY <2>1, ValuesDef
  <2>3. v \div Values(n - k) \in Int
    BY <2>2, DivMod
  <2> QED
    BY <2>2, <2>3, DivMod DEF Byte
<1>2. BigEndian(v, n) \in [1 .. n -> Byte]
  BY <1>1 DEF BigEndian
<1> QED
  BY <1>2 DEF BigEndian

\* What is written in n bytes and fits in them is read again.
LEMMA UnsignedOfBigEndian ==
  ASSUME NEW n \in Nat, NEW v \in 0 .. Values(n) - 1
  PROVE  Unsigned(BigEndian(v, n)) = v
<1> DEFINE bytes == BigEndian(v, n)
<1>1. v \in Int /\ Values(n) \in Nat \ {0} /\ v \in Nat
  BY ValuesDef
<1>2. bytes \in Seq(Byte) /\ Len(bytes) = n
      /\ \A k \in 1 .. n : bytes[k] = (v \div Values(n - k)) % Base
  BY <1>1, BigEndianType
<1> HIDE DEF bytes
<1>3. bytes \in Seq(Int)
  <2> Byte \subseteq Int
    BY ValuesDef DEF Byte
  <2> QED
    BY <1>2, SeqMonotonic
<1>4. PICK f \in [0 .. n -> Int] : HornerTo(f, bytes, n) /\ Unsigned(bytes) = f[n]
  BY <1>2, <1>3, UnsignedDef
<1> DEFINE P == {k \in Nat : k <= n => f[k] = v \div Values(n - k)}
<1>5. 0 \in P
  <2>1. v = 0 * Values(n) + v /\ 0 \in Int /\ v \in 0 .. Values(n) - 1
    BY <1>1
  <2>2. v \div Values(n) = 0
    BY <1>1, <2>1, DivUnique
  <2> QED
    BY <1>4, <2>2 DEF HornerTo
<1>6. ASSUME NEW k \in Nat, k \in P PROVE k + 1 \in P
  <2> SUFFICES ASSUME k + 1 <= n PROVE f[k + 1] = v \div Values(n - (k + 1))
    OBVIOUS
  <2>1. n - (k + 1) \in Nat /\ n - k = (n - (k + 1)) + 1 /\ k + 1 \in 1 .. n /\ k <= n
    OBVIOUS
  <2> DEFINE d == Values(n - (k + 1))
  <2>2. d \in Nat \ {0} /\ Base \in Nat \ {0} /\ Values(n - k) = d * Base
    BY <2>1, ValuesDef
  <2> HIDE DEF d
  <2>3. f[k] = (v \div d) \div Base
    <3>1. f[k] = v \div Values(n - k)
      BY <1>6, <2>1
    <3>2. (v \div d) \div Base = v \div (d * Base)
      BY <1>1, <2>2, DivDiv
    <3> QED
      BY <2>2, <3>1, <3>2
  <2>4. f[k + 1] = f[k] * Base + bytes[k + 1]
    BY <1>2, <1>4, <2>1 DEF HornerTo
  <2>5. bytes[k + 1] = (v \div d) % Base
    BY <1>2, <2>1 DEF d
  <2>6. v \div d \in Int
    BY <1>1, <2>2, DivMod
  <2>7. v \div d = ((v \div d) \div Base) * Base + ((v \div d) % Base)
    BY <2>2, <2>6, DivMod
  <2> QED
    BY <2>3, <2>4, <2>5, <2>7 DEF d
<1>7. f[n] = v \div Values(n - n)
  <2> n \in P
    BY <1>5, <1>6, SetInduction
  <2> QED
    OBVIOUS
<1>8. v \div 1 = v
  BY <1>1
<1> QED
  BY <1>4, <1>7, <1>8, ValuesDef DEF bytes

\* More than fits in n bytes is cut; a negative number is what it is modulo 2^(8n).
LEMMA BigEndianCut ==
  ASSUME NEW n \in Nat, NEW v \in Int, NEW c \in Int
  PROVE  BigEndian(v + c * Values(n), n) = BigEndian(v, n)
<1> DEFINE w == v + c * Values(n)
<1>1. Values(n) \in Nat \ {0}
  BY ValuesDef
<1>2. ASSUME NEW k \in 1 .. n
      PROVE  (w \div Values(n - k)) % Base = (v \div Values(n - k)) % Base
  <2> DEFINE d == Values(n - k)
             m == Values(k - 1)
  <2>1. n - k \in Nat /\ k - 1 \in Nat /\ n = (k - 1) + 1 + (n - k)
    OBVIOUS
  <2>2. d \in Nat \ {0} /\ m \in Nat \ {0} /\ Base \in Nat \ {0}
    BY <2>1, ValuesDef
  <2>3. Values(n) = m * Base * d
    <3>1. Values((k - 1) + 1) = m * Base
      BY <2>1, ValuesDef
    <3>2. (k - 1) + 1 \in Nat /\ n = ((k - 1) + 1) + (n - k)
      OBVIOUS
    <3>3. Values(((k - 1) + 1) + (n - k)) = Values((k - 1) + 1) * d
      BY <2>1, <3>2, ValuesDef
    <3> QED
      BY <3>1, <3>2, <3>3
  <2> HIDE DEF d, m
  <2>4. c * m * Base \in Int /\ c * m \in Int
    BY <2>2
  <2>5. w = v + (c * m * Base) * d
    BY <2>2, <2>3
  <2>6. w \div d = v \div d + (c * m) * Base
    <3> (v + (c * m * Base) * d) \div d = v \div d + c * m * Base
      BY <2>2, <2>4, DivShift
    <3> QED
      BY <2>5
  <2>7. v \div d \in Int
    BY <2>2, DivMod
  <2>8. (w \div d) % Base = (v \div d) % Base
    <3> DEFINE q == v \div d
    <3> HIDE DEF q
    <3>1. q \in Int
      BY <2>7 DEF q
    <3>2. (q + (c * m) * Base) % Base = q % Base
      BY <2>2, <2>4, <3>1, DivShift
    <3> QED
      BY <2>6, <3>2 DEF q
  <2> QED
    BY <2>8 DEF d
<1> QED
  BY <1>2 DEF BigEndian

\* Two's complement: an int that is written is read again, whatever follows it.
LEMMA ToIntOfInt ==
  ASSUME NEW v \in - (Values(4) \div 2) .. Values(4) \div 2 - 1
  PROVE  v \in Int /\ ToInt(v) = v
<1> DEFINE V == Values(4)
           h == V \div 2
<1>0. V \in Nat \ {0}
  BY ValuesDef
<1> HIDE DEF V
<1>1. V \in Nat \ {0} /\ h \in Nat /\ h < V /\ 2 * h <= V
  BY <1>0
<1> HIDE DEF h
<1>2. v \in Int /\ -h <= v /\ v < h
  BY <1>1 DEF V, h
<1>3. CASE v >= 0
  <2>1. v % V = v
    <3> v = 0 * V + v /\ v \in 0 .. V - 1
      BY <1>1, <1>2, <1>3
    <3> QED
      BY <1>1, DivUnique
  <2> QED
    BY <1>2, <2>1 DEF ToInt, V, h
<1>4. CASE v < 0
  <2>1. v % V = v + V
    <3>1. v = (-1) * V + (v + V) /\ v + V \in 0 .. V - 1 /\ -1 \in Int
      BY <1>1, <1>2, <1>4
    <3> QED
      BY <1>0, <3>1, DivIs, Zenon
  <2>2. ~(v + V < h)
    BY <1>1, <1>2
  <2> QED
    BY <1>1, <1>2, <2>1, <2>2 DEF ToInt, V, h
<1> QED
  BY <1>2, <1>3, <1>4

\* Reading n bytes of a number finds what of it fits into them.
LEMMA UnsignedOfCut ==
  ASSUME NEW n \in Nat, NEW v \in Int
  PROVE  Unsigned(BigEndian(v, n)) = v % Values(n)
<1> DEFINE V == Values(n)
           c == v \div V
           r == v % V
<1>1. V \in Nat \ {0}
  BY ValuesDef
<1>2. c \in Int /\ r \in 0 .. V - 1 /\ v = c * V + r
  BY <1>1, DivMod
<1> HIDE DEF c, r
<1>3. BigEndian(r + c * V, n) = BigEndian(r, n)
  <2> r \in Int
    BY <1>1, <1>2
  <2> QED
    BY <1>2, BigEndianCut
<1>4. Unsigned(BigEndian(r, n)) = r
  BY <1>2, UnsignedOfBigEndian
<1>5. r + c * V = v
  BY <1>1, <1>2
<1> QED
  BY <1>3, <1>4, <1>5 DEF r

\* BytesToInt reads what IntToBytes wrote, whatever follows: every int, of either sign.
THEOREM BytesToIntReads ==
  ASSUME NEW v \in - (Values(4) \div 2) .. Values(4) \div 2 - 1, NEW t \in Seq(Int)
  PROVE  BytesToInt(IntToBytes(v) \o t) = v
<1> DEFINE s == BigEndian(v, 4)
           V == Values(4)
<1>1. v \in Int /\ ToInt(v) = v
  BY ToIntOfInt
<1>2. s \in Seq(Int) /\ Len(s) = 4
  <2> Byte \subseteq Int
    BY ValuesDef DEF Byte
  <2> QED
    BY <1>1, BigEndianType, SeqMonotonic
<1> HIDE DEF s
<1>3. SubSeq(s \o t, 1, 4) = s
  <2>1. 1 \in 1 .. Len(s) /\ 4 \in 1 .. Len(s)
    BY <1>2
  <2>2. SubSeq(s \o t, 1, 4) = SubSeq(s, 1, 4)
    BY <1>2, <2>1, SubSeqOfConcat1
  <2> QED
    BY <1>2, <2>2, SubSeqFull
<1>4. Unsigned(s) = v % V
  BY <1>1, UnsignedOfCut DEF s
<1>5. (v % V) % V = v % V
  BY <1>1, ModMod, ValuesDef
<1>6. ToInt(v % V) = ToInt(v)
  BY <1>5 DEF ToInt
<1> QED
  BY <1>1, <1>3, <1>4, <1>6 DEF BytesToInt, IntToBytes, s

\* The other way round: bytes that are read are written again.
THEOREM BigEndianOfUnsigned ==
  ASSUME NEW bytes \in Seq(Byte)
  PROVE  /\ Unsigned(bytes) \in 0 .. Values(Len(bytes)) - 1
         /\ BigEndian(Unsigned(bytes), Len(bytes)) = bytes
<1> DEFINE n == Len(bytes)
<1>1. n \in Nat /\ \A k \in 1 .. n : bytes[k] \in 0 .. Base - 1
  BY LenProperties DEF Byte
<1>2. Base \in Nat \ {0} /\ \A k \in Nat : Values(k) \in Nat \ {0}
  BY ValuesDef
<1>3. bytes \in Seq(Int)
  <2> Byte \subseteq Int
    BY ValuesDef DEF Byte
  <2> QED
    BY SeqMonotonic
<1>4. PICK f \in [0 .. n -> Int] : HornerTo(f, bytes, n) /\ Unsigned(bytes) = f[n]
  BY <1>3, UnsignedDef
<1> DEFINE P == {k \in Nat : k <= n => f[k] \in 0 .. Values(k) - 1}
<1>5. 0 \in P
  <2> Values(0) = 1
    BY ValuesDef
  <2> QED
    BY <1>4 DEF HornerTo
<1>6. ASSUME NEW k \in Nat, k \in P PROVE k + 1 \in P
  <2> SUFFICES ASSUME k + 1 <= n PROVE f[k + 1] \in 0 .. Values(k + 1) - 1
    OBVIOUS
  <2> DEFINE d == Values(k)
             a == f[k]
             b == bytes[k + 1]
  <2>1. a \in 0 .. d - 1 /\ b \in 0 .. Base - 1 /\ d \in Nat \ {0}
    <3>1. k <= n /\ k + 1 \in 1 .. n
      BY <1>1
    <3> QED
      BY <1>1, <1>2, <1>6, <3>1
  <2>2. f[k + 1] = a * Base + b
    BY <1>1, <1>4 DEF HornerTo
  <2>3. Values(k + 1) = d * Base
    BY ValuesDef
  <2> HIDE DEF a, b, d
  <2>4. a * Base >= 0 /\ a * Base <= (d - 1) * Base /\ a * Base \in Int
    BY <1>2, <2>1
  <2>5. (d - 1) * Base = d * Base - Base /\ d * Base \in Int
    BY <1>2, <2>1
  <2>6. a * Base + b >= 0 /\ a * Base + b <= d * Base - 1
    <3> DEFINE x == a * Base
               y == d * Base
    <3>1. x \in Int /\ y \in Int /\ x >= 0 /\ x <= y - Base /\ Base \in Int
      BY <1>2, <2>4, <2>5
    <3> HIDE DEF x, y
    <3>2. x + b >= 0 /\ x + b <= y - 1
      BY <2>1, <3>1
    <3> QED
      BY <3>2 DEF x, y
  <2> QED
    BY <2>1, <2>2, <2>3, <2>4, <2>5, <2>6
<1>7. \A k \in 0 .. n : f[k] \in 0 .. Values(k) - 1
  <2> Nat \subseteq P
    BY <1>5, <1>6, SetInduction
  <2> QED
    BY <1>1
<1>8. ASSUME NEW k \in 1 .. n
      PROVE  f[k] \div Base = f[k - 1] /\ f[k] % Base = bytes[k]
  <2>1. f[k] = f[k - 1] * Base + bytes[k] /\ f[k - 1] \in Int /\ bytes[k] \in 0 .. Base - 1
    BY <1>1, <1>4 DEF HornerTo
  <2> DEFINE x == f[k]
             y == f[k - 1]
             z == bytes[k]
  <2>2. x = y * Base + z /\ y \in Int /\ z \in 0 .. Base - 1 /\ Base \in Nat \ {0}
    BY <1>2, <2>1
  <2> HIDE DEF x, y, z
  <2>3. x \div Base = y /\ x % Base = z
    BY <2>2, DivIs, Zenon
  <2> QED
    BY <2>3 DEF x, y, z
<1> DEFINE Q == {j \in Nat : j <= n => f[n] \div Values(j) = f[n - j]}
<1>9. 0 \in Q
  <2> HIDE DEF n
  <2>1. Values(0) = 1 /\ f[n] \in Int /\ n - 0 = n
    BY <1>1, <1>7, ValuesDef
  <2> QED
    BY <2>1
<1>10. ASSUME NEW j \in Nat, j \in Q PROVE j + 1 \in Q
  <2> SUFFICES ASSUME j + 1 <= n PROVE f[n] \div Values(j + 1) = f[n - (j + 1)]
    OBVIOUS
  <2>1. f[n] \div Values(j) = f[n - j] /\ n - j \in 1 .. n /\ (n - j) - 1 = n - (j + 1)
    BY <1>1, <1>10
  <2>2. f[n - j] \div Base = f[n - (j + 1)]
    BY <1>8, <2>1
  <2>3. Values(j + 1) = Values(j) * Base
    BY ValuesDef
  <2>4. f[n] \in Int
    BY <1>1
  <2>5. (f[n] \div Values(j)) \div Base = f[n] \div (Values(j) * Base)
    BY <1>2, <2>4, DivDiv
  <2> QED
    BY <2>1, <2>2, <2>3, <2>5
<1>11. \A j \in 0 .. n : f[n] \div Values(j) = f[n - j]
  <2> Nat \subseteq Q
    BY <1>9, <1>10, SetInduction
  <2> QED
    BY <1>1
<1>12. \A k \in 1 .. n : (f[n] \div Values(n - k)) % Base = bytes[k]
  <2> TAKE k \in 1 .. n
  <2> n - k \in 0 .. n /\ n - (n - k) = k
    BY <1>1
  <2> QED
    BY <1>8, <1>11
<1>13. bytes = [k \in 1 .. n |-> bytes[k]]
  BY LenProperties
<1>14. BigEndian(f[n], n) = bytes
  BY <1>12, <1>13 DEF BigEndian
<1> QED
  BY <1>1, <1>4, <1>7, <1>14

-----------------------------------------------------------------------------
(***************************************************************************)
(* Bits.                                                                   *)
(***************************************************************************)
HasBit(b, p) == (b \div Bit[p]) % 2 = 1

\* Setting a bit that is 0 changes that bit alone.
LEMMA BitSet ==
  ASSUME NEW w \in Nat, NEW b \in 0 .. Bit[w] - 1, NEW p \in 0 .. w - 1, ~HasBit(b, p)
  PROVE  /\ b + Bit[p] \in 0 .. Bit[w] - 1
         /\ \A q \in 0 .. w - 1 : HasBit(b + Bit[p], q) <=> q = p \/ HasBit(b, q)
<1> DEFINE P == Bit[p]
           x == b \div P
           r == b % P
           y == x \div 2
<1>1. P \in Nat \ {0} /\ Bit[w] \in Nat \ {0} /\ b \in Int /\ b >= 0 /\ b < Bit[w]
  BY BitDef
<1>2. x \in Int /\ r \in 0 .. P - 1 /\ b = x * P + r
  BY <1>1, DivMod
<1>3. x % 2 = 0 /\ y \in Int /\ x = y * 2
  <2> HIDE DEF P
  <2>1. x % 2 # 1
    BY DEF HasBit, P
  <2> HIDE DEF x
  <2> QED
    BY <1>2, <2>1
<1> HIDE DEF P, x, r, y
<1>4. b = y * (2 * P) + r /\ b + P = y * (2 * P) + (r + P) /\ b + P = (x + 1) * P + r
  <2>1. x * P = y * (2 * P) /\ (x + 1) * P = x * P + P
    BY <1>1, <1>2, <1>3
  <2> QED
    BY <1>1, <1>2, <2>1
<1>5. 2 * P \in Nat \ {0} /\ r \in 0 .. 2 * P - 1 /\ r + P \in 0 .. 2 * P - 1
  BY <1>1, <1>2
<1>6. b \div (2 * P) = y /\ (b + P) \div (2 * P) = y
  <2>1. (y * (2 * P) + r) \div (2 * P) = y
    BY <1>3, <1>5, DivUnique
  <2>2. (y * (2 * P) + (r + P)) \div (2 * P) = y
    BY <1>3, <1>5, DivUnique
  <2> QED
    BY <1>4, <2>1, <2>2
<1>7. ASSUME NEW q \in Nat, q > p
      PROVE  Bit[q] = (2 * P) * Bit[q - p - 1] /\ Bit[q - p - 1] \in Nat \ {0}
  <2>1. q - p - 1 \in Nat /\ q = (p + 1) + (q - p - 1) /\ p + 1 \in Nat /\ p \in Nat
    BY <1>7
  <2>2. Bit[p + 1] = 2 * P
    BY <2>1, BitDef DEF P
  <2>3. Bit[(p + 1) + (q - p - 1)] = Bit[p + 1] * Bit[q - p - 1]
    BY <2>1, BitSum
  <2> QED
    BY <2>1, <2>2, <2>3, BitDef
<1>8. ASSUME NEW q \in Nat, q > p PROVE b \div Bit[q] = (b + P) \div Bit[q]
  <2> DEFINE m == Bit[q - p - 1]
  <2>1. Bit[q] = (2 * P) * m /\ m \in Nat \ {0}
    BY <1>7, <1>8
  <2> HIDE DEF m
  <2>2. b + P \in Int
    BY <1>1
  <2>3. (b \div (2 * P)) \div m = b \div ((2 * P) * m)
    BY <1>1, <1>5, <2>1, DivDiv
  <2>4. ((b + P) \div (2 * P)) \div m = (b + P) \div ((2 * P) * m)
    BY <1>5, <2>1, <2>2, DivDiv
  <2> QED
    BY <1>6, <2>1, <2>3, <2>4
<1>9. ASSUME NEW q \in 0 .. w - 1, q < p PROVE HasBit(b + P, q) <=> HasBit(b, q)
  <2> DEFINE d == Bit[q]
             m == Bit[p - q - 1]
             z == b \div d
  <2>1. p - q - 1 \in Nat /\ q \in Nat /\ p - q \in Nat /\ (p - q - 1) + 1 = p - q
        /\ p = (p - q) + q
    BY <1>9
  <2>2. d \in Nat \ {0} /\ m \in Nat \ {0} /\ Bit[p - q] = 2 * m
    BY <2>1, BitDef
  <2>3. P = (2 * m) * d
    <3> Bit[(p - q) + q] = Bit[p - q] * Bit[q]
      BY <2>1, BitSum
    <3> QED
      BY <2>1, <2>2 DEF P
  <2> HIDE DEF d, m
  <2>4. z \in Int
    BY <1>1, <2>2, DivMod
  <2>5. 2 * m \in Int
    BY <2>2
  <2>6. (b + (2 * m) * d) \div d = z + 2 * m
    BY <1>1, <2>2, <2>5, DivShift
  <2> HIDE DEF z
  <2>7. (z + m * 2) % 2 = z % 2
    BY <2>2, <2>4
  <2>8. z + 2 * m = z + m * 2
    BY <2>2, <2>4
  <2> QED
    BY <2>3, <2>6, <2>7, <2>8 DEF HasBit, z, d
<1>10. HasBit(b + P, p)
  <2>1. x + 1 \in Int
    BY <1>2
  <2>2. (b + P) \div P = x + 1
    <3> ((x + 1) * P + r) \div P = x + 1
      BY <1>1, <1>2, <2>1, DivUnique
    <3> QED
      BY <1>4
  <2>3. (x + 1) % 2 = 1
    BY <1>2, <1>3
  <2> QED
    BY <2>2, <2>3 DEF HasBit, P
<1>11. ASSUME NEW q \in 0 .. w - 1 PROVE HasBit(b + P, q) <=> q = p \/ HasBit(b, q)
  <2>1. CASE q = p
    BY <1>10, <2>1
  <2>2. CASE q < p
    BY <1>9, <2>2
  <2>3. CASE q > p
    <3> q \in Nat
      OBVIOUS
    <3> QED
      BY <1>8, <2>3 DEF HasBit
  <2> QED
    BY <2>1, <2>2, <2>3
<1>12. b + P < Bit[w]
  <2> DEFINE m == Bit[w - p - 1]
  <2>1. Bit[w] = (2 * P) * m /\ m \in Nat \ {0}
    BY <1>7
  <2> HIDE DEF m
  <2>2. b \in 0 .. m * (2 * P) - 1
    <3> (2 * P) * m = m * (2 * P)
      BY <1>5, <2>1
    <3> QED
      BY <1>1, <2>1
  <2>3. y \in 0 .. m - 1
    BY <1>5, <1>6, <2>1, <2>2, DivBounds
  <2>4. y * (2 * P) <= (m - 1) * (2 * P)
    BY <1>5, <2>1, <2>3
  <2>5. (m - 1) * (2 * P) = (2 * P) * m - (2 * P)
    BY <1>5, <2>1
  <2> DEFINE u == y * (2 * P)
             v == (2 * P) * m
             D == 2 * P
  <2>6. u \in Int /\ v \in Int /\ D \in Int /\ u <= v - D /\ b + P = u + (r + P)
        /\ r + P <= D - 1 /\ r + P \in Int
    BY <1>4, <1>5, <2>1, <2>3, <2>4, <2>5
  <2> HIDE DEF u, v, D
  <2>7. b + P < v
    BY <2>6
  <2> QED
    BY <2>1, <2>7 DEF v
<1> QED
  BY <1>1, <1>11, <1>12 DEF P

\* Any set of bits is that of some byte.
LEMMA ByteWithBits ==
  ASSUME NEW S
  PROVE  \E b \in Byte : \A p \in 0 .. Bits - 1 : HasBit(b, p) <=> p \in S
<1> DEFINE Q == {n \in Nat : n <= Bits => \E b \in 0 .. Base - 1 : \A p \in 0 .. Bits - 1 :
                                HasBit(b, p) <=> p < n /\ p \in S}
<1>1. Base = Bit[Bits] /\ Base \in Nat \ {0} /\ Bits \in Nat
  <2> 1 * Bits = Bits
    BY BytesAssumption
  <2> QED
    BY ValuesDef, BytesAssumption DEF Values, Base
<1>2. 0 \in Q
  <2>1. \A p \in 0 .. Bits - 1 : ~HasBit(0, p)
    <3> TAKE p \in 0 .. Bits - 1
    <3>1. Bit[p] \in Nat \ {0}
      BY BitDef
    <3>2. 0 \div Bit[p] = 0
      <4> DEFINE d == Bit[p]
      <4> HIDE DEF d
      <4>1. d \in Nat \ {0}
        BY <3>1 DEF d
      <4>2. 0 \div d = 0
        BY <4>1
      <4> QED
        BY <4>2 DEF d
    <3> QED
      BY <3>2 DEF HasBit
  <2>2. 0 \in 0 .. Base - 1
    BY <1>1
  <2> QED
    BY <2>1, <2>2
<1>3. ASSUME NEW n \in Nat, n \in Q PROVE n + 1 \in Q
  <2> SUFFICES ASSUME n + 1 <= Bits
               PROVE  \E b \in 0 .. Base - 1 : \A p \in 0 .. Bits - 1 :
                         HasBit(b, p) <=> p < n + 1 /\ p \in S
    OBVIOUS
  <2>1. PICK b \in 0 .. Base - 1 : \A p \in 0 .. Bits - 1 : HasBit(b, p) <=> p < n /\ p \in S
    BY <1>1, <1>3
  <2>2. n \in 0 .. Bits - 1 /\ ~HasBit(b, n)
    BY <1>1, <2>1
  <2>3. CASE n \in S
    <3>1. /\ b + Bit[n] \in 0 .. Base - 1
          /\ \A q \in 0 .. Bits - 1 : HasBit(b + Bit[n], q) <=> q = n \/ HasBit(b, q)
      BY <1>1, <2>2, BitSet
    <3>2. \A p \in 0 .. Bits - 1 : HasBit(b + Bit[n], p) <=> p < n + 1 /\ p \in S
      BY <2>1, <2>3, <3>1
    <3> QED
      BY <3>1, <3>2
  <2>4. CASE n \notin S
    <3> \A p \in 0 .. Bits - 1 : HasBit(b, p) <=> p < n + 1 /\ p \in S
      BY <2>1, <2>4
    <3> QED
      OBVIOUS
  <2> QED
    BY <2>3, <2>4
<1>4. Bits \in Q
  BY <1>1, <1>2, <1>3, SetInduction
<1> QED
  BY <1>1, <1>4 DEF Byte

\* What is found behind the first n elements.
LEMMA Behind ==
  ASSUME NEW w \in Seq(Int), NEW y \in Seq(Int), NEW n \in Nat, n + Len(y) <= Len(w),
         \A k \in 1 .. Len(y) : w[k + n] = y[k]
  PROVE  SubSeq(w, n + 1, n + Len(y)) = y
<1> DEFINE a == n + 1
           l == n + Len(y)
           z == SubSeq(w, a, l)
<1>1. Len(y) \in Nat /\ a \in Int /\ l \in Int /\ l <= Len(w) /\ l = Len(y) + n
  BY LenProperties
<1>2. \A k \in a .. l : w[k] \in Int
  <2> TAKE k \in a .. l
  <2> k \in 1 .. Len(w)
    BY <1>1, LenProperties
  <2> QED
    BY ElementOfSeq
<1> HIDE DEF a, l
<1>3. z \in Seq(Int) /\ Len(z) = (IF a <= l THEN l - a + 1 ELSE 0)
      /\ \A k \in 1 .. l - a + 1 : z[k] = w[a + k - 1]
  BY <1>1, <1>2, SubSeqProperties
<1> HIDE DEF z
<1>4. Len(z) = Len(y)
  BY <1>1, <1>3 DEF a
<1>5. \A k \in 1 .. Len(y) : z[k] = y[k]
  <2> TAKE k \in 1 .. Len(y)
  <2> k \in 1 .. l - a + 1 /\ a + k - 1 = k + n
    BY <1>1 DEF a
  <2> QED
    BY <1>3
<1>6. z = y
  BY <1>3, <1>4, <1>5, SeqEqual
<1> QED
  BY <1>6 DEF z, a, l
=============================================================================
