---------------------------- MODULE ParserProofs ----------------------------
(***************************************************************************)
(* What is read of a torrent file and of the answer of an HTTP tracker,    *)
(* for every file and answer from which it can be read at all: the parser  *)
(* and its users go through a text of any length, with dictionaries and    *)
(* lists of any depth. The text of a value is read by one call of Process, *)
(* however deep it goes, and its strings and integers come out in the      *)
(* order of the text; the fields are followed along the text, an entry of  *)
(* a dictionary at a time.                                                 *)
(***************************************************************************)
EXTENDS TorrentFile, TrackerReply, BytesProofs

-----------------------------------------------------------------------------
(***************************************************************************)
(* The recursive functions: that there is one, and what it is.             *)
(***************************************************************************)
\* The function in Parsed: the parser after each token.
Runs(f, text, L) ==
    f[0] = NewParser /\ \A n \in 1 .. L : f[n] = Process(text, f[n - 1])

\* Parsed is the parser after the last token.
LEMMA ParserRuns ==
  ASSUME NEW text, Len(text) \in Nat
  PROVE  \E f : Runs(f, text, Len(text)) /\ Parsed(text) = f[Len(text)]
<1> DEFINE L == Len(text)
           Next(p) == Process(text, p)
           Body(f) == [n \in 0 .. L |-> IF n = 0 THEN NewParser ELSE Next(f[n - 1])]
           after == CHOOSE f : f = Body(f)
           P == {N \in Nat : \E f : Runs(f, text, N)}
<1>1. Parsed(text) = after[L]
  BY DEF Parsed
<1>2. L \in P
  <2>1. 0 \in P
    <3> Runs([n \in 0 .. 0 |-> NewParser], text, 0)
      BY DEF Runs
    <3> QED
      OBVIOUS
  <2>2. ASSUME NEW N \in Nat, N \in P PROVE N + 1 \in P
    <3>1. PICK f : Runs(f, text, N)
      BY <2>2
    <3> DEFINE g == [n \in 0 .. N + 1 |-> IF n = N + 1 THEN Next(f[N]) ELSE f[n]]
    <3>2. g[0] = f[0] /\ \A n \in 1 .. N + 1 : g[n] = Next(g[n - 1])
      BY <3>1 DEF Runs
    <3> HIDE DEF g
    <3>3. Runs(g, text, N + 1)
      BY <3>1, <3>2 DEF Runs
    <3> QED
      BY <3>3
  <2> QED
    BY <2>1, <2>2, SetInduction
<1>3. PICK h : Runs(h, text, L)
  BY <1>2
<1> DEFINE k == [n \in 0 .. L |-> h[n]]
<1>4. k = Body(k)
  BY <1>3 DEF Runs
<1>5. after = Body(after)
  <2> HIDE DEF Body, k
  <2> QED
    BY <1>4
<1> HIDE DEF after
<1>6. Runs(after, text, L)
  BY <1>5 DEF Runs
<1> QED
  BY <1>1, <1>6

\* The function in Scanned: the fields found after each string.
Scans(f, parsed, L) ==
    /\ f[0] = [field |-> "none", result |-> NoTorrentFile]
    /\ \A n \in 1 .. L : f[n] = TakeString(f[n - 1], parsed[n])

\* Scanned is what is found after the last string.
LEMMA ScanRuns ==
  ASSUME NEW parsed, Len(parsed) \in Nat
  PROVE  \E f : Scans(f, parsed, Len(parsed)) /\ Scanned(parsed) = f[Len(parsed)]
<1> DEFINE L == Len(parsed)
           start == [field |-> "none", result |-> NoTorrentFile]
           Next(s, n) == TakeString(s, parsed[n])
           Body(f) == [n \in 0 .. L |-> IF n = 0 THEN start ELSE Next(f[n - 1], n)]
           scan == CHOOSE f : f = Body(f)
           P == {N \in Nat : \E f : Scans(f, parsed, N)}
<1>1. Scanned(parsed) = scan[L]
  BY DEF Scanned
<1> HIDE DEF start
<1>2. L \in P
  <2>1. 0 \in P
    <3> Scans([n \in 0 .. 0 |-> start], parsed, 0)
      BY DEF Scans, start
    <3> QED
      OBVIOUS
  <2>2. ASSUME NEW N \in Nat, N \in P PROVE N + 1 \in P
    <3>1. PICK f : Scans(f, parsed, N)
      BY <2>2
    <3> DEFINE g == [n \in 0 .. N + 1 |-> IF n = N + 1 THEN Next(f[N], N + 1) ELSE f[n]]
    <3>2. g[0] = f[0] /\ \A n \in 1 .. N + 1 : g[n] = Next(g[n - 1], n)
      BY <3>1 DEF Scans
    <3> HIDE DEF g
    <3>3. Scans(g, parsed, N + 1)
      BY <3>1, <3>2 DEF Scans
    <3> QED
      BY <3>3
  <2> QED
    BY <2>1, <2>2, SetInduction
<1>3. PICK h : Scans(h, parsed, L)
  BY <1>2
<1> DEFINE k == [n \in 0 .. L |-> h[n]]
<1>4. k = Body(k)
  BY <1>3 DEF Scans, start
<1>5. scan = Body(scan)
  <2> HIDE DEF Body, k
  <2> QED
    BY <1>4
<1> HIDE DEF scan
<1>6. Scans(scan, parsed, L)
  BY <1>5 DEF Scans, start
<1> QED
  BY <1>1, <1>6

\* The function in Balanced: the brackets open after each token.
Opens(f, text, L) == f[0] = 0 /\ \A n \in 1 .. L : f[n] = f[n - 1] + Opened(text[n])

\* Balanced counts them.
LEMMA OpenDef ==
  ASSUME NEW text, Len(text) \in Nat, Balanced(text)
  PROVE  /\ text # <<>>
         /\ \E f : /\ Opens(f, text, Len(text))
                   /\ \A n \in 1 .. Len(text) : IF n = Len(text) THEN f[n] = 0 ELSE f[n] > 0
<1> DEFINE L == Len(text)
           Next(s, n) == s + Opened(text[n])
           Body(f) == [n \in 0 .. L |-> IF n = 0 THEN 0 ELSE Next(f[n - 1], n)]
           open == CHOOSE f : f = Body(f)
           P == {N \in Nat : \E f : Opens(f, text, N)}
<1>1. text # <<>> /\ \A n \in 1 .. L : IF n = L THEN open[n] = 0 ELSE open[n] > 0
  BY DEF Balanced
<1> HIDE DEF Next
<1>2. L \in P
  <2>1. 0 \in P
    <3> Opens([n \in 0 .. 0 |-> 0], text, 0)
      BY DEF Opens
    <3> QED
      OBVIOUS
  <2>2. ASSUME NEW N \in Nat, N \in P PROVE N + 1 \in P
    <3>1. PICK f : Opens(f, text, N)
      BY <2>2
    <3> DEFINE g == [n \in 0 .. N + 1 |-> IF n = N + 1 THEN Next(f[N], N + 1) ELSE f[n]]
    <3>2. g[0] = f[0] /\ \A n \in 1 .. N + 1 : g[n] = Next(g[n - 1], n)
      BY <3>1 DEF Opens, Next
    <3> HIDE DEF g
    <3>3. Opens(g, text, N + 1)
      BY <3>1, <3>2 DEF Opens, Next
    <3> QED
      BY <3>3
  <2> QED
    BY <2>1, <2>2, SetInduction
<1>3. PICK h : Opens(h, text, L)
  BY <1>2
<1> DEFINE k == [n \in 0 .. L |-> h[n]]
<1>4. k = Body(k)
  BY <1>3 DEF Opens, Next
<1>5. open = Body(open)
  <2> HIDE DEF Body, k
  <2> QED
    BY <1>4
<1> HIDE DEF open
<1>6. Opens(open, text, L)
  BY <1>5 DEF Opens, Next
<1> QED
  BY <1>1, <1>6

\* The function in FlattenSeq: one sequence after another.
Joins(f, s, L) == \A n \in 1 .. L : f[n] = IF n = 1 THEN s[1] ELSE f[n - 1] \o s[n]

\* FlattenSeq ends with all of them.
LEMMA FlattenDef ==
  ASSUME NEW s, Len(s) \in Nat \ {0}
  PROVE  \E f : Joins(f, s, Len(s)) /\ FlattenSeq(s) = f[Len(s)]
<1> DEFINE L == Len(s)
           Next(t, n) == t \o s[n]
           Body(f) == [n \in 1 .. L |-> IF n = 1 THEN s[n] ELSE Next(f[n - 1], n)]
           flatten == CHOOSE f : f = Body(f)
           P == {N \in Nat : \E f : Joins(f, s, N)}
<1>1. FlattenSeq(s) = flatten[L]
  BY DEF FlattenSeq
<1> HIDE DEF Next
<1>2. L \in P
  <2>1. 0 \in P
    <3> Joins(<<>>, s, 0)
      BY DEF Joins
    <3> QED
      OBVIOUS
  <2>2. ASSUME NEW N \in Nat, N \in P PROVE N + 1 \in P
    <3>1. PICK f : Joins(f, s, N)
      BY <2>2
    <3> DEFINE x == IF N = 0 THEN s[1] ELSE Next(f[N], N + 1)
               g == [n \in 1 .. N + 1 |-> IF n = N + 1 THEN x ELSE f[n]]
    <3>2. ASSUME NEW n \in 1 .. N + 1
          PROVE  g[n] = IF n = 1 THEN s[1] ELSE Next(g[n - 1], n)
      <4>1. CASE n = N + 1
        <5> CASE N = 0
          BY <4>1
        <5> CASE N # 0
          <6> n - 1 = N /\ N \in 1 .. N + 1 /\ n # 1
            BY <4>1
          <6> QED
            BY <4>1
        <5> QED
          OBVIOUS
      <4>2. CASE n # N + 1
        <5>1. n \in 1 .. N /\ g[n] = f[n] /\ (n # 1 => g[n - 1] = f[n - 1])
          BY <4>2
        <5> QED
          BY <3>1, <5>1 DEF Joins, Next
      <4> QED
        BY <4>1, <4>2
    <3> HIDE DEF g
    <3>3. Joins(g, s, N + 1)
      BY <3>2 DEF Joins, Next
    <3> QED
      BY <3>3
  <2> QED
    BY <2>1, <2>2, SetInduction
<1>3. PICK h : Joins(h, s, L)
  BY <1>2
<1> DEFINE k == [n \in 1 .. L |-> h[n]]
<1>4. k = Body(k)
  BY <1>3 DEF Joins, Next
<1>5. flatten = Body(flatten)
  <2> HIDE DEF Body, k
  <2> QED
    BY <1>4
<1> HIDE DEF flatten
<1>6. Joins(flatten, s, L)
  BY <1>5 DEF Joins, Next
<1> QED
  BY <1>1, <1>6

-----------------------------------------------------------------------------
(***************************************************************************)
(* The text of a dictionary: brackets around its entries, one behind the   *)
(* other.                                                                  *)
(***************************************************************************)
\* Where the parts of a sequence of sequences begin in the whole.
Cuts(s, whole, at) ==
    /\ at \in [0 .. Len(s) -> Nat] /\ at[0] = 0 /\ at[Len(s)] = Len(whole)
    /\ \A i \in 1 .. Len(s) :
          /\ at[i] = at[i - 1] + Len(s[i])
          /\ \A k \in 1 .. Len(s[i]) : whole[at[i - 1] + k] = s[i][k]

\* FlattenSeq has the parts one behind the other.
LEMMA FlattenCuts ==
  ASSUME NEW T, NEW s \in Seq(Seq(T))
  PROVE  FlattenSeq(s) \in Seq(T) /\ \E at : Cuts(s, FlattenSeq(s), at)
<1> DEFINE L == Len(s)
<1>0. L = Len(s) /\ L \in Nat /\ \A i \in 1 .. L : s[i] \in Seq(T) /\ Len(s[i]) \in Nat
  <2>1. L \in Nat /\ \A i \in 1 .. L : s[i] \in Seq(T)
    BY LenProperties, ElementOfSeq
  <2> QED
    BY <2>1, LenProperties
<1> HIDE DEF L
<1>1. CASE L = 0
  <2>1. s = <<>> /\ FlattenSeq(s) = s
    BY <1>0, <1>1, EmptySeq DEF FlattenSeq
  <2>2. Cuts(s, s, [n \in 0 .. 0 |-> 0])
    BY <1>0, <1>1, <2>1 DEF Cuts
  <2>3. s \in Seq(T)
    BY <2>1, EmptySeq
  <2> QED
    BY <2>1, <2>2, <2>3
<1>2. CASE L # 0
  <2>1. PICK f : Joins(f, s, L) /\ FlattenSeq(s) = f[L]
    BY <1>0, <1>2, FlattenDef
  <2> DEFINE at == [n \in 0 .. L |-> IF n = 0 THEN 0 ELSE Len(f[n])]
             Part(n, i) == /\ at[i] = at[i - 1] + Len(s[i])
                           /\ \A k \in 1 .. Len(s[i]) : f[n][at[i - 1] + k] = s[i][k]
             Q == {n \in Nat : n \in 1 .. L =>
                      f[n] \in Seq(T) /\ \A i \in 1 .. n : at[i] \in Nat /\ Part(n, i)}
  <2>a. at[0] = 0 /\ \A n \in 1 .. L : at[n] = Len(f[n])
    BY <1>0
  <2>b. at = [n \in 0 .. L |-> at[n]]
    OBVIOUS
  <2> HIDE DEF at, Part
  <2>2. 0 \in Q
    OBVIOUS
  <2>3. ASSUME NEW n \in Nat, n \in Q PROVE n + 1 \in Q
    <3> SUFFICES ASSUME n + 1 \in 1 .. L
                 PROVE  f[n + 1] \in Seq(T)
                        /\ \A i \in 1 .. n + 1 : at[i] \in Nat /\ Part(n + 1, i)
      OBVIOUS
    <3>1. CASE n = 0
      <4>1. f[1] = s[1] /\ s[1] \in Seq(T) /\ Len(s[1]) \in Nat /\ at[0] = 0 /\ at[1] = Len(f[1])
        BY <1>0, <1>2, <2>1, <2>a, <3>1 DEF Joins
      <4>2. Part(1, 1)
        BY <4>1 DEF Part
      <4>3. \A i \in 1 .. 1 : i = 1
        OBVIOUS
      <4> QED
        BY <3>1, <4>1, <4>2, <4>3
    <3>2. CASE n # 0
      <4>0. n \in 1 .. L /\ n + 1 \in 1 .. L /\ L \in Nat
        BY <1>0, <3>2
      <4> HIDE DEF Q
      <4>1. f[n + 1] = f[n] \o s[n + 1]
        <5> (n + 1) # 1 /\ (n + 1) - 1 = n
          BY <3>2
        <5> QED
          BY <2>1 DEF Joins
      <4>2. f[n] \in Seq(T) /\ \A i \in 1 .. n : at[i] \in Nat /\ Part(n, i)
        BY <2>3, <4>0 DEF Q
      <4>3. s[n + 1] \in Seq(T) /\ Len(s[n + 1]) \in Nat /\ Len(f[n]) \in Nat
        BY <1>0, <4>2, LenProperties
      <4>4. /\ f[n + 1] \in Seq(T)
            /\ Len(f[n + 1]) = Len(f[n]) + Len(s[n + 1])
            /\ \A k \in 1 .. Len(f[n]) + Len(s[n + 1]) :
                  f[n + 1][k] = IF k <= Len(f[n]) THEN f[n][k] ELSE s[n + 1][k - Len(f[n])]
        <5> DEFINE x == f[n]
                   y == s[n + 1]
        <5>1. x \in Seq(T) /\ y \in Seq(T) /\ f[n + 1] = x \o y
          BY <4>1, <4>2, <4>3
        <5> HIDE DEF x, y
        <5>2. /\ x \o y \in Seq(T) /\ Len(x \o y) = Len(x) + Len(y)
              /\ \A k \in 1 .. Len(x) + Len(y) :
                    (x \o y)[k] = IF k <= Len(x) THEN x[k] ELSE y[k - Len(x)]
          BY <5>1, ConcatProperties
        <5> QED
          BY <5>1, <5>2 DEF x, y
      <4>5. at[n] = Len(f[n]) /\ at[n + 1] = Len(f[n + 1]) /\ at[0] = 0
        BY <2>a, <4>0
      <4>6. (n + 1) - 1 = n
        OBVIOUS
      <4>7. \A i \in 0 .. n : at[i] \in Nat
        BY <4>2, <4>5
      <4>8. \A i \in 0 .. n : at[i] <= at[n]
        <5> DEFINE D == {d \in Nat : d <= n => at[n - d] <= at[n]}
        <5>1. 0 \in D
          BY <4>7
        <5>2. ASSUME NEW d \in Nat, d \in D PROVE d + 1 \in D
          <6> SUFFICES ASSUME d + 1 <= n PROVE at[n - (d + 1)] <= at[n]
            OBVIOUS
          <6>1. n - d \in 1 .. n /\ (n - d) - 1 = n - (d + 1) /\ n - (d + 1) \in 0 .. n
            OBVIOUS
          <6>2. at[n - d] = at[n - (d + 1)] + Len(s[n - d])
            BY <4>2, <6>1 DEF Part
          <6>3. Len(s[n - d]) \in Nat
            BY <1>0, <6>1
          <6>4. at[n - d] <= at[n] /\ at[n - (d + 1)] \in Nat /\ at[n] \in Nat /\ at[n - d] \in Nat
            BY <4>7, <5>2, <6>1
          <6> QED
            BY <6>2, <6>3, <6>4
        <5>3. Nat \subseteq D
          BY <5>1, <5>2, SetInduction
        <5> QED
          <6> SUFFICES ASSUME NEW i \in 0 .. n PROVE at[i] <= at[n]
            OBVIOUS
          <6>1. n - i \in Nat /\ n - i <= n /\ n - (n - i) = i
            BY <4>0
          <6>2. n - i \in D
            BY <5>3, <6>1
          <6> QED
            BY <6>1, <6>2
      <4> DEFINE a == Len(f[n])
                 b == Len(s[n + 1])
                 c == Len(f[n + 1])
      <4>10. a \in Nat /\ b \in Nat /\ c = a + b /\ at[n] = a /\ at[n + 1] = c
        BY <4>3, <4>4, <4>5
      <4>11. \A k \in 1 .. a + b : f[n + 1][k] = IF k <= a THEN f[n][k] ELSE s[n + 1][k - a]
        BY <4>4
      <4>12. b = Len(s[n + 1])
        OBVIOUS
      <4> HIDE DEF a, b, c
      <4>9. ASSUME NEW i \in 1 .. n + 1 PROVE at[i] \in Nat /\ Part(n + 1, i)
        <5>1. CASE i = n + 1
          <6>1. i - 1 = n
            BY <5>1
          <6>2. ASSUME NEW k \in 1 .. b PROVE f[n + 1][at[n] + k] = s[n + 1][k]
            <7>1. at[n] + k \in 1 .. a + b /\ ~(at[n] + k <= a) /\ (at[n] + k) - a = k
              BY <4>10
            <7> QED
              BY <4>11, <7>1
          <6>3. at[n + 1] = at[n] + b /\ at[n + 1] \in Nat
            BY <4>10
          <6> QED
            BY <4>12, <5>1, <6>1, <6>2, <6>3 DEF Part
        <5>2. CASE i \in 1 .. n
          <6>1. at[i] \in Nat /\ at[i] = at[i - 1] + Len(s[i]) /\ Len(s[i]) \in Nat
                /\ at[i - 1] \in Nat /\ at[i] <= at[n]
            <7>1. i - 1 \in 0 .. n /\ i \in 0 .. n /\ i \in 1 .. L
              BY <4>0, <5>2
            <7> QED
              BY <1>0, <4>2, <4>7, <4>8, <5>2, <7>1 DEF Part
          <6>2. ASSUME NEW k \in 1 .. Len(s[i]) PROVE f[n + 1][at[i - 1] + k] = s[i][k]
            <7>1. f[n][at[i - 1] + k] = s[i][k]
              BY <4>2, <5>2 DEF Part
            <7> DEFINE x == at[i - 1]
                       y == at[i]
                       l == Len(s[i])
            <7>2. /\ x \in Nat /\ l \in Nat /\ y = x + l /\ y <= a /\ k \in 1 .. l
                  /\ a \in Nat /\ b \in Nat
              BY <4>10, <6>1
            <7>3. f[n][x + k] = s[i][k]
              BY <7>1
            <7> HIDE DEF x, y, l
            <7>4. x + k \in 1 .. a + b /\ x + k <= a
              BY <7>2
            <7>5. f[n + 1][x + k] = f[n][x + k]
              BY <4>11, <7>4
            <7> QED
              BY <7>3, <7>5 DEF x
          <6> QED
            BY <6>1, <6>2 DEF Part
        <5> QED
          BY <5>1, <5>2
      <4> QED
        BY <4>4, <4>9
    <3> QED
      BY <3>1, <3>2
  <2>4. Nat \subseteq Q
    BY <2>2, <2>3, SetInduction
  <2>5. L \in Q /\ L \in 1 .. L
    BY <1>0, <1>2, <2>4
  <2>6. f[L] \in Seq(T) /\ \A i \in 1 .. L : at[i] \in Nat /\ Part(L, i)
    BY <2>5
  <2>7. at[0] = 0 /\ at[L] = Len(f[L])
    BY <1>0, <1>2, <2>a
  <2>8. at \in [0 .. L -> Nat]
    <3>1. \A n \in 0 .. L : at[n] \in Nat
      BY <1>0, <2>6, <2>7
    <3> QED
      BY <2>b, <3>1
  <2>9. Cuts(s, f[L], at)
    BY <1>0, <2>6, <2>7, <2>8 DEF Cuts, Part
  <2> QED
    BY <2>1, <2>6, <2>9
<1> QED
  BY <1>1, <1>2

\* Where the entries of a dictionary end in its text.
Laid(v, at) ==
    LET m == Len(v.entries) IN
    /\ at \in [0 .. m -> Nat] /\ at[0] = 1
    /\ Len(v.text) = at[m] + 1
    /\ v.text[1] = Token("d", "") /\ v.text[at[m] + 1] = Token("e", "")
    /\ \A i \in 1 .. m : LET entry == v.entries[i] IN
          /\ at[i] = at[i - 1] + 1 + Len(entry.value.text)
          /\ v.text[at[i - 1] + 1] = Token("str", entry.key)
          /\ \A k \in 1 .. Len(entry.value.text) :
                v.text[at[i - 1] + 1 + k] = entry.value.text[k]

\* One token before and one behind.
LEMMA EnclosedText ==
  ASSUME NEW T, NEW x \in T, NEW y \in T, NEW s \in Seq(T), NEW w, w = <<x>> \o s \o <<y>>
  PROVE  /\ w \in Seq(T) /\ Len(w) = Len(s) + 2
         /\ w[1] = x /\ w[Len(s) + 2] = y
         /\ \A k \in 1 .. Len(s) : w[1 + k] = s[k]
<1> DEFINE a == <<x>>
           b == <<y>>
           u == a \o s
           l == Len(s)
<1>1. a \in Seq(T) /\ b \in Seq(T) /\ Len(a) = 1 /\ Len(b) = 1 /\ a[1] = x /\ b[1] = y
  OBVIOUS
<1>2. l \in Nat /\ l = Len(s)
  BY LenProperties
<1> HIDE DEF a, b, l
<1>3. /\ u \in Seq(T) /\ Len(u) = 1 + l
      /\ \A k \in 1 .. 1 + l : u[k] = IF k <= 1 THEN a[k] ELSE s[k - 1]
  <2>1. /\ u \in Seq(T) /\ Len(u) = Len(a) + Len(s)
        /\ \A k \in 1 .. Len(a) + Len(s) : u[k] = IF k <= Len(a) THEN a[k] ELSE s[k - Len(a)]
    BY <1>1, ConcatProperties
  <2> QED
    BY <1>1, <1>2, <2>1
<1>5. w = u \o b
  BY DEF a, b
<1> HIDE DEF u
<1>4. /\ w \in Seq(T) /\ Len(w) = (1 + l) + 1
      /\ \A k \in 1 .. (1 + l) + 1 : w[k] = IF k <= 1 + l THEN u[k] ELSE b[k - (1 + l)]
  <2>1. /\ w \in Seq(T) /\ Len(w) = Len(u) + Len(b)
        /\ \A k \in 1 .. Len(u) + Len(b) : w[k] = IF k <= Len(u) THEN u[k] ELSE b[k - Len(u)]
    <3>1. u \in Seq(T) /\ b \in Seq(T)
      BY <1>1, <1>3
    <3>2. /\ u \o b \in Seq(T) /\ Len(u \o b) = Len(u) + Len(b)
          /\ \A k \in 1 .. Len(u) + Len(b) :
                (u \o b)[k] = IF k <= Len(u) THEN u[k] ELSE b[k - Len(u)]
      BY <3>1, ConcatProperties
    <3> QED
      BY <1>5, <3>2
  <2> QED
    BY <1>1, <1>3, <2>1
<1>6. Len(w) = l + 2 /\ w[1] = x /\ w[l + 2] = y
  <2>1. 1 \in 1 .. (1 + l) + 1 /\ 1 <= 1 + l /\ 1 \in 1 .. 1 + l /\ l + 2 \in 1 .. (1 + l) + 1
        /\ ~(l + 2 <= 1 + l) /\ (l + 2) - (1 + l) = 1 /\ (1 + l) + 1 = l + 2
    BY <1>2
  <2> QED
    BY <1>1, <1>3, <1>4, <2>1
<1>7. ASSUME NEW k \in 1 .. l PROVE w[1 + k] = s[k]
  <2>1. 1 + k \in 1 .. (1 + l) + 1 /\ 1 + k <= 1 + l /\ 1 + k \in 1 .. 1 + l
        /\ ~(1 + k <= 1) /\ (1 + k) - 1 = k
    BY <1>2
  <2> QED
    BY <1>3, <1>4, <2>1
<1> QED
  BY <1>2, <1>4, <1>6, <1>7

\* A key before a text.
LEMMA KeyedText ==
  ASSUME NEW T, NEW x \in T, NEW s \in Seq(T)
  PROVE  LET w == <<x>> \o s IN
         /\ w \in Seq(T) /\ Len(w) = 1 + Len(s)
         /\ w[1] = x
         /\ \A k \in 1 .. Len(s) : w[1 + k] = s[k]
<1> DEFINE a == <<x>>
           u == a \o s
           l == Len(s)
<1>1. a \in Seq(T) /\ Len(a) = 1 /\ a[1] = x
  OBVIOUS
<1>2. l \in Nat /\ l = Len(s)
  BY LenProperties
<1> HIDE DEF a, l
<1>3. /\ u \in Seq(T) /\ Len(u) = 1 + l
      /\ \A k \in 1 .. 1 + l : u[k] = IF k <= 1 THEN a[k] ELSE s[k - 1]
  <2>1. /\ u \in Seq(T) /\ Len(u) = Len(a) + Len(s)
        /\ \A k \in 1 .. Len(a) + Len(s) : u[k] = IF k <= Len(a) THEN a[k] ELSE s[k - Len(a)]
    BY <1>1, ConcatProperties
  <2> QED
    BY <1>1, <1>2, <2>1
<1>4. u = <<x>> \o s
  BY DEF a
<1> HIDE DEF u
<1>5. u[1] = x
  BY <1>1, <1>2, <1>3
<1>6. ASSUME NEW k \in 1 .. l PROVE u[1 + k] = s[k]
  <2>1. 1 + k \in 1 .. 1 + l /\ ~(1 + k <= 1) /\ (1 + k) - 1 = k
    BY <1>2
  <2> QED
    BY <1>3, <2>1
<1> QED
  BY <1>2, <1>3, <1>4, <1>5, <1>6

\* The text of a dictionary is that of its entries between brackets.
LEMMA DictText ==
  ASSUME NEW v, IsDict(v)
  PROVE  /\ Len(v.entries) \in Nat /\ DOMAIN v.entries = 1 .. Len(v.entries)
         /\ IsText(v.text)
         /\ \E at : Laid(v, at)
<1> DEFINE m == Len(v.entries)
           es == v.entries
           texts == [k \in DOMAIN es |-> TextOf(es[k])]
           flat == FlattenSeq(texts)
           T == {Token("d", ""), Token("e", "")} \cup {Token("str", es[k].key) : k \in 1 .. m}
                \cup UNION {ToSet(es[k].value.text) : k \in 1 .. m}
<1>1. m \in Nat /\ DOMAIN es = 1 .. m /\ m = Len(es)
  BY LenProperties DEF IsDict
<1>2. \A k \in 1 .. m : es[k].value.text \in Seq(T) /\ Token("str", es[k].key) \in T
  <2> SUFFICES ASSUME NEW k \in 1 .. m
               PROVE  es[k].value.text \in Seq(T) /\ Token("str", es[k].key) \in T
    OBVIOUS
  <2>1. Token("str", es[k].key) \in T /\ ToSet(es[k].value.text) \subseteq T
    BY <1>1
  <2>2. es[k].value.text \in Seq(ToSet(es[k].value.text))
    BY <1>1 DEF IsDict, IsValue, IsText
  <2> HIDE DEF T, es
  <2> QED
    BY <2>1, <2>2, SeqMonotonic
<1>0. /\ Token("d", "") \in T /\ Token("e", "") \in T
      /\ \A t \in T : t.kind \in {"d", "l", "e", "str", "int"}
  <2>1. Token("d", "") \in T /\ Token("e", "") \in T
    OBVIOUS
  <2>2. ASSUME NEW t \in T PROVE t.kind \in {"d", "l", "e", "str", "int"}
    <3>1. CASE t = Token("d", "") \/ t = Token("e", "") \/ \E k \in 1 .. m : t = Token("str", es[k].key)
      <4>1. \A s : Token("d", s).kind = "d" /\ Token("e", s).kind = "e" /\ Token("str", s).kind = "str"
        BY DEF Token
      <4> QED
        BY <3>1, <4>1
    <3>2. CASE \E k \in 1 .. m : t \in ToSet(es[k].value.text)
      BY <1>1, <3>2 DEF IsDict, IsValue, IsText, ToSet
    <3> QED
      BY <3>1, <3>2
  <2> QED
    BY <2>1, <2>2
<1>3. v.text = <<Token("d", "")>> \o flat \o <<Token("e", "")>>
  BY DEF IsDict, Dict, Enclosed, Value
<1>a. v.entries = es
  OBVIOUS
<1> HIDE DEF m, es, T
<1>4. \A k \in 1 .. m :
         /\ texts[k] \in Seq(T) /\ Len(texts[k]) = 1 + Len(es[k].value.text)
         /\ texts[k][1] = Token("str", es[k].key)
         /\ \A j \in 1 .. Len(es[k].value.text) : texts[k][1 + j] = es[k].value.text[j]
  <2> SUFFICES ASSUME NEW k \in 1 .. m
               PROVE  /\ texts[k] \in Seq(T) /\ Len(texts[k]) = 1 + Len(es[k].value.text)
                      /\ texts[k][1] = Token("str", es[k].key)
                      /\ \A j \in 1 .. Len(es[k].value.text) : texts[k][1 + j] = es[k].value.text[j]
    OBVIOUS
  <2>1. texts[k] = <<Token("str", es[k].key)>> \o es[k].value.text
    BY <1>1 DEF TextOf
  <2> HIDE DEF texts
  <2> DEFINE x == Token("str", es[k].key)
             s == es[k].value.text
  <2>2. x \in T /\ s \in Seq(T) /\ texts[k] = <<x>> \o s
    BY <1>2, <2>1
  <2>3. x = Token("str", es[k].key) /\ s = es[k].value.text
    OBVIOUS
  <2> HIDE DEF x, s
  <2> QED
    BY <2>2, <2>3, KeyedText
<1>5. texts \in Seq(Seq(T)) /\ Len(texts) = m
  <2>1. texts = [k \in 1 .. m |-> texts[k]]
    BY <1>1
  <2> HIDE DEF texts
  <2> QED
    BY <1>1, <1>4, <2>1, SeqDef
<1> HIDE DEF texts
<1>6. flat \in Seq(T) /\ \E cut : Cuts(texts, flat, cut)
  BY <1>5, FlattenCuts
<1> HIDE DEF flat
<1>7. PICK cut : Cuts(texts, flat, cut)
  BY <1>6
<1> DEFINE n == Len(flat)
           at == [i \in 0 .. m |-> cut[i] + 1]
<1>8. /\ v.text \in Seq(T) /\ Len(v.text) = n + 2
      /\ v.text[1] = Token("d", "") /\ v.text[n + 2] = Token("e", "")
      /\ \A k \in 1 .. n : v.text[1 + k] = flat[k]
  <2> DEFINE x == Token("d", "")
             y == Token("e", "")
  <2>1. x \in T /\ y \in T /\ flat \in Seq(T) /\ v.text = <<x>> \o flat \o <<y>>
    BY <1>0, <1>3, <1>6
  <2> HIDE DEF x, y
  <2>2. /\ v.text \in Seq(T) /\ Len(v.text) = Len(flat) + 2
        /\ v.text[1] = x /\ v.text[Len(flat) + 2] = y
        /\ \A k \in 1 .. Len(flat) : v.text[1 + k] = flat[k]
    BY <2>1, EnclosedText
  <2> QED
    BY <2>2 DEF x, y
<1>15. \A k \in 1 .. n : v.text[1 + k] = flat[k]
  BY <1>8
<1>9. n \in Nat /\ n = Len(flat)
  BY <1>6, LenProperties
<1> HIDE DEF n
<1>10. cut \in [0 .. m -> Nat] /\ cut[0] = 0 /\ cut[m] = n
  BY <1>5, <1>7, <1>9 DEF Cuts
<1>11. \A i \in 1 .. m :
          /\ cut[i] = cut[i - 1] + 1 + Len(es[i].value.text)
          /\ Len(es[i].value.text) \in Nat /\ cut[i - 1] \in Nat /\ cut[i] \in Nat
          /\ flat[cut[i - 1] + 1] = Token("str", es[i].key)
          /\ \A j \in 1 .. Len(es[i].value.text) :
                flat[cut[i - 1] + 1 + j] = es[i].value.text[j]
  <2> SUFFICES ASSUME NEW i \in 1 .. m
               PROVE  /\ cut[i] = cut[i - 1] + 1 + Len(es[i].value.text)
                      /\ Len(es[i].value.text) \in Nat /\ cut[i - 1] \in Nat /\ cut[i] \in Nat
                      /\ flat[cut[i - 1] + 1] = Token("str", es[i].key)
                      /\ \A j \in 1 .. Len(es[i].value.text) :
                            flat[cut[i - 1] + 1 + j] = es[i].value.text[j]
    OBVIOUS
  <2> DEFINE l == Len(es[i].value.text)
  <2>1. l \in Nat
    BY <1>2, LenProperties
  <2>7. l = Len(es[i].value.text)
    OBVIOUS
  <2>2. cut[i - 1] \in Nat /\ cut[i] \in Nat
    <3> i - 1 \in 0 .. m /\ i \in 0 .. m
      BY <1>1
    <3> QED
      BY <1>10
  <2>3. Len(texts[i]) = 1 + l /\ texts[i][1] = Token("str", es[i].key)
        /\ \A j \in 1 .. l : texts[i][1 + j] = es[i].value.text[j]
    BY <1>4
  <2> HIDE DEF l
  <2>4. cut[i] = cut[i - 1] + (1 + l)
        /\ \A k \in 1 .. 1 + l : flat[cut[i - 1] + k] = texts[i][k]
    BY <1>5, <1>7, <2>3 DEF Cuts
  <2>5. flat[cut[i - 1] + 1] = Token("str", es[i].key)
    BY <2>1, <2>3, <2>4
  <2>6. ASSUME NEW j \in 1 .. l PROVE flat[cut[i - 1] + 1 + j] = es[i].value.text[j]
    <3>1. 1 + j \in 1 .. 1 + l /\ cut[i - 1] + (1 + j) = cut[i - 1] + 1 + j
      BY <2>1, <2>2
    <3> QED
      BY <2>3, <2>4, <3>1
  <2>8. cut[i] = cut[i - 1] + 1 + l
    BY <2>1, <2>2, <2>4
  <2> QED
    BY <2>1, <2>2, <2>5, <2>6, <2>7, <2>8
<1>12. \A i \in 0 .. m : cut[i] <= n
  <2> DEFINE D == {d \in Nat : d <= m => cut[m - d] <= n}
  <2>1. 0 \in D
    BY <1>1, <1>9, <1>10
  <2>2. ASSUME NEW d \in Nat, d \in D PROVE d + 1 \in D
    <3> SUFFICES ASSUME d + 1 <= m PROVE cut[m - (d + 1)] <= n
      OBVIOUS
    <3>1. m - d \in 1 .. m /\ (m - d) - 1 = m - (d + 1)
      BY <1>1
    <3>2. cut[m - d] <= n
      BY <1>1, <2>2
    <3> DEFINE l == Len(es[m - d].value.text)
    <3>3. l \in Nat /\ cut[m - d] = cut[m - (d + 1)] + 1 + l /\ cut[m - (d + 1)] \in Nat
      BY <1>11, <3>1
    <3> HIDE DEF l
    <3> QED
      BY <1>9, <3>2, <3>3
  <2>3. Nat \subseteq D
    BY <2>1, <2>2, SetInduction
  <2> SUFFICES ASSUME NEW i \in 0 .. m PROVE cut[i] <= n
    OBVIOUS
  <2>4. m - i \in Nat /\ m - i <= m /\ m - (m - i) = i
    BY <1>1
  <2>5. m - i \in D
    BY <2>3, <2>4
  <2> QED
    BY <2>4, <2>5
<1>13. Laid(v, at)
  <2>1. at \in [0 .. m -> Nat] /\ at[0] = 1 /\ \A i \in 0 .. m : at[i] = cut[i] + 1
    BY <1>1, <1>10
  <2> HIDE DEF at
  <2>2. at[m] + 1 = n + 2
    <3> at[m] = n + 1
      BY <1>1, <1>10, <2>1
    <3> QED
      BY <1>9
  <2>3. ASSUME NEW i \in 1 .. m
        PROVE  /\ at[i] = at[i - 1] + 1 + Len(es[i].value.text)
               /\ v.text[at[i - 1] + 1] = Token("str", es[i].key)
               /\ \A k \in 1 .. Len(es[i].value.text) :
                     v.text[at[i - 1] + 1 + k] = es[i].value.text[k]
    <3> DEFINE l == Len(es[i].value.text)
    <3>a. l = Len(es[i].value.text)
      OBVIOUS
    <3>1. l \in Nat /\ cut[i] = cut[i - 1] + 1 + l /\ cut[i - 1] \in Nat /\ cut[i] \in Nat
      BY <1>11
    <3>2. at[i] = cut[i] + 1 /\ at[i - 1] = cut[i - 1] + 1 /\ cut[i] <= n
      <4> i - 1 \in 0 .. m /\ i \in 0 .. m
        BY <1>1
      <4> QED
        BY <1>12, <2>1
    <3> DEFINE b == at[i - 1]
               c == cut[i - 1]
               d == cut[i]
    <3>3. /\ b \in Nat /\ c \in Nat /\ l \in Nat /\ n \in Nat
          /\ b = c + 1 /\ d = c + 1 + l /\ d <= n /\ at[i] = d + 1
      BY <1>9, <3>1, <3>2
    <3>4. flat[c + 1] = Token("str", es[i].key)
      BY <1>11
    <3>5. \A k \in 1 .. l : flat[c + 1 + k] = es[i].value.text[k]
      BY <1>11
    <3> HIDE DEF b, c, d, l
    <3>6. at[i] = b + 1 + l
      BY <3>3
    <3>7. v.text[b + 1] = Token("str", es[i].key)
      <4>1. c + 1 \in 1 .. n /\ b + 1 = 1 + (c + 1)
        BY <3>3
      <4>2. v.text[1 + (c + 1)] = flat[c + 1]
        BY <1>15, <4>1
      <4> QED
        BY <3>4, <4>1, <4>2
    <3>8. ASSUME NEW k \in 1 .. l PROVE v.text[b + 1 + k] = es[i].value.text[k]
      <4>1. c + 1 + k \in 1 .. n /\ b + 1 + k = 1 + (c + 1 + k)
        BY <3>3
      <4>2. v.text[1 + (c + 1 + k)] = flat[c + 1 + k]
        BY <1>15, <4>1
      <4>3. flat[c + 1 + k] = es[i].value.text[k]
        BY <3>5
      <4> QED
        BY <4>1, <4>2, <4>3
    <3> QED
      BY <3>a, <3>6, <3>7, <3>8 DEF b
  <2> QED
    BY <1>1, <1>8, <2>1, <2>2, <2>3 DEF Laid, m, es
<1>14. IsText(v.text)
  <2>1. \A k \in 1 .. Len(v.text) : v.text[k] \in T /\ v.text[k] \in ToSet(v.text)
    BY <1>8, ElementOfSeq, LenProperties DEF ToSet
  <2>2. v.text \in Seq(ToSet(v.text))
    <3> DEFINE l == Len(v.text)
               S == ToSet(v.text)
    <3>1. l \in Nat /\ v.text = [k \in 1 .. l |-> v.text[k]] /\ \A k \in 1 .. l : v.text[k] \in S
      BY <1>8, <2>1, LenProperties
    <3> HIDE DEF l, S
    <3>2. v.text \in [1 .. l -> S]
      BY <3>1
    <3>3. v.text \in Seq(S)
      BY <3>1, <3>2, SeqDef
    <3> QED
      BY <3>3 DEF S
  <2>3. DOMAIN v.text = 1 .. Len(v.text)
    BY <1>8, LenProperties
  <2> QED
    BY <1>0, <2>1, <2>2, <2>3 DEF IsText
<1> QED
  BY <1>1, <1>13, <1>14 DEF m, es

(***************************************************************************)
(* What a token does to the parser.                                        *)
(***************************************************************************)
IsLeaf(token) == token.kind \in {"str", "int"}

Stepped(f, text, k) ==
    /\ f[k].parsed = IF IsLeaf(text[k]) THEN Append(f[k - 1].parsed, text[k].of)
                     ELSE f[k - 1].parsed
    /\ f[k].calls =
          IF IsLeaf(text[k])
          THEN Returned(f[k - 1].calls, IF text[k].kind = "str" THEN text[k].of ELSE "", k + 1)
          ELSE IF text[k].kind \in {"d", "l"} THEN Append(f[k - 1].calls, Call(text[k].kind))
          ELSE Returned(Front(f[k - 1].calls), "", k + 1)
    /\ f[k].info_hash = IF text[k].kind = "e"
                        THEN HashOf(text, Last(f[k - 1].calls), f[k - 1].info_hash)
                        ELSE f[k - 1].info_hash

\* The parser takes one token after another.
LEMMA ParserSteps ==
  ASSUME NEW text, IsText(text), NEW f, Runs(f, text, Len(text))
  PROVE  \A k \in 1 .. Len(text) : Stepped(f, text, k)
<1> DEFINE L == Len(text)
           Shape(p, n) == p = [index |-> n + 1, parsed |-> p.parsed,
                               info_hash |-> p.info_hash, calls |-> p.calls]
           P == {n \in Nat : n <= L => Shape(f[n], n)}
<1>1. L \in Nat /\ DOMAIN text = 1 .. L
  BY LenProperties DEF IsText
<1>2. \A k \in 1 .. L : text[k].kind \in {"d", "l", "e", "str", "int"}
  BY <1>1 DEF IsText
<1>3. f[0] = NewParser /\ \A n \in 1 .. L : f[n] = Process(text, f[n - 1])
  BY DEF Runs
<1> HIDE DEF L
<1>4. ASSUME NEW n \in 1 .. L, Shape(f[n - 1], n - 1) PROVE Shape(f[n], n) /\ Stepped(f, text, n)
  <2> DEFINE p == f[n - 1]
             q == f[n]
             token == text[n]
  <2>1. p = [index |-> n, parsed |-> p.parsed, info_hash |-> p.info_hash, calls |-> p.calls]
    BY <1>1, <1>4
  <2>2. q = Process(text, p) /\ p.index = n
    BY <1>3, <2>1
  <2>3. token.kind \in {"d", "l", "e", "str", "int"}
    BY <1>2
  <2>4. CASE token.kind \in {"str", "int"}
    <3>1. q = [p EXCEPT !.index = n + 1, !.parsed = Append(@, token.of),
                 !.calls = Returned(@, IF token.kind = "str" THEN token.of ELSE "", n + 1)]
      BY <2>2, <2>4 DEF Process
    <3> HIDE DEF p, q, token
    <3>2. q = [index |-> n + 1, parsed |-> Append(p.parsed, token.of), info_hash |-> p.info_hash,
               calls |-> Returned(p.calls, IF token.kind = "str" THEN token.of ELSE "", n + 1)]
      BY <2>1, <3>1
    <3>3. Shape(q, n)
      BY <3>2
    <3> HIDE DEF Shape
    <3>4. /\ IsLeaf(token) <=> token.kind \in {"str", "int"}
          /\ IsLeaf(token) /\ token.kind # "e"
      BY <2>4 DEF IsLeaf
    <3>5. Stepped(f, text, n)
      <4>1. /\ q.parsed = Append(p.parsed, token.of) /\ q.info_hash = p.info_hash
            /\ q.calls = Returned(p.calls, IF token.kind = "str" THEN token.of ELSE "", n + 1)
        BY <3>2
      <4> QED
        BY <3>4, <4>1 DEF Stepped, p, q, token
    <3> QED
      BY <3>3, <3>5 DEF q
  <2>5. CASE token.kind \in {"d", "l"}
    <3>1. q = [p EXCEPT !.index = n + 1, !.calls = Append(@, Call(token.kind))]
      BY <2>2, <2>5 DEF Process
    <3> HIDE DEF p, q, token
    <3>2. q = [index |-> n + 1, parsed |-> p.parsed, info_hash |-> p.info_hash,
               calls |-> Append(p.calls, Call(token.kind))]
      BY <2>1, <3>1
    <3>3. Shape(q, n)
      BY <3>2
    <3> HIDE DEF Shape
    <3>4. /\ IsLeaf(token) <=> token.kind \in {"str", "int"}
          /\ ~IsLeaf(token) /\ token.kind \in {"d", "l"} /\ token.kind # "e"
      BY <2>5 DEF IsLeaf
    <3>5. Stepped(f, text, n)
      <4>1. /\ q.parsed = p.parsed /\ q.info_hash = p.info_hash
            /\ q.calls = Append(p.calls, Call(token.kind))
        BY <3>2
      <4> QED
        BY <3>4, <4>1 DEF Stepped, p, q, token
    <3> QED
      BY <3>3, <3>5 DEF q
  <2>6. CASE token.kind = "e"
    <3>1. q = [p EXCEPT !.index = n + 1, !.calls = Returned(Front(@), "", n + 1),
                        !.info_hash = HashOf(text, Last(p.calls), @)]
      BY <2>2, <2>6 DEF Process
    <3> HIDE DEF p, q, token
    <3>2. q = [index |-> n + 1, parsed |-> p.parsed,
               info_hash |-> HashOf(text, Last(p.calls), p.info_hash),
               calls |-> Returned(Front(p.calls), "", n + 1)]
      BY <2>1, <3>1
    <3>3. Shape(q, n)
      BY <3>2
    <3> HIDE DEF Shape
    <3>4. /\ IsLeaf(token) <=> token.kind \in {"str", "int"}
          /\ ~IsLeaf(token) /\ token.kind \notin {"d", "l"} /\ token.kind = "e"
      BY <2>6 DEF IsLeaf
    <3>5. Stepped(f, text, n)
      <4>1. /\ q.parsed = p.parsed /\ q.info_hash = HashOf(text, Last(p.calls), p.info_hash)
            /\ q.calls = Returned(Front(p.calls), "", n + 1)
        BY <3>2
      <4> QED
        BY <3>4, <4>1 DEF Stepped, p, q, token
    <3> QED
      BY <3>3, <3>5 DEF q
  <2> QED
    BY <2>3, <2>4, <2>5, <2>6
<1>5. 0 \in P
  BY <1>3 DEF NewParser
<1>6. ASSUME NEW n \in Nat, n \in P PROVE n + 1 \in P
  <2> SUFFICES ASSUME n + 1 <= L PROVE Shape(f[n + 1], n + 1)
    OBVIOUS
  <2>1. n + 1 \in 1 .. L /\ (n + 1) - 1 = n
    BY <1>1
  <2>2. Shape(f[n], n)
    BY <1>1, <1>6
  <2> HIDE DEF Shape
  <2> QED
    BY <1>4, <2>1, <2>2
<1>7. Nat \subseteq P
  BY <1>5, <1>6, SetInduction
<1>8. ASSUME NEW k \in 1 .. L PROVE Stepped(f, text, k)
  <2>1. k - 1 \in Nat /\ k - 1 <= L
    BY <1>1
  <2>2. Shape(f[k - 1], k - 1)
    BY <1>7, <2>1
  <2> HIDE DEF Shape
  <2> QED
    BY <1>4, <2>2
<1> QED
  BY <1>8 DEF L

(***************************************************************************)
(* The calls in progress.                                                  *)
(***************************************************************************)
\* A sequence of n elements, of whatever kind.
Long(c, n) == n \in Nat /\ c = [j \in 1 .. n |-> c[j]]

\* Such is every sequence, with its length.
LEMMA LongIs ==
  ASSUME NEW c, NEW n, Long(c, n)
  PROVE  Len(c) = n /\ c \in Seq({c[j] : j \in 1 .. n})
<1>1. c \in Seq({c[j] : j \in 1 .. n})
  BY SeqDef DEF Long
<1>2. DOMAIN c = 1 .. n
  BY DEF Long
<1> QED
  BY <1>1, <1>2, LenProperties DEF Long

\* The innermost call goes on; the others wait.
LEMMA ReturnedKeeps ==
  ASSUME NEW c, NEW n \in Nat, n # 0, Long(c, n), NEW string, NEW index
  PROVE  /\ Long(Returned(c, string, index), n)
         /\ \A j \in 1 .. n : j # n => Returned(c, string, index)[j] = c[j]
         /\ Returned(c, string, index)[n] = Resumed(c[n], string, index)
<1>1. Len(c) = n /\ c # <<>>
  BY LongIs, EmptySeq DEF Long
<1> DEFINE x == Resumed(c[n], string, index)
           r == Returned(c, string, index)
<1>2. r = [c EXCEPT ![n] = x]
  BY <1>1 DEF Returned
<1> HIDE DEF x, r
<1>3. r = [j \in 1 .. n |-> IF j = n THEN x ELSE c[j]]
  BY <1>2 DEF Long
<1>4. Long(r, n)
  BY <1>3 DEF Long
<1>5. n \in 1 .. n
  OBVIOUS
<1>6. r[n] = x /\ \A j \in 1 .. n : j # n => r[j] = c[j]
  BY <1>3, <1>5
<1> QED
  BY <1>4, <1>6 DEF x, r

Begun(calls, call) == Append(calls, call)

\* A call that begins is the innermost; when it ends the others are as before.
LEMMA CallBegins ==
  ASSUME NEW c, NEW n \in Nat, Long(c, n), NEW x
  PROVE  /\ Long(Begun(c, x), n + 1) /\ Begun(c, x)[n + 1] = x
         /\ \A j \in 1 .. n : Begun(c, x)[j] = c[j]
<1>1. Len(c) = n /\ n \in Nat
  BY LongIs DEF Long
<1> DEFINE S == {c[j] : j \in 1 .. n} \cup {x}
           y == Append(c, x)
<1>2. c \in Seq(S) /\ x \in S
  <2>1. c \in Seq({c[j] : j \in 1 .. n}) /\ {c[j] : j \in 1 .. n} \subseteq S
    BY LongIs
  <2> QED
    BY <2>1, SeqMonotonic
<1> HIDE DEF S
<1>3. y \in Seq(S) /\ Len(y) = n + 1 /\ y[n + 1] = x /\ \A j \in 1 .. n : y[j] = c[j]
  BY <1>1, <1>2, AppendProperties
<1> HIDE DEF y
<1>4. y = [j \in 1 .. n + 1 |-> y[j]]
  BY <1>3, LenProperties
<1> QED
  BY <1>1, <1>3, <1>4 DEF Long, y, Begun

Ended(calls) == Front(calls)

\* The innermost call has ended, and the one it returns to goes on.
LEMMA CallEnds ==
  ASSUME NEW c, NEW n \in Nat, Long(c, n + 1)
  PROVE  /\ Long(Ended(c), n) /\ Last(c) = c[n + 1]
         /\ \A j \in 1 .. n : Ended(c)[j] = c[j]
<1>1. Len(c) = n + 1
  BY LongIs
<1>2. Front(c) = SubSeq(c, 1, n)
  BY <1>1 DEF Front
<1>3. SubSeq(c, 1, n) = [j \in 1 .. n |-> c[j]]
  BY <1>1
<1> QED
  BY <1>1, <1>2, <1>3 DEF Long, Last, Ended

-----------------------------------------------------------------------------
(***************************************************************************)
(* A text is read by calls of Process, a dictionary by two for each entry. *)
(***************************************************************************)
\* A part of a text.
Found(s, text, o) ==
    o \in Nat /\ o + Len(s) <= Len(text) /\ \A k \in 1 .. Len(s) : text[o + k] = s[k]

Answer(s) == IF Len(s) = 1 /\ s[1].kind = "str" THEN s[1].of ELSE ""

ReadByOneCall(f, s, o) ==
    f[o + Len(s)].calls = Returned(f[o].calls, Answer(s), o + Len(s) + 1)

\* The text of a value is read by one call of Process, however deep it goes.
LEMMA ValueIsRead ==
  ASSUME NEW text, IsText(text), NEW f, Runs(f, text, Len(text)),
         NEW s, IsText(s), Balanced(s), NEW o, Found(s, text, o),
         NEW n, n # 0, Long(f[o].calls, n)
  PROVE  ReadByOneCall(f, s, o)
<1> DEFINE l == Len(s)
           c == f[o].calls
           kind(k) == text[o + k].kind
<1> SUFFICES f[o + l].calls = Returned(c, Answer(s), o + l + 1)
  BY DEF ReadByOneCall
<1>1. l \in Nat /\ Len(text) \in Nat /\ DOMAIN s = 1 .. l
  BY LenProperties DEF IsText
<1>2. o \in Nat /\ o + l <= Len(text) /\ \A k \in 1 .. l : text[o + k] = s[k]
  BY DEF Found
<1>3. s # <<>> /\ \E g : /\ Opens(g, s, l)
                         /\ \A k \in 1 .. l : IF k = l THEN g[k] = 0 ELSE g[k] > 0
  BY <1>1, OpenDef
<1>4. PICK g : /\ Opens(g, s, l)
               /\ \A k \in 1 .. l : IF k = l THEN g[k] = 0 ELSE g[k] > 0
  BY <1>3
<1>5. l # 0
  BY <1>3, EmptySeq DEF IsText
<1>6. \A k \in 1 .. l : s[k].kind \in {"d", "l", "e", "str", "int"} /\ kind(k) = s[k].kind
  BY <1>1, <1>2 DEF IsText
<1>7. g[0] = 0 /\ \A k \in 1 .. l : g[k] = g[k - 1] + Opened(s[k])
  BY <1>4 DEF Opens
<1>8. \A k \in 1 .. l : Stepped(f, text, o + k)
  <2> SUFFICES ASSUME NEW k \in 1 .. l PROVE Stepped(f, text, o + k)
    OBVIOUS
  <2>1. o + k \in 1 .. Len(text)
    BY <1>1, <1>2
  <2> QED
    BY <2>1, ParserSteps
<1>a. l = Len(s) /\ n \in Nat /\ Long(c, n)
  BY DEF Long
<1> HIDE DEF l, c
<1>b. n \in Nat /\ Long(c, n)
  BY <1>a
<1>9. \A k \in 1 .. l : (o + k) - 1 = o + (k - 1)
  BY <1>1, <1>2
<1> DEFINE Inner(k) == /\ g[k] \in Nat \ {0} /\ Long(f[o + k].calls, n + g[k])
                       /\ \A j \in 1 .. n : f[o + k].calls[j] = c[j]
           P == {k \in Nat : k + 1 < l => Inner(k + 1)}
<1>10. 0 \in P
  <2> SUFFICES ASSUME 1 < l PROVE Inner(1)
    OBVIOUS
  <2>1. 1 \in 1 .. l /\ 1 # l /\ o + 1 \in Nat /\ (o + 1) - 1 = o
    BY <1>1, <1>2
  <2>2. g[1] > 0 /\ g[1] = 0 + Opened(s[1])
    BY <1>4, <1>7, <2>1
  <2>3. s[1].kind \in {"d", "l"} /\ Opened(s[1]) = 1
    BY <2>2 DEF Opened
  <2>4. f[o + 1].calls = Append(c, Call(kind(1)))
    BY <1>6, <1>8, <2>1, <2>3 DEF Stepped, IsLeaf, c
  <2> DEFINE x == Call(kind(1))
             d == Begun(c, x)
  <2> HIDE DEF x
  <2>5. Long(d, n + 1) /\ \A j \in 1 .. n : d[j] = c[j]
    BY <1>b, CallBegins
  <2>6. g[1] = 1
    BY <2>2, <2>3
  <2>7. f[o + 1].calls = d
    BY <2>4 DEF x, Begun
  <2> HIDE DEF d
  <2> QED
    BY <2>5, <2>6, <2>7
<1>11. ASSUME NEW m \in Nat, m \in P PROVE m + 1 \in P
  <2> DEFINE k == m + 1
             b == f[o + k].calls
             d == f[o + (k + 1)].calls
  <2> SUFFICES ASSUME k + 1 < l PROVE Inner(k + 1)
    OBVIOUS
  <2>1. k \in Nat /\ k # 0 /\ k < l /\ k + 1 \in 1 .. l /\ k + 1 # l /\ (k + 1) - 1 = k /\ k \in 1 .. l
    <3> HIDE DEF Inner, P
    <3> QED
      BY <1>1
  <2>2. Inner(k)
    BY <1>11, <2>1
  <2> HIDE DEF k
  <2>3. g[k + 1] > 0 /\ g[k + 1] = g[k] + Opened(s[k + 1])
    BY <1>4, <1>7, <2>1
  <2>4. Stepped(f, text, o + (k + 1)) /\ (o + (k + 1)) - 1 = o + k
    BY <1>8, <1>9, <2>1
  <2>5. kind(k + 1) = s[k + 1].kind /\ s[k + 1].kind \in {"d", "l", "e", "str", "int"}
    BY <1>6, <2>1
  <2>6. g[k] \in Nat \ {0} /\ Long(b, n + g[k]) /\ \A j \in 1 .. n : b[j] = c[j]
    BY <2>2
  <2> DEFINE w == n + g[k]
  <2>7. w \in Nat /\ w # 0 /\ \A j \in 1 .. n : j \in 1 .. w /\ j # w
    <3>1. g[k] \in Nat \ {0} /\ n \in Nat
      BY <1>a, <2>6
    <3> QED
      BY <3>1
  <2>a. Long(b, w) /\ \A j \in 1 .. n : b[j] = c[j]
    BY <2>6
  <2>b. g[k] \in Nat \ {0} /\ n \in Nat /\ w = n + g[k]
    BY <1>a, <2>6
  <2> HIDE DEF w, b, Inner, P
  <2>8. CASE s[k + 1].kind \in {"str", "int"}
    <3> DEFINE r == IF text[o + (k + 1)].kind = "str" THEN text[o + (k + 1)].of ELSE ""
               x == o + (k + 1) + 1
    <3>1. d = Returned(b, r, x)
      BY <2>4, <2>5, <2>8 DEF Stepped, IsLeaf, b, Begun, Ended
    <3> HIDE DEF r, x, d
    <3>2. Long(d, w) /\ \A j \in 1 .. w : j # w => d[j] = b[j]
      <4>1. Long(b, w) /\ w # 0 /\ w \in Nat
        BY <2>a, <2>7
      <4> QED
        BY <4>1, <3>1, ReturnedKeeps
    <3>3. \A j \in 1 .. n : d[j] = c[j]
      BY <2>a, <2>7, <3>2
    <3>4. g[k + 1] = g[k]
      BY <2>3, <2>b, <2>8 DEF Opened
    <3>5. g[k + 1] \in Nat \ {0} /\ Long(d, n + g[k + 1])
      BY <2>b, <3>2, <3>4
    <3> QED
      BY <3>3, <3>5 DEF d, Inner
  <2>9. CASE s[k + 1].kind \in {"d", "l"}
    <3> DEFINE x == Call(text[o + (k + 1)].kind)
    <3>1. d = Begun(b, x)
      BY <2>4, <2>5, <2>9 DEF Stepped, IsLeaf, b, Begun, Ended
    <3> HIDE DEF x, d
    <3>2. Long(d, w + 1) /\ \A j \in 1 .. w : d[j] = b[j]
      <4>1. Long(b, w) /\ w \in Nat
        BY <2>a, <2>7
      <4> QED
        BY <4>1, <3>1, CallBegins
    <3>3. \A j \in 1 .. n : j \in 1 .. w
      BY <2>7
    <3>4. \A j \in 1 .. n : d[j] = c[j]
      BY <2>a, <3>2, <3>3
    <3>5. g[k + 1] = g[k] + 1
      BY <2>3, <2>9 DEF Opened
    <3>6. g[k + 1] \in Nat \ {0} /\ w + 1 = n + g[k + 1]
      BY <2>b, <3>5
    <3>7. Long(d, n + g[k + 1])
      BY <3>2, <3>6
    <3> QED
      BY <3>4, <3>6, <3>7 DEF d, Inner
  <2>10. CASE s[k + 1].kind = "e"
    <3> DEFINE x == o + (k + 1) + 1
               h == g[k + 1]
               e == Ended(b)
             v == n + h
             y == ""
    <3>1. d = Returned(e, y, x)
      BY <2>4, <2>5, <2>10 DEF Stepped, IsLeaf, b, Begun, Ended
    <3>2. g[k + 1] = g[k] - 1
      BY <2>3, <2>b, <2>10 DEF Opened
    <3> HIDE DEF x, y, d, e
    <3>3. g[k + 1] > 0
      BY <2>3
    <3>4. h \in Nat \ {0} /\ w = v + 1 /\ v \in Nat /\ v # 0
      BY <2>b, <3>2, <3>3
    <3> HIDE DEF h
    <3>5. \A j \in 1 .. n : j \in 1 .. v /\ j # v
      BY <2>b, <3>4
    <3> HIDE DEF v
    <3>6. Long(b, v + 1)
      BY <2>a, <3>4
    <3>7. Long(e, v) /\ \A j \in 1 .. v : e[j] = b[j]
      BY <3>4, <3>6, CallEnds DEF e
    <3>8. Long(d, v) /\ \A j \in 1 .. v : j # v => d[j] = e[j]
      <4>1. Long(e, v) /\ v # 0 /\ v \in Nat
        BY <3>4, <3>7
      <4> QED
        BY <4>1, <3>1, ReturnedKeeps
    <3>9. \A j \in 1 .. n : d[j] = c[j]
      BY <2>a, <3>5, <3>7, <3>8
    <3> QED
      BY <3>4, <3>8, <3>9 DEF d, h, v, Inner
  <2> QED
    BY <2>5, <2>8, <2>9, <2>10
<1>12. Nat \subseteq P
  BY <1>10, <1>11, SetInduction
<1>13. CASE l = 1
  <2>1. 1 \in 1 .. l /\ (o + 1) - 1 = o
    BY <1>2, <1>13
  <2>2. g[1] = 0 /\ g[1] = 0 + Opened(s[1])
    BY <1>4, <1>7, <1>13, <2>1
  <2>3. s[1].kind \in {"str", "int"}
    BY <1>6, <2>1, <2>2 DEF Opened
  <2>4. f[o + 1].calls = Returned(c, IF s[1].kind = "str" THEN s[1].of ELSE "", (o + 1) + 1)
    BY <1>2, <1>6, <1>8, <2>1, <2>3 DEF Stepped, IsLeaf, c
  <2>5. Answer(s) = IF s[1].kind = "str" THEN s[1].of ELSE ""
    BY <1>a, <1>13 DEF Answer
  <2> QED
    BY <1>13, <2>4, <2>5
<1>14. CASE l # 1
  <2> DEFINE k == l - 1
             m == l - 2
             b == f[o + k].calls
  <2>1. m \in Nat /\ k = m + 1 /\ k < l /\ l \in 1 .. l /\ o + l = o + (k + 1) /\ (o + l) - 1 = o + k
        /\ k + 1 = l
    BY <1>1, <1>2, <1>5, <1>14
  <2>2. Inner(k)
    <3> m \in P
      BY <1>12, <2>1
    <3> QED
      BY <2>1
  <2> HIDE DEF k, m
  <2>3. g[l] = 0 /\ g[l] = g[k] + Opened(s[l]) /\ kind(l) = s[l].kind
    <3> l - 1 = k
      BY <1>1, <2>1 DEF k
    <3> QED
      BY <1>4, <1>6, <1>7, <2>1
  <2>4. s[l].kind = "e" /\ g[k] = 1
    BY <2>2, <2>3 DEF Opened
  <2>5. f[o + l].calls = Returned(Ended(b), "", o + l + 1)
    BY <1>8, <2>1, <2>3, <2>4 DEF Stepped, IsLeaf, Ended
  <2>6. Long(b, n + 1) /\ \A j \in 1 .. n : b[j] = c[j]
    BY <2>2, <2>4
  <2>7. Ended(b) = c
    <3>1. Long(Ended(b), n) /\ \A j \in 1 .. n : Ended(b)[j] = b[j]
      BY <1>a, <2>6, CallEnds
    <3> HIDE DEF b
    <3> QED
      BY <1>a, <2>6, <3>1 DEF Long
  <2>8. Answer(s) = ""
    BY <1>a, <1>14 DEF Answer
  <2> QED
    BY <2>5, <2>7, <2>8
<1> QED
  BY <1>13, <1>14

\* The entries are within the text of the dictionary, and their values in it.
LEMMA LaidWithin ==
  ASSUME NEW v, IsDict(v), NEW at, Laid(v, at), NEW i \in 1 .. Len(v.entries)
  PROVE  /\ at[i - 1] \in Nat /\ at[i] \in Nat /\ at[i - 1] + 1 <= at[i] /\ at[i] + 1 <= Len(v.text)
         /\ IsValue(v.entries[i].value) /\ v.entries[i].key # ""
         /\ Len(v.entries[i].value.text) \in Nat
         /\ at[i] = at[i - 1] + 1 + Len(v.entries[i].value.text)
         /\ v.text[at[i - 1] + 1] = Token("str", v.entries[i].key)
         /\ Found(v.entries[i].value.text, v.text, at[i - 1] + 1)
<1> DEFINE m == Len(v.entries)
           l(j) == Len(v.entries[j].value.text)
           L == Len(v.text)
<1>1. m \in Nat /\ DOMAIN v.entries = 1 .. m /\ L \in Nat
  BY DictText, LenProperties DEF IsText
<1>2. \A j \in 1 .. m : IsValue(v.entries[j].value) /\ v.entries[j].key # ""
  BY <1>1 DEF IsDict
<1>3. \A j \in 1 .. m : l(j) \in Nat
  BY <1>2, LenProperties DEF IsValue, IsText
<1>4. /\ at \in [0 .. m -> Nat] /\ L = at[m] + 1
      /\ \A j \in 1 .. m : at[j] = at[j - 1] + 1 + l(j)
  BY DEF Laid
<1>5. /\ v.text[at[i - 1] + 1] = Token("str", v.entries[i].key)
      /\ \A k \in 1 .. l(i) : v.text[at[i - 1] + 1 + k] = v.entries[i].value.text[k]
  BY DEF Laid
<1>i. i \in 1 .. m
  OBVIOUS
<1> DEFINE P == {k \in Nat : k <= m => at[m - k] <= at[m]}
<1> HIDE DEF m, l, L
<1>6. \A j \in 1 .. m : j - 1 \in 0 .. m /\ j \in 0 .. m
  BY <1>1
<1>7. \A j \in 1 .. m : at[j - 1] \in Nat /\ at[j] \in Nat /\ at[j - 1] + 1 <= at[j]
  <2> SUFFICES ASSUME NEW j \in 1 .. m PROVE at[j - 1] \in Nat /\ at[j] \in Nat /\ at[j - 1] + 1 <= at[j]
    OBVIOUS
  <2>1. at[j - 1] \in Nat /\ at[j] \in Nat
    BY <1>4, <1>6
  <2>2. at[j] = at[j - 1] + 1 + l(j) /\ l(j) \in Nat
    BY <1>3, <1>4
  <2> QED
    BY <2>1, <2>2
<1>8. Nat \subseteq P
  <2>1. 0 \in P
    <3>1. m \in 0 .. m /\ m - 0 = m
      BY <1>1
    <3>2. at[m] \in Nat
      BY <1>4, <3>1
    <3> QED
      BY <3>1, <3>2
  <2>2. ASSUME NEW k \in Nat, k \in P PROVE k + 1 \in P
    <3> SUFFICES ASSUME k + 1 <= m PROVE at[m - (k + 1)] <= at[m]
      OBVIOUS
    <3> DEFINE j == m - k
    <3>1. j \in 1 .. m /\ j - 1 = m - (k + 1) /\ k <= m /\ m \in 0 .. m
      BY <1>1
    <3>2. at[j] <= at[m]
      BY <2>2, <3>1
    <3> HIDE DEF j
    <3>3. at[j - 1] \in Nat /\ at[j] \in Nat /\ at[j - 1] + 1 <= at[j] /\ at[m] \in Nat
      BY <1>4, <1>7, <3>1
    <3>4. at[j - 1] <= at[m]
      BY <3>2, <3>3
    <3> QED
      BY <3>1, <3>4
  <2> QED
    BY <2>1, <2>2, SetInduction
<1>9. at[i] <= at[m]
  <2> DEFINE k == m - i
  <2>1. k \in Nat /\ k <= m /\ m - k = i
    BY <1>1, <1>i
  <2> HIDE DEF k
  <2> QED
    BY <1>8, <2>1
<1>10. at[i - 1] \in Nat /\ at[i] \in Nat /\ at[i - 1] + 1 <= at[i] /\ l(i) \in Nat /\ at[m] \in Nat
       /\ at[i] = at[i - 1] + 1 + l(i)
  <2> m \in 0 .. m
    BY <1>1
  <2> QED
    BY <1>i, <1>3, <1>4, <1>7
<1>11. at[i] + 1 <= L /\ at[i - 1] + 1 \in Nat /\ at[i - 1] + 1 + l(i) <= L
  <2> DEFINE x == at[i - 1]
             y == at[i]
             z == at[m]
             w == l(i)
  <2>1. L = z + 1 /\ y <= z /\ x \in Nat /\ y \in Nat /\ z \in Nat /\ w \in Nat
    BY <1>4, <1>9, <1>10
  <2>2. y = x + 1 + w
    BY <1>10
  <2> HIDE DEF x, y, z, w, P
  <2>3. y + 1 <= L /\ x + 1 \in Nat /\ x + 1 + w <= L
    BY <2>1, <2>2
  <2> QED
    BY <2>3 DEF x, y, w
<1>12. Found(v.entries[i].value.text, v.text, at[i - 1] + 1)
  <2>1. \A k \in 1 .. l(i) : v.text[at[i - 1] + 1 + k] = v.entries[i].value.text[k]
    BY <1>5
  <2> QED
    BY <1>11, <2>1 DEF Found, l, L
<1>13. IsValue(v.entries[i].value) /\ v.entries[i].key # ""
  BY <1>2, <1>i
<1>14. v.text[at[i - 1] + 1] = Token("str", v.entries[i].key)
  BY <1>5
<1>15. at[i - 1] \in Nat /\ at[i] \in Nat /\ at[i - 1] + 1 <= at[i] /\ at[i] + 1 <= Len(v.text)
  BY <1>10, <1>11 DEF L
<1>16. Len(v.entries[i].value.text) \in Nat /\ at[i] = at[i - 1] + 1 + Len(v.entries[i].value.text)
  BY <1>10 DEF l
<1> QED
  BY <1>12, <1>13, <1>14, <1>15, <1>16

\* Of the calls there is one, of a dictionary before a key.
InDict(calls, start, end) ==
    Long(calls, 1) /\ calls[1] = [kind |-> "d", key |-> "", start |-> start, end |-> end]

\* A key and its value are two calls that return to the dictionary.
LEMMA EntryIsRead ==
  ASSUME NEW v, IsDict(v), NEW at, Laid(v, at), NEW f, Runs(f, v.text, Len(v.text)),
         NEW i \in 1 .. Len(v.entries), NEW start, NEW end,
         InDict(f[at[i - 1]].calls, start, end)
  PROVE  InDict(f[at[i]].calls,
                IF v.entries[i].key = "info" THEN at[i - 1] + 2 ELSE start,
                IF v.entries[i].key = "info" THEN at[i] + 1 ELSE end)
<1> DEFINE t == v.text
           key == v.entries[i].key
           w == v.entries[i].value.text
           o == at[i - 1]
           c == f[o].calls
           d == f[o + 1].calls
           e == f[at[i]].calls
           l == Len(w)
<1>1. /\ o \in Nat /\ at[i] \in Nat /\ o + 1 <= at[i] /\ at[i] + 1 <= Len(t)
      /\ IsValue(v.entries[i].value) /\ key # "" /\ Len(w) \in Nat
      /\ at[i] = o + 1 + Len(w) /\ t[o + 1] = Token("str", key) /\ Found(w, t, o + 1)
  BY LaidWithin
<1>2. IsText(t) /\ Len(t) \in Nat
  BY DictText, LenProperties DEF IsText
<1>3. IsText(w) /\ Balanced(w)
  BY <1>1 DEF IsValue
<1>a. Runs(f, t, Len(t))
  OBVIOUS
<1> DEFINE q == at[i]
           L == Len(t)
           u == o + 1
           x == o + 2
           y == q + 1
           n == 1
           string == Answer(w)
           call == [kind |-> "d", key |-> "", start |-> start, end |-> end]
           called == [kind |-> "d", key |-> key,
                      start |-> IF key = "info" THEN x ELSE start, end |-> end]
<1>4. o \in Nat /\ q \in Nat /\ o + 1 <= q /\ q + 1 <= L /\ L \in Nat
  BY <1>1, <1>2
<1>5. key # "" /\ t[o + 1] = Token("str", key) /\ Found(w, t, o + 1) /\ q = o + 1 + Len(w)
  BY <1>1
<1>b. Long(c, n) /\ c[n] = call
  BY DEF InDict
<1> HIDE DEF t, w, key, o, q, L, n, c, call
<1>6. u \in 1 .. L /\ u - 1 = o /\ x = u + 1
  BY <1>4
<1>7. t[u] = Token("str", key) /\ Found(w, t, u) /\ q = u + Len(w) /\ key # ""
  BY <1>5
<1>8. n \in Nat /\ n # 0
  BY DEF n
<1>9. Resumed(call, key, x) = called
  BY DEF Resumed, AfterKey, call
<1>10. Resumed(called, string, y) =
         [kind |-> "d", key |-> "", start |-> IF key = "info" THEN x ELSE start,
          end |-> IF key = "info" THEN y ELSE end]
  <2> HIDE DEF x, y, string
  <2> QED
    BY <1>7 DEF Resumed, AfterValue
<1> HIDE DEF u, x, string, called, d
<1>11. d = Returned(c, key, x)
  <2>1. Stepped(f, t, u)
    BY <1>2, <1>6, <1>a, ParserSteps DEF L
  <2>2. t[u].kind = "str" /\ t[u].of = key
    <3>1. t[u] = Token("str", key)
      BY <1>7
    <3> QED
      BY <3>1 DEF Token
  <2> QED
    BY <1>6, <2>1, <2>2 DEF Stepped, IsLeaf, c, d, u
<1>12. Long(d, n) /\ d[n] = called
  BY <1>b, <1>8, <1>9, <1>11, ReturnedKeeps
<1>13. d = f[u].calls
  BY DEF d, u
<1>14. e = Returned(d, string, y)
  <2>2. Long(f[u].calls, n) /\ Found(w, t, u) /\ n # 0
    BY <1>7, <1>8, <1>12, <1>13
  <2>3. IsText(t) /\ Runs(f, t, Len(t))
    BY <1>2, <1>a
  <2>1. f[u + Len(w)].calls = Returned(f[u].calls, Answer(w), u + Len(w) + 1)
    <3>1. ReadByOneCall(f, w, u)
      BY <1>3, <2>2, <2>3, ValueIsRead
    <3> QED
      BY <3>1 DEF ReadByOneCall
  <2> QED
    BY <1>7, <1>13, <2>1 DEF string, q
<1> HIDE DEF e, y
<1>15. Long(e, n) /\ e[n] = Resumed(called, string, y)
  BY <1>8, <1>12, <1>14, ReturnedKeeps
<1> QED
  BY <1>10, <1>15 DEF InDict, e, n, x, y, o, q, key

\* What a token is.
LEMMA TokenIs == \A kind, s : Token(kind, s).kind = kind /\ Token(kind, s).of = s
  BY DEF Token

\* The hash that names a torrent is that of the value of the outermost "info", whatever
\* comes before, behind and inside it (BencodeParser.cpp:50-86).
THEOREM HashIsInfo ==
  ASSUME NEW v, IsDict(v), NEW q \in 1 .. Len(v.entries), v.entries[q].key = "info"
  PROVE  Parsed(v.text).info_hash = v.entries[q].value.text
<1> DEFINE t == v.text
           L == Len(t)
           m == Len(v.entries)
           w == v.entries[q].value.text
<1>1. m \in Nat /\ DOMAIN v.entries = 1 .. m /\ IsText(t) /\ L \in Nat
  BY DictText, LenProperties DEF IsText
<1>2. PICK at : Laid(v, at)
  BY DictText
<1>3. PICK f : Runs(f, t, L) /\ Parsed(t) = f[L]
  BY <1>1, ParserRuns
<1>4. /\ at \in [0 .. m -> Nat] /\ at[0] = 1 /\ L = at[m] + 1
      /\ t[1] = Token("d", "") /\ t[at[m] + 1] = Token("e", "")
  BY <1>2 DEF Laid
<1>5. \A k \in 1 .. L : Stepped(f, t, k)
  BY <1>1, <1>3, ParserSteps
<1>6. \A j \in 1 .. m : v.entries[j].key = "info" <=> j = q
  BY <1>1 DEF IsDict
<1>7. /\ at[q - 1] \in Nat /\ at[q] \in Nat /\ at[q - 1] + 1 <= at[q] /\ at[q] + 1 <= L
      /\ Len(w) \in Nat /\ at[q] = at[q - 1] + 1 + Len(w) /\ Found(w, t, at[q - 1] + 1)
  BY <1>2, LaidWithin
<1>8. IsText(w)
  BY <1>2, LaidWithin DEF IsValue
<1> DEFINE x == at[q - 1] + 2
           y == at[q] + 1
           P == {j \in Nat : j <= m => InDict(f[at[j]].calls, IF q <= j THEN x ELSE 0,
                                              IF q <= j THEN y ELSE 0)}
<1>q. q \in 1 .. m
  OBVIOUS
<1>9. 0 \in P
  <2>1. f[1].calls = Append(f[0].calls, Call("d")) /\ f[0] = NewParser
    <3>1. t[1].kind = "d" /\ 1 \in 1 .. L /\ 1 - 1 = 0
      <4>1. t[1].kind = "d"
        <5>1. t[1] = Token("d", "")
          BY <1>4
        <5> QED
          BY <5>1, TokenIs
      <4>2. m \in 0 .. m
        BY <1>1
      <4>3. at[m] \in Nat
        BY <1>4, <4>2
      <4>4. L = at[m] + 1
        BY <1>4
      <4>5. 1 \in 1 .. L
        BY <4>3, <4>4
      <4> QED
        BY <4>1, <4>5
    <3>2. f[0] = NewParser
      BY <1>3 DEF Runs
    <3>3. Stepped(f, t, 1)
      BY <1>5, <3>1
    <3> QED
      BY <3>1, <3>2, <3>3 DEF Stepped, IsLeaf
  <2>2. f[1].calls = <<Call("d")>>
    BY <2>1 DEF NewParser
  <2>3. InDict(f[1].calls, 0, 0)
    <3> DEFINE c == <<Call("d")>>
    <3>1. c = [j \in 1 .. 1 |-> c[j]] /\ c[1] = Call("d")
      OBVIOUS
    <3>2. Call("d") = [kind |-> "d", key |-> "", start |-> 0, end |-> 0]
      BY DEF Call
    <3> HIDE DEF c
    <3> QED
      BY <2>2, <3>1, <3>2 DEF InDict, Long, c
  <2>4. ~(q <= 0)
    <3> HIDE DEF m
    <3> QED
      BY <1>1, <1>q
  <2>5. at[0] = 1
    BY <1>4
  <2> QED
    BY <2>3, <2>4, <2>5
<1>10. ASSUME NEW j \in Nat, j \in P PROVE j + 1 \in P
  <2> SUFFICES ASSUME j + 1 <= m
               PROVE  InDict(f[at[j + 1]].calls, IF q <= j + 1 THEN x ELSE 0, IF q <= j + 1 THEN y ELSE 0)
    OBVIOUS
  <2> DEFINE k == j + 1
             s == IF q <= j THEN x ELSE 0
             e == IF q <= j THEN y ELSE 0
  <2>1. k \in 1 .. m /\ k - 1 = j /\ j <= m
    BY <1>1
  <2>2. InDict(f[at[j]].calls, s, e)
    BY <1>10, <2>1
  <2>a. k \in 1 .. Len(v.entries) /\ Runs(f, v.text, Len(v.text)) /\ Laid(v, at)
    BY <1>2, <1>3, <2>1
  <2>3. /\ q <= j + 1 <=> (q <= j \/ k = q)
        /\ k = q => ~(q <= j)
    BY <1>q, <2>1
  <2>4. (v.entries[k].key = "info") <=> k = q
    BY <1>6, <2>1
  <2> HIDE DEF k, s, e, x, y
  <2>5. InDict(f[at[k - 1]].calls, s, e)
    BY <2>1, <2>2
  <2>6. InDict(f[at[k]].calls, IF v.entries[k].key = "info" THEN at[k - 1] + 2 ELSE s,
                 IF v.entries[k].key = "info" THEN at[k] + 1 ELSE e)
    BY <2>5, <2>a, EntryIsRead
  <2>7. k = q => at[k - 1] + 2 = x /\ at[k] + 1 = y
    BY DEF x, y
  <2>8. (IF v.entries[k].key = "info" THEN at[k - 1] + 2 ELSE s) = (IF q <= j + 1 THEN x ELSE 0)
    BY <2>3, <2>4, <2>7 DEF s
  <2>9. (IF v.entries[k].key = "info" THEN at[k] + 1 ELSE e) = (IF q <= j + 1 THEN y ELSE 0)
    BY <2>3, <2>4, <2>7 DEF e
  <2> QED
    BY <2>6, <2>8, <2>9 DEF k
<1>11. m \in P
  BY <1>1, <1>9, <1>10, SetInduction
<1>12. InDict(f[at[m]].calls, x, y)
  BY <1>1, <1>11, <1>q
<1>13. f[L].info_hash = HashOf(t, Last(f[at[m]].calls), f[at[m]].info_hash)
  <2>1. at[m] \in Nat /\ L = at[m] + 1
    <3> m \in 0 .. m
      BY <1>1
    <3> QED
      BY <1>4
  <2> HIDE DEF L
  <2>2. L \in 1 .. L /\ L - 1 = at[m]
    BY <2>1
  <2>3. t[L].kind = "e"
    <3>1. t[L] = Token("e", "")
      BY <1>4, <2>1
    <3> QED
      BY <3>1, TokenIs
  <2> QED
    BY <1>5, <2>2, <2>3 DEF Stepped
<1>14. Last(f[at[m]].calls) = [kind |-> "d", key |-> "", start |-> x, end |-> y]
  <2> DEFINE c == f[at[m]].calls
             n == 1
  <2>1. Long(c, n) /\ c[n] = [kind |-> "d", key |-> "", start |-> x, end |-> y]
    BY <1>12 DEF InDict
  <2> HIDE DEF n, c, x, y
  <2>2. Len(c) = n
    BY <2>1, LongIs
  <2> QED
    BY <2>1, <2>2 DEF Last, c
<1>15. f[L].info_hash = SubSeq(t, x, at[q])
  <2>1. x > 0 /\ y > 0 /\ y - 1 = at[q]
    <3>1. at[q - 1] \in Nat /\ at[q] \in Nat
      BY <1>7
    <3> QED
      BY <3>1
  <2> HIDE DEF x, y
  <2> QED
    <3> DEFINE d == [kind |-> "d", key |-> "", start |-> x, end |-> y]
    <3>1. d.start = x /\ d.end = y /\ Last(f[at[m]].calls) = d
      BY <1>14
    <3> HIDE DEF d
    <3>2. HashOf(t, d, f[at[m]].info_hash) = SubSeq(t, x, y - 1)
      BY <2>1, <3>1 DEF HashOf
    <3> QED
      BY <1>13, <2>1, <3>1, <3>2
<1>16. SubSeq(t, x, at[q]) = w
  <2> DEFINE a == at[q - 1]
             b == at[q]
             l == Len(w)
             u == SubSeq(t, x, b)
             S == ToSet(t)
             o == a + 1
  <2>1. a \in Nat /\ b \in Nat /\ a + 1 <= b /\ b + 1 <= L /\ l \in Nat /\ b = a + 1 + l
    BY <1>7
  <2>2. Found(w, t, o)
    BY <1>7
  <2>3. \A k \in 1 .. l : t[o + k] = w[k]
    BY <2>2 DEF Found
  <2>4. t \in Seq(S)
    BY <1>1 DEF IsText
  <2>x. x = a + 2
    OBVIOUS
  <2> HIDE DEF a, b, l, L, u, S, x
  <2>5. x \in 1 .. L + 1 /\ b \in x - 1 .. L /\ b - x + 1 = l /\ \A k \in 1 .. l : x + k - 1 = o + k
    BY <1>1, <2>1, <2>x
  <2>6. u = [k \in 1 .. l |-> t[x + k - 1]]
    BY <2>5 DEF u
  <2>7. u = [k \in 1 .. l |-> w[k]]
    BY <2>3, <2>5, <2>6
  <2>8. w = [k \in 1 .. l |-> w[k]]
    <3>1. w \in Seq(ToSet(w))
      BY <1>8 DEF IsText
    <3> QED
      BY <3>1, LenProperties DEF l
  <2> QED
    BY <2>7, <2>8 DEF u, b
<1> QED
  BY <1>3, <1>15, <1>16

-----------------------------------------------------------------------------
(***************************************************************************)
(* The list of all strings and integers is what stands in the text, in     *)
(* order.                                                                  *)
(***************************************************************************)
\* The places of the strings and integers up to a place of a text.
LeavesAt(pos, n, text, k) ==
    /\ Long(pos, n)
    /\ \A i \in 1 .. n : pos[i] \in 1 .. k /\ IsLeaf(text[pos[i]])
    /\ \A i, j \in 1 .. n : i < j => pos[i] < pos[j]
    /\ \A p \in 1 .. k : IsLeaf(text[p]) => \E i \in 1 .. n : pos[i] = p

StringsAt(pos, n, text) == [i \in 1 .. n |-> text[pos[i]].of]

\* One token more: it is the next place, or the places are the same.
LEMMA LeavesGrow ==
  ASSUME NEW text, NEW k \in Nat, NEW n, NEW pos, LeavesAt(pos, n, text, k), IsLeaf(text[k + 1])
  PROVE  /\ LeavesAt(Append(pos, k + 1), n + 1, text, k + 1)
         /\ StringsAt(Append(pos, k + 1), n + 1, text) =
              Append(StringsAt(pos, n, text), text[k + 1].of)
<1> DEFINE x == k + 1
           next == Begun(pos, x)
           strings == StringsAt(pos, n, text)
           y == text[x].of
           grown == Begun(strings, y)
           all == StringsAt(next, n + 1, text)
<1>1. /\ Long(pos, n) /\ n \in Nat
      /\ \A i \in 1 .. n : pos[i] \in 1 .. k /\ IsLeaf(text[pos[i]])
      /\ \A i, j \in 1 .. n : i < j => pos[i] < pos[j]
      /\ \A p \in 1 .. k : IsLeaf(text[p]) => \E i \in 1 .. n : pos[i] = p
  BY DEF LeavesAt, Long
<1>2. Long(strings, n) /\ \A i \in 1 .. n : strings[i] = text[pos[i]].of
  BY <1>1 DEF Long, StringsAt
<1>3. IsLeaf(text[x])
  OBVIOUS
<1>x. x = k + 1
  OBVIOUS
<1> HIDE DEF x, strings, y, next, grown, all
<1>4. Long(next, n + 1) /\ next[n + 1] = x /\ \A i \in 1 .. n : next[i] = pos[i]
  BY <1>1, CallBegins DEF next
<1>5. Long(grown, n + 1) /\ grown[n + 1] = y /\ \A i \in 1 .. n : grown[i] = strings[i]
  BY <1>1, <1>2, CallBegins DEF grown
<1>6. /\ \A i \in 1 .. n + 1 : i \in 1 .. n \/ i = n + 1
      /\ \A p \in 1 .. x : p \in 1 .. k \/ p = x
      /\ x \in 1 .. x /\ \A p \in 1 .. k : p \in 1 .. x /\ p < x
      /\ n + 1 \in 1 .. n + 1 /\ \A i \in 1 .. n : i \in 1 .. n + 1 /\ i < n + 1 /\ ~(n + 1 < i)
      /\ ~(n + 1 < n + 1)
  BY <1>1, <1>x
<1>7. \A i \in 1 .. n + 1 : next[i] \in 1 .. x /\ IsLeaf(text[next[i]])
  BY <1>1, <1>3, <1>4, <1>6
<1>8. \A i, j \in 1 .. n + 1 : i < j => next[i] < next[j]
  <2> TAKE i, j \in 1 .. n + 1
  <2> HAVE i < j
  <2>1. CASE j \in 1 .. n
    <3>1. i \in 1 .. n
      BY <1>6, <2>1
    <3> QED
      BY <1>1, <1>4, <2>1, <3>1
  <2>2. CASE j = n + 1
    <3>1. i \in 1 .. n
      BY <1>6, <2>2
    <3>2. next[i] = pos[i] /\ pos[i] \in 1 .. k /\ next[j] = x
      BY <1>1, <1>4, <2>2, <3>1
    <3> QED
      BY <1>6, <3>2
  <2> QED
    BY <1>6, <2>1, <2>2
<1>9. \A p \in 1 .. x : IsLeaf(text[p]) => \E i \in 1 .. n + 1 : next[i] = p
  <2> TAKE p \in 1 .. x
  <2> HAVE IsLeaf(text[p])
  <2>1. CASE p \in 1 .. k
    <3>1. PICK i \in 1 .. n : pos[i] = p
      BY <1>1, <2>1
    <3> QED
      BY <1>4, <1>6, <3>1
  <2>2. CASE p = x
    BY <1>4, <1>6, <2>2
  <2> QED
    BY <1>6, <2>1, <2>2
<1>10. LeavesAt(next, n + 1, text, x)
  BY <1>4, <1>7, <1>8, <1>9 DEF LeavesAt
<1>11. all = grown
  <2>1. \A i \in 1 .. n + 1 : grown[i] = text[next[i]].of
    <3> TAKE i \in 1 .. n + 1
    <3>1. CASE i \in 1 .. n
      BY <1>2, <1>4, <1>5, <3>1
    <3>2. CASE i = n + 1
      BY <1>4, <1>5, <3>2 DEF y
    <3> QED
      BY <1>6, <3>1, <3>2
  <2>2. grown = [i \in 1 .. n + 1 |-> grown[i]]
    BY <1>5 DEF Long
  <2> QED
    BY <2>1, <2>2 DEF all, StringsAt
<1> QED
  BY <1>10, <1>11 DEF next, all, x, grown, y, strings, Begun

\* The list of the parser has the strings and integers of the text, in this order.
LEMMA ParsedIsLeaves ==
  ASSUME NEW text, IsText(text)
  PROVE  \E pos, n : LeavesAt(pos, n, text, Len(text)) /\ Parsed(text).parsed = StringsAt(pos, n, text)
<1> DEFINE L == Len(text)
<1>1. L \in Nat
  BY LenProperties DEF IsText
<1>2. PICK f : Runs(f, text, L) /\ Parsed(text) = f[L]
  BY <1>1, ParserRuns
<1>3. \A k \in 1 .. L : Stepped(f, text, k)
  BY <1>2, ParserSteps
<1> DEFINE Good(k) == \E pos, n : LeavesAt(pos, n, text, k) /\ f[k].parsed = StringsAt(pos, n, text)
           P == {k \in Nat : k <= L => Good(k)}
<1> HIDE DEF L
<1>4. 0 \in P
  <2>1. f[0].parsed = <<>>
    BY <1>2 DEF Runs, NewParser
  <2>2. LeavesAt(<<>>, 0, text, 0)
    BY DEF LeavesAt, Long
  <2>3. StringsAt(<<>>, 0, text) = <<>>
    BY DEF StringsAt
  <2> QED
    BY <2>1, <2>2, <2>3
<1>5. ASSUME NEW k \in Nat, k \in P PROVE k + 1 \in P
  <2> SUFFICES ASSUME k + 1 <= L PROVE Good(k + 1)
    OBVIOUS
  <2>1. k <= L /\ k + 1 \in 1 .. L /\ (k + 1) - 1 = k
    BY <1>1
  <2>2. PICK pos, n : LeavesAt(pos, n, text, k) /\ f[k].parsed = StringsAt(pos, n, text)
    BY <1>5, <2>1
  <2>3. f[k + 1].parsed = IF IsLeaf(text[k + 1]) THEN Append(f[k].parsed, text[k + 1].of)
                          ELSE f[k].parsed
    BY <1>3, <2>1 DEF Stepped
  <2>4. CASE IsLeaf(text[k + 1])
    BY <2>2, <2>3, <2>4, LeavesGrow
  <2>5. CASE ~IsLeaf(text[k + 1])
    <3>1. \A p \in 1 .. k + 1 : p \in 1 .. k \/ p = k + 1
      OBVIOUS
    <3>2. \A p \in 1 .. k : p \in 1 .. k + 1
      OBVIOUS
    <3>3. LeavesAt(pos, n, text, k + 1)
      <4>1. \A i \in 1 .. n : pos[i] \in 1 .. k + 1 /\ IsLeaf(text[pos[i]])
        BY <2>2, <3>2 DEF LeavesAt
      <4>2. \A p \in 1 .. k + 1 : IsLeaf(text[p]) => \E i \in 1 .. n : pos[i] = p
        BY <2>2, <2>5, <3>1 DEF LeavesAt
      <4> QED
        BY <2>2, <4>1, <4>2 DEF LeavesAt
    <3> QED
      BY <2>2, <2>3, <2>5, <3>3
  <2> QED
    BY <2>4, <2>5
<1>6. L \in P
  BY <1>1, <1>4, <1>5, SetInduction
<1> QED
  BY <1>1, <1>2, <1>6 DEF L

(***************************************************************************)
(* LoadTorrentFile's loop, along the text.                                 *)
(***************************************************************************)
\* One string more at the end of a list.
LEMMA ScannedGrows ==
  ASSUME NEW parsed, NEW n \in Nat, Long(parsed, n), NEW x
  PROVE  Scanned(Begun(parsed, x)) = TakeString(Scanned(parsed), x)
<1> DEFINE more == Begun(parsed, x)
<1>1. Len(parsed) = n
  BY LongIs
<1>2. Long(more, n + 1) /\ more[n + 1] = x /\ \A j \in 1 .. n : more[j] = parsed[j]
  BY CallBegins
<1> HIDE DEF more
<1> DEFINE w == n + 1
<1>3. w \in Nat /\ w \in 1 .. w /\ w - 1 = n /\ \A j \in 1 .. n : j \in 1 .. w
  OBVIOUS
<1>4. Len(more) = w
  <2>1. Long(more, w)
    BY <1>2
  <2> HIDE DEF w
  <2> QED
    BY <1>3, <2>1, LongIs
<1>5. PICK g : Scans(g, parsed, n) /\ Scanned(parsed) = g[n]
  BY <1>1, ScanRuns
<1>6. PICK h : Scans(h, more, w) /\ Scanned(more) = h[w]
  BY <1>3, <1>4, ScanRuns
<1> DEFINE P == {k \in Nat : k <= n => h[k] = g[k]}
<1>7. 0 \in P
  BY <1>5, <1>6 DEF Scans
<1>8. ASSUME NEW k \in Nat, k \in P PROVE k + 1 \in P
  <2> SUFFICES ASSUME k + 1 <= n PROVE h[k + 1] = g[k + 1]
    OBVIOUS
  <2>1. k + 1 \in 1 .. n /\ k + 1 \in 1 .. w /\ (k + 1) - 1 = k /\ k <= n
    OBVIOUS
  <2>2. h[k + 1] = TakeString(h[k], more[k + 1]) /\ g[k + 1] = TakeString(g[k], parsed[k + 1])
    BY <1>5, <1>6, <2>1 DEF Scans
  <2> QED
    BY <1>2, <1>8, <2>1, <2>2
<1>9. n \in P
  BY <1>7, <1>8, SetInduction
<1>10. h[w] = TakeString(h[n], more[w])
  BY <1>3, <1>6 DEF Scans
<1> QED
  BY <1>2, <1>5, <1>6, <1>9, <1>10 DEF more

\* The fields found after each token of a text.
ScansText(s, text) ==
    /\ s[0] = [field |-> "none", result |-> NoTorrentFile]
    /\ \A k \in 1 .. Len(text) :
          s[k] = IF IsLeaf(text[k]) THEN TakeString(s[k - 1], text[k].of) ELSE s[k - 1]

\* Brackets change nothing, strings and integers what they change in the list.
LEMMA TextIsScanned ==
  ASSUME NEW text, IsText(text)
  PROVE  \E s : ScansText(s, text) /\ Scanned(Parsed(text).parsed) = s[Len(text)]
<1> DEFINE L == Len(text)
<1>1. L \in Nat
  BY LenProperties DEF IsText
<1>2. PICK f : Runs(f, text, L) /\ Parsed(text) = f[L]
  BY <1>1, ParserRuns
<1>3. \A k \in 1 .. L : Stepped(f, text, k)
  BY <1>2, ParserSteps
<1> DEFINE s == [k \in 0 .. L |-> Scanned(f[k].parsed)]
           P == {k \in Nat : k <= L => \E n \in Nat : Long(f[k].parsed, n)}
<1>4. f[0].parsed = <<>>
  BY <1>2 DEF Runs, NewParser
<1>5. \A k \in 1 .. L : f[k].parsed = IF IsLeaf(text[k]) THEN Begun(f[k - 1].parsed, text[k].of)
                                      ELSE f[k - 1].parsed
  BY <1>3 DEF Stepped, Begun
<1> HIDE DEF L
<1>6. Nat \subseteq P
  <2>1. 0 \in P
    BY <1>4 DEF Long
  <2>2. ASSUME NEW k \in Nat, k \in P PROVE k + 1 \in P
    <3> SUFFICES ASSUME k + 1 <= L PROVE \E n \in Nat : Long(f[k + 1].parsed, n)
      OBVIOUS
    <3>1. k <= L /\ k + 1 \in 1 .. L /\ (k + 1) - 1 = k
      BY <1>1
    <3>2. PICK n \in Nat : Long(f[k].parsed, n)
      BY <2>2, <3>1
    <3> DEFINE p == f[k].parsed
               x == text[k + 1].of
    <3>3. f[k + 1].parsed = Begun(p, x) \/ f[k + 1].parsed = p
      BY <1>5, <3>1
    <3>4. Long(p, n)
      BY <3>2
    <3> HIDE DEF p, x
    <3>5. Long(Begun(p, x), n + 1) /\ n + 1 \in Nat
      BY <3>4, CallBegins
    <3> QED
      BY <3>3, <3>4, <3>5
  <2> QED
    BY <2>1, <2>2, SetInduction
<1>7. s[0] = [field |-> "none", result |-> NoTorrentFile]
  <2> DEFINE e == <<>>
  <2>1. Len(e) = 0
    OBVIOUS
  <2> HIDE DEF e
  <2>2. PICK g : Scans(g, e, Len(e)) /\ Scanned(e) = g[Len(e)]
    BY <2>1, ScanRuns
  <2>3. Scanned(e) = [field |-> "none", result |-> NoTorrentFile]
    BY <2>1, <2>2 DEF Scans
  <2>4. s[0] = Scanned(f[0].parsed)
    BY <1>1
  <2> QED
    BY <1>4, <2>3, <2>4 DEF e
<1>8. ASSUME NEW k \in 1 .. L
      PROVE  s[k] = IF IsLeaf(text[k]) THEN TakeString(s[k - 1], text[k].of) ELSE s[k - 1]
  <2> DEFINE p == f[k - 1].parsed
             x == text[k].of
  <2>1. k - 1 \in Nat /\ k - 1 <= L
    BY <1>1
  <2>2. PICK n \in Nat : Long(p, n)
    BY <1>6, <2>1
  <2>3. s[k] = Scanned(f[k].parsed) /\ s[k - 1] = Scanned(p)
    BY <1>1, <2>1
  <2>4. f[k].parsed = IF IsLeaf(text[k]) THEN Begun(p, x) ELSE p
    BY <1>5
  <2> HIDE DEF s, p, x
  <2>5. Scanned(Begun(p, x)) = TakeString(Scanned(p), x)
    BY <2>2, ScannedGrows
  <2> QED
    BY <2>3, <2>4, <2>5 DEF x
<1>9. s[L] = Scanned(f[L].parsed)
  BY <1>1
<1>10. ScansText(s, text)
  <2> HIDE DEF s
  <2> QED
    BY <1>7, <1>8 DEF ScansText, L
<1> HIDE DEF s
<1> QED
  BY <1>2, <1>9, <1>10 DEF L

FieldNames == {Fields[f] : f \in DOMAIN Fields}

\* The fields and their names.
LEMMA FieldsAre ==
  /\ DOMAIN Fields = {"announce", "comment", "piece_length", "length", "name"}
  /\ Fields["announce"] = "announce" /\ Fields["comment"] = "comment"
  /\ Fields["piece_length"] = "piece length" /\ Fields["length"] = "length" /\ Fields["name"] = "name"
  /\ FieldNames = {"announce", "comment", "piece length", "length", "name"}
  /\ DOMAIN NoTorrentFile = DOMAIN Fields \cup {"info_hash", "piece_hashes"}
<1>1. /\ DOMAIN Fields = {"announce", "comment", "piece_length", "length", "name"}
      /\ Fields["announce"] = "announce" /\ Fields["comment"] = "comment"
      /\ Fields["piece_length"] = "piece length" /\ Fields["length"] = "length" /\ Fields["name"] = "name"
  BY DEF Fields
<1>2. FieldNames = {"announce", "comment", "piece length", "length", "name"}
  BY <1>1 DEF FieldNames
<1>3. DOMAIN NoTorrentFile = DOMAIN Fields \cup {"info_hash", "piece_hashes"}
  BY DEF NoTorrentFile
<1> QED
  BY <1>1, <1>2, <1>3

\* A name is that of its field, any other string that of none.
LEMMA FieldOfIs ==
  /\ \A x : x \notin FieldNames => FieldOf(x) = "none"
  /\ \A f \in DOMAIN Fields : FieldOf(Fields[f]) = f
<1>1. ASSUME NEW x, x \notin FieldNames PROVE FieldOf(x) = "none"
  BY <1>1 DEF FieldOf, FieldNames
<1>2. \A f, g \in DOMAIN Fields : Fields[f] = Fields[g] => f = g
  BY FieldsAre
<1>3. ASSUME NEW f \in DOMAIN Fields PROVE FieldOf(Fields[f]) = f
  <2> DEFINE T == {y \in DOMAIN Fields : Fields[y] = Fields[f]}
  <2>1. T = {f}
    BY <1>2
  <2>2. FieldOf(Fields[f]) = IF T = {} THEN "none" ELSE CHOOSE y \in T : TRUE
    BY DEF FieldOf
  <2> HIDE DEF T
  <2> QED
    BY <2>1, <2>2
<1> QED
  BY <1>1, <1>3

\* Between two fields; the fields so far.
Between(s, k) ==
    /\ s[k] = [field |-> "none", result |-> s[k].result]
    /\ s[k].result = [f \in DOMAIN NoTorrentFile |-> s[k].result[f]]

\* Between two fields, a string without the name of a field changes nothing,
LEMMA NoFieldTaken ==
  ASSUME NEW s, NEW text, ScansText(s, text), NEW k \in 1 .. Len(text), Between(s, k - 1),
         text[k].of \notin FieldNames
  PROVE  s[k] = s[k - 1]
<1> DEFINE p == s[k - 1]
           x == text[k].of
<1>1. s[k] = IF IsLeaf(text[k]) THEN TakeString(p, x) ELSE p
  BY DEF ScansText
<1>2. p.field = "none" /\ p = [field |-> "none", result |-> p.result] /\ FieldOf(x) = "none"
  BY FieldOfIs DEF Between
<1> HIDE DEF p, x
<1>3. TakeString(p, x) = [p EXCEPT !.field = "none"]
  BY <1>2 DEF TakeString
<1>4. [p EXCEPT !.field = "none"] = p
  BY <1>2
<1> QED
  BY <1>1, <1>3, <1>4 DEF p

\* and one with the name of a field makes the next string its value.
LEMMA FieldTaken ==
  ASSUME NEW s, NEW text, ScansText(s, text), NEW k \in 1 .. Len(text), k + 1 <= Len(text),
         Between(s, k - 1), IsLeaf(text[k]), IsLeaf(text[k + 1]),
         NEW f \in DOMAIN Fields, text[k].of = Fields[f]
  PROVE  /\ Between(s, k + 1)
         /\ s[k + 1].result = [s[k - 1].result EXCEPT ![f] = text[k + 1].of]
<1> DEFINE p == s[k - 1]
           q == s[k]
           r == s[k + 1]
           R == p.result
           x == Fields[f]
           y == text[k + 1].of
<1>1. q = TakeString(p, x)
  BY DEF ScansText
<1>2. k + 1 \in 1 .. Len(text) /\ (k + 1) - 1 = k
  OBVIOUS
<1>3. r = TakeString(q, y)
  <2>1. s[k + 1] = IF IsLeaf(text[k + 1]) THEN TakeString(s[(k + 1) - 1], y) ELSE s[(k + 1) - 1]
    BY <1>2 DEF ScansText
  <2> QED
    BY <1>2, <2>1
<1>4. p = [field |-> "none", result |-> R] /\ R = [g \in DOMAIN NoTorrentFile |-> R[g]]
  BY DEF Between
<1>5. FieldOf(x) = f /\ f # "none" /\ f \in DOMAIN NoTorrentFile
  BY FieldOfIs, FieldsAre
<1> HIDE DEF p, x, y, q, r, R
<1>6. q = [field |-> f, result |-> R]
  <2>1. p.field = "none"
    BY <1>4
  <2>2. q = [p EXCEPT !.field = f]
    BY <1>1, <1>5, <2>1 DEF TakeString
  <2> QED
    BY <1>4, <2>2
<1>7. r = [field |-> "none", result |-> [R EXCEPT ![f] = y]]
  <2>1. q.field = f /\ q.result = R
    BY <1>6
  <2> QED
    BY <1>3, <1>5, <2>1 DEF TakeString
<1>8. r.result = [R EXCEPT ![f] = y]
  BY <1>7
<1>9. r.result = [g \in DOMAIN NoTorrentFile |-> r.result[g]]
  BY <1>4, <1>8
<1>10. r = [field |-> "none", result |-> r.result]
  BY <1>7, <1>8
<1> QED
  BY <1>8, <1>9, <1>10 DEF Between, r, R, p, y

\* A part of a text in which nothing has the name of a field changes nothing.
LEMMA NothingTaken ==
  ASSUME NEW s, NEW text, ScansText(s, text), NEW w, NEW o, Found(w, text, o),
         Len(text) \in Nat, Len(w) \in Nat, Between(s, o), \A k \in 1 .. Len(w) : w[k].of \notin FieldNames
  PROVE  s[o + Len(w)] = s[o]
<1> DEFINE l == Len(w)
           L == Len(text)
           P == {k \in Nat : k <= l => s[o + k] = s[o]}
<1>1. o \in Nat /\ o + l <= L /\ \A k \in 1 .. l : text[o + k] = w[k]
  BY DEF Found
<1>2. l \in Nat /\ L \in Nat /\ \A k \in 1 .. l : w[k].of \notin FieldNames
  OBVIOUS
<1>3. \A k \in 1 .. L : Between(s, k - 1) /\ text[k].of \notin FieldNames => s[k] = s[k - 1]
  BY NoFieldTaken
<1> HIDE DEF l, L
<1>4. 0 \in P
  BY <1>1
<1>5. ASSUME NEW k \in Nat, k \in P PROVE k + 1 \in P
  <2> SUFFICES ASSUME k + 1 <= l PROVE s[o + (k + 1)] = s[o]
    OBVIOUS
  <2>1. k <= l /\ k + 1 \in 1 .. l
    BY <1>2
  <2> DEFINE p == o + (k + 1)
  <2>2. p - 1 = o + k
    BY <1>1
  <2>3. 1 <= p /\ p \in Nat
    BY <1>1
  <2>4. p <= o + l
    BY <1>1, <1>2
  <2>5. s[o + k] = s[o]
    BY <1>5, <2>1
  <2>6. text[p].of \notin FieldNames
    BY <1>1, <1>2, <2>1
  <2>7. p \in 1 .. L
    BY <1>1, <1>2, <2>3, <2>4
  <2> HIDE DEF p
  <2>8. Between(s, p - 1)
    BY <2>2, <2>5 DEF Between
  <2> QED
    BY <1>3, <2>2, <2>5, <2>6, <2>7, <2>8 DEF p
<1>6. l \in P
  BY <1>2, <1>4, <1>5, SetInduction
<1> QED
  BY <1>2, <1>6 DEF l

\* An entry of a dictionary, in a text.
EntryAt(entry, text, a, b) ==
    /\ a \in Nat /\ b \in Nat /\ Len(entry.value.text) \in Nat
    /\ b = a + 1 + Len(entry.value.text) /\ b <= Len(text)
    /\ text[a + 1] = Token("str", entry.key)
    /\ Found(entry.value.text, text, a + 1) /\ IsValue(entry.value)

\* The entries of a dictionary are at their places in a text that has its text.
LEMMA EntriesFound ==
  ASSUME NEW v, IsDict(v), NEW at, Laid(v, at), NEW text, NEW o, Found(v.text, text, o),
         Len(text) \in Nat, NEW i \in 1 .. Len(v.entries)
  PROVE  EntryAt(v.entries[i], text, o + at[i - 1], o + at[i])
<1> DEFINE x == at[i - 1]
           y == at[i]
           w == v.entries[i].value.text
           l == Len(w)
           t == v.text
           key == v.entries[i].key
           M == Len(t)
           L == Len(text)
           a == o + x
           b == o + y
<1>1. x \in Nat /\ y \in Nat /\ x + 1 <= y /\ y + 1 <= M /\ l \in Nat /\ y = x + 1 + l
  BY LaidWithin
<1>2. t[x + 1] = Token("str", key) /\ IsValue(v.entries[i].value)
  BY LaidWithin
<1>3. \A k \in 1 .. l : t[x + 1 + k] = w[k]
  <2>1. Found(w, t, x + 1)
    BY LaidWithin
  <2> HIDE DEF w, t, x
  <2> QED
    BY <2>1 DEF Found
<1>4. o \in Nat /\ o + M <= L /\ \A k \in 1 .. M : text[o + k] = t[k]
  BY DEF Found
<1>5. M \in Nat /\ L \in Nat
  BY DictText, LenProperties DEF IsText
<1> HIDE DEF x, y, w, l, t, key, M, L
<1>6. a \in Nat /\ b \in Nat /\ b = a + 1 + l /\ b <= L
  BY <1>1, <1>4, <1>5
<1>7. x + 1 \in 1 .. M /\ a + 1 = o + (x + 1)
  BY <1>1, <1>4, <1>5
<1>8. text[a + 1] = Token("str", key)
  BY <1>2, <1>4, <1>7
<1>9. \A k \in 1 .. l : x + 1 + k \in 1 .. M /\ (a + 1) + k = o + (x + 1 + k)
  BY <1>1, <1>4, <1>5
<1>10. \A k \in 1 .. l : text[(a + 1) + k] = w[k]
  BY <1>3, <1>4, <1>9
<1>11. a + 1 \in Nat /\ (a + 1) + l <= L
  BY <1>6
<1> HIDE DEF a, b
<1>12. Found(w, text, a + 1)
  BY <1>10, <1>11 DEF Found, l, L
<1>13. EntryAt(v.entries[i], text, a, b)
  <2>1. a \in Nat /\ b \in Nat /\ Len(v.entries[i].value.text) \in Nat
        /\ b = a + 1 + Len(v.entries[i].value.text) /\ b <= Len(text)
    BY <1>1, <1>6 DEF l, L, w
  <2>2. text[a + 1] = Token("str", v.entries[i].key)
    BY <1>8 DEF key
  <2>3. Found(v.entries[i].value.text, text, a + 1) /\ IsValue(v.entries[i].value)
    BY <1>2, <1>12 DEF w
  <2> QED
    BY <2>1, <2>2, <2>3 DEF EntryAt
<1> QED
  BY <1>13 DEF a, b, x, y

\* What LoadTorrentFile makes of an entry.
Takes(s, entry, a, b) ==
    /\ Between(s, b)
    /\ \A f \in DOMAIN Fields :
          s[b].result[f] = IF entry.key = Fields[f] THEN entry.value.of ELSE s[a].result[f]

\* An entry in which nothing has the name of a field.
IsSilent(entry) ==
    /\ entry.key \notin FieldNames
    /\ \A k \in 1 .. Len(entry.value.text) : entry.value.text[k].of \notin FieldNames

\* Nothing is taken from it,
LEMMA SilentEntry ==
  ASSUME NEW s, NEW text, ScansText(s, text), Len(text) \in Nat, NEW a, NEW b, NEW entry,
         EntryAt(entry, text, a, b), Between(s, a), IsSilent(entry)
  PROVE  s[b] = s[a] /\ Takes(s, entry, a, b)
<1> DEFINE w == entry.value.text
           l == Len(w)
           L == Len(text)
           u == a + 1
<1>1. /\ a \in Nat /\ b \in Nat /\ l \in Nat /\ L \in Nat /\ b = a + 1 + l /\ b <= L
      /\ text[u] = Token("str", entry.key)
      /\ Found(w, text, u)
  BY DEF EntryAt
<1>2. entry.key \notin FieldNames /\ \A k \in 1 .. l : w[k].of \notin FieldNames
  BY DEF IsSilent
<1> HIDE DEF w, l, L
<1>3. u \in 1 .. L /\ u - 1 = a /\ b = u + l
  BY <1>1
<1>4. text[u].of = entry.key
  BY <1>1, TokenIs
<1> HIDE DEF u
<1>5. s[u] = s[a]
  BY <1>2, <1>3, <1>4, NoFieldTaken DEF L
<1>6. s[u + l] = s[u]
  <2>1. Between(s, u)
    BY <1>5 DEF Between
  <2> QED
    BY <1>1, <1>2, <2>1, NothingTaken DEF l
<1>7. s[b] = s[a]
  BY <1>3, <1>5, <1>6
<1>8. Between(s, b)
  BY <1>7 DEF Between
<1>9. \A f \in DOMAIN Fields : entry.key # Fields[f]
  BY <1>2 DEF FieldNames
<1> QED
  BY <1>7, <1>8, <1>9 DEF Takes

\* and from a key with the name of a field its value.
LEMMA FieldEntry ==
  ASSUME NEW s, NEW text, ScansText(s, text), Len(text) \in Nat, NEW a, NEW b, NEW entry,
         EntryAt(entry, text, a, b), Between(s, a), IsField(entry, FieldNames)
  PROVE  Takes(s, entry, a, b)
<1> DEFINE w == entry.value.text
           l == Len(w)
           L == Len(text)
           u == a + 1
           x == entry.value.of
           token == Token(entry.value.kind, x)
<1>1. /\ a \in Nat /\ b \in Nat /\ l \in Nat /\ L \in Nat /\ b = a + 1 + l /\ b <= L
      /\ text[u] = Token("str", entry.key)
      /\ Found(w, text, u) /\ IsValue(entry.value)
  BY DEF EntryAt
<1>2. entry.value.kind \in {"str", "int"} /\ entry.key \in FieldNames
  BY DEF IsField
<1>3. w = <<token>> 
  BY <1>1, <1>2 DEF IsValue
<1>4. l = 1 /\ w[1] = token
  BY <1>3
<1> HIDE DEF w, l, L, token, x
<1>5. u \in 1 .. L /\ u + 1 <= L /\ u - 1 = a /\ b = u + 1 /\ 1 \in 1 .. l
  BY <1>1, <1>4
<1>6. text[u].of = entry.key /\ IsLeaf(text[u])
  BY <1>1, TokenIs DEF IsLeaf
<1>7. text[u + 1] = token
  BY <1>1, <1>4, <1>5 DEF Found, l
<1>8. text[u + 1].of = x /\ IsLeaf(text[u + 1])
  BY <1>2, <1>7, TokenIs DEF token, IsLeaf
<1>9. PICK f \in DOMAIN Fields : entry.key = Fields[f]
  BY <1>2 DEF FieldNames
<1> HIDE DEF u
<1>10. Between(s, u + 1) /\ s[u + 1].result = [s[u - 1].result EXCEPT ![f] = text[u + 1].of]
  <2>1. Between(s, u - 1)
    BY <1>5
  <2> QED
    BY <1>5, <1>6, <1>8, <1>9, <2>1, FieldTaken DEF L
<1>11. Between(s, b) /\ s[b].result = [s[a].result EXCEPT ![f] = x]
  BY <1>5, <1>8, <1>10
<1>12. s[a].result = [g \in DOMAIN NoTorrentFile |-> s[a].result[g]]
  BY DEF Between
<1>13. \A g \in DOMAIN Fields : s[b].result[g] = IF g = f THEN x ELSE s[a].result[g]
  <2>1. DOMAIN Fields \subseteq DOMAIN NoTorrentFile
    BY FieldsAre
  <2> DEFINE R == s[a].result
             Q == s[b].result
  <2>2. R = [g \in DOMAIN NoTorrentFile |-> R[g]] /\ Q = [R EXCEPT ![f] = x]
    BY <1>11, <1>12
  <2> HIDE DEF R, Q
  <2>3. \A g \in DOMAIN Fields : Q[g] = IF g = f THEN x ELSE R[g]
    BY <2>1, <2>2
  <2> QED
    BY <2>3 DEF R, Q
<1>14. \A g \in DOMAIN Fields : entry.key = Fields[g] <=> g = f
  BY <1>9, FieldOfIs
<1> QED
  BY <1>11, <1>13, <1>14 DEF Takes, x

\* The value of a key is that of the entry with this key, if there is one.
LEMMA ValueAtIs ==
  ASSUME NEW v, IsDict(v), NEW name
  PROVE  /\ \A q \in 1 .. Len(v.entries) :
               v.entries[q].key = name => ValueAt(v, name) = v.entries[q].value
         /\ (\A q \in 1 .. Len(v.entries) : v.entries[q].key # name) => ValueAt(v, name).of = ""
<1> DEFINE at == {k \in DOMAIN v.entries : v.entries[k].key = name}
<1>1. DOMAIN v.entries = 1 .. Len(v.entries)
  BY DictText
<1>2. \A j, k \in DOMAIN v.entries : v.entries[j].key = v.entries[k].key => j = k
  BY DEF IsDict
<1>3. ValueAt(v, name) = IF at = {} THEN Str("") ELSE v.entries[CHOOSE k \in at : TRUE].value
  BY DEF ValueAt
<1>4. ASSUME NEW q \in 1 .. Len(v.entries), v.entries[q].key = name
      PROVE  ValueAt(v, name) = v.entries[q].value
  <2>1. at = {q}
    BY <1>1, <1>2, <1>4
  <2> HIDE DEF at
  <2> QED
    BY <1>3, <2>1
<1>5. ASSUME \A q \in 1 .. Len(v.entries) : v.entries[q].key # name PROVE ValueAt(v, name).of = ""
  <2>1. at = {}
    BY <1>1, <1>5
  <2>2. Str("").of = ""
    BY DEF Str, Value
  <2> HIDE DEF at
  <2> QED
    BY <1>3, <2>1, <2>2
<1> QED
  BY <1>4, <1>5

\* What no step of a list changes is the same after all of them.
LEMMA Constant ==
  ASSUME NEW R, NEW x \in Nat, NEW y \in Nat, x <= y, \A i \in x + 1 .. y : R[i] = R[i - 1]
  PROVE  R[y] = R[x]
<1> DEFINE P == {k \in Nat : x + k <= y => R[x + k] = R[x]}
<1>1. 0 \in P
  OBVIOUS
<1>2. ASSUME NEW k \in Nat, k \in P PROVE k + 1 \in P
  <2> SUFFICES ASSUME x + (k + 1) <= y PROVE R[x + (k + 1)] = R[x]
    OBVIOUS
  <2> DEFINE i == x + (k + 1)
  <2>1. i \in x + 1 .. y /\ i - 1 = x + k /\ x + k <= y
    OBVIOUS
  <2>2. R[x + k] = R[x]
    BY <1>2, <2>1
  <2> HIDE DEF i, P
  <2> QED
    BY <2>1, <2>2 DEF i
<1> DEFINE d == y - x
<1>3. d \in Nat /\ x + d = y
  OBVIOUS
<1>4. d \in P
  <2> HIDE DEF d, P
  <2> QED
    BY <1>1, <1>2, <1>3, SetInduction
<1> QED
  BY <1>3, <1>4

\* The entry with a name decides.
LEMMA KeyDecides ==
  ASSUME NEW v, IsDict(v), NEW name, NEW R,
         \A i \in 1 .. Len(v.entries) :
            R[i] = IF v.entries[i].key = name THEN v.entries[i].value.of ELSE R[i - 1]
  PROVE  R[Len(v.entries)] = IF \E i \in 1 .. Len(v.entries) : v.entries[i].key = name
                             THEN ValueAt(v, name).of ELSE R[0]
<1> DEFINE m == Len(v.entries)
<1>1. m \in Nat /\ DOMAIN v.entries = 1 .. m
  BY DictText
<1>2. \A j, k \in 1 .. m : v.entries[j].key = v.entries[k].key => j = k
  BY <1>1 DEF IsDict
<1>3. \A i \in 1 .. m : R[i] = IF v.entries[i].key = name THEN v.entries[i].value.of ELSE R[i - 1]
  OBVIOUS
<1>4. \A q \in 1 .. m : v.entries[q].key = name => ValueAt(v, name) = v.entries[q].value
  BY ValueAtIs
<1> HIDE DEF m
<1>5. CASE \E q \in 1 .. m : v.entries[q].key = name
  <2>1. PICK q \in 1 .. m : v.entries[q].key = name
    BY <1>5
  <2>2. q \in Nat /\ q <= m /\ \A i \in q + 1 .. m : i \in 1 .. m /\ i # q
    BY <1>1
  <2>3. \A i \in q + 1 .. m : R[i] = R[i - 1]
    BY <1>2, <1>3, <2>1, <2>2
  <2>4. R[m] = R[q]
    BY <1>1, <2>2, <2>3, Constant
  <2> QED
    BY <1>3, <1>4, <1>5, <2>1, <2>4 DEF m
<1>6. CASE ~\E q \in 1 .. m : v.entries[q].key = name
  <2> DEFINE z == 0
  <2>1. z \in Nat /\ z <= m /\ \A i \in z + 1 .. m : i \in 1 .. m
    BY <1>1
  <2> HIDE DEF z
  <2>2. \A i \in z + 1 .. m : R[i] = R[i - 1]
    BY <1>3, <1>6, <2>1
  <2>3. R[m] = R[z]
    BY <1>1, <2>1, <2>2, Constant
  <2> QED
    BY <1>6, <2>3 DEF z, m
<1> QED
  BY <1>5, <1>6

(***************************************************************************)
(* A dictionary as a whole: what its entries do.                           *)
(***************************************************************************)
\* If nothing or the value of its key is taken from every entry, a field is that of its key.
LEMMA DictTakes ==
  ASSUME NEW s, NEW text, ScansText(s, text), Len(text) \in Nat,
         NEW v, IsDict(v), NEW at, Laid(v, at), NEW o, Found(v.text, text, o), Between(s, o),
         \A i \in 1 .. Len(v.entries) :
            Between(s, o + at[i - 1]) => Between(s, o + at[i])
  PROVE  /\ s[o + at[0]] = s[o] /\ s[o + Len(v.text)] = s[o + at[Len(v.entries)]]
         /\ \A i \in 0 .. Len(v.entries) : Between(s, o + at[i])
<1> DEFINE m == Len(v.entries)
           t == v.text
           M == Len(t)
           L == Len(text)
           z == at[m]
           u == o + 1
           w == o + M
<1>1. m \in Nat /\ M \in Nat /\ L \in Nat
  BY DictText, LenProperties DEF IsText
<1>2. /\ at \in [0 .. m -> Nat] /\ at[0] = 1 /\ M = at[m] + 1
      /\ t[1] = Token("d", "") /\ t[at[m] + 1] = Token("e", "")
  BY DEF Laid
<1>3. o \in Nat /\ o + M <= L /\ \A k \in 1 .. M : text[o + k] = t[k]
  BY DEF Found
<1>i. \A i \in 1 .. m : Between(s, o + at[i - 1]) => Between(s, o + at[i])
  OBVIOUS
<1> HIDE DEF m, t, M, L
<1>4. z \in Nat /\ M = z + 1
  <2> m \in 0 .. m
    BY <1>1
  <2> QED
    BY <1>2
<1>5. t[1] = Token("d", "") /\ t[M] = Token("e", "")
  BY <1>2, <1>4
<1> HIDE DEF z
<1>6. /\ 1 \in 1 .. M /\ M \in 1 .. M /\ u \in 1 .. L /\ w \in 1 .. L
      /\ u - 1 = o /\ w - 1 = o + z
  BY <1>1, <1>3, <1>4
<1>7. ~IsLeaf(text[u]) /\ ~IsLeaf(text[w])
  <2>1. text[u] = t[1] /\ text[w] = t[M]
    BY <1>3, <1>6
  <2>2. text[u].kind = "d" /\ text[w].kind = "e"
    <3>1. text[u] = Token("d", "") /\ text[w] = Token("e", "")
      BY <1>5, <2>1
    <3> QED
      BY <3>1, TokenIs
  <2> HIDE DEF u, w
  <2> QED
    BY <2>2 DEF IsLeaf
<1> HIDE DEF u, w
<1>8. s[u] = s[o] /\ s[w] = s[o + z]
  BY <1>6, <1>7 DEF ScansText, L
<1> DEFINE P == {k \in Nat : k <= m => Between(s, o + at[k])}
<1>9. 0 \in P
  <2>1. Between(s, u)
    BY <1>8 DEF Between
  <2> QED
    BY <1>2, <2>1 DEF u
<1>10. ASSUME NEW k \in Nat, k \in P PROVE k + 1 \in P
  <2> SUFFICES ASSUME k + 1 <= m PROVE Between(s, o + at[k + 1])
    OBVIOUS
  <2>1. k <= m /\ k + 1 \in 1 .. m /\ (k + 1) - 1 = k
    BY <1>1
  <2> QED
    BY <1>10, <1>i, <2>1
<1>11. Nat \subseteq P
  BY <1>9, <1>10, SetInduction
<1>12. \A i \in 0 .. m : Between(s, o + at[i])
  BY <1>1, <1>11
<1>13. o + at[0] = u /\ o + Len(v.text) = w
  BY <1>2 DEF u, w, M, t
<1> QED
  BY <1>8, <1>12, <1>13 DEF z, m

\* An entry that is not a field has the name of none.
LEMMA NotAField ==
  ASSUME NEW entry, NEW text, NEW a, NEW b, EntryAt(entry, text, a, b),
         IsPlain(entry) \/ IsPieces(entry)
  PROVE  IsSilent(entry)
<1>1. FieldNames \cup {"pieces"} = Names
  BY DEF FieldNames, Names
<1> DEFINE w == entry.value.text
           l == Len(w)
<1>2. IsText(w) /\ l \in Nat /\ DOMAIN w = 1 .. l
  BY LenProperties DEF EntryAt, IsValue, IsText
<1>3. CASE IsPlain(entry)
  <2>1. entry.key \notin FieldNames /\ \A k \in 1 .. l : w[k].of \notin FieldNames
    BY <1>1, <1>2, <1>3 DEF IsPlain
  <2> QED
    BY <2>1 DEF IsSilent
<1>4. CASE IsPieces(entry)
  <2> DEFINE x == entry.value.of
             token == Token("str", x)
  <2>1. entry.key = "pieces" /\ entry.value.kind = "str" /\ x \notin Names
    BY <1>4 DEF IsPieces
  <2>2. w = <<token>>
    BY <2>1 DEF EntryAt, IsValue
  <2>3. token.of = x
    BY TokenIs
  <2> HIDE DEF token, x
  <2>4. \A k \in 1 .. l : w[k] = token
    BY <2>2
  <2>5. "pieces" \notin FieldNames
    BY FieldsAre
  <2> HIDE DEF w, l
  <2>6. \A k \in 1 .. l : w[k].of \notin FieldNames
    BY <1>1, <2>1, <2>3, <2>4
  <2> QED
    BY <2>1, <2>5, <2>6 DEF IsSilent, w, l
<1> QED
  BY <1>3, <1>4

\* LoadTorrentFile takes the fields of "info".
LEMMA InfoIsScanned ==
  ASSUME NEW s, NEW text, ScansText(s, text), Len(text) \in Nat,
         NEW v, IsInfo(v), NEW o, Found(v.text, text, o), Between(s, o)
  PROVE  /\ Between(s, o + Len(v.text))
         /\ \A f \in DOMAIN Fields :
               s[o + Len(v.text)].result[f] =
                  IF \E i \in 1 .. Len(v.entries) : v.entries[i].key = Fields[f]
                  THEN ValueAt(v, Fields[f]).of ELSE s[o].result[f]
<1> DEFINE m == Len(v.entries)
           e(i) == v.entries[i]
<1>1. IsDict(v) /\ DOMAIN v.entries = 1 .. m /\ m \in Nat
  BY DictText DEF IsInfo
<1>2. PICK at : Laid(v, at)
  BY <1>1, DictText
<1>3. \A i \in 1 .. m : EntryAt(e(i), text, o + at[i - 1], o + at[i])
  BY <1>1, <1>2, EntriesFound
<1>4. \A i \in 1 .. m : IsPlain(e(i)) \/ IsPieces(e(i)) \/ IsField(e(i), FieldNames)
  <2> TAKE i \in 1 .. m
  <2>1. IsPlain(e(i)) \/ IsPieces(e(i)) \/ IsField(e(i), {"piece length", "length", "name"})
    BY <1>1 DEF IsInfo
  <2> QED
    BY <2>1, FieldsAre DEF IsField
<1>a. /\ ScansText(s, text) /\ Len(text) \in Nat /\ Found(v.text, text, o) /\ Between(s, o)
  OBVIOUS
<1> HIDE DEF m, e
<1>5. ASSUME NEW i \in 1 .. m, Between(s, o + at[i - 1])
      PROVE  Takes(s, e(i), o + at[i - 1], o + at[i])
  <2> DEFINE a == o + at[i - 1]
             b == o + at[i]
             x == e(i)
  <2>1. EntryAt(x, text, a, b) /\ Between(s, a)
    BY <1>3, <1>5
  <2>2. IsPlain(x) \/ IsPieces(x) \/ IsField(x, FieldNames)
    BY <1>4
  <2> HIDE DEF a, b, x
  <2>3. CASE IsField(x, FieldNames)
    <3>1. Takes(s, x, a, b)
      BY <1>a, <2>1, <2>3, FieldEntry
    <3> QED
      BY <3>1 DEF x, a, b
  <2>4. CASE IsPlain(x) \/ IsPieces(x)
    <3>1. IsSilent(x)
      BY <2>1, <2>4, NotAField
    <3>2. Takes(s, x, a, b)
      BY <1>a, <2>1, <3>1, SilentEntry
    <3> QED
      BY <3>2 DEF x, a, b
  <2> QED
    BY <2>2, <2>3, <2>4
<1>6. \A i \in 1 .. m : Between(s, o + at[i - 1]) => Between(s, o + at[i])
  BY <1>5 DEF Takes
<1>7. /\ s[o + at[0]] = s[o] /\ s[o + Len(v.text)] = s[o + at[m]]
      /\ \A i \in 0 .. m : Between(s, o + at[i])
  BY <1>1, <1>2, <1>6, <1>a, DictTakes DEF m
<1>8. \A i \in 1 .. m : Takes(s, e(i), o + at[i - 1], o + at[i])
  <2> TAKE i \in 1 .. m
  <2>1. i - 1 \in 0 .. m
    BY <1>1
  <2> QED
    BY <1>5, <1>7, <2>1
<1>9. ASSUME NEW f \in DOMAIN Fields
      PROVE  s[o + Len(v.text)].result[f] =
                IF \E i \in 1 .. m : e(i).key = Fields[f]
                THEN ValueAt(v, Fields[f]).of ELSE s[o].result[f]
  <2> DEFINE R == [i \in 0 .. m |-> s[o + at[i]].result[f]]
  <2>1. ASSUME NEW i \in 1 .. m PROVE R[i] = IF e(i).key = Fields[f] THEN e(i).value.of ELSE R[i - 1]
    <3>1. i - 1 \in 0 .. m /\ i \in 0 .. m
      BY <1>1
    <3>2. s[o + at[i]].result[f] = IF e(i).key = Fields[f] THEN e(i).value.of
                                   ELSE s[o + at[i - 1]].result[f]
      BY <1>8 DEF Takes
    <3> QED
      BY <3>1, <3>2
  <2>2. R[m] = s[o + Len(v.text)].result[f] /\ R[0] = s[o].result[f]
    BY <1>1, <1>7
  <2> DEFINE name == Fields[f]
  <2> HIDE DEF R, name
  <2>3. R[m] = IF \E i \in 1 .. m : e(i).key = name THEN ValueAt(v, name).of ELSE R[0]
    BY <1>1, <2>1, KeyDecides DEF m, e, name
  <2> QED
    BY <2>2, <2>3 DEF name
<1>10. Between(s, o + Len(v.text))
  <2>1. m \in 0 .. m
    BY <1>1
  <2> QED
    BY <1>7, <2>1 DEF Between
<1> QED
  BY <1>9, <1>10 DEF m, e

Inside == {"piece_length", "length", "name"}

\* The names of the fields of "info".
LEMMA InfoKeys ==
  ASSUME NEW v, IsInfo(v), NEW i \in 1 .. Len(v.entries), NEW f \in {"announce", "comment"}
  PROVE  v.entries[i].key # Fields[f]
<1> DEFINE e == v.entries[i]
<1>1. i \in DOMAIN v.entries
  BY DictText DEF IsInfo
<1>2. IsPlain(e) \/ IsPieces(e) \/ IsField(e, {"piece length", "length", "name"})
  BY <1>1 DEF IsInfo
<1>3. Fields[f] \in FieldNames /\ FieldNames \cup {"pieces"} = Names /\ Fields[f] \in {"announce", "comment"}
  <2>1. Fields[f] \in {"announce", "comment"}
    BY FieldsAre
  <2>2. FieldNames \cup {"pieces"} = Names
    BY DEF FieldNames, Names
  <2> QED
    BY <2>1, <2>2, FieldsAre
<1> HIDE DEF e
<1>4. CASE IsPlain(e)
  BY <1>3, <1>4 DEF IsPlain, e
<1>5. CASE IsPieces(e)
  BY <1>3, <1>5 DEF IsPieces, e
<1>6. CASE IsField(e, {"piece length", "length", "name"})
  BY <1>3, <1>6 DEF IsField, e
<1> QED
  BY <1>2, <1>4, <1>5, <1>6

\* What LoadTorrentFile makes of "info", and of what goes before.
LEMMA InfoEntry ==
  ASSUME NEW s, NEW text, ScansText(s, text), Len(text) \in Nat, NEW a, NEW b, NEW entry,
         EntryAt(entry, text, a, b), Between(s, a), entry.key = "info", IsInfo(entry.value)
  PROVE  /\ Between(s, b)
         /\ \A f \in DOMAIN Fields :
               s[b].result[f] =
                  IF \E i \in 1 .. Len(entry.value.entries) : entry.value.entries[i].key = Fields[f]
                  THEN ValueAt(entry.value, Fields[f]).of ELSE s[a].result[f]
<1> DEFINE w == entry.value.text
           l == Len(w)
           L == Len(text)
           u == a + 1
           v == entry.value
<1>1. /\ a \in Nat /\ b \in Nat /\ l \in Nat /\ L \in Nat /\ b = a + 1 + l /\ b <= L
      /\ text[u] = Token("str", entry.key)
      /\ Found(w, text, u)
  BY DEF EntryAt
<1>2. IsInfo(v) /\ entry.key \notin FieldNames
  BY FieldsAre
<1>a. ScansText(s, text) /\ Len(text) \in Nat
  OBVIOUS
<1> HIDE DEF w, l, L, v
<1>3. u \in 1 .. L /\ u - 1 = a /\ b = u + l
  BY <1>1
<1>4. text[u].of = entry.key
  BY <1>1, TokenIs
<1> HIDE DEF u
<1>5. s[u] = s[a]
  BY <1>2, <1>3, <1>4, NoFieldTaken DEF L
<1>6. Between(s, u) /\ Found(v.text, text, u)
  BY <1>1, <1>5 DEF Between, w, v
<1>7. /\ Between(s, u + Len(v.text))
      /\ \A f \in DOMAIN Fields :
            s[u + Len(v.text)].result[f] =
               IF \E i \in 1 .. Len(v.entries) : v.entries[i].key = Fields[f]
               THEN ValueAt(v, Fields[f]).of ELSE s[u].result[f]
  BY <1>2, <1>6, <1>a, InfoIsScanned
<1>8. b = u + Len(v.text)
  BY <1>3 DEF l, w, v
<1> QED
  BY <1>5, <1>7, <1>8 DEF v

\* The fields that LoadTorrentFile finds are those of the file.
LEMMA TorrentIsScanned ==
  ASSUME NEW v, IsTorrent(v), NEW q \in 1 .. Len(v.entries), v.entries[q].key = "info"
  PROVE  /\ \A f \in {"announce", "comment"} :
               Scanned(Parsed(v.text).parsed).result[f] = ValueAt(v, Fields[f]).of
         /\ \A f \in Inside :
               Scanned(Parsed(v.text).parsed).result[f] = ValueAt(v.entries[q].value, Fields[f]).of
         /\ Scanned(Parsed(v.text).parsed).result =
               [f \in DOMAIN NoTorrentFile |-> Scanned(Parsed(v.text).parsed).result[f]]
<1> DEFINE m == Len(v.entries)
           e(i) == v.entries[i]
           t == v.text
           L == Len(t)
<1>1. IsDict(v) /\ DOMAIN v.entries = 1 .. m /\ m \in Nat /\ IsText(t)
  BY DictText DEF IsTorrent
<1>2. PICK at : Laid(v, at)
  BY <1>1, DictText
<1>L. L \in Nat
  BY <1>1, LenProperties DEF IsText
<1> DEFINE z == 0
           A(i) == z + at[i]
<1>z. Found(t, t, z)
  <2> z + L <= L /\ \A k \in 1 .. L : z + k = k
    BY <1>L
  <2> QED
    BY DEF Found
<1>q. q \in 1 .. m /\ e(q).key = "info"
  OBVIOUS
<1>3. PICK s : ScansText(s, t) /\ Scanned(Parsed(t).parsed) = s[L]
  BY <1>1, TextIsScanned
<1>4. \A i \in 1 .. m : IsPlain(e(i)) \/ IsField(e(i), {"announce", "comment"})
                        \/ (e(i).key = "info" /\ IsInfo(e(i).value))
  BY <1>1 DEF IsTorrent
<1>5. \A i \in 1 .. m : e(i).key = "info" <=> i = q
  BY <1>1, <1>q DEF IsDict
<1>b. Between(s, z)
  <2>1. s[z] = [field |-> "none", result |-> NoTorrentFile]
    BY <1>3 DEF ScansText
  <2>2. NoTorrentFile = [f \in DOMAIN NoTorrentFile |-> NoTorrentFile[f]]
    BY DEF NoTorrentFile
  <2> HIDE DEF z
  <2> QED
    BY <2>1, <2>2 DEF Between
<1>n. \A f \in DOMAIN Fields : s[z].result[f] = ""
  <2>1. s[z] = [field |-> "none", result |-> NoTorrentFile]
    BY <1>3 DEF ScansText
  <2>2. \A f \in DOMAIN Fields : NoTorrentFile[f] = ""
    BY FieldsAre DEF NoTorrentFile
  <2>3. s[z].result = NoTorrentFile
    BY <2>1
  <2> HIDE DEF z
  <2> QED
    BY <2>2, <2>3
<1> HIDE DEF z
<1>6. \A i \in 1 .. m : EntryAt(e(i), t, A(i - 1), A(i))
  BY <1>1, <1>2, <1>z, <1>L, EntriesFound
<1> HIDE DEF m, e, t, L, A
<1>7. ASSUME NEW i \in 1 .. m, Between(s, A(i - 1))
      PROVE  /\ Between(s, A(i))
             /\ i # q => Takes(s, e(i), A(i - 1), A(i)) /\ \A f \in Inside : e(i).key # Fields[f]
             /\ i = q => \A f \in DOMAIN Fields :
                            s[A(i)].result[f] =
                              IF \E j \in 1 .. Len(e(q).value.entries) :
                                    e(q).value.entries[j].key = Fields[f]
                              THEN ValueAt(e(q).value, Fields[f]).of ELSE s[A(i - 1)].result[f]
  <2> DEFINE x == e(i)
             a == A(i - 1)
             b == A(i)
  <2>1. EntryAt(x, t, a, b) /\ Between(s, a) /\ ScansText(s, t) /\ Len(t) \in Nat
    BY <1>3, <1>6, <1>7, <1>L DEF L
  <2>2. IsPlain(x) \/ IsField(x, {"announce", "comment"}) \/ (x.key = "info" /\ IsInfo(x.value))
    BY <1>4
  <2>3. (x.key = "info") <=> i = q
    BY <1>5
  <2> HIDE DEF x, a, b
  <2>4. CASE IsPlain(x)
    <3>1. IsSilent(x)
      BY <2>1, <2>4, NotAField
    <3>2. Takes(s, x, a, b)
      BY <2>1, <3>1, SilentEntry
    <3>3. x.key # "info" /\ \A f \in Inside : x.key # Fields[f]
      BY <2>4, FieldsAre DEF IsPlain, Names, Inside
    <3> QED
      BY <2>3, <3>2, <3>3 DEF Takes, x, a, b
  <2>5. CASE IsField(x, {"announce", "comment"})
    <3>1. x.key \in {"announce", "comment"} /\ IsField(x, FieldNames)
      BY <2>5, FieldsAre DEF IsField
    <3>2. Takes(s, x, a, b)
      BY <2>1, <3>1, FieldEntry
    <3>3. x.key # "info" /\ \A f \in Inside : x.key # Fields[f]
      BY <3>1, FieldsAre DEF Inside
    <3> QED
      BY <2>3, <3>2, <3>3 DEF Takes, x, a, b
  <2>6. CASE x.key = "info" /\ IsInfo(x.value)
    <3>1. /\ Between(s, b)
          /\ \A f \in DOMAIN Fields :
                s[b].result[f] = IF \E j \in 1 .. Len(x.value.entries) : x.value.entries[j].key = Fields[f]
                                 THEN ValueAt(x.value, Fields[f]).of ELSE s[a].result[f]
      BY <2>1, <2>6, InfoEntry
    <3>2. i = q
      BY <2>3, <2>6
    <3> QED
      BY <3>1, <3>2 DEF x, a, b
  <2> QED
    BY <2>2, <2>4, <2>5, <2>6
<1>8. \A i \in 1 .. m : Between(s, A(i - 1)) => Between(s, A(i))
  BY <1>7
<1>9. /\ s[A(0)] = s[z] /\ s[z + L] = s[A(m)]
      /\ \A i \in 0 .. m : Between(s, A(i))
  <2>1. \A i \in 1 .. Len(v.entries) : Between(s, z + at[i - 1]) => Between(s, z + at[i])
    BY <1>8 DEF A, m
  <2>2. Found(v.text, t, z) /\ ScansText(s, t) /\ Len(t) \in Nat
    BY <1>3, <1>z, <1>L DEF t, L
  <2> QED
    BY <1>1, <1>2, <1>b, <2>1, <2>2, DictTakes DEF A, m, L, t
<1>10. s[L] = s[A(m)]
  <2> z + L = L
    BY <1>L DEF z
  <2> QED
    BY <1>9
<1>11. \A i \in 1 .. m : i \in 0 .. m /\ i - 1 \in 0 .. m
  BY <1>1
<1>12. IsInfo(e(q).value)
  <2>1. e(q).key = "info" /\ {"announce", "comment"} \subseteq FieldNames /\ "info" \notin FieldNames
    BY <1>q, FieldsAre
  <2> QED
    BY <1>4, <1>q, <2>1 DEF IsPlain, IsField
<1>13. ASSUME NEW f \in {"announce", "comment"} PROVE s[L].result[f] = ValueAt(v, Fields[f]).of
  <2> DEFINE R == [i \in 0 .. m |-> s[A(i)].result[f]]
             name == Fields[f]
  <2>1. f \in DOMAIN Fields /\ name \in {"announce", "comment"} /\ name # "info"
    BY FieldsAre
  <2>2. ASSUME NEW i \in 1 .. m PROVE R[i] = IF e(i).key = name THEN e(i).value.of ELSE R[i - 1]
    <3>1. Between(s, A(i - 1)) /\ R[i] = s[A(i)].result[f] /\ R[i - 1] = s[A(i - 1)].result[f]
      BY <1>9, <1>11
    <3>2. CASE i # q
      <4>1. Takes(s, e(i), A(i - 1), A(i))
        BY <1>7, <3>1, <3>2
      <4> QED
        BY <2>1, <3>1, <4>1 DEF Takes
    <3>3. CASE i = q
      <4>1. \A j \in 1 .. Len(e(q).value.entries) : e(q).value.entries[j].key # name
        BY <1>12, InfoKeys
      <4>2. s[A(i)].result[f] = s[A(i - 1)].result[f]
        BY <1>7, <2>1, <3>1, <3>3, <4>1
      <4>3. e(i).key = "info"
        BY <1>q, <3>3
      <4> QED
        BY <2>1, <3>1, <4>2, <4>3
    <3> QED
      BY <3>2, <3>3
  <2>3. R[m] = s[L].result[f] /\ R[0] = ""
    <3>1. m \in 0 .. m /\ 0 \in 0 .. m
      BY <1>1
    <3>2. s[A(0)].result[f] = ""
      BY <1>9, <1>n, <2>1
    <3> QED
      BY <1>10, <3>1, <3>2
  <2> HIDE DEF R, name
  <2>4. R[m] = IF \E i \in 1 .. m : e(i).key = name THEN ValueAt(v, name).of ELSE R[0]
    <3>1. \A i \in 1 .. Len(v.entries) :
             R[i] = IF v.entries[i].key = name THEN v.entries[i].value.of ELSE R[i - 1]
      BY <2>2 DEF m, e
    <3>2. IsDict(v)
      BY <1>1
    <3> QED
      BY <3>1, <3>2, KeyDecides DEF m, e
  <2>5. (\A i \in 1 .. m : e(i).key # name) => ValueAt(v, name).of = ""
    BY <1>1, ValueAtIs DEF m, e
  <2> QED
    BY <2>3, <2>4, <2>5 DEF name
<1>14. ASSUME NEW f \in Inside PROVE s[L].result[f] = ValueAt(e(q).value, Fields[f]).of
  <2> DEFINE R == [i \in 0 .. m |-> s[A(i)].result[f]]
             name == Fields[f]
             u == e(q).value
             p == q - 1
  <2>1. f \in DOMAIN Fields
    BY FieldsAre DEF Inside
  <2>2. \A i \in 1 .. m : Between(s, A(i - 1)) /\ R[i] = s[A(i)].result[f] /\ R[i - 1] = s[A(i - 1)].result[f]
    BY <1>9, <1>11
  <2>3. ASSUME NEW i \in 1 .. m, i # q PROVE R[i] = R[i - 1]
    <3>1. Takes(s, e(i), A(i - 1), A(i)) /\ e(i).key # name
      BY <1>7, <2>2, <2>3
    <3> QED
      BY <2>1, <2>2, <3>1 DEF Takes
  <2>4. R[q] = IF \E j \in 1 .. Len(u.entries) : u.entries[j].key = name THEN ValueAt(u, name).of
               ELSE R[q - 1]
    BY <1>7, <1>q, <2>1, <2>2
  <2>5. R[m] = s[L].result[f] /\ R[0] = ""
    <3>1. m \in 0 .. m /\ 0 \in 0 .. m
      BY <1>1
    <3>2. s[A(0)].result[f] = ""
      BY <1>9, <1>n, <2>1
    <3> QED
      BY <1>10, <3>1, <3>2
  <2> HIDE DEF R, name, u
  <2>6. /\ q \in Nat /\ q <= m /\ p \in Nat /\ p = q - 1
        /\ \A i \in q + 1 .. m : i \in 1 .. m /\ i # q
        /\ \A i \in 1 .. p : i \in 1 .. m /\ i # q
    BY <1>1, <1>q
  <2> DEFINE c == 0
  <2>7. c \in Nat /\ c <= p /\ \A i \in c + 1 .. p : i \in 1 .. p
    BY <2>6
  <2> HIDE DEF p, c
  <2>8. R[m] = R[q]
    BY <1>1, <2>3, <2>6, Constant
  <2>9. R[p] = R[c]
    <3>1. \A i \in c + 1 .. p : R[i] = R[i - 1]
      BY <2>3, <2>6, <2>7
    <3> QED
      BY <2>6, <2>7, <3>1, Constant
  <2>10. R[q - 1] = ""
    BY <2>5, <2>6, <2>9 DEF c
  <2>11. IsDict(u)
    BY <1>12 DEF IsInfo, u
  <2>12. (\A j \in 1 .. Len(u.entries) : u.entries[j].key # name) => ValueAt(u, name).of = ""
    BY <2>11, ValueAtIs
  <2> QED
    BY <2>4, <2>5, <2>8, <2>10, <2>12 DEF u, name
<1>15. s[L].result = [f \in DOMAIN NoTorrentFile |-> s[L].result[f]]
  <2>1. m \in 0 .. m
    BY <1>1
  <2> QED
    BY <1>9, <1>10, <2>1 DEF Between
<1>16. Scanned(Parsed(v.text).parsed) = s[L]
  BY <1>3 DEF t
<1> QED
  BY <1>13, <1>14, <1>15, <1>16 DEF e

-----------------------------------------------------------------------------
(***************************************************************************)
(* Names that occur only once: "pieces", and the keys of an answer.        *)
(***************************************************************************)
\* A string once in a list, or not, the last place aside, and what follows it.
OnceIn(parsed, name, data) ==
    /\ Len(parsed) \in Nat
    /\ \E n \in 1 .. Len(parsed) - 1 :
          /\ parsed[n] = name /\ parsed[n + 1] = data
          /\ \A i \in 1 .. Len(parsed) - 1 : parsed[i] = name => i = n

NeverIn(parsed, name) ==
    Len(parsed) \in Nat /\ \A i \in 1 .. Len(parsed) - 1 : parsed[i] # name

\* A name that occurs once is found once, and what follows it.
LEMMA FoundOnce ==
  ASSUME NEW text, IsText(text), NEW name, NEW p \in 1 .. Len(text), IsLeaf(text[p]),
         text[p].of = name,
         \A k \in 1 .. Len(text) : IsLeaf(text[k]) /\ text[k].of = name => k = p
  PROVE  /\ \A next \in NextLeaf(text, p) : OnceIn(Parsed(text).parsed, name, text[next].of)
         /\ NextLeaf(text, p) = {} => NeverIn(Parsed(text).parsed, name)
<1> DEFINE L == Len(text)
           parsed == Parsed(text).parsed
<1>1. L \in Nat
  BY LenProperties DEF IsText
<1>2. PICK pos, m : LeavesAt(pos, m, text, L) /\ parsed = StringsAt(pos, m, text)
  BY ParsedIsLeaves
<1>3. /\ m \in Nat
      /\ \A i \in 1 .. m : pos[i] \in 1 .. L /\ IsLeaf(text[pos[i]])
      /\ \A i, j \in 1 .. m : i < j => pos[i] < pos[j]
      /\ \A k \in 1 .. L : IsLeaf(text[k]) => \E i \in 1 .. m : pos[i] = k
  BY <1>2 DEF LeavesAt, Long
<1>4. Len(parsed) = m /\ \A i \in 1 .. m : parsed[i] = text[pos[i]].of
  BY <1>2, <1>3 DEF StringsAt
<1>5. \A k \in 1 .. L : IsLeaf(text[k]) /\ text[k].of = name => k = p
  OBVIOUS
<1>6. p \in 1 .. L /\ IsLeaf(text[p]) /\ text[p].of = name
  OBVIOUS
<1>7. NextLeaf(text, p) = {k \in p + 1 .. L : IsLeaf(text[k])
                              /\ \A j \in p + 1 .. k - 1 : ~IsLeaf(text[j])}
  BY DEF NextLeaf, IsLeaf
<1> HIDE DEF L, parsed
<1>8. PICK n \in 1 .. m : pos[n] = p
  BY <1>3, <1>6
<1>9. \A i \in 1 .. m : parsed[i] = name <=> i = n
  <2> TAKE i \in 1 .. m
  <2>1. parsed[n] = name
    BY <1>4, <1>6, <1>8
  <2>2. ASSUME parsed[i] = name PROVE i = n
    <3>1. pos[i] = p
      BY <1>3, <1>4, <1>5, <2>2
    <3>2. pos[i] \in Int /\ ~(i < n) /\ ~(n < i)
      BY <1>3, <1>8, <3>1
    <3> QED
      BY <1>3, <3>2
  <2> QED
    BY <2>1, <2>2
<1>10. ASSUME NEW next \in NextLeaf(text, p)
       PROVE  n \in 1 .. m - 1 /\ parsed[n + 1] = text[next].of
  <2>1. next \in p + 1 .. L /\ IsLeaf(text[next]) /\ \A j \in p + 1 .. next - 1 : ~IsLeaf(text[j])
    BY <1>7
  <2>2. next \in 1 .. L /\ next \in Nat /\ p \in Nat /\ p < next
    BY <1>1, <1>6, <2>1
  <2>3. PICK i \in 1 .. m : pos[i] = next
    BY <1>3, <2>1, <2>2
  <2>4. n < i
    <3>1. ~(i < n)
      BY <1>3, <1>8, <2>2, <2>3
    <3>2. i # n
      BY <1>8, <2>2, <2>3
    <3> QED
      BY <1>3, <3>1, <3>2
  <2> DEFINE u == n + 1
  <2>5. u \in 1 .. m /\ n < u /\ n \in 1 .. m - 1 /\ (u < i \/ u = i)
    BY <1>3, <2>4
  <2>6. ~(u < i)
    <3> HIDE DEF u
    <3> SUFFICES ASSUME u < i PROVE FALSE
      OBVIOUS
    <3>1. pos[n] < pos[u] /\ pos[u] < pos[i] /\ IsLeaf(text[pos[u]]) /\ pos[u] \in 1 .. L
      BY <1>3, <2>5
    <3>2. pos[u] \in p + 1 .. next - 1
      BY <1>1, <1>8, <2>2, <2>3, <3>1
    <3> QED
      BY <2>1, <3>1, <3>2
  <2> QED
    BY <1>4, <2>3, <2>5, <2>6
<1>11. ASSUME NextLeaf(text, p) = {} PROVE n = m
  <2> SUFFICES ASSUME n # m PROVE FALSE
    OBVIOUS
  <2> DEFINE u == n + 1
  <2>1. u \in 1 .. m /\ n < u
    BY <1>3
  <2>2. \A j \in 1 .. m : n < j => (u = j \/ u < j)
    BY <1>3
  <2>3. \A j \in 1 .. m : ~(n < j) => (j = n \/ j < n)
    BY <1>3
  <2> HIDE DEF u
  <2>4. pos[u] \in 1 .. L /\ p < pos[u] /\ IsLeaf(text[pos[u]])
    BY <1>3, <1>8, <2>1
  <2>5. ASSUME NEW j \in p + 1 .. pos[u] - 1, IsLeaf(text[j]) PROVE FALSE
    <3>1. j \in 1 .. L /\ j \in Nat /\ p < j /\ j < pos[u] /\ p \in Nat /\ pos[u] \in Nat
      BY <1>1, <1>6, <2>4
    <3>2. PICK i \in 1 .. m : pos[i] = j
      BY <1>3, <2>5, <3>1
    <3>3. CASE n < i
      <4>1. pos[u] = pos[i] \/ pos[u] < pos[i]
        BY <1>3, <2>1, <2>2, <3>3
      <4> QED
        BY <3>1, <3>2, <4>1
    <3>4. CASE ~(n < i)
      <4>1. pos[i] = pos[n] \/ pos[i] < pos[n]
        BY <1>3, <2>3, <3>4
      <4> QED
        BY <1>8, <3>1, <3>2, <4>1
    <3> QED
      BY <3>3, <3>4
  <2>6. pos[u] \in p + 1 .. L
    BY <1>1, <1>6, <2>4
  <2> QED
    BY <1>7, <1>11, <2>4, <2>5, <2>6
<1>12. ASSUME NextLeaf(text, p) = {} PROVE NeverIn(parsed, name)
  <2>1. \A i \in 1 .. m - 1 : i \in 1 .. m /\ i # m
    BY <1>3
  <2> QED
    BY <1>3, <1>4, <1>9, <1>11, <1>12, <2>1 DEF NeverIn
<1>13. ASSUME NEW next \in NextLeaf(text, p)
       PROVE  OnceIn(parsed, name, text[next].of)
  <2>1. \A i \in 1 .. m - 1 : i \in 1 .. m
    BY <1>3
  <2> QED
    <3>1. Len(parsed) = m /\ m \in Nat
      BY <1>3, <1>4
    <3>2. n \in 1 .. m - 1 /\ parsed[n] = name /\ parsed[n + 1] = text[next].of
      BY <1>9, <1>10
    <3>3. \A i \in 1 .. m - 1 : parsed[i] = name => i = n
      BY <1>9, <2>1
    <3> QED
      BY <3>1, <3>2, <3>3 DEF OnceIn
<1> QED
  BY <1>12, <1>13 DEF parsed

\* A name that does not occur is not found.
LEMMA FoundNever ==
  ASSUME NEW text, IsText(text), NEW name,
         \A k \in 1 .. Len(text) : IsLeaf(text[k]) => text[k].of # name
  PROVE  NeverIn(Parsed(text).parsed, name)
<1> DEFINE parsed == Parsed(text).parsed
<1>1. PICK pos, m : LeavesAt(pos, m, text, Len(text)) /\ parsed = StringsAt(pos, m, text)
  BY ParsedIsLeaves
<1>2. m \in Nat /\ \A i \in 1 .. m : pos[i] \in 1 .. Len(text) /\ IsLeaf(text[pos[i]])
  BY <1>1 DEF LeavesAt, Long
<1>3. Len(parsed) = m /\ \A i \in 1 .. m : parsed[i] = text[pos[i]].of
  BY <1>1, <1>2 DEF StringsAt
<1>4. \A i \in 1 .. m - 1 : i \in 1 .. m
  BY <1>2
<1> HIDE DEF parsed
<1> QED
  BY <1>2, <1>3, <1>4 DEF parsed, NeverIn

Covers(v, at, k) ==
    \/ v.text[k] \in {Token("d", ""), Token("e", "")}
    \/ \E i \in 1 .. Len(v.entries) :
          \/ k = at[i - 1] + 1 /\ v.text[k] = Token("str", v.entries[i].key)
          \/ \E j \in 1 .. Len(v.entries[i].value.text) :
                k = at[i - 1] + 1 + j /\ v.text[k] = v.entries[i].value.text[j]

\* Every token of a dictionary is a bracket, a key, or one of the text of a value.
LEMMA LaidCovers ==
  ASSUME NEW v, IsDict(v), NEW at, Laid(v, at), NEW k \in 1 .. Len(v.text)
  PROVE  Covers(v, at, k)
<1> DEFINE m == Len(v.entries)
           t == v.text
           L == Len(t)
           l(i) == Len(v.entries[i].value.text)
           w(i) == v.entries[i].value.text
           key(i) == v.entries[i].key
           Covered(p) == \E i \in 1 .. m : p \in at[i - 1] + 1 .. at[i]
           P == {n \in Nat : n <= m => \A p \in 2 .. at[n] : Covered(p)}
<1>1. m \in Nat /\ L \in Nat
  BY DictText, LenProperties DEF IsText
<1>2. /\ at \in [0 .. m -> Nat] /\ at[0] = 1 /\ L = at[m] + 1
      /\ t[1] = Token("d", "") /\ t[at[m] + 1] = Token("e", "")
  BY DEF Laid
<1>3. \A i \in 1 .. m : /\ at[i - 1] \in Nat /\ at[i] \in Nat /\ l(i) \in Nat
                        /\ at[i] = at[i - 1] + 1 + l(i)
  BY LaidWithin
<1>4. \A i \in 1 .. m : /\ t[at[i - 1] + 1] = Token("str", key(i))
                        /\ \A j \in 1 .. l(i) : t[at[i - 1] + 1 + j] = w(i)[j]
  BY DEF Laid
<1>k. k \in 1 .. L
  OBVIOUS
<1> HIDE DEF m, t, L, l, w, key
<1>5. 0 \in P
  <2>1. at[0] = 1
    BY <1>2
  <2>2. 2 .. 1 = {}
    OBVIOUS
  <2> QED
    BY <2>1, <2>2
<1>6. ASSUME NEW n \in Nat, n \in P PROVE n + 1 \in P
  <2> SUFFICES ASSUME n + 1 <= m, NEW p \in 2 .. at[n + 1] PROVE Covered(p)
    OBVIOUS
  <2> DEFINE i == n + 1
  <2>1. i \in 1 .. m /\ i - 1 = n /\ n <= m
    BY <1>1
  <2>2. at[n] \in Nat /\ at[i] \in Nat
    BY <1>3, <2>1
  <2>3. p \in 2 .. at[n] \/ p \in at[n] + 1 .. at[i]
    BY <2>2
  <2> HIDE DEF i
  <2> QED
    BY <1>6, <2>1, <2>3
<1>7. m \in P
  BY <1>1, <1>5, <1>6, SetInduction
<1>8. k = 1 \/ k = L \/ k \in 2 .. at[m]
  <2> m \in 0 .. m
    BY <1>1
  <2>1. at[m] \in Nat
    BY <1>2
  <2>2. L = at[m] + 1
    BY <1>2
  <2> QED
    BY <1>k, <2>1, <2>2
<1>9. CASE k \in 2 .. at[m]
  <2>1. PICK i \in 1 .. m : k \in at[i - 1] + 1 .. at[i]
    BY <1>1, <1>7, <1>9
  <2> DEFINE x == at[i - 1]
             y == l(i)
             j == k - (x + 1)
  <2>2. x \in Nat /\ y \in Nat /\ k \in x + 1 .. x + 1 + y
    <3>1. at[i] = x + 1 + y
      BY <1>3
    <3> QED
      BY <1>3, <2>1, <3>1
  <2> HIDE DEF x, y
  <2>3. k = x + 1 \/ (j \in 1 .. y /\ k = x + 1 + j)
    BY <2>2
  <2> HIDE DEF j
  <2>4. CASE k = x + 1
    <3>1. t[k] = Token("str", key(i))
      BY <1>4, <2>4 DEF x
    <3> QED
      BY <2>4, <3>1 DEF x, t, m, key, Covers
  <2>5. CASE j \in 1 .. y /\ k = x + 1 + j
    <3>1. t[k] = w(i)[j]
      BY <1>4, <2>5 DEF x, y
    <3> QED
      BY <2>5, <3>1 DEF x, y, t, m, w, l, Covers
  <2> QED
    BY <2>3, <2>4, <2>5
<1>10. CASE k = 1 \/ k = L
  BY <1>2, <1>10 DEF t, Covers
<1> QED
  BY <1>8, <1>9, <1>10

\* A string or a number is one token.
LEMMA OneToken ==
  ASSUME NEW value, IsValue(value), value.kind \in {"str", "int"}
  PROVE  /\ Len(value.text) = 1 /\ value.text[1] = Token(value.kind, value.of)
         /\ \A j \in 1 .. Len(value.text) : j = 1 /\ value.text[j].of = value.of
<1> DEFINE token == Token(value.kind, value.of)
           w == value.text
<1>1. w = <<token>>
  BY DEF IsValue
<1>2. token.of = value.of
  BY TokenIs
<1> HIDE DEF token, w
<1>3. Len(w) = 1 /\ w[1] = token /\ \A j \in 1 .. 1 : j = 1
  BY <1>1
<1> QED
  BY <1>2, <1>3 DEF w, token

\* In "info" only the key is called "pieces".
LEMMA PiecesOnce ==
  ASSUME NEW v, IsInfo(v), NEW at, Laid(v, at), NEW r \in 1 .. Len(v.entries),
         v.entries[r].key = "pieces", NEW k \in 1 .. Len(v.text), v.text[k].of = "pieces"
  PROVE  k = at[r - 1] + 1
<1> DEFINE m == Len(v.entries)
           e(i) == v.entries[i]
<1>1. IsDict(v) /\ DOMAIN v.entries = 1 .. m /\ m \in Nat
  BY DictText DEF IsInfo
<1>2. \A i \in 1 .. m : IsPlain(e(i)) \/ IsPieces(e(i))
                        \/ IsField(e(i), {"piece length", "length", "name"})
  BY <1>1 DEF IsInfo
<1>3. \A i \in 1 .. m : IsValue(e(i).value) /\ IsText(e(i).value.text)
  BY <1>1 DEF IsDict, IsValue
<1>4. "pieces" \in Names
  BY DEF Names
<1>5. ASSUME NEW i \in 1 .. m, NEW j \in 1 .. Len(e(i).value.text)
      PROVE  e(i).value.text[j].of # "pieces"
  <2> DEFINE x == e(i)
  <2>1. IsValue(x.value) /\ DOMAIN x.value.text = 1 .. Len(x.value.text)
    BY <1>3, LenProperties DEF IsText
  <2>2. IsPlain(x) \/ IsPieces(x) \/ IsField(x, {"piece length", "length", "name"})
    BY <1>2
  <2>j. j \in 1 .. Len(x.value.text)
    OBVIOUS
  <2> HIDE DEF x
  <2>3. CASE IsPlain(x)
    BY <1>4, <2>1, <2>3, <2>j DEF IsPlain, x
  <2>4. CASE IsPieces(x)
    <3>1. x.value.kind \in {"str", "int"} /\ x.value.of # "pieces"
      BY <1>4, <2>4 DEF IsPieces
    <3> QED
      BY <2>1, <2>j, <3>1, OneToken DEF x
  <2>5. CASE IsField(x, {"piece length", "length", "name"})
    <3>1. x.value.kind \in {"str", "int"} /\ x.value.of # "pieces"
      BY <2>5 DEF IsField
    <3> QED
      BY <2>1, <2>j, <3>1, OneToken DEF x
  <2> QED
    BY <2>2, <2>3, <2>4, <2>5
<1>6. \A i \in 1 .. m : e(i).key = "pieces" => i = r
  BY <1>1 DEF IsDict
<1>7. Token("d", "").of = "" /\ Token("e", "").of = "" /\ \A s : Token("str", s).of = s
  BY TokenIs
<1>8. Covers(v, at, k) /\ v.text[k].of = "pieces"
  BY <1>1, LaidCovers
<1>9. CASE v.text[k] \in {Token("d", ""), Token("e", "")}
  BY <1>7, <1>8, <1>9
<1>10. ASSUME NEW i \in 1 .. m, k = at[i - 1] + 1, v.text[k] = Token("str", e(i).key)
       PROVE  k = at[r - 1] + 1
  <2>1. Token("str", e(i).key).of = "pieces"
    BY <1>8, <1>10
  <2>2. Token("str", e(i).key).of = e(i).key
    BY TokenIs
  <2>3. i = r
    BY <1>6, <2>1, <2>2
  <2> QED
    BY <1>10, <2>3
<1>11. ASSUME NEW i \in 1 .. m, NEW j \in 1 .. Len(e(i).value.text), v.text[k] = e(i).value.text[j]
       PROVE  FALSE
  BY <1>5, <1>8, <1>11
<1> QED
  BY <1>8, <1>9, <1>10, <1>11 DEF Covers

\* In a torrent file one string is "pieces", and the next one is its value.
LEMMA TorrentPieces ==
  ASSUME NEW v, IsTorrent(v), NEW q \in 1 .. Len(v.entries), v.entries[q].key = "info",
         NEW r \in 1 .. Len(v.entries[q].value.entries),
         v.entries[q].value.entries[r].key = "pieces"
  PROVE  \E p \in 1 .. Len(v.text) :
            /\ v.text[p] = Token("str", "pieces") /\ p + 1 \in 1 .. Len(v.text)
            /\ v.text[p + 1] = Token("str", v.entries[q].value.entries[r].value.of)
            /\ \A k \in 1 .. Len(v.text) : v.text[k].of = "pieces" => k = p
<1> DEFINE m == Len(v.entries)
           e(i) == v.entries[i]
           t == v.text
           L == Len(t)
           u == e(q).value
           w == u.text
           M == Len(w)
           d == u.entries[r]
<1>1. IsDict(v) /\ DOMAIN v.entries = 1 .. m /\ m \in Nat /\ L \in Nat
  BY DictText, LenProperties DEF IsTorrent, IsText
<1>2. PICK at : Laid(v, at)
  BY <1>1, DictText
<1>3. \A i \in 1 .. m : IsPlain(e(i)) \/ IsField(e(i), {"announce", "comment"})
                        \/ (e(i).key = "info" /\ IsInfo(e(i).value))
  BY <1>1 DEF IsTorrent
<1>4. \A i \in 1 .. m : e(i).key = "info" => i = q
  BY <1>1 DEF IsDict
<1>5. IsInfo(u)
  <2>1. e(q).key = "info" /\ "info" \notin {"announce", "comment"}
    OBVIOUS
  <2> QED
    BY <1>3, <2>1 DEF IsPlain, IsField
<1>6. IsDict(u) /\ r \in DOMAIN u.entries /\ M \in Nat
  BY <1>5, DictText, LenProperties DEF IsInfo, IsText
<1>7. PICK bt : Laid(u, bt)
  BY <1>6, DictText
<1> DEFINE x == at[q - 1] + 1
           y == bt[r - 1] + 1
           p == x + y
           value == d.value
           token == Token("str", value.of)
<1>8. x \in Nat /\ Found(w, t, x)
  <2>1. at[q - 1] \in Nat /\ Found(w, t, x)
    BY <1>1, <1>2, LaidWithin
  <2> QED
    BY <2>1
<1>9. /\ y \in 1 .. M /\ y + 1 \in 1 .. M
      /\ w[y] = Token("str", "pieces") /\ w[y + 1] = token
  <2> DEFINE a == bt[r - 1]
             b == bt[r]
             l == Len(value.text)
             key == d.key
  <2>1. /\ a \in Nat /\ b \in Nat /\ b + 1 <= M /\ b = a + 1 + l
        /\ w[a + 1] = Token("str", key) /\ Found(value.text, w, a + 1) /\ IsValue(value)
    BY <1>6, <1>7, LaidWithin
  <2>2. d.key = "pieces"
    OBVIOUS
  <2>3. IsPieces(d)
    <3>1. IsPlain(d) \/ IsPieces(d) \/ IsField(d, {"piece length", "length", "name"})
      BY <1>5, <1>6 DEF IsInfo
    <3>2. "pieces" \in Names /\ "pieces" \notin {"piece length", "length", "name"}
      BY DEF Names
    <3> HIDE DEF d
    <3> QED
      BY <2>2, <3>1, <3>2 DEF IsPlain, IsField
  <2>4. value.kind = "str"
    BY <2>3 DEF IsPieces
  <2>5. l = 1 /\ value.text[1] = token
    BY <2>1, <2>4, OneToken
  <2> HIDE DEF a, b, l, M, w, d, key, value, token
  <2>6. a + 1 \in 1 .. M /\ (a + 1) + 1 \in 1 .. M
    BY <1>6, <2>1, <2>5
  <2>7. w[(a + 1) + 1] = value.text[1]
    <3>1. 1 \in 1 .. l
      BY <2>5
    <3> QED
      BY <2>1, <3>1 DEF Found, l
  <2>8. w[a + 1] = Token("str", "pieces")
    BY <2>1, <2>2 DEF key
  <2> QED
    BY <2>5, <2>6, <2>7, <2>8 DEF a
<1>10. IsInfo(e(q).value) /\ \A k \in 1 .. M : w[k].of = "pieces" => k = y
  BY <1>5, <1>7, PiecesOnce
<1> HIDE DEF m, e, t, L, u, w, M, d, x, y, value, token
<1>11. x + M <= L /\ \A k \in 1 .. M : t[x + k] = w[k]
  BY <1>8 DEF Found, M, L
<1>12. p \in 1 .. L /\ p + 1 \in 1 .. L /\ p + 1 = x + (y + 1)
  BY <1>1, <1>6, <1>8, <1>9, <1>11
<1>13. t[p] = Token("str", "pieces") /\ t[p + 1] = token
  BY <1>9, <1>11, <1>12
<1>14. "pieces" \in Names /\ "pieces" # "info" /\ "pieces" \notin {"announce", "comment"}
  BY DEF Names
<1>15. ASSUME NEW i \in 1 .. m PROVE e(i).key # "pieces"
  <2>1. IsPlain(e(i)) \/ IsField(e(i), {"announce", "comment"}) \/ e(i).key = "info"
    BY <1>3
  <2> QED
    BY <1>14, <2>1 DEF IsPlain, IsField
<1>16. ASSUME NEW i \in 1 .. m, NEW j \in 1 .. Len(e(i).value.text), e(i).value.text[j].of = "pieces"
       PROVE  i = q
  <2> DEFINE z == e(i)
  <2>1. IsValue(z.value) /\ DOMAIN z.value.text = 1 .. Len(z.value.text)
    <3>1. IsValue(z.value)
      BY <1>1 DEF IsDict, e
    <3> QED
      BY <3>1, LenProperties DEF IsValue, IsText
  <2>2. IsPlain(z) \/ IsField(z, {"announce", "comment"}) \/ z.key = "info"
    BY <1>3
  <2>3. j \in 1 .. Len(z.value.text) /\ z.value.text[j].of = "pieces"
    BY <1>16
  <2> HIDE DEF z
  <2>4. CASE IsPlain(z)
    BY <1>14, <2>1, <2>3, <2>4 DEF IsPlain
  <2>5. CASE IsField(z, {"announce", "comment"})
    <3>1. z.value.kind \in {"str", "int"} /\ z.value.of # "pieces"
      BY <2>5 DEF IsField
    <3> QED
      BY <2>1, <2>3, <3>1, OneToken
  <2>6. CASE z.key = "info"
    BY <1>4, <2>6 DEF z
  <2> QED
    BY <2>2, <2>4, <2>5, <2>6
<1>17. ASSUME NEW k \in 1 .. L, t[k].of = "pieces" PROVE k = p
  <2>1. Covers(v, at, k)
    BY <1>1, <1>2, LaidCovers DEF L, t
  <2>2. CASE t[k] \in {Token("d", ""), Token("e", "")}
    <3>1. Token("d", "").of = "" /\ Token("e", "").of = ""
      BY TokenIs
    <3> QED
      BY <1>17, <2>2, <3>1
  <2>3. ASSUME NEW i \in 1 .. m, t[k] = Token("str", e(i).key) PROVE FALSE
    <3>1. t[k].of = e(i).key
      BY <2>3, TokenIs
    <3> QED
      BY <1>15, <1>17, <3>1
  <2>4. ASSUME NEW i \in 1 .. m, NEW j \in 1 .. Len(e(i).value.text),
               k = at[i - 1] + 1 + j, t[k] = e(i).value.text[j]
        PROVE  k = p
    <3>1. i = q
      BY <1>16, <1>17, <2>4
    <3>2. j \in 1 .. M /\ w[j].of = "pieces" /\ k = x + j
      BY <1>17, <2>4, <3>1 DEF M, w, u, x
    <3> QED
      BY <1>10, <3>2
  <2> QED
    BY <2>1, <2>2, <2>3, <2>4 DEF Covers, t, m, e
<1> HIDE DEF p
<1>18. v.entries[q].value.entries[r].value.of = value.of
  BY DEF value, d, u, e
<1> QED
  BY <1>12, <1>13, <1>17, <1>18 DEF t, L, token

\* Fields, hash and number of pieces of a torrent file are what the file says.
LEMMA FileLoaded ==
  ASSUME NEW v, IsTorrent(v)
  PROVE  ReadRight(v, Loaded(v.text)) /\ Len(Loaded(v.text).piece_hashes) \in Nat
<1> DEFINE m == Len(v.entries)
           t == v.text
           L == Len(t)
           parsed == Parsed(t).parsed
<1>1. IsDict(v) /\ DOMAIN v.entries = 1 .. m /\ IsText(t) /\ L \in Nat
  BY DictText, LenProperties DEF IsTorrent, IsText
<1>2. PICK q \in 1 .. m : v.entries[q].key = "info"
  BY <1>1 DEF IsTorrent
<1> DEFINE u == v.entries[q].value
<1>3. IsInfo(u)
  <2> DEFINE e == v.entries[q]
  <2>1. IsPlain(e) \/ IsField(e, {"announce", "comment"}) \/ (e.key = "info" /\ IsInfo(e.value))
    BY <1>1 DEF IsTorrent
  <2>2. e.key = "info" /\ "info" \notin {"announce", "comment"}
    BY <1>2
  <2> QED
    BY <2>1, <2>2 DEF IsPlain, IsField
<1>4. PICK r \in 1 .. Len(u.entries) : u.entries[r].key = "pieces"
  BY <1>3, DictText DEF IsInfo
<1> DEFINE data == u.entries[r].value.of
           R == Scanned(parsed).result
           hashes == GetPieceHashes(parsed)
<1>5. IsDict(u) /\ r \in DOMAIN u.entries
  BY <1>3, <1>4, DictText DEF IsInfo
<1>6. ValueAt(v, "info") = u /\ ValueAt(u, "pieces") = u.entries[r].value
  BY <1>1, <1>2, <1>4, <1>5, ValueAtIs
<1>7. Len(data) \in Nat
  <2> DEFINE d == u.entries[r]
  <2>1. IsPlain(d) \/ IsPieces(d) \/ IsField(d, {"piece length", "length", "name"})
    BY <1>3, <1>5 DEF IsInfo
  <2>2. "pieces" \in Names /\ "pieces" \notin {"piece length", "length", "name"} /\ d.key = "pieces"
    BY <1>4 DEF Names
  <2> HIDE DEF d
  <2>3. IsPieces(d)
    BY <2>1, <2>2 DEF IsPlain, IsField
  <2>4. Len(d.value.of) \in Nat
    BY <2>3 DEF IsPieces
  <2> QED
    BY <2>4 DEF d
<1>8. PICK p \in 1 .. L :
        /\ t[p] = Token("str", "pieces") /\ p + 1 \in 1 .. L
        /\ t[p + 1] = Token("str", data)
        /\ \A k \in 1 .. L : t[k].of = "pieces" => k = p
  BY <1>2, <1>4, TorrentPieces
<1>9. Parsed(t).info_hash = u.text
  BY <1>1, <1>2, HashIsInfo
<1>10. /\ \A f \in {"announce", "comment"} : R[f] = ValueAt(v, Fields[f]).of
       /\ \A f \in Inside : R[f] = ValueAt(u, Fields[f]).of
       /\ R = [f \in DOMAIN NoTorrentFile |-> R[f]]
  BY <1>2, TorrentIsScanned
<1>11. Loaded(t) = [R EXCEPT !.info_hash = Parsed(t).info_hash, !.piece_hashes = hashes]
  BY DEF Loaded
<1> HIDE DEF u, R, hashes, data, parsed, t, L, m
<1>12. Len(hashes) = Len(data) \div 20 /\ Len(hashes) \in Nat
  <2> DEFINE n == Len(parsed)
             T == {i \in 1 .. n - 1 : parsed[i] = "pieces"}
             next == p + 1
             string == "pieces"
             F(i) == SubSeq(data, 20 * i - 19, 20 * i)
             N == Len(data) \div 20
  <2>1. IsLeaf(t[p]) /\ t[p].of = string
    BY <1>8, TokenIs DEF IsLeaf
  <2>2. next \in 1 .. L /\ IsLeaf(t[next]) /\ t[next].of = data
    BY <1>8, TokenIs DEF IsLeaf
  <2>3. next \in NextLeaf(t, p)
    <3>1. next \in p + 1 .. L /\ p + 1 .. next - 1 = {}
      BY <1>1, <1>8
    <3>2. NextLeaf(t, p) = {k \in p + 1 .. L : IsLeaf(t[k]) /\ \A j \in p + 1 .. k - 1 : ~IsLeaf(t[j])}
      BY DEF NextLeaf, IsLeaf, L
    <3> HIDE DEF next
    <3> QED
      BY <2>2, <3>1, <3>2
  <2>4. \A k \in 1 .. L : IsLeaf(t[k]) /\ t[k].of = string => k = p
    BY <1>8
  <2> HIDE DEF next, string
  <2>5. OnceIn(parsed, string, data)
    <3>1. OnceIn(Parsed(t).parsed, string, t[next].of)
      BY <1>1, <1>8, <2>1, <2>3, <2>4, FoundOnce DEF L
    <3> QED
      BY <2>2, <3>1 DEF parsed
  <2>6. PICK i \in 1 .. n - 1 : /\ parsed[i] = string /\ parsed[i + 1] = data
                                /\ \A j \in 1 .. n - 1 : parsed[j] = string => j = i
    BY <2>5 DEF OnceIn
  <2>a. n \in Nat
    BY <2>5 DEF OnceIn
  <2> HIDE DEF n
  <2>7. T = {i}
    BY <2>6 DEF string
  <2>8. (CHOOSE x \in T : \A y \in T : x <= y) = i /\ 1 + i = i + 1
    BY <2>7, <2>a
  <2>9. hashes = [k \in 1 .. N |-> F(k)]
    <3> HIDE DEF T, F, N
    <3>1. T # {}
      BY <2>7
    <3>2. hashes = LET x == parsed[1 + CHOOSE x \in T : \A y \in T : x <= y]
                   IN  [k \in 1 .. Len(x) \div 20 |-> SubSeq(x, 20 * k - 19, 20 * k)]
      BY <3>1 DEF hashes, GetPieceHashes, T, n
    <3> DEFINE c == CHOOSE x \in T : \A y \in T : x <= y
               x == parsed[1 + c]
    <3>3. x = data
      BY <2>6, <2>8
    <3>4. hashes = [k \in 1 .. Len(x) \div 20 |-> SubSeq(x, 20 * k - 19, 20 * k)]
      BY <3>2
    <3> HIDE DEF x
    <3>5. hashes = [k \in 1 .. Len(data) \div 20 |-> SubSeq(data, 20 * k - 19, 20 * k)]
      BY <3>3, <3>4
    <3> QED
      BY <3>5 DEF F, N
  <2>10. N \in Nat
    <3> DEFINE l == Len(data)
    <3>1. l \in Nat
      BY <1>7
    <3> HIDE DEF l
    <3>2. l \div 20 \in Nat
      BY <3>1
    <3> QED
      BY <3>2 DEF l
  <2> HIDE DEF N, F
  <2> QED
    BY <2>9, <2>10 DEF N
<1> DEFINE file == Loaded(t)
<1>13. /\ file["info_hash"] = Parsed(t).info_hash /\ file["piece_hashes"] = hashes
       /\ \A f \in {"announce", "comment", "piece_length", "length", "name"} : file[f] = R[f]
  <2>1. /\ DOMAIN Fields = {"announce", "comment", "piece_length", "length", "name"}
        /\ DOMAIN NoTorrentFile = DOMAIN Fields \cup {"info_hash", "piece_hashes"}
    BY FieldsAre
  <2>2. R = [f \in DOMAIN NoTorrentFile |-> R[f]]
    BY <1>10
  <2> HIDE DEF file
  <2>3. file = [R EXCEPT !.info_hash = Parsed(t).info_hash, !.piece_hashes = hashes]
    BY <1>11 DEF file
  <2> QED
    BY <2>1, <2>2, <2>3
<1> HIDE DEF file
<1>14. /\ Fields["announce"] = "announce" /\ Fields["comment"] = "comment"
  BY FieldsAre
<1>15. \A f \in {"announce", "comment"} : file[f] = ValueAt(v, f).of
  BY <1>10, <1>13, <1>14
<1>16. \A f \in {"piece_length", "length", "name"} : file[f] = ValueAt(u, Fields[f]).of
  BY <1>10, <1>13 DEF Inside
<1>17. /\ file.info_hash = u.text /\ Len(file.piece_hashes) = Len(ValueAt(u, "pieces").of) \div 20
       /\ Len(file.piece_hashes) \in Nat
  BY <1>6, <1>9, <1>12, <1>13 DEF data
<1> QED
  BY <1>6, <1>15, <1>16, <1>17 DEF ReadRight, file, t

\* What LoadTorrentFile makes of a file is what the file says, for every file in which
\* the fields can be told from other strings (TorrentFile.cpp:9-49).
THEOREM LoadsRight == \A v : IsTorrent(v) => ReadRight(v, Loaded(v.text))
BY FileLoaded

\* A name that occurs once: Follows is what comes after it,
LEMMA FollowsOnce ==
  ASSUME NEW parsed, NEW name, NEW data, OnceIn(parsed, name, data)
  PROVE  Follows(parsed, name) = data
<1> DEFINE T == {k \in 1 .. Len(parsed) - 1 : parsed[k] = name}
<1>1. PICK n \in 1 .. Len(parsed) - 1 :
        /\ parsed[n] = name /\ parsed[n + 1] = data
        /\ \A i \in 1 .. Len(parsed) - 1 : parsed[i] = name => i = n
  BY DEF OnceIn
<1>2. n \in Int
  BY <1>1 DEF OnceIn
<1>3. T = {n}
  BY <1>1
<1>4. Follows(parsed, name) = IF T = {} THEN "" ELSE parsed[1 + CHOOSE k \in T : \A j \in T : j <= k]
  BY DEF Follows
<1> HIDE DEF T
<1>5. (CHOOSE k \in T : \A j \in T : j <= k) = n /\ 1 + n = n + 1
  BY <1>2, <1>3
<1> QED
  BY <1>1, <1>3, <1>4, <1>5

\* and of one that does not occur, the empty string.
LEMMA FollowsNever ==
  ASSUME NEW parsed, NEW name, NeverIn(parsed, name)
  PROVE  Follows(parsed, name) = ""
<1>1. {k \in 1 .. Len(parsed) - 1 : parsed[k] = name} = {}
  BY DEF NeverIn
<1> QED
  BY <1>1 DEF Follows

\* Where a dictionary has a name, and what of parsed follows from that.
NameAt(v, name, p) ==
    /\ v.text[p].of = name /\ IsLeaf(v.text[p])
    /\ \A next \in NextLeaf(v.text, p) : OnceIn(Parsed(v.text).parsed, name, v.text[next].of)
    /\ NextLeaf(v.text, p) = {} => NeverIn(Parsed(v.text).parsed, name)
    /\ ValueAt(v, name).kind = "str" =>
          p + 1 \in NextLeaf(v.text, p) /\ v.text[p + 1].of = ValueAt(v, name).of

\* Of a name that is only a key: its place in the text.
LEMMA KeyPlace ==
  ASSUME NEW v, IsDict(v), NEW name, OnlyKey(v, name)
  PROVE  /\ (\A i \in 1 .. Len(v.entries) : v.entries[i].key # name) =>
               /\ Follows(Parsed(v.text).parsed, name) = ""
               /\ ValueAt(v, name) = Str("")
         /\ \A i \in 1 .. Len(v.entries) : v.entries[i].key = name =>
               \E p \in 1 .. Len(v.text) : NameAt(v, name, p)
<1> DEFINE m == Len(v.entries)
           t == v.text
           L == Len(t)
<1>1. DOMAIN v.entries = 1 .. m /\ m \in Nat /\ IsText(t) /\ L \in Nat /\ DOMAIN t = 1 .. L
  BY DictText, LenProperties DEF IsText
<1>2. \A j \in 1 .. L : t[j].of = name =>
         /\ \A k \in 1 .. L : t[k].of = name => k = j
         /\ \E k \in 1 .. m : v.entries[k].key = name
  BY <1>1 DEF OnlyKey
<1>3. ASSUME \A i \in 1 .. m : v.entries[i].key # name
      PROVE  Follows(Parsed(t).parsed, name) = "" /\ ValueAt(v, name) = Str("")
  <2>1. \A j \in 1 .. L : t[j].of # name
    BY <1>2, <1>3
  <2>2. NeverIn(Parsed(t).parsed, name)
    BY <1>1, <2>1, FoundNever
  <2>3. {k \in DOMAIN v.entries : v.entries[k].key = name} = {}
    BY <1>1, <1>3
  <2>4. ValueAt(v, name) = Str("")
    BY <2>3 DEF ValueAt
  <2> QED
    BY <2>2, <2>4, FollowsNever
<1>4. ASSUME NEW i \in 1 .. m, v.entries[i].key = name
      PROVE  \E p \in 1 .. L : NameAt(v, name, p)
  <2>1. PICK at : Laid(v, at)
    BY DictText
  <2> DEFINE a == at[i - 1]
             b == at[i]
             value == v.entries[i].value
             w == value.text
             l == Len(w)
             p == a + 1
  <2>2. /\ a \in Nat /\ b \in Nat /\ a + 1 <= b /\ b + 1 <= L /\ l \in Nat /\ b = a + 1 + l
        /\ t[p] = Token("str", v.entries[i].key) /\ Found(w, t, p) /\ IsValue(value)
    BY <2>1, LaidWithin
  <2>3. ValueAt(v, name) = value
    BY <1>4, ValueAtIs
  <2>i. v.entries[i].key = name
    BY <1>4
  <2> HIDE DEF m, t, L, a, b, value, w, l
  <2>4. p \in 1 .. L
    BY <1>1, <2>2
  <2>5. t[p].of = name /\ IsLeaf(t[p])
    BY <2>2, <2>i, TokenIs DEF IsLeaf
  <2> HIDE DEF p
  <2>6. \A k \in 1 .. L : IsLeaf(t[k]) /\ t[k].of = name => k = p
    BY <1>2, <2>4, <2>5
  <2>7. /\ \A next \in NextLeaf(t, p) : OnceIn(Parsed(t).parsed, name, t[next].of)
        /\ NextLeaf(t, p) = {} => NeverIn(Parsed(t).parsed, name)
    BY <1>1, <2>4, <2>5, <2>6, FoundOnce DEF L
  <2>8. ASSUME value.kind = "str"
        PROVE  p + 1 \in NextLeaf(t, p) /\ t[p + 1].of = value.of
    <3>1. l = 1 /\ w[1] = Token("str", value.of)
      BY <2>2, <2>8, OneToken DEF l, w
    <3>2. p + 1 \in p + 1 .. L /\ p + 1 .. (p + 1) - 1 = {} /\ 1 \in 1 .. l
      BY <1>1, <2>2, <3>1 DEF p
    <3>3. t[p + 1] = w[1]
      BY <2>2, <3>2 DEF Found, l
    <3>4. t[p + 1].kind = "str" /\ t[p + 1].of = value.of
      BY <3>1, <3>3, TokenIs
    <3>5. NextLeaf(t, p) = {k \in p + 1 .. L : IsLeaf(t[k]) /\ \A j \in p + 1 .. k - 1 : ~IsLeaf(t[j])}
      BY DEF NextLeaf, IsLeaf, L
    <3>6. IsLeaf(t[p + 1])
      BY <3>4 DEF IsLeaf
    <3> QED
      BY <3>2, <3>4, <3>5, <3>6
  <2> QED
    BY <2>3, <2>4, <2>5, <2>7, <2>8 DEF NameAt, value, t
<1> QED
  BY <1>3, <1>4

\* What ParseTrackerResponse takes from an answer is the value of "peers", if it has
\* peers in compact form and nothing has failed (TorrentTracker.cpp:190-230).
THEOREM PeersFound ==
  \A r : IsReply(r) =>
    ParseTrackerResponse(r.text) =
      IF /\ ValueAt(r, "failure reason").of = ""
         /\ ValueAt(r, "peers").kind = "str" /\ IsCompact(ValueAt(r, "peers").of)
      THEN ParseCompactBinaryPeers(BytesOf(ValueAt(r, "peers").of)) ELSE <<>>
<1> TAKE r
<1> HAVE IsReply(r)
<1> DEFINE parsed == Parsed(r.text).parsed
           failure == ValueAt(r, "failure reason")
           peers == ValueAt(r, "peers")
<1>1. /\ IsDict(r) /\ OnlyKey(r, "peers") /\ OnlyKey(r, "failure reason") /\ failure.kind = "str"
      /\ peers.kind # "str" => \A j \in DOMAIN r.text : r.text[j].of = "peers" =>
             \A k \in NextLeaf(r.text, j) : ~IsCompact(r.text[k].of)
  BY DEF IsReply
<1>2. DOMAIN r.text = 1 .. Len(r.text)
  BY <1>1, DictText, LenProperties DEF IsText
<1>3. ASSUME NEW name, OnlyKey(r, name), ValueAt(r, name).kind = "str"
      PROVE  Follows(parsed, name) = ValueAt(r, name).of
  <2>1. CASE \A i \in 1 .. Len(r.entries) : r.entries[i].key # name
    <3>1. Follows(parsed, name) = "" /\ ValueAt(r, name) = Str("")
      BY <1>1, <1>3, <2>1, KeyPlace
    <3> QED
      <4>1. Str("").of = ""
        BY DEF Str, Value
      <4> QED
        BY <3>1, <4>1
  <2>2. CASE \E i \in 1 .. Len(r.entries) : r.entries[i].key = name
    <3>1. PICK p \in 1 .. Len(r.text) : NameAt(r, name, p)
      BY <1>1, <1>3, <2>2, KeyPlace
    <3>2. OnceIn(parsed, name, ValueAt(r, name).of)
      <4>1. p + 1 \in NextLeaf(r.text, p) /\ r.text[p + 1].of = ValueAt(r, name).of
        BY <1>3, <3>1 DEF NameAt
      <4> QED
        BY <3>1, <4>1 DEF NameAt
    <3> QED
      BY <3>2, FollowsOnce
  <2> QED
    BY <2>1, <2>2
<1>4. Follows(parsed, "failure reason") = failure.of
  BY <1>1, <1>3
<1>5. ASSUME peers.kind # "str" PROVE ~IsCompact(Follows(parsed, "peers"))
  <2> DEFINE name == "peers"
  <2>a. OnlyKey(r, name)
    BY <1>1
  <2>b. \A j \in 1 .. Len(r.text) : r.text[j].of = name =>
           \A k \in NextLeaf(r.text, j) : ~IsCompact(r.text[k].of)
    BY <1>1, <1>2, <1>5
  <2>c. ~IsCompact("")
    BY DEF IsCompact
  <2> HIDE DEF name, parsed
  <2>1. CASE \A i \in 1 .. Len(r.entries) : r.entries[i].key # name
    <3>1. Follows(parsed, name) = ""
      BY <1>1, <2>a, <2>1, KeyPlace DEF parsed
    <3> QED
      BY <2>c, <3>1 DEF name
  <2>2. CASE \E i \in 1 .. Len(r.entries) : r.entries[i].key = name
    <3>a. PICK p \in 1 .. Len(r.text) : NameAt(r, name, p)
      BY <1>1, <2>a, <2>2, KeyPlace
    <3>1. /\ r.text[p].of = name
          /\ \A next \in NextLeaf(r.text, p) : OnceIn(parsed, name, r.text[next].of)
          /\ NextLeaf(r.text, p) = {} => NeverIn(parsed, name)
      BY <3>a DEF NameAt, parsed
    <3>2. CASE NextLeaf(r.text, p) = {}
      <4>1. Follows(parsed, name) = ""
        BY <3>1, <3>2, FollowsNever
      <4> QED
        BY <2>c, <4>1 DEF name
    <3>3. CASE NextLeaf(r.text, p) # {}
      <4>1. PICK next \in NextLeaf(r.text, p) : TRUE
        BY <3>3
      <4>2. Follows(parsed, name) = r.text[next].of
        BY <3>1, FollowsOnce
      <4> QED
        BY <2>b, <3>1, <4>2 DEF name
    <3> QED
      BY <3>2, <3>3
  <2> QED
    BY <2>1, <2>2
<1>6. peers.kind = "str" => Follows(parsed, "peers") = peers.of
  BY <1>1, <1>3
<1>7. ParseTrackerResponse(r.text) =
        IF Follows(parsed, "failure reason") # "" \/ ~IsCompact(Follows(parsed, "peers")) THEN <<>>
        ELSE ParseCompactBinaryPeers(BytesOf(Follows(parsed, "peers")))
  BY DEF ParseTrackerResponse
<1> HIDE DEF parsed, failure, peers
<1>8. CASE peers.kind = "str"
  BY <1>4, <1>6, <1>7, <1>8 DEF failure, peers
<1>9. CASE peers.kind # "str"
  BY <1>5, <1>7, <1>9 DEF failure, peers
<1> QED
  BY <1>8, <1>9
=============================================================================
