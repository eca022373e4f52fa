----------------------- MODULE RequestReading_proofs -----------------------
(***************************************************************************)
(* However a request is cut into pieces, it is handled as the client meant *)
(* it, for all requests and every size of the array.                       *)
(*                                                                         *)
(* The first two parts are about what the client sends: where the lines    *)
(* and the chunks of a stream begin.  The chunks are laid one after the    *)
(* other, so that this is shown by induction on their number, from the     *)
(* fact that every set of naturals has a least element.  The third part    *)
(* has the invariant, and what follows has one lemma for each action.      *)
(***************************************************************************)
EXTENDS RequestReading, SequenceTheorems, WellFoundedInduction, TLAPS

-----------------------------------------------------------------------------
(* Induction *)

LEMMA LeastElement ==
    ASSUME NEW S, S \subseteq Nat, S # {}
    PROVE  \E m \in S : \A k \in S : m <= k
  <1> DEFINE Less == {s \in Nat \X Nat : s[1] < s[2]}
  <1>1. IsWellFoundedOn(Less, Nat)
    BY NatLessThanWellFounded DEF OpToRel
  <1>2. PICK m \in S : \A k \in S : ~(<<k, m>> \in Less)
    <2> HIDE DEF Less
    <2> QED
      BY <1>1, WFMin
  <1>3. \A k \in S : ~(k < m)
    BY <1>2
  <1> QED
    BY <1>3

LEMMA Induction ==
    ASSUME NEW S, 0 \in S, \A n \in Nat : n \in S => n + 1 \in S
    PROVE  Nat \subseteq S
  <1> SUFFICES ASSUME Nat \ S # {} PROVE FALSE
    OBVIOUS
  <1>1. PICK m \in Nat \ S : \A k \in Nat \ S : m <= k
    BY LeastElement
  <1>2. m # 0 /\ m - 1 \in Nat /\ m - 1 \in S
    BY <1>1
  <1> QED
    BY <1>2

-----------------------------------------------------------------------------
(* Sequences laid one after the other *)

LEMMA ConcatAt ==
    ASSUME NEW A, NEW s \in Seq(A), NEW t \in Seq(A)
    PROVE  /\ s \o t \in Seq(A)
           /\ Len(s \o t) = Len(s) + Len(t)
           /\ \A i \in 1 .. Len(s) : (s \o t)[i] = s[i]
           /\ \A i \in 1 .. Len(t) : (s \o t)[Len(s) + i] = t[i]
  OBVIOUS

\* f[i] is what the first i sequences of ss make.
Accumulates(f, ss, n) ==
    /\ n # 0 => f[1] = ss[1]
    /\ \A i \in 2 .. n : f[i] = f[i - 1] \o ss[i]

LEMMA AccumulatesExist ==
    ASSUME NEW A, NEW ss \in Seq(Seq(A))
    PROVE  \E f \in [1 .. Len(ss) -> Seq(A)] : Accumulates(f, ss, Len(ss))
  <1> DEFINE S == {n \in Nat : n <= Len(ss) =>
                        \E f \in [1 .. n -> Seq(A)] : Accumulates(f, ss, n)}
  <1>1. 0 \in S
    <2>1. [i \in 1 .. 0 |-> <<>>] \in [1 .. 0 -> Seq(A)]
      OBVIOUS
    <2>2. Accumulates([i \in 1 .. 0 |-> <<>>], ss, 0)
      BY DEF Accumulates
    <2> QED
      BY <2>1, <2>2
  <1>2. ASSUME NEW n \in Nat, n \in S PROVE n + 1 \in S
    <2> SUFFICES ASSUME n + 1 <= Len(ss)
                 PROVE  \E f \in [1 .. n + 1 -> Seq(A)] : Accumulates(f, ss, n + 1)
      OBVIOUS
    <2>1. PICK f \in [1 .. n -> Seq(A)] : Accumulates(f, ss, n)
      BY <1>2
    <2> DEFINE last == IF n = 0 THEN ss[n + 1] ELSE f[n] \o ss[n + 1]
               g == [i \in 1 .. n + 1 |-> IF i = n + 1 THEN last ELSE f[i]]
    <2>2. last \in Seq(A)
      <3>1. ss[n + 1] \in Seq(A)
        OBVIOUS
      <3>2. n # 0 => f[n] \in Seq(A)
        OBVIOUS
      <3> QED
        BY <3>1, <3>2
    <2>3. g \in [1 .. n + 1 -> Seq(A)]
      <3> HIDE DEF last
      <3> QED
        BY <2>2
    <2>4. Accumulates(g, ss, n + 1)
      <3>1. g[1] = ss[1]
        BY <2>1 DEF Accumulates
      <3>2. ASSUME NEW i \in 2 .. n + 1 PROVE g[i] = g[i - 1] \o ss[i]
        <4>1. CASE i = n + 1
          <5>1. n # 0 /\ n \in 1 .. n /\ i - 1 = n /\ n # n + 1
            BY <4>1
          <5>2. g[i] = last /\ g[n] = f[n]
            BY <4>1, <5>1
          <5> QED
            BY <4>1, <5>1, <5>2
        <4>2. CASE i # n + 1
          <5>1. i \in 2 .. n /\ i - 1 \in 1 .. n
            BY <4>2
          <5>2. g[i] = f[i] /\ g[i - 1] = f[i - 1]
            BY <5>1
          <5> QED
            BY <2>1, <5>1, <5>2 DEF Accumulates
        <4> QED
          BY <4>1, <4>2
      <3> QED
        BY <3>1, <3>2 DEF Accumulates
    <2> QED
      BY <2>3, <2>4
  <1>3. Nat \subseteq S
    <2> HIDE DEF S
    <2> QED
      BY <1>1, <1>2, Induction
  <1> QED
    BY <1>3

\* FlattenSeq makes its sequence that way.
LEMMA FlattenAccumulates ==
    ASSUME NEW A, NEW ss \in Seq(Seq(A)), ss # <<>>
    PROVE  \E f \in [1 .. Len(ss) -> Seq(A)] :
                Accumulates(f, ss, Len(ss)) /\ FlattenSeq(ss) = f[Len(ss)]
  <1> DEFINE G(f) == [i \in 1 .. Len(ss) |-> IF i = 1 THEN ss[i] ELSE f[i - 1] \o ss[i]]
             Fixed(f) == f = G(f)
             flat == CHOOSE f : Fixed(f)
  <1>1. Len(ss) \in Nat /\ Len(ss) # 0
    OBVIOUS
  <1>2. FlattenSeq(ss) = flat[Len(ss)]
    BY <1>1 DEF FlattenSeq
  <1>3. PICK f \in [1 .. Len(ss) -> Seq(A)] : Accumulates(f, ss, Len(ss))
    BY AccumulatesExist
  <1>4. Fixed(f)
    <2>1. ASSUME NEW i \in 1 .. Len(ss) PROVE f[i] = G(f)[i]
      <3>1. CASE i = 1
        BY <1>1, <1>3, <3>1 DEF Accumulates
      <3>2. CASE i # 1
        <4>1. i \in 2 .. Len(ss)
          BY <1>1, <3>2
        <4> QED
          BY <1>3, <3>2, <4>1 DEF Accumulates
      <3> QED
        BY <3>1, <3>2
    <2> QED
      BY <2>1
  <1>5. Fixed(flat)
    <2> HIDE DEF Fixed
    <2> QED
      BY <1>4
  <1> HIDE DEF flat
  <1>6. Accumulates(flat, ss, Len(ss))
    <2>1. \A i \in 1 .. Len(ss) : flat[i] = G(flat)[i]
      BY <1>5
    <2>2. flat[1] = ss[1]
      BY <1>1, <2>1
    <2>3. ASSUME NEW i \in 2 .. Len(ss) PROVE flat[i] = flat[i - 1] \o ss[i]
      <3>1. i \in 1 .. Len(ss) /\ i # 1
        BY <1>1
      <3> QED
        BY <2>1, <3>1
    <2> QED
      BY <2>2, <2>3 DEF Accumulates
  <1> HIDE DEF G, Fixed
  <1> DEFINE S == {n \in Nat : n + 1 \in 1 .. Len(ss) => flat[n + 1] = f[n + 1]}
  <1>7. 0 \in S
    BY <1>1, <1>3, <1>6 DEF Accumulates
  <1>8. ASSUME NEW n \in Nat, n \in S PROVE n + 1 \in S
    <2> SUFFICES ASSUME n + 2 \in 1 .. Len(ss) PROVE flat[n + 2] = f[n + 2]
      OBVIOUS
    <2>1. n + 2 \in 2 .. Len(ss) /\ n + 1 \in 1 .. Len(ss) /\ (n + 2) - 1 = n + 1
      BY <1>1
    <2>2. flat[n + 2] = flat[n + 1] \o ss[n + 2] /\ f[n + 2] = f[n + 1] \o ss[n + 2]
      BY <1>3, <1>6, <2>1 DEF Accumulates
    <2> QED
      BY <1>8, <2>1, <2>2
  <1>9. Nat \subseteq S
    <2> HIDE DEF S
    <2> QED
      BY <1>7, <1>8, Induction
  <1>10. flat[Len(ss)] = f[Len(ss)]
    <2>1. Len(ss) - 1 \in Nat /\ (Len(ss) - 1) + 1 = Len(ss)
      BY <1>1
    <2>2. Len(ss) - 1 \in S
      <3> HIDE DEF S
      <3> QED
        BY <1>9, <2>1
    <2> QED
      BY <1>1, <2>1, <2>2
  <1> QED
    BY <1>2, <1>3, <1>10

\* Sequence i of ss begins in s after position start[i - 1], and s ends where
\* the last one does.
LaidOut(s, ss, start) ==
    /\ start \in [0 .. Len(ss) -> Nat]
    /\ start[0] = 0
    /\ \A i \in 1 .. Len(ss) : start[i] = start[i - 1] + Len(ss[i])
    /\ Len(s) = start[Len(ss)]
    /\ \A i \in 1 .. Len(ss) : \A k \in 1 .. Len(ss[i]) :
            start[i - 1] + k \in 1 .. Len(s) /\ s[start[i - 1] + k] = ss[i][k]

LEMMA FlattenLaysOut ==
    ASSUME NEW A, NEW ss \in Seq(Seq(A))
    PROVE  FlattenSeq(ss) \in Seq(A) /\ \E start : LaidOut(FlattenSeq(ss), ss, start)
  <1>1. CASE ss = <<>>
    <2>1. FlattenSeq(ss) = <<>>
      BY <1>1 DEF FlattenSeq
    <2>2. LaidOut(<<>>, ss, [i \in 0 .. 0 |-> 0])
      BY <1>1 DEF LaidOut
    <2> QED
      BY <2>1, <2>2
  <1>2. CASE ss # <<>>
    <2>1. PICK f \in [1 .. Len(ss) -> Seq(A)] :
                Accumulates(f, ss, Len(ss)) /\ FlattenSeq(ss) = f[Len(ss)]
      BY <1>2, FlattenAccumulates
    <2>2. Len(ss) \in Nat /\ Len(ss) # 0 /\ \A i \in 1 .. Len(ss) : ss[i] \in Seq(A)
      BY <1>2
    <2> DEFINE start == [i \in 0 .. Len(ss) |-> IF i = 0 THEN 0 ELSE Len(f[i])]
    <2>3. \A i \in 1 .. Len(ss) : f[i] \in Seq(A) /\ Len(f[i]) \in Nat
      BY <2>2
    <2>4. start \in [0 .. Len(ss) -> Nat] /\ start[0] = 0
          /\ \A i \in 1 .. Len(ss) : start[i] = Len(f[i])
      BY <2>3
    <2> HIDE DEF start
    <2>5. ASSUME NEW i \in 1 .. Len(ss), i # 1
          PROVE  /\ i - 1 \in 1 .. Len(ss) /\ f[i - 1] \in Seq(A)
                 /\ f[i] = f[i - 1] \o ss[i]
                 /\ Len(f[i]) = Len(f[i - 1]) + Len(ss[i])
      <3>1. i \in 2 .. Len(ss) /\ i - 1 \in 1 .. Len(ss)
        BY <2>2, <2>5
      <3>2. f[i] = f[i - 1] \o ss[i]
        BY <2>1, <3>1 DEF Accumulates
      <3>3. f[i - 1] \in Seq(A) /\ ss[i] \in Seq(A)
        BY <2>2, <2>3, <3>1
      <3> QED
        BY <3>1, <3>2, <3>3
    <2>6. f[1] = ss[1]
      BY <2>1, <2>2 DEF Accumulates
    <2>7. \A i \in 1 .. Len(ss) : start[i] = start[i - 1] + Len(ss[i])
      <3> SUFFICES ASSUME NEW i \in 1 .. Len(ss) PROVE start[i] = start[i - 1] + Len(ss[i])
        OBVIOUS
      <3>1. CASE i = 1
        BY <2>2, <2>4, <2>6, <3>1
      <3>2. CASE i # 1
        <4>1. start[i] = Len(f[i]) /\ start[i - 1] = Len(f[i - 1])
          BY <2>4, <2>5, <3>2
        <4> QED
          BY <2>5, <3>2, <4>1
      <3> QED
        BY <3>1, <3>2
    <2> DEFINE Lies(n) ==
                 \A i \in 1 .. n : \A k \in 1 .. Len(ss[i]) :
                     /\ start[i - 1] + k \in 1 .. Len(f[n])
                     /\ f[n][start[i - 1] + k] = ss[i][k]
    <2>8. Lies(1)
      <3>1. ss[1] \in Seq(A) /\ Len(ss[1]) \in Nat /\ start[1 - 1] = 0
        BY <2>2, <2>4
      <3> QED
        BY <2>6, <3>1
    <2>9. ASSUME NEW n \in Nat, n + 1 \in 1 .. Len(ss), n # 0, Lies(n) PROVE Lies(n + 1)
      <3>1. n \in 1 .. Len(ss) /\ (n + 1) - 1 = n
        BY <2>2, <2>9
      <3> DEFINE m == n + 1
      <3>2. m \in 1 .. Len(ss) /\ m # 1 /\ m - 1 = n
        BY <2>9
      <3> HIDE DEF m
      <3>3. f[n] \in Seq(A) /\ ss[m] \in Seq(A) /\ f[m] = f[n] \o ss[m]
        BY <2>2, <2>5, <3>2
      <3>4. /\ Len(f[n]) \in Nat /\ Len(ss[m]) \in Nat
            /\ Len(f[m]) = Len(f[n]) + Len(ss[m])
            /\ \A i \in 1 .. Len(f[n]) : f[m][i] = f[n][i]
            /\ \A i \in 1 .. Len(ss[m]) : f[m][Len(f[n]) + i] = ss[m][i]
        <4> DEFINE l == f[n]
                   r == ss[m]
        <4>1. l \in Seq(A) /\ r \in Seq(A)
          BY <3>3
        <4> HIDE DEF l, r
        <4>2. /\ Len(l) \in Nat /\ Len(r) \in Nat
              /\ Len(l \o r) = Len(l) + Len(r)
              /\ \A i \in 1 .. Len(l) : (l \o r)[i] = l[i]
              /\ \A i \in 1 .. Len(r) : (l \o r)[Len(l) + i] = r[i]
          BY <4>1, ConcatAt
        <4> QED
          BY <3>3, <4>2 DEF l, r
      <3>5. /\ \A k \in 1 .. Len(ss[m]) : Len(f[n]) + k \in 1 .. Len(f[m])
            /\ 1 .. Len(f[n]) \subseteq 1 .. Len(f[m])
        <4> DEFINE l == Len(f[n])
                   r == Len(ss[m])
                   both == Len(f[m])
        <4>1. l \in Nat /\ r \in Nat /\ both = l + r
          BY <3>4
        <4> HIDE DEF l, r, both
        <4>2. (\A k \in 1 .. r : l + k \in 1 .. both) /\ 1 .. l \subseteq 1 .. both
          BY <4>1
        <4> QED
          BY <4>2 DEF l, r, both
      <3>6. start[n] = Len(f[n])
        BY <2>4, <3>1
      <3> SUFFICES ASSUME NEW i \in 1 .. m, NEW k \in 1 .. Len(ss[i])
                   PROVE  /\ start[i - 1] + k \in 1 .. Len(f[m])
                          /\ f[m][start[i - 1] + k] = ss[i][k]
        BY DEF m
      <3>7. CASE i = m
        <4>1. start[i - 1] = Len(f[n]) /\ k \in 1 .. Len(ss[m])
          BY <3>2, <3>6, <3>7
        <4>2. f[m][Len(f[n]) + k] = ss[m][k]
          BY <3>4, <4>1
        <4>3. Len(f[n]) + k \in 1 .. Len(f[m])
          BY <3>5, <4>1
        <4> QED
          BY <3>7, <4>1, <4>2, <4>3
      <3>8. CASE i # m
        <4>1. i \in 1 .. n
          BY <3>2, <3>8
        <4>2. start[i - 1] + k \in 1 .. Len(f[n]) /\ f[n][start[i - 1] + k] = ss[i][k]
          BY <2>9, <4>1
        <4>3. f[m][start[i - 1] + k] = f[n][start[i - 1] + k]
          BY <3>4, <4>2
        <4>4. start[i - 1] + k \in 1 .. Len(f[m])
          BY <3>5, <4>2
        <4> QED
          BY <4>2, <4>3, <4>4
      <3> QED
        BY <3>7, <3>8
    <2> HIDE DEF Lies
    <2> DEFINE S == {n \in Nat : n + 1 \in 1 .. Len(ss) => Lies(n + 1)}
    <2>10. Nat \subseteq S
      <3>1. 0 \in S
        BY <2>8
      <3>2. ASSUME NEW n \in Nat, n \in S PROVE n + 1 \in S
        <4> SUFFICES ASSUME (n + 1) + 1 \in 1 .. Len(ss) PROVE Lies((n + 1) + 1)
          OBVIOUS
        <4>1. n + 1 \in 1 .. Len(ss) /\ n + 1 \in Nat /\ n + 1 # 0
          BY <2>2
        <4>2. Lies(n + 1)
          BY <3>2, <4>1
        <4> QED
          BY <2>9, <4>1, <4>2
      <3> HIDE DEF S
      <3> QED
        BY <3>1, <3>2, Induction
    <2>11. Lies(Len(ss))
      <3>1. Len(ss) - 1 \in Nat /\ (Len(ss) - 1) + 1 = Len(ss) /\ Len(ss) \in 1 .. Len(ss)
        BY <2>2
      <3>2. Len(ss) - 1 \in S
        <4> HIDE DEF S
        <4> QED
          BY <2>10, <3>1
      <3> QED
        BY <3>1, <3>2
    <2>12. LaidOut(FlattenSeq(ss), ss, start)
      BY <2>1, <2>2, <2>4, <2>7, <2>11 DEF LaidOut, Lies
    <2> QED
      BY <2>1, <2>2, <2>3, <2>12
  <1> QED
    BY <1>1, <1>2

-----------------------------------------------------------------------------
(* What the client sends for a request *)

Symbol == {CRLF, Text} \cup {Size(n) : n \in Int}

LEMMA Symbols ==
    /\ CRLF \in Symbol /\ Text \in Symbol /\ CRLF # Text
    /\ \A n \in Int : Size(n) \in Symbol /\ Size(n) # CRLF /\ Size(n) # Text
                      /\ Size(n).text = "size" /\ Size(n).size = n
    /\ CRLF.text # "size" /\ Text.text # "size"
  <1>1. CRLF.text = "\r\n" /\ Text.text = "text" /\ CRLF.text # Text.text
    BY DEF CRLF, Text
  <1>2. \A n \in Int : Size(n).text = "size" /\ Size(n).size = n
    BY DEF Size
  <1>3. CRLF.text # "size" /\ Text.text # "size"
    BY <1>1
  <1>4. CRLF \in Symbol /\ Text \in Symbol
    BY DEF Symbol
  <1>5. \A n \in Int : Size(n) \in Symbol
    BY DEF Symbol
  <1> QED
    BY <1>1, <1>2, <1>3, <1>4, <1>5

LEMMA LinesAt ==
    ASSUME NEW n \in Nat
    PROVE  /\ Lines(n) \in Seq(Symbol) /\ Len(Lines(n)) = 2 * n
           /\ \A k \in 1 .. 2 * n : Lines(n)[k] = IF k % 2 = 1 THEN Text ELSE CRLF
  BY Symbols DEF Lines

\* The symbols of the first line, the header lines and the end of the head.
TopLen(q) == 2 * q.headers + 3

\* The first k symbols of a head hold line ends at even places, and at its end.
HeadAt(s, q) ==
    \A k \in 1 .. TopLen(q) :
        s[k] = IF k % 2 = 0 \/ k = TopLen(q) THEN CRLF ELSE Text

LEMMA TopAt ==
    ASSUME NEW q \in Request
    PROVE  /\ Top(q) \in Seq(Symbol) /\ Len(Top(q)) = TopLen(q) /\ TopLen(q) \in Nat
           /\ HeadAt(Top(q), q)
  <1> DEFINE n == 1 + q.headers
             l == Lines(n)
  <1>1. n \in Nat /\ q.headers \in Nat /\ TopLen(q) = 2 * n + 1 /\ TopLen(q) \in Nat
    BY DEF Request, TopLen
  <1>2. /\ l \in Seq(Symbol) /\ Len(l) = 2 * n
        /\ \A k \in 1 .. 2 * n : l[k] = IF k % 2 = 1 THEN Text ELSE CRLF
    BY <1>1, LinesAt
  <1>3. Top(q) = l \o <<CRLF>>
    BY DEF Top
  <1> HIDE DEF l
  <1>4. <<CRLF>> \in Seq(Symbol) /\ Len(<<CRLF>>) = 1 /\ <<CRLF>>[1] = CRLF
    BY Symbols
  <1> HIDE DEF n
  <1>5. /\ Top(q) \in Seq(Symbol) /\ Len(Top(q)) = 2 * n + 1
        /\ \A k \in 1 .. 2 * n : Top(q)[k] = l[k]
        /\ Top(q)[2 * n + 1] = CRLF
    <2>1. /\ l \o <<CRLF>> \in Seq(Symbol)
          /\ Len(l \o <<CRLF>>) = Len(l) + Len(<<CRLF>>)
          /\ \A i \in 1 .. Len(l) : (l \o <<CRLF>>)[i] = l[i]
          /\ \A i \in 1 .. Len(<<CRLF>>) : (l \o <<CRLF>>)[Len(l) + i] = <<CRLF>>[i]
      BY <1>2, <1>4, ConcatAt
    <2> QED
      BY <1>1, <1>2, <1>3, <1>4, <2>1
  <1>6. ASSUME NEW k \in 1 .. TopLen(q)
        PROVE  Top(q)[k] = IF k % 2 = 0 \/ k = TopLen(q) THEN CRLF ELSE Text
    BY <1>1, <1>2, <1>5
  <1> QED
    BY <1>1, <1>5, <1>6 DEF HeadAt

\* A chunk: its size, a line end, its data, and a line end if it is well made.
ChunkAt(s, from, chunk) ==
    /\ s[from + 1] = Size(chunk.size)
    /\ s[from + 2] = CRLF
    /\ \A k \in 1 .. Len(chunk.data) : s[from + 2 + k] = chunk.data[k]
    /\ s[from + Len(chunk.data) + 3] = IF chunk.ended THEN CRLF ELSE Text

LEMMA SentAt ==
    ASSUME NEW chunk \in Chunk
    PROVE  /\ Sent(chunk) \in Seq(Symbol) /\ Len(Sent(chunk)) = Len(chunk.data) + 3
           /\ Len(chunk.data) \in Nat
           /\ ChunkAt(Sent(chunk), 0, chunk)
  <1> DEFINE d == chunk.data
             a == <<Size(chunk.size), CRLF>>
             z == <<IF chunk.ended THEN CRLF ELSE Text>>
  <1>1. d \in Seq(Symbol) /\ Len(d) \in Nat
    <2>1. d \in Seq({CRLF, Text})
      BY DEF Chunk
    <2> QED
      BY <2>1, Symbols
  <1>2. a \in Seq(Symbol) /\ Len(a) = 2 /\ a[1] = Size(chunk.size) /\ a[2] = CRLF
    BY Symbols DEF Chunk
  <1>3. z \in Seq(Symbol) /\ Len(z) = 1 /\ z[1] = IF chunk.ended THEN CRLF ELSE Text
    BY Symbols
  <1>4. Sent(chunk) = (a \o d) \o z
    BY DEF Sent
  <1> HIDE DEF a, d, z
  <1> DEFINE ad == a \o d
  <1>5. /\ ad \in Seq(Symbol) /\ Len(ad) = Len(a) + Len(d)
        /\ \A i \in 1 .. Len(a) : ad[i] = a[i]
        /\ \A i \in 1 .. Len(d) : ad[Len(a) + i] = d[i]
    BY <1>1, <1>2, ConcatAt
  <1>6. /\ Sent(chunk) \in Seq(Symbol) /\ Len(Sent(chunk)) = Len(ad) + Len(z)
        /\ \A i \in 1 .. Len(ad) : Sent(chunk)[i] = ad[i]
        /\ \A i \in 1 .. Len(z) : Sent(chunk)[Len(ad) + i] = z[i]
    <2>1. Sent(chunk) = ad \o z
      BY <1>4
    <2> HIDE DEF ad
    <2>2. /\ ad \o z \in Seq(Symbol) /\ Len(ad \o z) = Len(ad) + Len(z)
          /\ \A i \in 1 .. Len(ad) : (ad \o z)[i] = ad[i]
          /\ \A i \in 1 .. Len(z) : (ad \o z)[Len(ad) + i] = z[i]
      <3>1. ad \in Seq(Symbol) /\ z \in Seq(Symbol)
        BY <1>3, <1>5
      <3> QED
        BY <3>1, ConcatAt
    <2> QED
      BY <2>1, <2>2
  <1> HIDE DEF ad
  <1>7. /\ Sent(chunk)[0 + 1] = a[1] /\ Sent(chunk)[0 + 2] = a[2]
        /\ \A k \in 1 .. Len(d) : Sent(chunk)[0 + 2 + k] = d[k]
        /\ Sent(chunk)[0 + Len(d) + 3] = z[1]
    <2>1. Len(ad) = Len(d) + 2
      BY <1>1, <1>2, <1>5
    <2>2. Sent(chunk)[1] = a[1] /\ Sent(chunk)[2] = a[2]
      BY <1>1, <1>2, <1>5, <1>6, <2>1
    <2>3. ASSUME NEW k \in 1 .. Len(d) PROVE Sent(chunk)[2 + k] = d[k]
      <3>1. ad[2 + k] = d[k]
        BY <1>2, <1>5
      <3>2. 2 + k \in 1 .. Len(ad)
        BY <1>1, <2>1
      <3> QED
        BY <1>6, <3>1, <3>2
    <2>4. Sent(chunk)[Len(d) + 3] = z[1]
      <3>1. Sent(chunk)[Len(ad) + 1] = z[1]
        BY <1>3, <1>6
      <3> QED
        BY <1>1, <2>1, <3>1
    <2> QED
      BY <1>1, <2>2, <2>3, <2>4
  <1>8. Len(Sent(chunk)) = Len(d) + 3
    BY <1>2, <1>3, <1>5, <1>6
  <1> QED
    BY <1>1, <1>2, <1>3, <1>6, <1>7, <1>8 DEF ChunkAt, d

\* The chunks of q, as sent, and where each begins after the head.
SentChunks(q) == [i \in DOMAIN q.chunks |-> Sent(q.chunks[i])]
Starts(q) == CHOOSE start : LaidOut(FlattenSeq(SentChunks(q)), SentChunks(q), start)
ChunksEnd(q) == Starts(q)[Len(q.chunks)]

LEMMA StartsOfChunks ==
    ASSUME NEW q \in Request
    PROVE  /\ FlattenSeq(SentChunks(q)) \in Seq(Symbol)
           /\ Starts(q) \in [0 .. Len(q.chunks) -> Nat] /\ Starts(q)[0] = 0
           /\ \A i \in 1 .. Len(q.chunks) :
                /\ Len(q.chunks[i].data) \in Nat
                /\ Starts(q)[i] = Starts(q)[i - 1] + Len(q.chunks[i].data) + 3
           /\ Len(FlattenSeq(SentChunks(q))) = ChunksEnd(q)
           /\ \A i \in 1 .. Len(q.chunks) : \A k \in 1 .. Len(q.chunks[i].data) + 3 :
                /\ Starts(q)[i - 1] + k \in 1 .. ChunksEnd(q)
                /\ FlattenSeq(SentChunks(q))[Starts(q)[i - 1] + k] = Sent(q.chunks[i])[k]
  <1> DEFINE ss == SentChunks(q)
             n == Len(q.chunks)
  <1>1. n \in Nat /\ DOMAIN q.chunks = 1 .. n /\ \A i \in 1 .. n : q.chunks[i] \in Chunk
    BY DEF Request
  <1>2. \A i \in 1 .. n : Sent(q.chunks[i]) \in Seq(Symbol)
                          /\ Len(Sent(q.chunks[i])) = Len(q.chunks[i].data) + 3
                          /\ Len(q.chunks[i].data) \in Nat
    BY <1>1, SentAt
  <1>3. ss \in Seq(Seq(Symbol)) /\ Len(ss) = n /\ \A i \in 1 .. n : ss[i] = Sent(q.chunks[i])
    BY <1>1, <1>2 DEF SentChunks
  <1> HIDE DEF ss
  <1>4. FlattenSeq(ss) \in Seq(Symbol) /\ LaidOut(FlattenSeq(ss), ss, Starts(q))
    BY <1>3, FlattenLaysOut DEF Starts, ss
  <1> HIDE DEF n
  <1>5. /\ Starts(q) \in [0 .. n -> Nat] /\ Starts(q)[0] = 0
        /\ \A i \in 1 .. n : Starts(q)[i] = Starts(q)[i - 1] + Len(ss[i])
        /\ Len(FlattenSeq(ss)) = Starts(q)[n]
        /\ \A i \in 1 .. n : \A k \in 1 .. Len(ss[i]) :
                Starts(q)[i - 1] + k \in 1 .. Len(FlattenSeq(ss))
                /\ FlattenSeq(ss)[Starts(q)[i - 1] + k] = ss[i][k]
    BY <1>3, <1>4 DEF LaidOut
  <1>6. \A i \in 1 .. n : Len(ss[i]) = Len(q.chunks[i].data) + 3
    BY <1>2, <1>3
  <1>7. ASSUME NEW i \in 1 .. n
        PROVE  Starts(q)[i] = Starts(q)[i - 1] + Len(q.chunks[i].data) + 3
    <2>1. i - 1 \in 0 .. n /\ Starts(q)[i - 1] \in Nat
      BY <1>1, <1>5
    <2> QED
      BY <1>2, <1>5, <1>6, <2>1
  <1>8. ASSUME NEW i \in 1 .. n, NEW k \in 1 .. Len(q.chunks[i].data) + 3
        PROVE  /\ Starts(q)[i - 1] + k \in 1 .. Starts(q)[n]
               /\ FlattenSeq(ss)[Starts(q)[i - 1] + k] = Sent(q.chunks[i])[k]
    <2>1. k \in 1 .. Len(ss[i])
      BY <1>6
    <2> QED
      BY <1>3, <1>5, <2>1
  <1> QED
    BY <1>2, <1>4, <1>5, <1>7, <1>8 DEF n, ss, ChunksEnd

-----------------------------------------------------------------------------
(* The stream of a request *)

\* Where the last chunk begins, in the whole stream.
LastAt(q) == TopLen(q) + ChunksEnd(q)

StreamLen(q) ==
    IF q.framing = "none" THEN TopLen(q)
    ELSE IF q.framing = "length" THEN TopLen(q) + Len(q.body)
    ELSE LastAt(q) + 3 + 2 * q.trailers

LengthAt(s, q) == \A k \in 1 .. Len(q.body) : s[TopLen(q) + k] = q.body[k]

ChunksAt(s, q) ==
    /\ \A i \in 1 .. Len(q.chunks) :
            ChunkAt(s, TopLen(q) + Starts(q)[i - 1], q.chunks[i])
    /\ s[LastAt(q) + 1] = Size(0)
    /\ s[LastAt(q) + 2] = CRLF
    /\ \A k \in 1 .. 2 * q.trailers + 1 :
            s[LastAt(q) + 2 + k] =
                IF k % 2 = 0 \/ k = 2 * q.trailers + 1 THEN CRLF ELSE Text

LEMMA EndAt ==
    ASSUME NEW n \in Nat
    PROVE  LET e == <<Size(0), CRLF>> \o Lines(n) \o <<CRLF>>
           IN  /\ e \in Seq(Symbol) /\ Len(e) = 2 * n + 3
               /\ e[1] = Size(0) /\ e[2] = CRLF
               /\ \A k \in 1 .. 2 * n + 1 :
                    e[2 + k] = IF k % 2 = 0 \/ k = 2 * n + 1 THEN CRLF ELSE Text
  <1> DEFINE a == <<Size(0), CRLF>>
             l == Lines(n)
             al == a \o l
             e == al \o <<CRLF>>
  <1>1. a \in Seq(Symbol) /\ Len(a) = 2 /\ a[1] = Size(0) /\ a[2] = CRLF
    BY Symbols
  <1>2. /\ l \in Seq(Symbol) /\ Len(l) = 2 * n
        /\ \A k \in 1 .. 2 * n : l[k] = IF k % 2 = 1 THEN Text ELSE CRLF
    BY LinesAt
  <1>3. <<CRLF>> \in Seq(Symbol) /\ Len(<<CRLF>>) = 1 /\ <<CRLF>>[1] = CRLF
    BY Symbols
  <1> HIDE DEF a, l
  <1>4. /\ al \in Seq(Symbol) /\ Len(al) = Len(a) + Len(l)
        /\ \A i \in 1 .. Len(a) : al[i] = a[i]
        /\ \A i \in 1 .. Len(l) : al[Len(a) + i] = l[i]
    <2>1. a \in Seq(Symbol) /\ l \in Seq(Symbol)
      BY <1>1, <1>2
    <2> QED
      BY <2>1, ConcatAt
  <1> HIDE DEF al
  <1>5. /\ e \in Seq(Symbol) /\ Len(e) = Len(al) + Len(<<CRLF>>)
        /\ \A i \in 1 .. Len(al) : e[i] = al[i]
        /\ \A i \in 1 .. Len(<<CRLF>>) : e[Len(al) + i] = <<CRLF>>[i]
    <2>1. al \in Seq(Symbol) /\ <<CRLF>> \in Seq(Symbol)
      BY <1>3, <1>4
    <2> QED
      BY <2>1, ConcatAt
  <1> HIDE DEF e
  <1>6. Len(al) = 2 * n + 2 /\ Len(e) = 2 * n + 3
    BY <1>1, <1>2, <1>3, <1>4, <1>5
  <1>7. e[1] = Size(0) /\ e[2] = CRLF
    BY <1>1, <1>4, <1>5, <1>6
  <1>8. e[2 * n + 3] = CRLF
    <2>1. e[Len(al) + 1] = CRLF
      BY <1>3, <1>5
    <2> QED
      BY <1>6, <2>1
  <1>9. ASSUME NEW k \in 1 .. 2 * n PROVE e[2 + k] = IF k % 2 = 0 THEN CRLF ELSE Text
    <2>1. al[2 + k] = l[k]
      BY <1>1, <1>2, <1>4
    <2>2. e[2 + k] = al[2 + k]
      BY <1>5, <1>6
    <2> QED
      BY <1>2, <2>1, <2>2
  <1>10. ASSUME NEW k \in 1 .. 2 * n + 1
         PROVE  e[2 + k] = IF k % 2 = 0 \/ k = 2 * n + 1 THEN CRLF ELSE Text
    <2>1. CASE k = 2 * n + 1
      <3>1. 2 + k = 2 * n + 3
        BY <2>1
      <3> QED
        BY <1>8, <2>1, <3>1
    <2>2. CASE k # 2 * n + 1
      <3>1. k \in 1 .. 2 * n
        BY <2>2
      <3> QED
        BY <1>9, <2>2, <3>1
    <2> QED
      BY <2>1, <2>2
  <1> QED
    BY <1>5, <1>6, <1>7, <1>10 DEF e, al, a, l

LEMMA StreamAt ==
    ASSUME NEW q \in Requests
    PROVE  /\ q \in Request
           /\ Stream(q) \in Seq(Symbol) /\ Len(Stream(q)) = StreamLen(q)
           /\ HeadAt(Stream(q), q)
           /\ q.framing = "length" => LengthAt(Stream(q), q)
           /\ q.framing = "chunked" => ChunksAt(Stream(q), q)
  <1> DEFINE t == Top(q)
             c == FlattenSeq(SentChunks(q))
             e == <<Size(0), CRLF>> \o Lines(q.trailers) \o <<CRLF>>
  <1>1. q \in Request
    BY ReadingAssumption
  <1>2. t \in Seq(Symbol) /\ Len(t) = TopLen(q) /\ TopLen(q) \in Nat /\ HeadAt(t, q)
    BY <1>1, TopAt
  <1> HIDE DEF t
  <1>3. ASSUME NEW rest \in Seq(Symbol), Stream(q) = t \o rest
        PROVE  /\ Stream(q) \in Seq(Symbol) /\ Len(Stream(q)) = TopLen(q) + Len(rest)
               /\ HeadAt(Stream(q), q)
               /\ \A k \in 1 .. Len(rest) : Stream(q)[TopLen(q) + k] = rest[k]
    <2>1. /\ t \o rest \in Seq(Symbol) /\ Len(t \o rest) = Len(t) + Len(rest)
          /\ \A i \in 1 .. Len(t) : (t \o rest)[i] = t[i]
          /\ \A i \in 1 .. Len(rest) : (t \o rest)[Len(t) + i] = rest[i]
      <3>1. t \in Seq(Symbol) /\ rest \in Seq(Symbol)
        BY <1>2
      <3> QED
        BY <3>1, ConcatAt
    <2>2. HeadAt(t \o rest, q)
      BY <1>2, <2>1 DEF HeadAt
    <2> QED
      BY <1>2, <1>3, <2>1, <2>2
  <1>4. CASE q.framing = "none"
    <2>1. Stream(q) = t \o <<>> /\ <<>> \in Seq(Symbol) /\ Len(<<>>) = 0
      BY <1>4 DEF Stream, t
    <2>2. /\ Stream(q) \in Seq(Symbol) /\ Len(Stream(q)) = TopLen(q) + Len(<<>>)
          /\ HeadAt(Stream(q), q)
      BY <1>3, <2>1
    <2>3. Len(Stream(q)) = TopLen(q)
      BY <1>2, <2>1, <2>2
    <2> QED
      BY <1>1, <1>4, <2>2, <2>3 DEF StreamLen
  <1>5. CASE q.framing = "length"
    <2>1. q.body \in Seq({CRLF, Text})
      BY <1>1 DEF Request
    <2>2. q.body \in Seq(Symbol)
      BY <2>1, Symbols
    <2>3. Stream(q) = t \o q.body
      BY <1>5 DEF Stream, t
    <2>4. /\ Stream(q) \in Seq(Symbol) /\ Len(Stream(q)) = TopLen(q) + Len(q.body)
          /\ HeadAt(Stream(q), q)
          /\ \A k \in 1 .. Len(q.body) : Stream(q)[TopLen(q) + k] = q.body[k]
      BY <1>3, <2>2, <2>3
    <2> QED
      BY <1>1, <1>5, <2>4 DEF StreamLen, LengthAt
  <1>6. CASE q.framing = "chunked"
    <2> DEFINE n == Len(q.chunks)
               z == ChunksEnd(q)
               starts == Starts(q)
               rest == c \o e
    <2>1. n \in Nat /\ \A i \in 1 .. n : q.chunks[i] \in Chunk
      BY <1>1 DEF Request
    <2>2. /\ c \in Seq(Symbol) /\ Len(c) = z
          /\ starts \in [0 .. n -> Nat] /\ starts[0] = 0
          /\ \A i \in 1 .. n : Len(q.chunks[i].data) \in Nat
          /\ \A i \in 1 .. n : \A k \in 1 .. Len(q.chunks[i].data) + 3 :
                /\ starts[i - 1] + k \in 1 .. z
                /\ c[starts[i - 1] + k] = Sent(q.chunks[i])[k]
      BY <1>1, StartsOfChunks
    <2>3. /\ e \in Seq(Symbol) /\ Len(e) = 2 * q.trailers + 3
          /\ e[1] = Size(0) /\ e[2] = CRLF
          /\ \A k \in 1 .. 2 * q.trailers + 1 :
                e[2 + k] = IF k % 2 = 0 \/ k = 2 * q.trailers + 1 THEN CRLF ELSE Text
          /\ q.trailers \in Nat
      <3>1. q.trailers \in Nat
        BY <1>1 DEF Request
      <3> QED
        BY <3>1, EndAt
    <2>4. Stream(q) = t \o rest
      <3>1. Stream(q) = t \o (c \o <<Size(0), CRLF>> \o Lines(q.trailers) \o <<CRLF>>)
        BY <1>6 DEF Stream, SentChunks, t
      <3>2. <<Size(0), CRLF>> \in Seq(Symbol) /\ <<CRLF>> \in Seq(Symbol)
            /\ Lines(q.trailers) \in Seq(Symbol)
        BY <2>3, Symbols, LinesAt
      <3>3. c \o <<Size(0), CRLF>> \o Lines(q.trailers) \o <<CRLF>> = c \o e
        BY <2>2, <3>2, ConcatAssociative, ConcatProperties
      <3> QED
        BY <3>1, <3>3
    <2> HIDE DEF c, e, z
    <2>5. /\ rest \in Seq(Symbol) /\ Len(rest) = Len(c) + Len(e)
          /\ \A i \in 1 .. Len(c) : rest[i] = c[i]
          /\ \A i \in 1 .. Len(e) : rest[Len(c) + i] = e[i]
      <3>1. c \in Seq(Symbol) /\ e \in Seq(Symbol)
        BY <2>2, <2>3
      <3> QED
        BY <3>1, ConcatAt
    <2> HIDE DEF rest
    <2>6. /\ Stream(q) \in Seq(Symbol) /\ Len(Stream(q)) = TopLen(q) + Len(rest)
          /\ HeadAt(Stream(q), q)
          /\ \A k \in 1 .. Len(rest) : Stream(q)[TopLen(q) + k] = rest[k]
      BY <1>3, <2>4, <2>5
    <2>7. z \in Nat /\ Len(rest) = z + 2 * q.trailers + 3
      BY <2>2, <2>3, <2>5
    <2>8. Len(Stream(q)) = StreamLen(q)
      BY <1>2, <1>6, <2>3, <2>6, <2>7 DEF StreamLen, LastAt, z
    <2>9. ASSUME NEW k \in 1 .. z PROVE Stream(q)[TopLen(q) + k] = c[k]
      <3>1. k \in 1 .. Len(c) /\ k \in 1 .. Len(rest)
        BY <2>2, <2>3, <2>7
      <3> QED
        BY <2>5, <2>6, <3>1
    <2>10. ASSUME NEW k \in 1 .. 2 * q.trailers + 3
           PROVE  Stream(q)[TopLen(q) + (z + k)] = e[k]
      <3>1. k \in 1 .. Len(e) /\ z + k \in 1 .. Len(rest)
        BY <2>3, <2>7
      <3>2. rest[z + k] = e[k]
        BY <2>2, <2>5, <3>1
      <3> QED
        BY <2>6, <3>1, <3>2
    <2>11. ASSUME NEW i \in 1 .. n
           PROVE  ChunkAt(Stream(q), TopLen(q) + starts[i - 1], q.chunks[i])
      <3> DEFINE chunk == q.chunks[i]
                 from == starts[i - 1]
      <3>1. chunk \in Chunk /\ Len(chunk.data) \in Nat /\ from \in Nat
        <4>1. i - 1 \in 0 .. n
          BY <2>1
        <4> QED
          BY <2>1, <2>2, <4>1
      <3>2. \A k \in 1 .. Len(chunk.data) + 3 :
                from + k \in 1 .. z /\ c[from + k] = Sent(chunk)[k]
        BY <2>2
      <3>3. ChunkAt(Sent(chunk), 0, chunk)
        BY <3>1, SentAt
      <3> HIDE DEF chunk, from
      <3>4. \A k \in 1 .. Len(chunk.data) + 3 :
                Stream(q)[TopLen(q) + (from + k)] = Sent(chunk)[k]
        BY <2>9, <3>2
      <3>5. \A k \in 1 .. Len(chunk.data) + 3 :
                Stream(q)[(TopLen(q) + from) + k] = Sent(chunk)[k]
        BY <1>2, <3>1, <3>4
      <3> DEFINE at == TopLen(q) + from
                 len == Len(chunk.data)
      <3>6. at \in Nat /\ len \in Nat
        BY <1>2, <3>1
      <3>7. \A k \in 1 .. len + 3 : Stream(q)[at + k] = Sent(chunk)[k]
        BY <3>5
      <3>8. /\ Sent(chunk)[1] = Size(chunk.size) /\ Sent(chunk)[2] = CRLF
            /\ \A k \in 1 .. len : Sent(chunk)[2 + k] = chunk.data[k]
            /\ Sent(chunk)[len + 3] = IF chunk.ended THEN CRLF ELSE Text
        BY <3>1, <3>3 DEF ChunkAt
      <3> HIDE DEF at, len
      <3>9. Stream(q)[at + 1] = Sent(chunk)[1] /\ Stream(q)[at + 2] = Sent(chunk)[2]
            /\ Stream(q)[at + len + 3] = Sent(chunk)[len + 3]
        <4>1. Stream(q)[at + (len + 3)] = Sent(chunk)[len + 3]
          BY <3>6, <3>7
        <4>2. at + (len + 3) = at + len + 3
          BY <3>6
        <4> QED
          BY <3>6, <3>7, <4>1, <4>2
      <3>10. ASSUME NEW k \in 1 .. len PROVE Stream(q)[at + 2 + k] = chunk.data[k]
        <4>1. Stream(q)[at + (2 + k)] = Sent(chunk)[2 + k]
          BY <3>6, <3>7
        <4>2. at + (2 + k) = at + 2 + k
          BY <3>6
        <4> QED
          BY <3>8, <4>1, <4>2
      <3>11. ChunkAt(Stream(q), at, chunk)
        BY <3>8, <3>9, <3>10 DEF ChunkAt, len
      <3> QED
        BY <3>11 DEF at, from, chunk
    <2>12. /\ Stream(q)[LastAt(q) + 1] = Size(0) /\ Stream(q)[LastAt(q) + 2] = CRLF
           /\ \A k \in 1 .. 2 * q.trailers + 1 : Stream(q)[LastAt(q) + 2 + k] = e[2 + k]
      <3> DEFINE m == 2 * q.trailers
                 last == LastAt(q)
      <3>1. m \in Nat /\ last = TopLen(q) + z /\ last \in Nat
        <4>1. last = TopLen(q) + z
          BY DEF LastAt, z
        <4>2. q.trailers \in Nat
          BY <2>3
        <4>3. TopLen(q) \in Nat /\ z \in Nat
          BY <1>2, <2>7
        <4>4. TopLen(q) + z \in Nat
          BY <4>3
        <4>5. m \in Nat
          BY <4>2
        <4> QED
          BY <4>1, <4>4, <4>5
      <3> HIDE DEF m, last
      <3>2. ASSUME NEW k \in 1 .. m + 3 PROVE Stream(q)[last + k] = e[k]
        <4>1. TopLen(q) + (z + k) = last + k
          BY <1>2, <2>7, <3>1
        <4>2. Stream(q)[TopLen(q) + (z + k)] = e[k]
          BY <2>10 DEF m
        <4> QED
          BY <4>1, <4>2
      <3>3. ASSUME NEW k \in 1 .. m + 1 PROVE Stream(q)[last + 2 + k] = e[2 + k]
        <4>1. 2 + k \in 1 .. m + 3 /\ last + (2 + k) = last + 2 + k
          BY <3>1
        <4>2. Stream(q)[last + (2 + k)] = e[2 + k]
          BY <3>2, <4>1
        <4> QED
          BY <4>1, <4>2
      <3>4. Stream(q)[last + 1] = e[1] /\ Stream(q)[last + 2] = e[2]
        BY <3>1, <3>2
      <3> QED
        BY <2>3, <3>3, <3>4 DEF m, last
    <2>13. ChunksAt(Stream(q), q)
      BY <2>3, <2>11, <2>12 DEF ChunksAt
    <2> QED
      BY <1>1, <1>6, <2>6, <2>8, <2>13
  <1> QED
    BY <1>1, <1>4, <1>5, <1>6 DEF Request

\* What follows the request changes nothing before its end.
LEMMA FollowedAt ==
    ASSUME NEW q \in Requests
    PROVE  /\ q \in Request
           /\ Followed(q) \in Seq(Symbol) /\ Len(Followed(q)) \in Nat
           /\ Len(Stream(q)) = StreamLen(q) /\ StreamLen(q) \in Nat
           /\ TopLen(q) \in Nat /\ TopLen(q) >= 3
           /\ TopLen(q) <= StreamLen(q) /\ StreamLen(q) <= Len(Followed(q))
           /\ HeadAt(Followed(q), q)
           /\ q.framing = "length" => LengthAt(Followed(q), q)
           /\ q.framing = "chunked" => ChunksAt(Followed(q), q)
  <1> DEFINE s == Stream(q)
             f == Followed(q)
             l == StreamLen(q)
             t == TopLen(q)
  <1>1. /\ q \in Request /\ s \in Seq(Symbol) /\ Len(s) = l
        /\ HeadAt(s, q)
        /\ q.framing = "length" => LengthAt(s, q)
        /\ q.framing = "chunked" => ChunksAt(s, q)
    BY StreamAt
  <1>2. q.next \in Seq(Symbol)
    <2>1. q.next \in Seq({CRLF, Text})
      BY <1>1 DEF Request
    <2> QED
      BY <2>1, Symbols
  <1>3. t \in Nat /\ t >= 3
    <2>1. q.headers \in Nat
      BY <1>1 DEF Request
    <2> QED
      BY <2>1 DEF TopLen
  <1>4. l \in Nat
    BY <1>1
  <1>5. Len(q.body) \in Nat /\ q.trailers \in Nat /\ Len(q.chunks) \in Nat
    BY <1>1 DEF Request
  <1>6. \A i \in 0 .. Len(q.chunks) : Starts(q)[i] \in Nat
    BY <1>1, StartsOfChunks
  <1>7. ChunksEnd(q) \in Nat
    BY <1>5, <1>6 DEF ChunksEnd
  <1>8. t <= l
    <2>1. l = t \/ l = t + Len(q.body) \/ l = (t + ChunksEnd(q)) + 3 + 2 * q.trailers
      BY DEF StreamLen, LastAt
    <2> HIDE DEF t, l
    <2> QED
      BY <1>3, <1>5, <1>7, <2>1
  <1>9. /\ f \in Seq(Symbol) /\ Len(f) = l + Len(q.next)
        /\ \A i \in 1 .. l : f[i] = s[i]
    <2> DEFINE a == s
               n == q.next
    <2>1. a \in Seq(Symbol) /\ n \in Seq(Symbol) /\ Len(a) = l
      BY <1>1, <1>2
    <2>2. f = a \o n
      BY DEF Followed
    <2> HIDE DEF a, n, f, l
    <2>3. /\ f \in Seq(Symbol) /\ Len(f) = l + Len(n)
          /\ \A i \in 1 .. l : f[i] = a[i]
      BY <2>1, <2>2, ConcatAt
    <2> QED
      BY <2>3 DEF a, n
  <1> HIDE DEF s, f, l, t
  <1>10. Len(f) \in Nat /\ l <= Len(f)
    <2>1. Len(q.next) \in Nat
      BY <1>2
    <2> QED
      BY <1>4, <1>9, <2>1
  <1>11. HeadAt(f, q)
    <2>1. \A k \in 1 .. t : f[k] = s[k]
      BY <1>3, <1>4, <1>8, <1>9
    <2> QED
      BY <1>1, <2>1 DEF HeadAt, t
  <1>12. ASSUME q.framing = "length" PROVE LengthAt(f, q)
    <2>1. l = t + Len(q.body)
      BY <1>12 DEF StreamLen, l, t
    <2>2. \A k \in 1 .. Len(q.body) : t + k \in 1 .. l
      BY <1>3, <1>5, <2>1
    <2>3. \A k \in 1 .. Len(q.body) : f[t + k] = s[t + k]
      BY <1>9, <2>2
    <2> QED
      BY <1>1, <1>12, <2>3 DEF LengthAt, t
  <1>13. ASSUME q.framing = "chunked" PROVE ChunksAt(f, q)
    <2> DEFINE n == Len(q.chunks)
               c == ChunksEnd(q)
               m == 2 * q.trailers
               last == LastAt(q)
    <2>1. last = t + c /\ l = last + 3 + m
      BY <1>13 DEF StreamLen, LastAt, l, t
    <2>2. m \in Nat /\ c \in Nat
      BY <1>5, <1>7
    <2>3. ChunksAt(s, q)
      BY <1>1, <1>13
    <2>4. ASSUME NEW i \in 1 .. n PROVE ChunkAt(f, t + Starts(q)[i - 1], q.chunks[i])
      <3> DEFINE d == q.chunks[i].data
                 from == Starts(q)[i - 1]
                 len == Len(d)
      <3>1. len \in Nat /\ \A k \in 1 .. len + 3 : from + k \in 1 .. c
        BY <1>1, StartsOfChunks DEF ChunksEnd
      <3>2. from \in Nat
        BY <1>5, <1>6
      <3>3. ChunkAt(s, t + from, q.chunks[i])
        BY <2>3 DEF ChunksAt, t
      <3>4. /\ s[t + from + 1] = Size(q.chunks[i].size) /\ s[t + from + 2] = CRLF
            /\ \A k \in 1 .. len : s[t + from + 2 + k] = d[k]
            /\ s[t + from + len + 3] = IF q.chunks[i].ended THEN CRLF ELSE Text
        BY <3>3 DEF ChunkAt
      <3> HIDE DEF c, m, last, from, len, d
      <3>5. \A k \in 1 .. len + 3 : t + from + k \in 1 .. l
        <4> SUFFICES ASSUME NEW k \in 1 .. len + 3 PROVE t + from + k \in 1 .. l
          OBVIOUS
        <4>1. from + k <= c /\ k \in Nat /\ k >= 1
          BY <3>1
        <4> QED
          BY <1>3, <2>1, <2>2, <3>2, <4>1
      <3>6. \A k \in 1 .. len + 3 : f[t + from + k] = s[t + from + k]
        BY <1>9, <3>5
      <3>7. /\ f[t + from + 1] = s[t + from + 1] /\ f[t + from + 2] = s[t + from + 2]
            /\ f[t + from + len + 3] = s[t + from + len + 3]
        <4>1. 1 \in 1 .. len + 3 /\ 2 \in 1 .. len + 3 /\ len + 3 \in 1 .. len + 3
              /\ t + from + (len + 3) = t + from + len + 3
          BY <1>3, <3>1, <3>2
        <4> QED
          BY <3>6, <4>1
      <3>8. ASSUME NEW k \in 1 .. len PROVE f[t + from + 2 + k] = s[t + from + 2 + k]
        <4>1. 2 + k \in 1 .. len + 3 /\ t + from + (2 + k) = t + from + 2 + k
          BY <1>3, <3>1, <3>2
        <4> QED
          BY <3>6, <4>1
      <3> QED
        BY <3>4, <3>7, <3>8 DEF ChunkAt, len, d, from
    <2>5. /\ s[last + 1] = Size(0) /\ s[last + 2] = CRLF
          /\ \A k \in 1 .. m + 1 :
                s[last + 2 + k] = IF k % 2 = 0 \/ k = m + 1 THEN CRLF ELSE Text
      BY <2>3 DEF ChunksAt
    <2> HIDE DEF c, m, last
    <2>6. last \in Nat
      BY <1>3, <2>1, <2>2
    <2>7. /\ last + 1 \in 1 .. l /\ last + 2 \in 1 .. l
          /\ \A k \in 1 .. m + 1 : last + 2 + k \in 1 .. l
      BY <2>1, <2>2, <2>6
    <2>8. /\ f[last + 1] = s[last + 1] /\ f[last + 2] = s[last + 2]
          /\ \A k \in 1 .. m + 1 : f[last + 2 + k] = s[last + 2 + k]
      BY <1>9, <2>7
    <2> QED
      BY <2>4, <2>5, <2>8 DEF ChunksAt, t, m, last
  <1> QED
    BY <1>1, <1>3, <1>4, <1>8, <1>9, <1>10, <1>11, <1>12, <1>13 DEF s, f, l, t

-----------------------------------------------------------------------------
(* Where line ends are found *)

LEMMA FirstIs ==
    ASSUME NEW S, S \subseteq Int, NEW m \in S, \A j \in S : m <= j
    PROVE  FirstOf(S) = m
  <1> DEFINE F(i) == i \in S /\ \A j \in S : i <= j
  <1>1. \A i : F(i) => i = m
    OBVIOUS
  <1>2. F(m)
    OBVIOUS
  <1>3. FirstOf(S) = CHOOSE i : F(i)
    BY DEF FirstOf
  <1> HIDE DEF F
  <1> QED
    BY <1>1, <1>2, <1>3

\* The lines of a head: the first ends after two symbols, the second is empty
\* if there are no header lines, and no two line ends follow each other before
\* its end.
LEMMA HeadLines ==
    ASSUME NEW q \in Requests
    PROVE  /\ TopLen(q) \in Nat /\ TopLen(q) >= 3 /\ q.headers \in Nat
           /\ Len(Followed(q)) \in Nat /\ TopLen(q) <= Len(Followed(q))
           /\ FirstOf(LineEnds(Followed(q), 0)) = 2
           /\ Followed(q)[3] = CRLF <=> q.headers = 0
           /\ q.headers > 0 => FirstOf(Parts(Followed(q), 2)) = TopLen(q)
           /\ \A k \in 0 .. Len(Followed(q)) :
                Parts(SubSeq(Followed(q), 1, k), 0) # {} => TopLen(q) <= k
  <1> DEFINE s == Followed(q)
             t == TopLen(q)
             h == q.headers
  <1>1. q \in Request /\ s \in Seq(Symbol) /\ HeadAt(s, q)
    BY FollowedAt
  <1>2. h \in Nat /\ t = 2 * h + 3
    BY <1>1 DEF Request, TopLen
  <1>3. t \in Nat /\ t >= 3
    BY <1>2
  <1>4. Len(s) \in Nat /\ t <= Len(s)
    <2> DEFINE l == StreamLen(q)
    <2>1. Len(s) \in Nat /\ l \in Nat /\ t <= l /\ l <= Len(s)
      BY FollowedAt
    <2> HIDE DEF s, t, l
    <2> QED
      BY <1>3, <2>1
  <1> HIDE DEF s, t, h
  <1>5. \A k \in 1 .. t : s[k] = IF k % 2 = 0 \/ k = t THEN CRLF ELSE Text
    BY <1>1 DEF HeadAt, t
  <1>6. CRLF # Text
    BY Symbols
  <1>7. s[1] = Text /\ s[2] = CRLF /\ s[t] = CRLF
    BY <1>3, <1>5
  <1>8. FirstOf(LineEnds(s, 0)) = 2
    <2>1. LineEnds(s, 0) \subseteq Int /\ 2 \in LineEnds(s, 0)
      BY <1>3, <1>4, <1>7 DEF LineEnds
    <2>2. \A j \in LineEnds(s, 0) : 2 <= j
      BY <1>4, <1>6, <1>7 DEF LineEnds
    <2> QED
      BY <2>1, <2>2, FirstIs
  <1>9. s[3] = CRLF <=> h = 0
    BY <1>2, <1>3, <1>5, <1>6
  <1>10. ASSUME NEW i \in Int, 2 <= i, i < t, s[i] = CRLF, s[i - 1] = CRLF PROVE FALSE
    <2>1. i % 2 = 0 /\ (i - 1) % 2 = 0
      BY <1>3, <1>5, <1>6, <1>10
    <2> QED
      BY <2>1
  <1>11. ASSUME h > 0 PROVE FirstOf(Parts(s, 2)) = t
    <2>1. t >= 5 /\ (t - 1) % 2 = 0
      BY <1>2, <1>11
    <2>2. s[t - 1] = CRLF
      BY <1>3, <1>5, <2>1
    <2>3. Parts(s, 2) \subseteq Int /\ t \in Parts(s, 2)
      BY <1>3, <1>4, <1>7, <2>1, <2>2 DEF Parts, LineEnds
    <2>4. ASSUME NEW j \in Parts(s, 2) PROVE t <= j
      <3>1. j \in Int /\ 2 <= j /\ s[j] = CRLF /\ s[j - 1] = CRLF
        BY <1>4 DEF Parts, LineEnds
      <3> QED
        BY <1>3, <1>10, <3>1
    <2> QED
      BY <2>3, <2>4, FirstIs
  <1>12. ASSUME NEW k \in 0 .. Len(s), Parts(SubSeq(s, 1, k), 0) # {} PROVE t <= k
    <2>1. Len(SubSeq(s, 1, k)) = k /\ \A i \in 1 .. k : SubSeq(s, 1, k)[i] = s[i]
      BY <1>1, <1>4
    <2>2. PICK j : j \in Parts(SubSeq(s, 1, k), 0)
      BY <1>12
    <2>3. j \in 1 .. k /\ j - 1 \in 1 .. k /\ s[j] = CRLF /\ s[j - 1] = CRLF
      BY <2>1, <2>2 DEF Parts, LineEnds
    <2> QED
      BY <1>3, <1>4, <1>10, <2>3
  <1> QED
    BY <1>2, <1>3, <1>4, <1>8, <1>9, <1>11, <1>12 DEF s, t, h

-----------------------------------------------------------------------------
(* The invariant *)

Resolved == read = Resolving

\* Nothing has been moved to the buffer.
Untouched == isConst /\ buffered = 0 /\ chunkedPos = 0 /\ stash = <<>> /\ ~loaded

StreamIsSent == request \in Requests /\ stream = Followed(request)

StashOK == stash \in Seq([pos : Nat, size : Nat])

\* The head is being read: parsing starts when all of it is there.
Beginning ==
    state \in {"FirstLine", "Header"} =>
        /\ Untouched /\ valid /\ ~complete /\ body = <<>> /\ outcome = "none"
        /\ state = "FirstLine" =>
            parsedSize = 0 /\ read \in {Resolving, [by |-> "some", count |-> 0]}
        /\ state = "Header" =>
            parsedSize = 2 /\ Resolved /\ request.headers > 0 /\ request.line
        /\ Resolved => TopLen(request) <= readSize

\* The body is being read: what was parsed is the head.
Loading ==
    state \in {"LoadBody", "Chunk", "Trailer"} =>
        /\ parsedSize = TopLen(request)
        /\ ~complete /\ body = <<>> /\ outcome = "none"
        /\ request.line /\ request.legal /\ HasBody(request)
        /\ read # Nothing => valid
        /\ request.framing = "chunked" \/ state = "LoadBody"
        /\ isConst => Untouched

\* A read of the rest of a body of known length asks for what is missing, and
\* there is room for it.
LengthAwaited ==
    state = "LoadBody" /\ request.framing = "length" =>
        /\ read.by \in {"resolve", "exactly"}
        /\ Resolved => isConst \/ buffered >= Len(request.body)
        /\ read.by = "exactly" =>
            /\ read.count = Len(request.body) - Unparsed /\ read.count > 0
            /\ IF isConst THEN Len(request.body) + parsedSize < MaxSize
                          ELSE buffered = Unparsed

\* The chunks that were found are the first ones, each where its data begins.
StashAt ==
    /\ Len(stash) <= Len(request.chunks)
    /\ \A i \in 1 .. Len(stash) :
        /\ stash[i] = [pos |-> Starts(request)[i - 1] + 2,
                       size |-> Len(request.chunks[i].data)]
        /\ request.chunks[i].size # -1

\* What was passed is what the chunks that were found make, and a line more at
\* the last one.
ChunksAwaited ==
    state \in {"LoadBody", "Chunk", "Trailer"} /\ request.framing = "chunked" =>
        /\ read.by \in {"resolve", "until", "none"}
        /\ state \in {"Chunk", "Trailer"} => ~isConst /\ Resolved
        /\ read.by = "until" => ~isConst
        /\ state = "Chunk" => ~loaded
        /\ state = "Trailer" => loaded
        /\ StashAt
        /\ read # Nothing => \A i \in 1 .. Len(stash) : request.chunks[i].ended
        /\ loaded => request.trailers > 0 /\ Len(stash) = Len(request.chunks)
        /\ read # Nothing =>
            chunkedPos = IF loaded THEN ChunksEnd(request) + 2
                                   ELSE Starts(request)[Len(stash)]

\* The body was found, and nothing of the request is left over.
Loaded ==
    state = "Body" =>
        /\ Resolved /\ valid /\ complete /\ outcome = "none"
        /\ request.line /\ request.legal /\ HasBody(request)
        /\ request.framing = "chunked" => LegalChunks(request)
        /\ body = Meant(request) /\ Taken >= StreamLen(request)

Ending ==
    state = "End" =>
        /\ read \in {Resolving, Nothing}
        /\ IF valid THEN Legal(request) /\ body = Meant(request) ELSE ~Legal(request)
        /\ complete => Taken >= StreamLen(request)
        /\ Resolved => outcome = "none"
        /\ ~Resolved => /\ outcome = IF valid THEN "handled" ELSE "refused"
                        /\ keepAlive => complete

IInv ==
    /\ StreamIsSent /\ TypeOK /\ StashOK
    /\ Beginning /\ Loading /\ LengthAwaited /\ ChunksAwaited /\ Loaded /\ Ending

\* What the three kinds of reads leave apart.
LEMMA ReadsDiffer ==
    /\ Resolving # Nothing
    /\ Resolving.by = "resolve" /\ Nothing.by = "none"
    /\ Resolving \in Reads /\ Nothing \in Reads
    /\ \A by \in {"some", "exactly", "until"} : \A c \in Nat :
            /\ [by |-> by, count |-> c] \in Reads
            /\ [by |-> by, count |-> c] # Resolving
            /\ [by |-> by, count |-> c] # Nothing
  <1>1. Resolving.by = "resolve" /\ Nothing.by = "none"
    BY DEF Resolving, Nothing
  <1>2. \A by \in {"some", "exactly", "until"} : \A c \in Nat :
            [by |-> by, count |-> c].by = by /\ by # "resolve" /\ by # "none"
    OBVIOUS
  <1>3. \A by \in {"some", "exactly", "until"} : \A c \in Nat :
            [by |-> by, count |-> c] \in Reads
    BY DEF Reads
  <1>4. Resolving \in Reads /\ Nothing \in Reads
    BY DEF Reads
  <1> QED
    BY <1>1, <1>2, <1>3, <1>4

LEMMA InitInv == Init => IInv
  <1> SUFFICES ASSUME Init PROVE IInv
    OBVIOUS
  <1>1. Len(stream) \in Nat /\ MaxSize \in Nat
    <2>1. request \in Requests /\ stream = Followed(request)
      BY DEF Init
    <2> QED
      BY <2>1, HeadLines, ReadingAssumption
  <1>2. StreamIsSent /\ TypeOK /\ StashOK
    <2>1. read \in Reads /\ state \in States
      BY ReadsDiffer DEF Init, States
    <2>2. \A i \in DOMAIN stash : stash[i].pos + stash[i].size < buffered
      BY DEF Init
    <2>3. /\ isConst \in BOOLEAN /\ loaded \in BOOLEAN
          /\ valid \in BOOLEAN /\ complete \in BOOLEAN /\ keepAlive \in BOOLEAN
          /\ outcome \in {"none", "handled", "refused"}
      BY DEF Init
    <2>4. /\ arrived \in 0 .. Len(stream) /\ buffered \in Nat
          /\ readSize \in 0 .. MaxSize /\ parsedSize \in 0 .. readSize
          /\ chunkedPos \in 0 .. buffered
      BY <1>1 DEF Init
    <2>5. Taken <= arrived
      BY DEF Init, Taken
    <2>6. TypeOK
      BY <2>1, <2>2, <2>3, <2>4, <2>5 DEF TypeOK
    <2> QED
      BY <2>6 DEF Init, StreamIsSent, StashOK
  <1>3. Beginning
    BY DEF Init, Beginning, Untouched, Resolved, Resolving
  <1>4. Loading /\ LengthAwaited /\ ChunksAwaited /\ Loaded /\ Ending
    BY DEF Init, Loading, LengthAwaited, ChunksAwaited, Loaded, Ending
  <1> QED
    BY <1>2, <1>3, <1>4 DEF IInv

-----------------------------------------------------------------------------
(* What is found in the buffer *)

LEMMA BufferAt ==
    ASSUME StreamIsSent, TypeOK, ~isConst
    PROVE  /\ buffered \in Nat /\ parsedSize \in Nat /\ Len(stream) \in Nat
           /\ parsedSize + buffered <= Len(stream)
           /\ Len(Buffer) = buffered
           /\ \A k \in 1 .. buffered : Buffer[k] = stream[parsedSize + k]
  <1>1. stream \in Seq(Symbol) /\ Len(stream) \in Nat
    BY FollowedAt DEF StreamIsSent
  <1>2. buffered \in Nat /\ parsedSize \in Nat /\ parsedSize + buffered <= Len(stream)
    BY <1>1, ReadingAssumption DEF TypeOK, Taken
  <1> QED
    BY <1>1, <1>2 DEF Buffer

\* At a chunk: its line, if it is there, ends after two symbols, of which the
\* first is the size of the chunk, or 0 after all chunks.
LEMMA AtChunk ==
    ASSUME IInv, In("Chunk")
    PROVE  LET m == Len(stash)
               at == Starts(request)[m]
               n == Len(request.chunks)
           IN  /\ request \in Request /\ m \in Nat /\ n \in Nat /\ m <= n /\ at \in Nat
               /\ request.framing = "chunked" /\ ~isConst /\ ~loaded
               /\ parsedSize = TopLen(request) /\ chunkedPos = at
               /\ HasLine =>
                    /\ at + 2 <= buffered /\ DataPos = at + 2
                    /\ SizeSymbol = Size(IF m < n THEN request.chunks[m + 1].size ELSE 0)
                    /\ IsSize <=> SizeSymbol.size # -1
                    /\ SizeSymbol.size = IF m < n THEN request.chunks[m + 1].size ELSE 0
  <1> DEFINE m == Len(stash)
             at == Starts(request)[m]
             n == Len(request.chunks)
             t == TopLen(request)
             size == IF m < n THEN request.chunks[m + 1].size ELSE 0
  <1>1. request \in Requests /\ stream = Followed(request)
    BY DEF IInv, StreamIsSent
  <1>2. request \in Request /\ t \in Nat
    BY <1>1, HeadLines, FollowedAt
  <1>3. m \in Nat /\ n \in Nat
    BY <1>2 DEF IInv, StashOK, Request
  <1>4. state = "Chunk" /\ read = Resolving
    BY DEF In
  <1>5. request.framing = "chunked" /\ parsedSize = t
    BY <1>4 DEF IInv, Loading
  <1>6. ~isConst /\ ~loaded /\ m <= n /\ chunkedPos = at
    BY <1>4, <1>5, ReadsDiffer DEF IInv, ChunksAwaited, StashAt
  <1>7. at \in Nat /\ ChunksAt(stream, request)
    <2>1. m \in 0 .. n
      BY <1>3, <1>6
    <2> QED
      BY <1>1, <1>2, <1>5, <2>1, StartsOfChunks, FollowedAt
  <1>8. /\ buffered \in Nat /\ Len(Buffer) = buffered
        /\ \A k \in 1 .. buffered : Buffer[k] = stream[t + k]
    BY <1>5, <1>6, BufferAt DEF IInv
  <1>9. size \in Int
    <2>1. ASSUME m < n PROVE request.chunks[m + 1] \in Chunk
      BY <1>2, <1>3, <2>1 DEF Request
    <2> QED
      BY <2>1 DEF Chunk
  <1>10. stream[t + at + 1] = Size(size) /\ stream[t + at + 2] = CRLF
    <2>1. CASE m < n
      <3>1. m + 1 \in 1 .. n /\ (m + 1) - 1 = m
        BY <1>3, <2>1
      <3>2. ChunkAt(stream, t + at, request.chunks[m + 1])
        BY <1>7, <3>1 DEF ChunksAt
      <3> QED
        BY <2>1, <3>2 DEF ChunkAt
    <2>2. CASE ~(m < n)
      <3>1. m = n
        BY <1>3, <1>6, <2>2
      <3>2. t + at = LastAt(request)
        BY <3>1 DEF LastAt, ChunksEnd
      <3> QED
        BY <1>7, <2>2, <3>2 DEF ChunksAt
    <2> QED
      BY <2>1, <2>2
  <1> HIDE DEF m, at, n, t, size
  <1>11. ASSUME HasLine
         PROVE  /\ at + 2 <= buffered /\ DataPos = at + 2
                /\ SizeSymbol = Size(size)
    <2>1. LineEnds(Buffer, chunkedPos) =
            {k \in at + 1 .. buffered : Buffer[k] = CRLF}
      BY <1>6, <1>8 DEF LineEnds
    <2>2. ASSUME NEW k \in LineEnds(Buffer, chunkedPos) PROVE k \in Int /\ at + 2 <= k /\ k <= buffered
      <3>1. k \in at + 1 .. buffered /\ Buffer[k] = CRLF
        BY <2>1
      <3>2. k # at + 1
        <4> SUFFICES ASSUME k = at + 1 PROVE FALSE
          OBVIOUS
        <4>1. k \in 1 .. buffered /\ t + k = t + at + 1
          BY <1>2, <1>7, <1>8, <3>1
        <4>2. Buffer[k] = Size(size)
          BY <1>8, <1>10, <4>1
        <4> QED
          BY <1>9, <3>1, <4>2, Symbols
      <3> QED
        BY <1>7, <1>8, <3>1, <3>2
    <2>3. at + 2 <= buffered
      <3>1. PICK k : k \in LineEnds(Buffer, chunkedPos)
        BY <1>11 DEF HasLine
      <3> QED
        BY <1>7, <1>8, <2>2, <3>1
    <2>4. Buffer[at + 1] = Size(size) /\ Buffer[at + 2] = CRLF
      <3>1. at + 1 \in 1 .. buffered /\ at + 2 \in 1 .. buffered
        BY <1>7, <1>8, <2>3
      <3>2. t + (at + 1) = t + at + 1 /\ t + (at + 2) = t + at + 2
        BY <1>2, <1>7
      <3> QED
        BY <1>8, <1>10, <3>1, <3>2
    <2>5. at + 2 \in LineEnds(Buffer, chunkedPos)
      BY <1>7, <1>8, <2>1, <2>3, <2>4
    <2>6. DataPos = at + 2
      BY <2>2, <2>5, FirstIs DEF DataPos
    <2>7. SizeSymbol = Buffer[at + 1]
      BY <1>7, <2>6 DEF SizeSymbol
    <2> QED
      BY <2>3, <2>4, <2>6, <2>7
  <1>12. ASSUME HasLine
         PROVE  /\ IsSize <=> SizeSymbol.size # -1
                /\ SizeSymbol.size = size
    <2>1. SizeSymbol.text = "size" /\ SizeSymbol.size = size
      BY <1>9, <1>11, <1>12, Symbols
    <2>2. DataPos = chunkedPos + 2
      BY <1>6, <1>11, <1>12
    <2> QED
      BY <2>1, <2>2 DEF IsSize
  <1> QED
    BY <1>2, <1>3, <1>5, <1>6, <1>7, <1>11, <1>12 DEF m, at, n, t, size

-----------------------------------------------------------------------------
(* One lemma for each action *)

\* What is the same for all of them.
LEMMA IsSent ==
    ASSUME IInv
    PROVE  request \in Request /\ request \in Requests /\ stream = Followed(request)
  BY FollowedAt DEF IInv, StreamIsSent

LEMMA Ranges ==
    ASSUME IInv
    PROVE  /\ Len(stream) \in Nat /\ arrived \in Nat /\ arrived <= Len(stream)
           /\ MaxSize \in Nat /\ readSize \in Nat /\ readSize <= MaxSize
           /\ parsedSize \in Nat /\ parsedSize <= readSize
           /\ buffered \in Nat /\ chunkedPos \in Nat /\ chunkedPos <= buffered
           /\ isConst => readSize <= arrived
           /\ ~isConst => parsedSize + buffered <= arrived
           /\ Len(request.body) \in Nat
           /\ TopLen(request) \in Nat /\ TopLen(request) <= Len(stream)
  <1>1. Len(stream) \in Nat /\ TopLen(request) \in Nat /\ TopLen(request) <= Len(stream)
    BY IsSent, HeadLines
  <1>2. MaxSize \in Nat /\ Len(request.body) \in Nat
    BY IsSent, ReadingAssumption DEF Request
  <1> QED
    BY <1>1, <1>2 DEF IInv, TypeOK, Taken

LEMMA EndOfRequest ==
    ASSUME IInv
    PROVE  StreamLen(request) \in Nat /\ StreamLen(request) <= Len(stream)
  BY IsSent, FollowedAt

\* What was found is in the buffer, and stays in it as it grows.
LEMMA StashFits ==
    ASSUME IInv, NEW size \in Nat, buffered <= size
    PROVE  \A i \in DOMAIN stash : stash[i].pos + stash[i].size < size
  <1> SUFFICES ASSUME NEW i \in DOMAIN stash PROVE stash[i].pos + stash[i].size < size
    OBVIOUS
  <1>1. stash[i] \in [pos : Nat, size : Nat]
    <2> DEFINE Found == [pos : Nat, size : Nat]
    <2>1. stash \in Seq(Found)
      BY DEF IInv, StashOK
    <2> HIDE DEF Found
    <2>2. stash[i] \in Found
      BY <2>1
    <2> QED
      BY <2>2 DEF Found
  <1>2. stash[i].pos \in Nat /\ stash[i].size \in Nat
    BY <1>1
  <1>3. stash[i].pos + stash[i].size < buffered
    BY DEF IInv, TypeOK
  <1> QED
    BY <1>2, <1>3, Ranges

LEMMA ArriveInv == IInv /\ Arrive => IInv'
  <1> SUFFICES ASSUME IInv, Arrive PROVE IInv'
    OBVIOUS
  <1>1. StreamIsSent' /\ StashOK'
    BY DEF IInv, Arrive, StreamIsSent, StashOK, flow
  <1>2. TypeOK'
    BY Ranges DEF IInv, Arrive, TypeOK, Taken, data, flow, result
  <1>3. Beginning' /\ Loading'
    BY DEF IInv, Arrive, Beginning, Loading, Untouched, Resolved, data, flow, result
  <1>4. LengthAwaited' /\ ChunksAwaited'
    BY DEF IInv, Arrive, LengthAwaited, ChunksAwaited, StashAt, Unparsed, Resolved, data, flow, result
  <1>5. Loaded' /\ Ending'
    BY DEF IInv, Arrive, Loaded, Ending, Taken, Resolved, data, flow, result
  <1> QED
    BY <1>1, <1>2, <1>3, <1>4, <1>5 DEF IInv

LEMMA ReadSomeInv == IInv /\ ReadSome => IInv'
  <1> SUFFICES ASSUME IInv, ReadSome PROVE IInv'
    OBVIOUS
  <1>1. state = "FirstLine" /\ Untouched /\ parsedSize = 0
    <2>1. read # Nothing /\ read # Resolving /\ read.by = "some"
      BY ReadsDiffer DEF ReadSome
    <2>2. state \in States
      BY DEF IInv, TypeOK
    <2>3. state \notin {"Body", "End", "Header"}
      BY <2>1, ReadsDiffer DEF IInv, Loaded, Ending, Beginning, Resolved
    <2>4. state \notin {"LoadBody", "Chunk", "Trailer"}
      <3> SUFFICES ASSUME state \in {"LoadBody", "Chunk", "Trailer"} PROVE FALSE
        OBVIOUS
      <3>1. HasBody(request) /\ (request.framing = "chunked" \/ state = "LoadBody")
        BY DEF IInv, Loading
      <3>2. request.framing # "chunked"
        BY <2>1 DEF IInv, ChunksAwaited
      <3>3. request.framing = "length"
        <4>1. request \in Request /\ request \in Requests
          BY IsSent
        <4>2. request.framing \in {"none", "length", "chunked"}
          BY <4>1 DEF Request
        <4>3. request.framing # "none"
          BY <3>1, <3>2, <4>1, ReadingAssumption DEF HasBody
        <4> QED
          BY <3>2, <4>2, <4>3
      <3> QED
        BY <2>1, <3>1, <3>2, <3>3 DEF IInv, LengthAwaited
    <2>5. state = "FirstLine"
      BY <2>2, <2>3, <2>4 DEF States
    <2> QED
      BY <2>5 DEF IInv, Beginning
  <1>2. PICK n \in 1 .. arrived - readSize :
            readSize + n <= MaxSize /\ readSize' = readSize + n
    BY DEF ReadSome
  <1>3. readSize' \in 0 .. Len(stream) /\ readSize' <= arrived /\ readSize' <= MaxSize
        /\ readSize' \in Nat /\ readSize <= readSize'
    <2>1. readSize \in Nat /\ arrived \in Nat /\ arrived <= Len(stream) /\ Len(stream) \in Nat
      BY Ranges
    <2> QED
      BY <1>2, <2>1
  <1>4. read' \in {Resolving, [by |-> "some", count |-> 0]}
    BY <1>1 DEF IInv, ReadSome, Beginning
  <1>5. read' = Resolving => TopLen(request) <= readSize'
    <2>1. read # Resolving
      BY ReadsDiffer DEF ReadSome
    <2>2. read' = Resolving => Parts(SubSeq(stream, 1, readSize'), 0) # {}
      BY <2>1 DEF ReadSome
    <2> QED
      BY <1>3, <2>2, Ranges, IsSent, HeadLines
  <1>6. StreamIsSent' /\ StashOK'
    BY DEF IInv, ReadSome, StreamIsSent, StashOK, flow, client
  <1>7. TypeOK'
    <2>1. read' \in Reads
      BY <1>4, ReadsDiffer
    <2>2. Taken' <= arrived'
      BY <1>1, <1>3 DEF ReadSome, Taken, Untouched, client
    <2> QED
      BY <1>1, <1>3, <2>1, <2>2, Ranges DEF IInv, ReadSome, TypeOK, client, flow, result
  <1>8. Beginning'
    BY <1>1, <1>4, <1>5 DEF IInv, ReadSome, Beginning, Untouched, Resolved, client, flow, result
  <1>9. Loading' /\ LengthAwaited' /\ ChunksAwaited' /\ Loaded' /\ Ending'
    BY <1>1 DEF ReadSome, Loading, LengthAwaited, ChunksAwaited, Loaded, Ending
  <1> QED
    BY <1>6, <1>7, <1>8, <1>9 DEF IInv

\* Where the body is read it is of given length or chunked.
LEMMA BodyFraming ==
    ASSUME IInv, state = "LoadBody"
    PROVE  request.framing \in {"length", "chunked"}
  <1>1. HasBody(request)
    BY DEF IInv, Loading
  <1>2. request \in Request /\ request \in Requests
    BY IsSent
  <1>3. request.framing \in {"none", "length", "chunked"}
    BY <1>2 DEF Request
  <1> QED
    BY <1>1, <1>2, <1>3, ReadingAssumption DEF HasBody

\* The states in which a read other than the first is going on.
LEMMA ReadInBody ==
    ASSUME IInv, read.by \in {"exactly", "until"}
    PROVE  /\ state = "LoadBody" /\ valid
           /\ read.by = "exactly" => request.framing = "length"
           /\ read.by = "until" => request.framing = "chunked" /\ ~isConst
  <1>1. read # Nothing /\ read # Resolving /\ read # [by |-> "some", count |-> 0]
    BY ReadsDiffer
  <1>2. state \in States
    BY DEF IInv, TypeOK
  <1>3. state \notin {"Body", "End", "FirstLine", "Header"}
    BY <1>1 DEF IInv, Loaded, Ending, Beginning, Resolved
  <1>4. state \notin {"Chunk", "Trailer"}
    BY <1>1 DEF IInv, Loading, ChunksAwaited, Resolved
  <1>5. state = "LoadBody"
    BY <1>2, <1>3, <1>4 DEF States
  <1>6. request.framing \in {"length", "chunked"}
    BY <1>5, BodyFraming
  <1>7. valid
    BY <1>1, <1>5 DEF IInv, Loading
  <1> QED
    BY <1>5, <1>6, <1>7 DEF IInv, LengthAwaited, ChunksAwaited

LEMMA ReadExactlyInv == IInv /\ ReadExactly => IInv'
  <1> SUFFICES ASSUME IInv, ReadExactly PROVE IInv'
    OBVIOUS
  <1>1. /\ state = "LoadBody" /\ valid /\ request.framing = "length"
        /\ read.by = "exactly" /\ read' = Resolving
    BY ReadInBody DEF ReadExactly
  <1>2. /\ read.count = Len(request.body) - Unparsed /\ read.count > 0
        /\ IF isConst THEN Len(request.body) + parsedSize < MaxSize
                      ELSE buffered = Unparsed
    BY <1>1 DEF IInv, LengthAwaited
  <1>3. /\ readSize' \in Nat /\ buffered' \in Nat /\ readSize <= readSize'
        /\ readSize' <= MaxSize /\ buffered <= buffered'
        /\ Taken' <= arrived
        /\ ~isConst => buffered' = Len(request.body)
    <2>1. CASE isConst
      <3>1. readSize' = readSize + read.count /\ buffered' = buffered /\ isConst' = isConst
            /\ readSize + read.count <= arrived
        BY <2>1, <1>2, Ranges DEF ReadExactly, Available, Taken, Unparsed
      <3>2. readSize + read.count = Len(request.body) + parsedSize
        BY <1>2, Ranges DEF Unparsed
      <3> QED
        <4>1. readSize' = Len(request.body) + parsedSize /\ readSize' \in Nat
              /\ readSize <= readSize' /\ readSize' <= MaxSize
          <5>1. readSize < Len(request.body) + parsedSize
            BY <1>2, Ranges DEF Unparsed
          <5>2. readSize' = Len(request.body) + parsedSize
            BY <3>1, <3>2
          <5>3. Len(request.body) + parsedSize < MaxSize
            BY <1>2, <2>1
          <5> QED
            BY <5>1, <5>2, <5>3, Ranges
        <4>2. Taken' <= arrived
          BY <2>1, <3>1, <4>1 DEF Taken
        <4> QED
          BY <2>1, <3>1, <4>1, <4>2, Ranges
    <2>2. CASE ~isConst
      <3>1. buffered' = buffered + read.count /\ readSize' = readSize
            /\ isConst' = isConst /\ parsedSize' = parsedSize
            /\ (parsedSize + buffered) + read.count <= arrived
        BY <1>2, <2>2, Ranges DEF ReadExactly, Available, Taken, Unparsed
      <3>2. buffered + read.count = Len(request.body)
        BY <1>2, <2>2, Ranges DEF Unparsed
      <3> QED
        BY <1>2, <2>2, <3>1, <3>2, Ranges DEF Taken
    <2> QED
      BY <2>1, <2>2
  <1>4. StreamIsSent' /\ StashOK'
    BY DEF IInv, ReadExactly, StreamIsSent, StashOK, flow, client
  <1>5. TypeOK'
    <2>1. \A i \in DOMAIN stash : stash[i].pos + stash[i].size < buffered'
      BY <1>3, StashFits
    <2>2. chunkedPos \in 0 .. buffered' /\ parsedSize \in 0 .. readSize'
          /\ readSize' \in 0 .. MaxSize
      BY <1>3, Ranges
    <2> QED
      BY <1>1, <1>3, <2>1, <2>2, ReadsDiffer
      DEF IInv, ReadExactly, TypeOK, client, flow, result
  <1>6. Loading'
    BY <1>1 DEF IInv, ReadExactly, Loading, Untouched, client, flow, result
  <1>7. LengthAwaited'
    <2>1. read'.by = "resolve"
      BY <1>1, ReadsDiffer
    <2>2. isConst \/ buffered' >= Len(request.body)
      BY <1>3, Ranges
    <2> QED
      BY <2>1, <2>2 DEF ReadExactly, LengthAwaited, client
  <1>8. Beginning' /\ ChunksAwaited' /\ Loaded' /\ Ending'
    BY <1>1 DEF ReadExactly, Beginning, ChunksAwaited, Loaded, Ending, client
  <1> QED
    BY <1>4, <1>5, <1>6, <1>7, <1>8 DEF IInv

LEMMA ReadUntilInv == IInv /\ ReadUntil => IInv'
  <1> SUFFICES ASSUME IInv, ReadUntil PROVE IInv'
    OBVIOUS
  <1>1. /\ state = "LoadBody" /\ valid /\ request.framing = "chunked" /\ ~isConst
        /\ read.by = "until" /\ read # Nothing
    BY ReadInBody, ReadsDiffer DEF ReadUntil
  <1>2. /\ buffered' \in Nat /\ buffered <= buffered'
        /\ parsedSize + buffered' <= arrived
        /\ read' \in Reads /\ read' # Nothing /\ read'.by \in {"resolve", "until"}
    <2>1. CASE read' = Resolving /\ buffered' = buffered
      BY <1>1, <2>1, Ranges, ReadsDiffer
    <2>2. CASE read' = read /\ Available > 0 /\ buffered' = buffered + 1
      <3>1. parsedSize + buffered < arrived
        BY <1>1, <2>2, Ranges DEF Available, Taken
      <3>2. read \in Reads
        BY DEF IInv, TypeOK
      <3> QED
        BY <1>1, <2>2, <3>1, <3>2, Ranges
    <2> QED
      BY <2>1, <2>2 DEF ReadUntil
  <1>3. StreamIsSent' /\ StashOK'
    BY DEF IInv, ReadUntil, StreamIsSent, StashOK, flow, client
  <1>4. TypeOK'
    <2>1. \A i \in DOMAIN stash : stash[i].pos + stash[i].size < buffered'
      BY <1>2, StashFits
    <2>2. chunkedPos \in 0 .. buffered'
      BY <1>2, Ranges
    <2>3. Taken' <= arrived'
      BY <1>1, <1>2 DEF ReadUntil, Taken, client
    <2> QED
      BY <1>2, <2>1, <2>2, <2>3 DEF IInv, ReadUntil, TypeOK, client, flow, result
  <1>5. Loading'
    BY <1>1 DEF IInv, ReadUntil, Loading, client, flow, result
  <1>6. ChunksAwaited'
    BY <1>1, <1>2 DEF IInv, ReadUntil, ChunksAwaited, StashAt, client, flow
  <1>7. Beginning' /\ LengthAwaited' /\ Loaded' /\ Ending'
    BY <1>1 DEF ReadUntil, Beginning, LengthAwaited, Loaded, Ending, client
  <1> QED
    BY <1>3, <1>4, <1>5, <1>6, <1>7 DEF IInv

\* A handler that changes neither the sizes nor what was read keeps the ranges.
LEMMA SameData ==
    ASSUME IInv, UNCHANGED <<client, data, chunkedPos, loaded, stash>>,
           read' \in Reads, state' \in States, outcome' \in {"none", "handled", "refused"},
           valid' \in BOOLEAN, complete' \in BOOLEAN, keepAlive' \in BOOLEAN
    PROVE  StreamIsSent' /\ TypeOK' /\ StashOK' /\ Taken' = Taken
  BY DEF IInv, StreamIsSent, TypeOK, StashOK, Taken, client, data

LEMMA FirstLineInv == IInv /\ FirstLineState => IInv'
  <1> SUFFICES ASSUME IInv, FirstLineState PROVE IInv'
    OBVIOUS
  <1> DEFINE t == TopLen(request)
  <1>1. read = Resolving /\ state = "FirstLine"
    BY DEF FirstLineState, In
  <1>2. /\ parsedSize = 0 /\ t <= readSize /\ isConst /\ Untouched
        /\ valid /\ ~complete /\ body = <<>> /\ outcome = "none"
    BY <1>1 DEF IInv, Beginning, Resolved, Untouched
  <1>3. /\ FirstOf(LineEnds(stream, parsedSize)) = 2
        /\ stream[2 + 1] = CRLF <=> request.headers = 0
        /\ t \in Nat /\ t >= 3 /\ request.headers \in Nat
    BY <1>2, IsSent, HeadLines
  <1>4. /\ UNCHANGED <<client, readSize, isConst, buffered, read, keepAlive, flow, result>>
        /\ \/ /\ ~request.line /\ valid' = FALSE /\ state' = "End"
              /\ parsedSize' = 2 /\ complete' = complete
           \/ /\ request.line /\ request.headers = 0 /\ parsedSize' = 3
              /\ complete' = TRUE /\ state' = "End" /\ valid' = valid
           \/ /\ request.line /\ request.headers # 0 /\ parsedSize' = 2
              /\ complete' = complete /\ state' = "Header" /\ valid' = valid
    BY <1>3 DEF FirstLineState, Refuse
  <1>5. parsedSize' \in 0 .. readSize
    <2>1. parsedSize' = 2 \/ parsedSize' = 3
      BY <1>4
    <2>2. readSize \in Nat /\ readSize >= 3
      BY <1>2, <1>3, Ranges
    <2> QED
      BY <2>1, <2>2
  <1>6. StreamIsSent' /\ StashOK'
    BY <1>4 DEF IInv, StreamIsSent, StashOK, flow, client
  <1>7. TypeOK'
    <2>1. state' \in States /\ complete' \in BOOLEAN /\ valid' \in BOOLEAN
      BY <1>2, <1>4 DEF IInv, TypeOK, States
    <2>2. Taken' <= arrived'
      BY <1>2, <1>4, Ranges DEF Taken, client
    <2> QED
      BY <1>4, <1>5, <2>1, <2>2 DEF IInv, TypeOK, client, flow, result
  <1>8. Beginning'
    <2>1. /\ isConst' = isConst /\ buffered' = buffered /\ chunkedPos' = chunkedPos
          /\ stash' = stash /\ loaded' = loaded /\ body' = body /\ outcome' = outcome
          /\ request' = request /\ readSize' = readSize /\ read' = read
      BY <1>4 DEF client, flow, result
    <2>2. Untouched'
      BY <1>2, <2>1 DEF Untouched
    <2>3. CASE state' = "Header"
      <3>1. /\ valid' = valid /\ complete' = complete /\ parsedSize' = 2
            /\ request.line /\ request.headers # 0
        BY <1>4, <2>3
      <3>2. request.headers > 0
        BY <1>3, <3>1
      <3> QED
        BY <1>1, <1>2, <2>1, <2>2, <2>3, <3>1, <3>2 DEF Beginning, Resolved
    <2>4. CASE state' # "Header"
      <3>1. state' = "End"
        BY <1>4, <2>4
      <3> QED
        BY <3>1 DEF Beginning
    <2> QED
      BY <2>3, <2>4
  <1>9. Loading' /\ LengthAwaited' /\ ChunksAwaited' /\ Loaded'
    BY <1>4 DEF Loading, LengthAwaited, ChunksAwaited, Loaded
  <1>10. Ending'
    <2>1. CASE ~request.line
      <3>0. valid' = FALSE /\ complete' = complete /\ request' = request
        BY <1>4, <2>1 DEF client
      <3>1. ~valid' /\ ~complete' /\ request' = request
        BY <1>2, <3>0
      <3>2. ~Legal(request)
        BY <2>1 DEF Legal
      <3>3. read' = Resolving /\ outcome' = "none"
        BY <1>1, <1>2, <1>4 DEF result
      <3> QED
        BY <3>1, <3>2, <3>3 DEF Ending, Resolved
    <2>2. CASE request.line /\ request.headers = 0
      <3>1. request \in Request /\ request \in Requests
        BY IsSent
      <3>2. request.framing = "none"
        BY <2>2, <3>1, ReadingAssumption DEF Request
      <3>3. request.legal /\ request.body = <<>>
        BY <2>2, <3>1, <3>2, ReadingAssumption
      <3>4. Legal(request) /\ Meant(request) = body'
        BY <1>2, <1>4, <2>2, <3>2, <3>3 DEF Legal, HasBody, Meant, result
      <3>5. StreamLen(request) = t
        BY <3>2 DEF StreamLen
      <3>6. Taken' >= StreamLen(request')
        BY <1>2, <1>3, <1>4, <3>5, Ranges DEF Taken, client
      <3>7. read' = Resolving /\ outcome' = "none" /\ valid' /\ request' = request
        BY <1>1, <1>2, <1>4, <2>2 DEF result, client
      <3> QED
        BY <3>4, <3>6, <3>7 DEF Ending, Resolved
    <2>3. CASE request.line /\ request.headers # 0
      BY <1>4, <2>3 DEF Ending
    <2> QED
      BY <2>1, <2>2, <2>3
  <1> QED
    BY <1>6, <1>7, <1>8, <1>9, <1>10 DEF IInv

LEMMA HeadersInv == IInv /\ HeadersState => IInv'
  <1> SUFFICES ASSUME IInv, HeadersState PROVE IInv'
    OBVIOUS
  <1> DEFINE t == TopLen(request)
  <1>1. read = Resolving /\ state = "Header"
    BY DEF HeadersState, In
  <1>2. /\ parsedSize = 2 /\ t <= readSize /\ isConst /\ Untouched
        /\ valid /\ ~complete /\ body = <<>> /\ outcome = "none"
        /\ request.headers > 0 /\ request.line
    BY <1>1 DEF IInv, Beginning, Resolved, Untouched
  <1>3. FirstOf(Parts(stream, parsedSize)) = t
    BY <1>2, Ranges, IsSent, HeadLines
  <1>4. /\ UNCHANGED <<client, readSize, isConst, buffered, read, flow, result>>
        /\ parsedSize' = t
        /\ \/ /\ ~request.legal /\ valid' = FALSE /\ state' = "End"
              /\ complete' = complete /\ keepAlive' = keepAlive
           \/ /\ request.legal /\ HasBody(request) /\ state' = "LoadBody"
              /\ complete' = complete /\ keepAlive' = request.keep /\ valid' = valid
           \/ /\ request.legal /\ ~HasBody(request) /\ state' = "End"
              /\ complete' = TRUE /\ keepAlive' = request.keep /\ valid' = valid
    BY <1>3 DEF HeadersState, Refuse
  <1>5. parsedSize' \in 0 .. readSize
    BY <1>2, <1>4, Ranges
  <1>6. StreamIsSent' /\ StashOK'
    BY <1>4 DEF IInv, StreamIsSent, StashOK, flow, client
  <1>7. TypeOK'
    <2>1. state' \in States /\ complete' \in BOOLEAN /\ valid' \in BOOLEAN
      BY <1>2, <1>4 DEF IInv, TypeOK, States
    <2>2. keepAlive' \in BOOLEAN
      <3>1. request.keep \in BOOLEAN
        BY IsSent DEF Request
      <3> QED
        BY <1>4, <3>1 DEF IInv, TypeOK
    <2>3. Taken' <= arrived'
      BY <1>2, <1>4, Ranges DEF Taken, client
    <2> QED
      BY <1>4, <1>5, <2>1, <2>2, <2>3 DEF IInv, TypeOK, client, flow, result
  <1>8. Beginning' /\ Loaded'
    BY <1>4 DEF Beginning, Loaded
  <1>9. Loading'
    BY <1>1, <1>2, <1>4 DEF Loading, Untouched, client, flow, result
  <1>10. LengthAwaited'
    BY <1>1, <1>2, <1>4, ReadsDiffer DEF LengthAwaited, Resolved, client
  <1>11. ChunksAwaited'
    <2>1. Len(stash) = 0 /\ ~loaded /\ chunkedPos = 0 /\ isConst /\ stash = <<>>
      BY <1>2 DEF Untouched
    <2>2. Starts(request)[0] = 0 /\ Len(request.chunks) \in Nat
      <3>1. request \in Request
        BY IsSent
      <3> QED
        BY <3>1, StartsOfChunks DEF Request
    <2>3. stash' = stash /\ loaded' = loaded /\ chunkedPos' = chunkedPos /\ read' = Resolving
          /\ request' = request /\ state' \in {"LoadBody", "End"} /\ isConst' = isConst
      BY <1>1, <1>4 DEF flow, client
    <2>4. read'.by = "resolve" /\ read'.by # "until"
      BY <2>3, ReadsDiffer
    <2> QED
      BY <2>1, <2>2, <2>3, <2>4 DEF ChunksAwaited, StashAt
  <1>12. Ending'
    <2>1. CASE ~request.legal
      <3>0. valid' = FALSE /\ complete' = complete /\ request' = request
        BY <1>4, <2>1 DEF client
      <3>1. ~valid' /\ ~complete' /\ request' = request
        BY <1>2, <3>0
      <3>2. ~Legal(request)
        BY <2>1 DEF Legal
      <3>3. read' = Resolving /\ outcome' = "none"
        BY <1>1, <1>2, <1>4 DEF result
      <3> QED
        BY <3>1, <3>2, <3>3 DEF Ending, Resolved
    <2>2. CASE request.legal /\ ~HasBody(request)
      <3>1. request \in Request /\ request \in Requests
        BY IsSent
      <3>2. request.framing # "chunked" /\ request.body = <<>>
        BY <2>2 DEF HasBody
      <3>3. Legal(request) /\ Meant(request) = body'
        BY <1>2, <1>4, <2>2, <3>2 DEF Legal, Meant, result
      <3>4. StreamLen(request) = t
        <4>1. request.framing \in {"none", "length"} /\ Len(request.body) = 0
          BY <3>1, <3>2 DEF Request
        <4>2. t \in Nat
          BY Ranges
        <4> QED
          BY <4>1, <4>2 DEF StreamLen
      <3>5. Taken' >= StreamLen(request')
        BY <1>2, <1>4, <3>4, Ranges DEF Taken, client
      <3>6. read' = Resolving /\ outcome' = "none" /\ valid' /\ request' = request
        BY <1>1, <1>2, <1>4, <2>2 DEF result, client
      <3> QED
        BY <3>3, <3>5, <3>6 DEF Ending, Resolved
    <2>3. CASE request.legal /\ HasBody(request)
      BY <1>4, <2>3 DEF Ending
    <2> QED
      BY <2>1, <2>2, <2>3
  <1> QED
    BY <1>6, <1>7, <1>8, <1>9, <1>10, <1>11, <1>12 DEF IInv

LEMMA SubSeqIs ==
    ASSUME NEW A, NEW s \in Seq(A), NEW t \in Seq(A), NEW from \in Nat,
           from + Len(t) <= Len(s),
           \A k \in 1 .. Len(t) : s[from + k] = t[k]
    PROVE  SubSeq(s, from + 1, from + Len(t)) = t
  <1> DEFINE n == Len(t)
             u == SubSeq(s, from + 1, from + n)
  <1>1. n \in Nat /\ Len(s) \in Nat /\ from + n <= Len(s)
        /\ \A k \in 1 .. n : s[from + k] = t[k]
    OBVIOUS
  <1> HIDE DEF n
  <1>2. u \in Seq(A) /\ Len(u) = n /\ \A k \in 1 .. n : u[k] = s[from + k]
    <2>1. (from + 1) .. (from + n) \subseteq 1 .. Len(s)
      BY <1>1
    <2>2. u \in Seq(A)
      <3>1. \A i \in (from + 1) .. (from + n) : s[i] \in A
        BY <2>1
      <3> QED
        BY <1>1, <3>1, SubSeqProperties
    <2>3. Len(u) = n
      BY <1>1
    <2>4. ASSUME NEW k \in 1 .. n PROVE u[k] = s[from + k]
      <3>1. u[k] = s[(from + 1) + k - 1] /\ (from + 1) + k - 1 = from + k
        BY <1>1
      <3> QED
        BY <3>1
    <2> QED
      BY <2>2, <2>3, <2>4
  <1> HIDE DEF u
  <1>3. \A k \in 1 .. n : u[k] = t[k]
    BY <1>1, <1>2
  <1>4. u = t
    BY <1>2, <1>3, SeqEqual DEF n
  <1> QED
    BY <1>4 DEF u, n

LEMMA LengthLoadedInv == IInv /\ LengthLoaded => IInv'
  <1> SUFFICES ASSUME IInv, LengthLoaded PROVE IInv'
    OBVIOUS
  <1> DEFINE t == TopLen(request)
             b == Len(request.body)
  <1>1. /\ read = Resolving /\ state = "LoadBody" /\ request.framing = "length"
        /\ (IF isConst THEN Unparsed ELSE buffered) >= b
        /\ body' = SubSeq(stream, parsedSize + 1, parsedSize + b)
        /\ parsedSize' = IF isConst THEN parsedSize + b ELSE parsedSize
        /\ complete' = TRUE /\ state' = "Body"
        /\ UNCHANGED <<client, readSize, isConst, buffered, read, valid, keepAlive,
                       flow, outcome>>
    BY DEF LengthLoaded, In
  <1>2. /\ parsedSize = t /\ outcome = "none" /\ valid
        /\ request.line /\ request.legal /\ HasBody(request)
    BY <1>1, ReadsDiffer DEF IInv, Loading
  <1>3. /\ StreamLen(request) = t + b /\ t + b <= Len(stream)
        /\ \A k \in 1 .. b : stream[t + k] = request.body[k]
    <2>1. StreamLen(request) = t + b
      BY <1>1 DEF StreamLen
    <2> QED
      BY <1>1, <2>1, IsSent, EndOfRequest, FollowedAt DEF LengthAt
  <1>4. t \in Nat /\ b \in Nat
    BY Ranges
  <1>5. body' = request.body
    <2>1. stream \in Seq(Symbol) /\ request.body \in Seq(Symbol)
      <3>1. request.body \in Seq({CRLF, Text})
        BY IsSent DEF Request
      <3>2. stream \in Seq(Symbol)
        BY IsSent, FollowedAt
      <3> QED
        BY <3>1, <3>2, Symbols
    <2>2. SubSeq(stream, t + 1, t + b) = request.body
      <3> DEFINE s == stream
                 d == request.body
      <3>1. s \in Seq(Symbol) /\ d \in Seq(Symbol) /\ t + Len(d) <= Len(s)
            /\ \A k \in 1 .. Len(d) : s[t + k] = d[k]
        BY <1>3, <1>4, <2>1
      <3> HIDE DEF s, d, t
      <3>2. SubSeq(s, t + 1, t + Len(d)) = d
        BY <1>4, <3>1, SubSeqIs
      <3> QED
        BY <3>2 DEF s, d
    <2> QED
      BY <1>1, <1>2, <2>2
  <1>6. /\ parsedSize' \in 0 .. readSize
        /\ Taken' >= StreamLen(request') /\ Taken' <= arrived'
    <2>1. CASE isConst
      <3>1. readSize - t >= b
        BY <1>1, <1>2, <2>1 DEF Unparsed
      <3>2. readSize >= t + b /\ readSize \in Nat /\ readSize <= arrived
        BY <1>4, <2>1, <3>1, Ranges
      <3>3. parsedSize' = t + b
        BY <1>1, <1>2, <2>1
      <3>4. Taken' = readSize
        BY <1>1, <2>1 DEF Taken
      <3> QED
        BY <1>1, <1>3, <1>4, <3>2, <3>3, <3>4 DEF client
    <2>2. CASE ~isConst
      <3>1. buffered >= b /\ parsedSize' = parsedSize
        BY <1>1, <2>2
      <3>2. t + buffered >= t + b /\ t + buffered <= arrived
        BY <1>2, <1>4, <2>2, <3>1, Ranges
      <3>3. Taken' = t + buffered
        BY <1>1, <1>2, <2>2, <3>1 DEF Taken
      <3>4. parsedSize \in 0 .. readSize
        BY Ranges
      <3> QED
        BY <1>1, <1>3, <3>1, <3>2, <3>3, <3>4 DEF client
    <2> QED
      BY <2>1, <2>2
  <1>7. StreamIsSent' /\ StashOK'
    BY <1>1 DEF IInv, StreamIsSent, StashOK, flow, client
  <1>8. TypeOK'
    <2>1. state' \in States /\ complete' \in BOOLEAN
      BY <1>1 DEF States
    <2> QED
      BY <1>1, <1>6, <2>1 DEF IInv, TypeOK, client, flow
  <1>9. Beginning' /\ Loading' /\ LengthAwaited' /\ ChunksAwaited' /\ Ending'
    BY <1>1 DEF Beginning, Loading, LengthAwaited, ChunksAwaited, Ending
  <1>10. Loaded'
    <2>1. body' = Meant(request)
      BY <1>1, <1>5 DEF Meant
    <2>2. request' = request /\ read' = Resolving /\ valid' /\ complete' /\ outcome' = "none"
      BY <1>1, <1>2 DEF client
    <2> QED
      BY <1>1, <1>2, <1>6, <2>1, <2>2 DEF Loaded, Resolved
  <1> QED
    BY <1>7, <1>8, <1>9, <1>10 DEF IInv

LEMMA LengthMissingInv == IInv /\ LengthMissing => IInv'
  <1> SUFFICES ASSUME IInv, LengthMissing PROVE IInv'
    OBVIOUS
  <1> DEFINE t == TopLen(request)
             b == Len(request.body)
             c == b - Unparsed
  <1>1. /\ read = Resolving /\ state = "LoadBody" /\ request.framing = "length"
        /\ (IF isConst THEN Unparsed ELSE buffered) < b
        /\ IF isConst /\ b + parsedSize >= MaxSize
           THEN isConst' = FALSE /\ buffered' = Unparsed
           ELSE UNCHANGED <<isConst, buffered>>
        /\ read' = [by |-> "exactly", count |-> c]
        /\ UNCHANGED <<client, readSize, parsedSize, state, valid, complete, keepAlive,
                       flow, result>>
    BY DEF LengthMissing, In, Wait
  <1>2. isConst \/ buffered >= b
    BY <1>1 DEF IInv, LengthAwaited, Resolved
  <1>3. isConst
    BY <1>1, <1>2, Ranges
  <1>4. /\ Unparsed \in Nat /\ parsedSize + Unparsed = readSize /\ c \in Nat /\ c > 0
    <2>1. Unparsed < b
      BY <1>1, <1>3
    <2> QED
      BY <2>1, Ranges DEF Unparsed
  <1>5. Untouched /\ chunkedPos = 0 /\ stash = <<>> /\ buffered = 0
    BY <1>1, <1>3 DEF IInv, Loading, Untouched
  <1>6. /\ buffered' \in Nat /\ isConst' \in BOOLEAN /\ Taken' = readSize
        /\ Unparsed' = Unparsed
        /\ IF isConst' THEN b + parsedSize < MaxSize /\ buffered' = 0
                       ELSE buffered' = Unparsed
    <2>1. CASE b + parsedSize >= MaxSize
      <3>1. isConst' = FALSE /\ buffered' = Unparsed
        BY <1>1, <1>3, <2>1
      <3> QED
        BY <1>1, <1>4, <3>1 DEF Taken, Unparsed
    <2>2. CASE ~(b + parsedSize >= MaxSize)
      <3>1. isConst' = isConst /\ buffered' = buffered
        BY <1>1, <2>2
      <3>2. b + parsedSize < MaxSize
        BY <2>2, Ranges
      <3> QED
        BY <1>1, <1>3, <1>5, <3>1, <3>2 DEF Taken, Unparsed
    <2> QED
      BY <2>1, <2>2
  <1>7. StreamIsSent' /\ StashOK'
    BY <1>1 DEF IInv, StreamIsSent, StashOK, flow, client
  <1>8. TypeOK'
    <2>1. read' \in Reads
      BY <1>1, <1>4, ReadsDiffer
    <2>2. Taken' <= arrived'
      BY <1>1, <1>3, <1>6, Ranges DEF client
    <2>3. chunkedPos' \in 0 .. buffered' /\ stash' = <<>>
      BY <1>1, <1>5, <1>6 DEF flow
    <2>4. \A i \in DOMAIN stash' : stash'[i].pos + stash'[i].size < buffered'
      BY <2>3
    <2> QED
      BY <1>1, <1>6, <2>1, <2>2, <2>3, <2>4 DEF IInv, TypeOK, client, flow, result
  <1>9. Loading'
    <2>1. isConst' => Untouched'
      BY <1>1, <1>5, <1>6 DEF Untouched, flow
    <2> QED
      BY <1>1, <2>1, ReadsDiffer DEF IInv, Loading, client, flow, result
  <1>10. LengthAwaited'
    <2>1. read'.by = "exactly" /\ read'.count = c
      BY <1>1
    <2>2. ~Resolved'
      BY <1>1, <1>4, ReadsDiffer DEF Resolved
    <2> QED
      BY <1>1, <1>4, <1>6, <2>1, <2>2 DEF LengthAwaited, client
  <1>11. Beginning' /\ ChunksAwaited' /\ Loaded' /\ Ending'
    BY <1>1 DEF Beginning, ChunksAwaited, Loaded, Ending, client
  <1> QED
    BY <1>7, <1>8, <1>9, <1>10, <1>11 DEF IInv

LEMMA PrepareChunksInv == IInv /\ PrepareChunks => IInv'
  <1> SUFFICES ASSUME IInv, PrepareChunks PROVE IInv'
    OBVIOUS
  <1>1. /\ read = Resolving /\ state = "LoadBody" /\ request.framing = "chunked"
        /\ isConst' = FALSE
        /\ buffered' = IF isConst THEN Unparsed ELSE buffered
        /\ \/ read' = [by |-> "until", count |-> chunkedPos] /\ state' = "LoadBody"
           \/ /\ read' = Resolving
              /\ state' = IF loaded THEN "Trailer" ELSE "Chunk"
        /\ UNCHANGED <<client, readSize, parsedSize, valid, complete, keepAlive, flow, result>>
    BY DEF PrepareChunks, In, Wait
  <1>2. /\ buffered' \in Nat /\ buffered <= buffered' /\ Taken' <= arrived
    <2>1. CASE isConst
      <3>1. buffered = 0 /\ buffered' = Unparsed
        BY <1>1, <2>1 DEF IInv, Loading, Untouched
      <3>2. Unparsed \in Nat /\ parsedSize + Unparsed = readSize
        BY Ranges DEF Unparsed
      <3>3. Taken' = parsedSize + Unparsed
        BY <1>1, <3>1 DEF Taken
      <3> QED
        BY <2>1, <3>1, <3>2, <3>3, Ranges
    <2>2. CASE ~isConst
      <3>1. buffered' = buffered
        BY <1>1, <2>2
      <3>2. Taken' = parsedSize + buffered
        BY <1>1, <3>1 DEF Taken
      <3> QED
        BY <2>2, <3>1, <3>2, Ranges
    <2> QED
      BY <2>1, <2>2
  <1>3. /\ read' \in Reads /\ read' # Nothing /\ read # Nothing
        /\ read'.by \in {"resolve", "until"}
    BY <1>1, ReadsDiffer, Ranges
  <1>4. StreamIsSent' /\ StashOK'
    BY <1>1 DEF IInv, StreamIsSent, StashOK, flow, client
  <1>5. TypeOK'
    <2>1. \A i \in DOMAIN stash : stash[i].pos + stash[i].size < buffered'
      BY <1>2, StashFits
    <2>2. chunkedPos \in 0 .. buffered'
      BY <1>2, Ranges
    <2>3. state' \in States /\ isConst' \in BOOLEAN
      BY <1>1 DEF States
    <2> QED
      BY <1>1, <1>2, <1>3, <2>1, <2>2, <2>3 DEF IInv, TypeOK, client, flow, result
  <1>6. Loading'
    BY <1>1, <1>3 DEF IInv, Loading, client, flow, result
  <1>7. ChunksAwaited'
    BY <1>1, <1>3 DEF IInv, ChunksAwaited, StashAt, Resolved, client, flow
  <1>8. Beginning' /\ LengthAwaited' /\ Loaded' /\ Ending'
    BY <1>1 DEF Beginning, LengthAwaited, Loaded, Ending, client
  <1> QED
    BY <1>4, <1>5, <1>6, <1>7, <1>8 DEF IInv

\* tryParseChunkedData asks for more.
LEMMA MoreInv ==
    ASSUME IInv, In("Chunk") \/ In("Trailer"), NEW from \in Nat, More(from),
           UNCHANGED <<client, data, complete, keepAlive, flow, result>>
    PROVE  IInv'
  <1>1. /\ read = Resolving /\ state \in {"Chunk", "Trailer"}
        /\ read' = [by |-> "until", count |-> from] /\ state' = "LoadBody" /\ valid' = valid
    BY DEF In, More, Wait
  <1>2. read # Nothing /\ read' # Nothing /\ read' # Resolving /\ read' \in Reads
        /\ read'.by = "until"
    BY <1>1, ReadsDiffer
  <1>3. request.framing = "chunked" /\ valid
    BY <1>1, <1>2 DEF IInv, Loading
  <1>4. ~isConst
    BY <1>1, <1>3 DEF IInv, ChunksAwaited
  <1>5. StreamIsSent' /\ StashOK' /\ TypeOK'
    BY <1>1, <1>2
    DEF IInv, StreamIsSent, StashOK, TypeOK, Taken, States, client, data, flow, result
  <1>6. Loading'
    BY <1>1, <1>2, <1>3 DEF IInv, Loading, Untouched, client, data, flow, result
  <1>7. ChunksAwaited'
    BY <1>1, <1>2, <1>3, <1>4 DEF IInv, ChunksAwaited, StashAt, client, data, flow
  <1>8. Beginning' /\ LengthAwaited' /\ Loaded' /\ Ending'
    BY <1>1, <1>3 DEF Beginning, LengthAwaited, Loaded, Ending, client
  <1> QED
    BY <1>5, <1>6, <1>7, <1>8 DEF IInv

\* It returns false and nobody goes on.
LEMMA AbandonInv ==
    ASSUME IInv, In("Chunk") \/ In("Trailer"), Abandon,
           UNCHANGED <<client, data, complete, keepAlive, chunkedPos, loaded, result>>,
           StashOK', StashAt', loaded => Len(stash') = Len(request.chunks),
           \A i \in DOMAIN stash' : stash'[i].pos + stash'[i].size < buffered
    PROVE  IInv'
  <1>1. /\ read = Resolving /\ state \in {"Chunk", "Trailer"}
        /\ read' = Nothing /\ state' = "LoadBody" /\ valid' = FALSE
    BY DEF In, Abandon
  <1>2. read # Nothing /\ read' # Resolving /\ read' \in Reads /\ read'.by = "none"
    BY <1>1, ReadsDiffer
  <1>3. request.framing = "chunked"
    BY <1>1 DEF IInv, Loading
  <1>4. ~isConst /\ (loaded => request.trailers > 0)
    BY <1>1, <1>3 DEF IInv, ChunksAwaited
  <1>5. StreamIsSent' /\ TypeOK'
    <2>1. \A i \in DOMAIN stash' : stash'[i].pos + stash'[i].size < buffered'
      BY DEF data
    <2> QED
      BY <1>1, <1>2, <2>1 DEF IInv, StreamIsSent, TypeOK, Taken, States, client, data, result
  <1>6. Loading'
    BY <1>1, <1>3, <1>4 DEF IInv, Loading, client, data, result
  <1>7. ChunksAwaited'
    <2>1. loaded' = loaded /\ isConst' = isConst /\ request' = request
      BY DEF client, data
    <2> QED
      BY <1>1, <1>2, <1>4, <2>1 DEF ChunksAwaited
  <1>8. Beginning' /\ LengthAwaited' /\ Loaded' /\ Ending'
    BY <1>1, <1>3 DEF Beginning, LengthAwaited, Loaded, Ending, client
  <1> QED
    BY <1>5, <1>6, <1>7, <1>8 DEF IInv

\* The stash, where a body is read in chunks.
LEMMA StashIs ==
    ASSUME IInv, In("Chunk") \/ In("Trailer")
    PROVE  /\ StashOK /\ StashAt
           /\ loaded => Len(stash) = Len(request.chunks)
           /\ \A i \in 1 .. Len(stash) : request.chunks[i].ended
           /\ \A i \in DOMAIN stash : stash[i].pos + stash[i].size < buffered
           /\ request.framing = "chunked" /\ ~isConst /\ parsedSize = TopLen(request)
  <1>1. read = Resolving /\ state \in {"Chunk", "Trailer"} /\ read # Nothing
    BY ReadsDiffer DEF In
  <1>2. request.framing = "chunked" /\ parsedSize = TopLen(request)
    BY <1>1 DEF IInv, Loading
  <1> QED
    BY <1>1, <1>2 DEF IInv, ChunksAwaited, TypeOK

LEMMA SizeMissingInv == IInv /\ SizeMissing => IInv'
  BY Ranges, MoreInv DEF SizeMissing

LEMMA SizeUnreadableInv == IInv /\ SizeUnreadable => IInv'
  <1> SUFFICES ASSUME IInv, SizeUnreadable PROVE IInv'
    OBVIOUS
  <1>1. In("Chunk") /\ Abandon
        /\ UNCHANGED <<client, data, complete, keepAlive, chunkedPos, loaded, stash, result>>
    BY DEF SizeUnreadable, flow
  <1>2. stash' = stash /\ request' = request
    BY <1>1 DEF client
  <1>3. /\ StashOK /\ StashAt
        /\ loaded => Len(stash) = Len(request.chunks)
        /\ \A i \in DOMAIN stash : stash[i].pos + stash[i].size < buffered
    BY <1>1, StashIs
  <1>4. StashOK' /\ StashAt'
    BY <1>2, <1>3 DEF StashOK, StashAt
  <1>5. /\ loaded => Len(stash') = Len(request.chunks)
        /\ \A i \in DOMAIN stash' : stash'[i].pos + stash'[i].size < buffered
    BY <1>2, <1>3
  <1> QED
    BY <1>1, <1>4, <1>5, AbandonInv

LEMMA ChunkMissingInv == IInv /\ ChunkMissing => IInv'
  <1> SUFFICES ASSUME IInv, ChunkMissing PROVE IInv'
    OBVIOUS
  <1>1. In("Chunk") /\ HasLine /\ More(DataPos + 1)
        /\ UNCHANGED <<client, data, complete, keepAlive, flow, result>>
    BY DEF ChunkMissing
  <1>2. DataPos + 1 \in Nat
    <2>1. DataPos = Starts(request)[Len(stash)] + 2 /\ Starts(request)[Len(stash)] \in Nat
      BY <1>1, AtChunk
    <2> QED
      BY <2>1
  <1> QED
    BY <1>1, <1>2, MoreInv

LEMMA LastChunkMissingInv == IInv /\ LastChunkMissing => IInv'
  <1> SUFFICES ASSUME IInv, LastChunkMissing PROVE IInv'
    OBVIOUS
  <1>1. In("Chunk") /\ HasLine /\ More(DataPos - 1)
        /\ UNCHANGED <<client, data, complete, keepAlive, flow, result>>
    BY DEF LastChunkMissing
  <1>2. DataPos - 1 \in Nat
    <2>1. DataPos = Starts(request)[Len(stash)] + 2 /\ Starts(request)[Len(stash)] \in Nat
      BY <1>1, AtChunk
    <2> QED
      BY <2>1
  <1> QED
    BY <1>1, <1>2, MoreInv

LEMMA TrailersMissingInv == IInv /\ TrailersMissing => IInv'
  BY Ranges, MoreInv DEF TrailersMissing

LEMMA ChunkFoundInv == IInv /\ ChunkFound => IInv'
  <1> SUFFICES ASSUME IInv, ChunkFound PROVE IInv'
    OBVIOUS
  <1> DEFINE m == Len(stash)
             n == Len(request.chunks)
             at == Starts(request)[m]
             t == TopLen(request)
             chunk == request.chunks[m + 1]
             len == Len(chunk.data)
             found == [pos |-> at + 2, size |-> len]
  <1>1. /\ In("Chunk") /\ HasLine /\ IsSize /\ SizeSymbol.size > 0
        /\ read = Resolving /\ state = "Chunk"
        /\ UNCHANGED <<client, data, complete, keepAlive, loaded, result>>
    BY DEF ChunkFound, In
  <1>2. /\ request \in Request /\ m \in Nat /\ n \in Nat /\ m <= n /\ at \in Nat
        /\ request.framing = "chunked" /\ ~isConst /\ ~loaded
        /\ parsedSize = t /\ chunkedPos = at
        /\ at + 2 <= buffered /\ DataPos = at + 2
        /\ SizeSymbol.size # -1
        /\ SizeSymbol.size = IF m < n THEN request.chunks[m + 1].size ELSE 0
    BY <1>1, AtChunk
  <1>3. m < n /\ m + 1 \in 1 .. n /\ (m + 1) - 1 = m
    BY <1>1, <1>2
  <1>4. chunk \in Chunk /\ len \in Nat
    <2>1. chunk \in Chunk
      BY <1>2, <1>3 DEF Request
    <2> QED
      BY <2>1, SentAt
  <1>5. SizeSymbol.size = len /\ chunk.size = len
    <2>1. SizeSymbol.size = chunk.size
      BY <1>2, <1>3
    <2>2. chunk.size \in {len, -1} \ {0}
      <3>1. m + 1 \in DOMAIN request.chunks
        BY <1>2, <1>3 DEF Request
      <3> QED
        BY <3>1, IsSent, ReadingAssumption
    <2> QED
      BY <1>2, <2>1, <2>2
  <1>6. /\ DataPos + SizeSymbol.size + 1 = at + len + 3
        /\ DataPos + SizeSymbol.size + 1 <= buffered
        /\ at + len + 3 <= buffered
    <2>1. DataPos + SizeSymbol.size + 1 <= buffered
      BY DEF ChunkFound
    <2>2. DataPos + SizeSymbol.size + 1 = at + len + 3
      <3>1. DataPos = at + 2 /\ at \in Nat
        BY <1>2
      <3> HIDE DEF at, len
      <3> QED
        BY <1>4, <1>5, <3>1
    <2> QED
      BY <2>1, <2>2
  <1>7. stash' = Append(stash, found)
    BY <1>2, <1>5 DEF ChunkFound
  <1>8. /\ buffered \in Nat /\ t \in Nat
        /\ Buffer[at + len + 3] = IF chunk.ended THEN CRLF ELSE Text
    <2>1. /\ buffered \in Nat /\ t \in Nat
          /\ \A k \in 1 .. buffered : Buffer[k] = stream[t + k]
      BY <1>2, Ranges, BufferAt DEF IInv
    <2>2. ChunkAt(stream, t + Starts(request)[(m + 1) - 1], request.chunks[m + 1])
      BY <1>2, <1>3, IsSent, FollowedAt DEF ChunksAt
    <2>3. stream[(t + at) + len + 3] = IF chunk.ended THEN CRLF ELSE Text
      BY <1>3, <2>2 DEF ChunkAt
    <2>4. at + len + 3 \in 1 .. buffered /\ t + (at + len + 3) = (t + at) + len + 3
      <3>1. at \in Nat
        BY <1>2
      <3> HIDE DEF at, len, t
      <3> QED
        BY <1>4, <1>6, <2>1, <3>1
    <2>5. Buffer[at + len + 3] = stream[t + (at + len + 3)]
      BY <2>1, <2>4
    <2> QED
      BY <2>1, <2>3, <2>4, <2>5
  <1>9. Starts(request)[m + 1] = at + len + 3
    BY <1>2, <1>3, StartsOfChunks
  <1>10. found \in [pos : Nat, size : Nat]
    BY <1>2, <1>4
  <1> HIDE DEF m, n, at, t, chunk, len, found
  <1>11. /\ stash' \in Seq([pos : Nat, size : Nat])
         /\ Len(stash') = m + 1 /\ stash'[m + 1] = found
         /\ \A i \in 1 .. m : stash'[i] = stash[i]
    <2> DEFINE Found == [pos : Nat, size : Nat]
    <2>1. stash \in Seq(Found) /\ found \in Found
      BY <1>10 DEF IInv, StashOK
    <2> HIDE DEF Found
    <2>2. /\ Append(stash, found) \in Seq(Found)
          /\ Len(Append(stash, found)) = m + 1
          /\ Append(stash, found)[m + 1] = found
          /\ \A i \in 1 .. m : Append(stash, found)[i] = stash[i]
      BY <2>1 DEF m
    <2> QED
      BY <1>7, <2>2 DEF Found
  <1>12. StashOK'
    BY <1>11 DEF StashOK
  <1>13. StashAt'
    <2>1. request' = request
      BY <1>1 DEF client
    <2>2. Len(stash') <= Len(request.chunks)
      BY <1>2, <1>3, <1>11 DEF n
    <2>3. ASSUME NEW i \in 1 .. m + 1
          PROVE  /\ stash'[i] = [pos |-> Starts(request)[i - 1] + 2,
                                 size |-> Len(request.chunks[i].data)]
                 /\ request.chunks[i].size # -1
      <3>1. CASE i = m + 1
        <4>1. found = [pos |-> Starts(request)[i - 1] + 2,
                       size |-> Len(request.chunks[i].data)]
          BY <1>3, <3>1 DEF found, at, len, chunk
        <4>2. request.chunks[i].size = len
          BY <1>5, <3>1 DEF chunk
        <4> QED
          BY <1>4, <1>11, <3>1, <4>1, <4>2
      <3>2. CASE i # m + 1
        <4>1. i \in 1 .. m
          BY <1>2, <3>2
        <4>2. StashAt
          BY <1>1, StashIs
        <4> QED
          BY <1>11, <4>1, <4>2 DEF StashAt, m
      <3> QED
        BY <3>1, <3>2
    <2> QED
      BY <1>11, <2>1, <2>2, <2>3 DEF StashAt
  <1>14. \A i \in DOMAIN stash' : stash'[i].pos + stash'[i].size < buffered
    <2> SUFFICES ASSUME NEW i \in DOMAIN stash'
                 PROVE  stash'[i].pos + stash'[i].size < buffered
      OBVIOUS
    <2>1. i \in 1 .. m + 1
      BY <1>11
    <2>2. CASE i = m + 1
      <3>1. found.pos = at + 2 /\ found.size = len
        BY DEF found
      <3> QED
        BY <1>2, <1>4, <1>6, <1>8, <1>11, <2>2, <3>1
    <2>3. CASE i # m + 1
      <3>1. i \in 1 .. m /\ 1 .. m = DOMAIN stash
        BY <1>2, <2>1, <2>3 DEF IInv, StashOK, m
      <3> QED
        BY <1>1, <1>11, <3>1, StashIs
    <2> QED
      BY <2>2, <2>3
  <1>15. CASE chunk.ended
    <2>1. Buffer[DataPos + SizeSymbol.size + 1] = CRLF
      BY <1>6, <1>8, <1>15
    <2>2. chunkedPos' = at + len + 3 /\ UNCHANGED <<read, state, valid>>
      BY <1>6, <2>1 DEF ChunkFound
    <2>3. StreamIsSent' /\ TypeOK'
      <3>1. chunkedPos' \in 0 .. buffered'
        BY <1>1, <1>2, <1>4, <1>6, <1>8, <2>2 DEF data
      <3>2. \A i \in DOMAIN stash' : stash'[i].pos + stash'[i].size < buffered'
        BY <1>1, <1>14 DEF data
      <3> QED
        BY <1>1, <2>2, <3>1, <3>2
        DEF IInv, StreamIsSent, TypeOK, Taken, client, data, result
    <2>4. Loading'
      BY <1>1, <1>2, <2>2 DEF IInv, Loading, client, data, result
    <2>5. ChunksAwaited'
      <3>1. \A i \in 1 .. Len(stash') : request.chunks[i].ended
        <4> SUFFICES ASSUME NEW i \in 1 .. m + 1 PROVE request.chunks[i].ended
          BY <1>11
        <4>1. CASE i = m + 1
          BY <1>15, <4>1 DEF chunk
        <4>2. CASE i # m + 1
          <5>1. i \in 1 .. m
            BY <1>2, <4>2
          <5> QED
            BY <1>1, <5>1, StashIs DEF m
        <4> QED
          BY <4>1, <4>2
      <3>2. chunkedPos' = Starts(request)[Len(stash')]
        BY <1>9, <1>11, <2>2
      <3>3. loaded' = loaded /\ isConst' = isConst /\ request' = request
            /\ read' = Resolving /\ state' = "Chunk"
        BY <1>1, <2>2 DEF client, data
      <3>4. read'.by = "resolve"
        BY <3>3, ReadsDiffer
      <3> QED
        BY <1>2, <1>13, <3>1, <3>2, <3>3, <3>4 DEF ChunksAwaited, Resolved
    <2>6. Beginning' /\ LengthAwaited' /\ Loaded' /\ Ending'
      BY <1>1, <2>2 DEF Beginning, LengthAwaited, Loaded, Ending
    <2> QED
      BY <1>12, <2>3, <2>4, <2>5, <2>6 DEF IInv
  <1>16. CASE ~chunk.ended
    <2>1. Buffer[DataPos + SizeSymbol.size + 1] # CRLF
      BY <1>6, <1>8, <1>16, Symbols
    <2>2. Abandon /\ chunkedPos' = chunkedPos
      BY <2>1 DEF ChunkFound
    <2> QED
      BY <1>1, <1>2, <1>12, <1>13, <1>14, <2>2, AbandonInv
  <1> QED
    BY <1>15, <1>16

\* The pieces of the buffer that were found are the data of the chunks.
LEMMA FoundIsMeant ==
    ASSUME IInv, In("Chunk") \/ In("Trailer"), Len(stash) = Len(request.chunks)
    PROVE  FlattenSeq([i \in DOMAIN stash |->
                SubSeq(Buffer, stash[i].pos + 1, stash[i].pos + stash[i].size)])
           = Meant(request)
  <1> DEFINE n == Len(request.chunks)
             t == TopLen(request)
             piece(i) == SubSeq(Buffer, stash[i].pos + 1, stash[i].pos + stash[i].size)
  <1>1. /\ request \in Request /\ n \in Nat /\ DOMAIN request.chunks = 1 .. n
        /\ \A i \in 1 .. n : request.chunks[i] \in Chunk
    BY IsSent DEF Request
  <1>2. DOMAIN stash = 1 .. n
    BY DEF IInv, StashOK
  <1>3. /\ StashAt /\ request.framing = "chunked" /\ ~isConst /\ parsedSize = t
        /\ \A i \in DOMAIN stash : stash[i].pos + stash[i].size < buffered
    BY StashIs
  <1>4. /\ buffered \in Nat /\ Len(Buffer) = buffered
        /\ \A k \in 1 .. buffered : Buffer[k] = stream[t + k]
        /\ t \in Nat /\ t + buffered <= Len(stream) /\ Len(stream) \in Nat
    BY <1>3, BufferAt DEF IInv
  <1>5. Buffer \in Seq(Symbol)
    <2>1. stream \in Seq(Symbol)
      BY IsSent, FollowedAt
    <2>2. \A k \in t + 1 .. t + buffered : stream[k] \in Symbol
      BY <1>4, <2>1
    <2> QED
      BY <1>3, <1>4, <2>2, SubSeqProperties DEF Buffer
  <1>6. ChunksAt(stream, request)
    BY <1>3, IsSent, FollowedAt
  <1>7. ASSUME NEW i \in 1 .. n PROVE piece(i) = request.chunks[i].data
    <2> DEFINE d == request.chunks[i].data
               at == Starts(request)[i - 1]
    <2>1. d \in Seq(Symbol) /\ Len(d) \in Nat
      <3>1. d \in Seq({CRLF, Text})
        BY <1>1 DEF Chunk
      <3> QED
        BY <3>1, Symbols
    <2>2. at \in Nat
      <3>1. i - 1 \in 0 .. n
        BY <1>1
      <3> QED
        BY <1>1, <3>1, StartsOfChunks
    <2>3. stash[i] = [pos |-> at + 2, size |-> Len(d)]
      BY <1>3 DEF StashAt
    <2>4. stash[i].pos = at + 2 /\ stash[i].size = Len(d)
      BY <2>3
    <2>5. (at + 2) + Len(d) <= buffered
      <3>1. (at + 2) + Len(d) < buffered
        BY <1>2, <1>3, <2>4
      <3> HIDE DEF d, at
      <3> QED
        BY <1>4, <2>1, <2>2, <3>1
    <2>6. ASSUME NEW k \in 1 .. Len(d) PROVE Buffer[(at + 2) + k] = d[k]
      <3>1. ChunkAt(stream, t + at, request.chunks[i])
        BY <1>6 DEF ChunksAt
      <3>2. stream[(t + at) + 2 + k] = d[k]
        BY <3>1 DEF ChunkAt
      <3> HIDE DEF d, at, t
      <3>3. (at + 2) + k \in 1 .. buffered /\ t + ((at + 2) + k) = (t + at) + 2 + k
        BY <1>4, <2>1, <2>2, <2>5
      <3>4. Buffer[(at + 2) + k] = stream[t + ((at + 2) + k)]
        BY <1>4, <3>3
      <3> QED
        BY <3>2, <3>3, <3>4
    <2> DEFINE buffer == Buffer
               from == at + 2
    <2>7. /\ buffer \in Seq(Symbol) /\ from \in Nat /\ from + Len(d) <= Len(buffer)
          /\ \A k \in 1 .. Len(d) : buffer[from + k] = d[k]
      BY <1>4, <1>5, <2>2, <2>5, <2>6
    <2> HIDE DEF buffer, from, d
    <2>8. SubSeq(buffer, from + 1, from + Len(d)) = d
      BY <2>1, <2>7, SubSeqIs
    <2> QED
      BY <2>4, <2>8 DEF buffer, from, d
  <1> HIDE DEF piece
  <1>8. [i \in DOMAIN stash |-> piece(i)] = [i \in DOMAIN request.chunks |-> request.chunks[i].data]
    BY <1>1, <1>2, <1>7
  <1>9. Meant(request) = FlattenSeq([i \in DOMAIN request.chunks |-> request.chunks[i].data])
    BY <1>3 DEF Meant
  <1> QED
    BY <1>8, <1>9 DEF piece

\* After the last chunk and its trailers the whole request is in the buffer.
LEMMA LoadedInv ==
    ASSUME IInv, In("Chunk") \/ In("Trailer"), Len(stash) = Len(request.chunks),
           LegalChunks(request), parsedSize + buffered >= StreamLen(request),
           ChunksLoaded, chunkedPos' \in 0 .. buffered, loaded' \in BOOLEAN,
           UNCHANGED <<client, data, read, valid, keepAlive, stash, outcome>>
    PROVE  IInv'
  <1>1. /\ read = Resolving /\ state \in {"Chunk", "Trailer"} /\ read # Nothing
        /\ state' = "Body" /\ complete' = TRUE /\ body' = Meant(request)
    BY FoundIsMeant, ReadsDiffer DEF In, ChunksLoaded
  <1>2. /\ valid /\ outcome = "none" /\ request.line /\ request.legal /\ HasBody(request)
    BY <1>1 DEF IInv, Loading
  <1>3. ~isConst
    BY StashIs
  <1>4. Taken >= StreamLen(request) /\ Taken' = Taken
    BY <1>3, Ranges DEF Taken, data
  <1>5. StreamIsSent' /\ StashOK'
    BY DEF IInv, StreamIsSent, StashOK, client
  <1>6. TypeOK'
    BY <1>1, <1>4 DEF IInv, TypeOK, States, client, data
  <1>7. Loaded'
    <2>1. request' = request /\ stream' = stream /\ read' = Resolving
          /\ valid' = valid /\ outcome' = outcome
      BY <1>1 DEF client
    <2> QED
      BY <1>1, <1>2, <1>4, <2>1 DEF Loaded, Resolved
  <1>8. Beginning' /\ Loading' /\ LengthAwaited' /\ ChunksAwaited' /\ Ending'
    BY <1>1 DEF Beginning, Loading, LengthAwaited, ChunksAwaited, Ending
  <1> QED
    BY <1>5, <1>6, <1>7, <1>8 DEF IInv

LEMMA LastChunkFoundInv == IInv /\ LastChunkFound => IInv'
  <1> SUFFICES ASSUME IInv, LastChunkFound PROVE IInv'
    OBVIOUS
  <1> DEFINE m == Len(stash)
             n == Len(request.chunks)
             at == Starts(request)[m]
             t == TopLen(request)
             r == request.trailers
  <1>1. /\ In("Chunk") /\ HasLine /\ IsSize /\ SizeSymbol.size = 0
        /\ DataPos + 1 <= buffered /\ loaded' = TRUE
        /\ read = Resolving /\ state = "Chunk"
        /\ UNCHANGED <<client, data, read, valid, keepAlive, stash, outcome>>
    BY DEF LastChunkFound, In
  <1>2. /\ request \in Request /\ m \in Nat /\ n \in Nat /\ m <= n /\ at \in Nat
        /\ request.framing = "chunked" /\ ~isConst /\ ~loaded
        /\ parsedSize = t /\ chunkedPos = at
        /\ at + 2 <= buffered /\ DataPos = at + 2
        /\ SizeSymbol.size = IF m < n THEN request.chunks[m + 1].size ELSE 0
    BY <1>1, AtChunk
  <1>3. m = n
    <2> SUFFICES ASSUME m < n PROVE FALSE
      BY <1>2
    <2>1. m + 1 \in DOMAIN request.chunks
      BY <1>2 DEF Request
    <2>2. request.chunks[m + 1].size # 0
      BY <2>1, IsSent, ReadingAssumption
    <2> QED
      BY <1>1, <1>2, <2>2
  <1>4. r \in Nat
    BY <1>2 DEF Request
  <1>5. /\ buffered \in Nat /\ t \in Nat /\ Len(stream) \in Nat
        /\ t + buffered <= Len(stream)
        /\ \A k \in 1 .. buffered : Buffer[k] = stream[t + k]
    BY <1>2, Ranges, BufferAt DEF IInv
  <1>6. at + 3 <= buffered
    <2>1. at + 2 + 1 <= buffered
      BY <1>1, <1>2
    <2> HIDE DEF at
    <2> QED
      BY <1>2, <1>5, <2>1
  <1>7. Buffer[DataPos + 1] = IF r = 0 THEN CRLF ELSE Text
    <2>1. ChunksAt(stream, request)
      BY <1>2, IsSent, FollowedAt
    <2>2. LastAt(request) = t + at
      BY <1>3 DEF LastAt, ChunksEnd
    <2>3. 1 \in 1 .. 2 * r + 1 /\ (1 % 2 = 0 \/ 1 = 2 * r + 1 <=> r = 0)
      BY <1>4
    <2>4. stream[(t + at) + 2 + 1] = IF r = 0 THEN CRLF ELSE Text
      BY <2>1, <2>2, <2>3 DEF ChunksAt
    <2>5. at \in Nat /\ DataPos = at + 2
      BY <1>2
    <2> HIDE DEF at, t
    <2>6. at + 3 \in 1 .. buffered /\ DataPos + 1 = at + 3
          /\ t + (at + 3) = (t + at) + 2 + 1
      BY <1>5, <1>6, <2>5
    <2>7. Buffer[at + 3] = stream[t + (at + 3)]
      BY <1>5, <2>6
    <2> QED
      BY <2>4, <2>6, <2>7
  <1>8. CASE r = 0
    <2>1. chunkedPos' = DataPos + 1 /\ ChunksLoaded
      BY <1>7, <1>8 DEF LastChunkFound
    <2>2. LegalChunks(request)
      <3>1. StashAt /\ \A i \in 1 .. m : request.chunks[i].ended
        BY <1>1, StashIs
      <3>2. DOMAIN request.chunks = 1 .. m
        BY <1>2, <1>3 DEF Request
      <3>3. ~(request.trailers > 0)
        BY <1>8
      <3>4. \A i \in 1 .. m : request.chunks[i].size # -1
        BY <3>1 DEF StashAt
      <3> QED
        BY <3>1, <3>2, <3>3, <3>4 DEF LegalChunks
    <2>3. StreamLen(request) = (t + at) + 3
      <3>1. StreamLen(request) = LastAt(request) + 3 + 2 * r
        BY <1>2 DEF StreamLen
      <3>2. LastAt(request) = t + at
        BY <1>3 DEF LastAt, ChunksEnd
      <3> QED
        BY <1>2, <1>5, <1>8, <3>1, <3>2
    <2>4. parsedSize + buffered >= StreamLen(request)
      BY <1>2, <1>5, <1>6, <2>3
    <2>5. chunkedPos' \in 0 .. buffered
      <3>1. chunkedPos' = at + 3 /\ at \in Nat
        BY <1>2, <2>1
      <3> HIDE DEF at
      <3> QED
        BY <1>5, <1>6, <3>1
    <2>6. loaded' \in BOOLEAN
      BY <1>1
    <2> QED
      BY <1>1, <1>3, <2>1, <2>2, <2>4, <2>5, <2>6, LoadedInv
  <1>9. CASE r # 0
    <2>1. Buffer[DataPos + 1] # CRLF
      BY <1>7, <1>9, Symbols
    <2>2. /\ chunkedPos' = at + 2 /\ state' = "Trailer" /\ UNCHANGED <<complete, body>>
      BY <1>2, <2>1 DEF LastChunkFound
    <2>3. StreamIsSent' /\ StashOK' /\ TypeOK'
      <3>1. chunkedPos' \in 0 .. buffered'
        BY <1>1, <1>2, <1>5, <2>2 DEF data
      <3> QED
        BY <1>1, <2>2, <3>1
        DEF IInv, StreamIsSent, StashOK, TypeOK, Taken, States, client, data
    <2>4. Loading'
      BY <1>1, <1>2, <2>2 DEF IInv, Loading, client, data
    <2>5. ChunksAwaited'
      <3>1. StashAt /\ \A i \in 1 .. m : request.chunks[i].ended
        BY <1>1, StashIs
      <3>2. /\ isConst' = isConst /\ request' = request /\ stash' = stash
            /\ read' = Resolving /\ read'.by = "resolve"
        BY <1>1, ReadsDiffer DEF client, data
      <3>3. StashAt'
        BY <3>1, <3>2 DEF StashAt
      <3>4. r > 0 /\ chunkedPos' = ChunksEnd(request) + 2
        BY <1>3, <1>4, <1>9, <2>2 DEF ChunksEnd
      <3> QED
        BY <1>1, <1>2, <1>3, <2>2, <3>1, <3>2, <3>3, <3>4 DEF ChunksAwaited, Resolved
    <2>6. Beginning' /\ LengthAwaited' /\ Loaded' /\ Ending'
      BY <2>2 DEF Beginning, LengthAwaited, Loaded, Ending
    <2> QED
      BY <2>3, <2>4, <2>5, <2>6 DEF IInv
  <1> QED
    BY <1>8, <1>9

LEMMA TrailersFoundInv == IInv /\ TrailersFound => IInv'
  <1> SUFFICES ASSUME IInv, TrailersFound PROVE IInv'
    OBVIOUS
  <1> DEFINE n == Len(request.chunks)
             at == ChunksEnd(request)
             t == TopLen(request)
             r == request.trailers
             parts == Parts(Buffer, chunkedPos)
  <1>1. /\ In("Trailer") /\ parts # {} /\ read = Resolving /\ state = "Trailer"
        /\ read # Nothing
        /\ UNCHANGED <<client, data, keepAlive, loaded, stash, outcome>>
    BY ReadsDiffer DEF TrailersFound, In
  <1>2. /\ StashOK /\ StashAt
        /\ \A i \in 1 .. Len(stash) : request.chunks[i].ended
        /\ \A i \in DOMAIN stash : stash[i].pos + stash[i].size < buffered
        /\ request.framing = "chunked" /\ ~isConst /\ parsedSize = t
    BY <1>1, StashIs
  <1>3. loaded /\ r > 0 /\ Len(stash) = n /\ chunkedPos = at + 2
    BY <1>1, <1>2 DEF IInv, ChunksAwaited
  <1>4. r \in Nat /\ n \in Nat /\ DOMAIN request.chunks = 1 .. n
    BY IsSent DEF Request
  <1>5. at \in Nat
    BY <1>4, IsSent, StartsOfChunks DEF ChunksEnd
  <1>6. /\ buffered \in Nat /\ t \in Nat /\ Len(stream) \in Nat
        /\ t + buffered <= Len(stream) /\ Len(Buffer) = buffered
        /\ \A k \in 1 .. buffered : Buffer[k] = stream[t + k]
    BY <1>2, Ranges, BufferAt DEF IInv
  <1>7. CASE request.tail /\ OnlyLineEndsFrom(FirstOf(parts))
    <2>1. chunkedPos' = FirstOf(parts) /\ ChunksLoaded /\ UNCHANGED <<read, valid>>
      BY <1>7 DEF TrailersFound
    <2>2. LegalChunks(request)
      BY <1>2, <1>3, <1>4, <1>7 DEF LegalChunks, StashAt
    <2>3. StreamLen(request) = (t + at) + 3 + 2 * r
      BY <1>2 DEF StreamLen, LastAt
    <2>4. \A k \in 1 .. 2 * r + 1 :
            stream[(t + at) + 2 + k] =
                IF k % 2 = 0 \/ k = 2 * r + 1 THEN CRLF ELSE Text
      BY <1>2, IsSent, FollowedAt DEF ChunksAt, LastAt
    <2>5. ASSUME NEW j \in parts
          PROVE  j \in Nat /\ at + 3 + 2 * r <= j /\ j <= buffered
      <3>1. /\ j \in at + 3 .. buffered /\ j - 1 \in at + 3 .. buffered
            /\ Buffer[j] = CRLF /\ Buffer[j - 1] = CRLF
        BY <1>3, <1>5, <1>6 DEF Parts, LineEnds
      <3> SUFFICES ASSUME j < at + 3 + 2 * r PROVE FALSE
        <4> HIDE DEF at
        <4> QED
          BY <1>4, <1>5, <1>6, <3>1
      <3> DEFINE k == j - (at + 2)
                 e == 2 * r + 1
      <3>2. at + 3 + 2 * r = at + 2 + e /\ e \in Nat /\ e % 2 = 1
        BY <1>4, <1>5
      <3> HIDE DEF at, t, e
      <3>3. /\ k \in 2 .. e /\ k - 1 \in 1 .. e /\ k < e
            /\ j \in 1 .. buffered /\ j - 1 \in 1 .. buffered
            /\ t + j = (t + at) + 2 + k /\ t + (j - 1) = (t + at) + 2 + (k - 1)
        BY <1>5, <1>6, <3>1, <3>2
      <3>4. stream[(t + at) + 2 + k] = CRLF /\ stream[(t + at) + 2 + (k - 1)] = CRLF
        BY <1>6, <3>1, <3>3
      <3> HIDE DEF k
      <3>5. k % 2 = 0 \/ k = e
        BY <2>4, <3>3, <3>4, Symbols DEF e
      <3>6. (k - 1) % 2 = 0 \/ k - 1 = e
        BY <2>4, <3>3, <3>4, Symbols DEF e
      <3> QED
        BY <3>2, <3>3, <3>5, <3>6
    <2>6. PICK j \in parts : \A i \in parts : j <= i
      <3>1. parts \subseteq Nat
        BY <2>5
      <3> HIDE DEF parts
      <3> QED
        BY <1>1, <3>1, LeastElement
    <2>7. FirstOf(parts) = j
      <3>1. parts \subseteq Int
        BY <2>5
      <3> HIDE DEF parts
      <3> QED
        BY <2>6, <3>1, FirstIs
    <2>8. j \in Nat /\ at + 3 + 2 * r <= j /\ j <= buffered
      BY <2>5
    <2> HIDE DEF at, t, parts
    <2>9. chunkedPos' \in 0 .. buffered
      BY <1>4, <1>5, <1>6, <2>1, <2>7, <2>8
    <2>10. parsedSize + buffered >= StreamLen(request)
      BY <1>2, <1>4, <1>5, <1>6, <2>3, <2>8
    <2>11. loaded' \in BOOLEAN
      BY <1>1, <1>3
    <2> QED
      BY <1>1, <1>3, <2>1, <2>2, <2>9, <2>10, <2>11, LoadedInv
  <1>8. CASE ~(request.tail /\ OnlyLineEndsFrom(FirstOf(parts)))
    <2>1. Abandon /\ UNCHANGED <<chunkedPos, complete, body>>
      BY <1>8 DEF TrailersFound
    <2>2. stash' = stash /\ request' = request
      BY <1>1 DEF client
    <2>3. StashOK' /\ StashAt'
      BY <1>2, <2>2 DEF StashOK, StashAt
    <2>4. /\ loaded => Len(stash') = Len(request.chunks)
          /\ \A i \in DOMAIN stash' : stash'[i].pos + stash'[i].size < buffered
      BY <1>2, <1>3, <2>2
    <2> QED
      BY <1>1, <2>1, <2>3, <2>4, AbandonInv DEF result
  <1> QED
    BY <1>7, <1>8

LEMMA BodyInv == IInv /\ BodyState => IInv'
  <1> SUFFICES ASSUME IInv, BodyState PROVE IInv'
    OBVIOUS
  <1>1. /\ read = Resolving /\ state = "Body"
        /\ UNCHANGED <<client, data, read, complete, keepAlive, flow, result>>
        /\ state' = "End" /\ valid' = IF request.payload THEN valid ELSE FALSE
    BY DEF BodyState, In, Refuse
  <1>2. /\ valid /\ complete /\ outcome = "none"
        /\ request.line /\ request.legal /\ HasBody(request)
        /\ request.framing = "chunked" => LegalChunks(request)
        /\ body = Meant(request) /\ Taken >= StreamLen(request)
    BY <1>1 DEF IInv, Loaded
  <1>3. Legal(request) <=> request.payload
    BY <1>2 DEF Legal
  <1>4. StreamIsSent' /\ StashOK'
    BY <1>1 DEF IInv, StreamIsSent, StashOK, client, flow
  <1>5. TypeOK'
    <2>1. state' \in States /\ valid' \in BOOLEAN
      BY <1>1 DEF IInv, TypeOK, States
    <2> QED
      BY <1>1, <2>1 DEF IInv, TypeOK, Taken, client, data, flow, result
  <1>6. Ending'
    <2>1. /\ request' = request /\ body' = body /\ outcome' = outcome /\ complete' = complete
          /\ Taken' >= StreamLen(request') /\ read' = Resolving
      BY <1>1, <1>2 DEF Taken, client, data, result
    <2>2. IF valid' THEN Legal(request) /\ body = Meant(request) ELSE ~Legal(request)
      BY <1>1, <1>2, <1>3
    <2> QED
      BY <1>2, <2>1, <2>2 DEF Ending, Resolved
  <1>7. Beginning' /\ Loading' /\ LengthAwaited' /\ ChunksAwaited' /\ Loaded'
    BY <1>1 DEF Beginning, Loading, LengthAwaited, ChunksAwaited, Loaded
  <1> QED
    BY <1>4, <1>5, <1>6, <1>7 DEF IInv

LEMMA EndInv == IInv /\ EndState => IInv'
  <1> SUFFICES ASSUME IInv, EndState PROVE IInv'
    OBVIOUS
  <1>1. /\ read = Resolving /\ state = "End" /\ read' = Nothing
        /\ keepAlive' = (keepAlive /\ complete)
        /\ outcome' = IF valid THEN "handled" ELSE "refused"
        /\ UNCHANGED <<client, data, state, valid, complete, flow, body>>
    BY DEF EndState, In
  <1>2. StreamIsSent' /\ StashOK'
    BY <1>1 DEF IInv, StreamIsSent, StashOK, client, flow
  <1>3. TypeOK'
    <2>1. read' \in Reads /\ keepAlive' \in BOOLEAN
          /\ outcome' \in {"none", "handled", "refused"}
      BY <1>1, ReadsDiffer
    <2> QED
      BY <1>1, <2>1 DEF IInv, TypeOK, Taken, client, data, flow
  <1>4. Ending'
    <2>1. /\ request' = request /\ stream' = stream /\ body' = body /\ valid' = valid
          /\ complete' = complete /\ Taken' = Taken
      BY <1>1 DEF Taken, client, data
    <2>2. read' = Nothing /\ read' # Resolving
      BY <1>1, ReadsDiffer
    <2>3. /\ IF valid THEN Legal(request) /\ body = Meant(request) ELSE ~Legal(request)
          /\ complete => Taken >= StreamLen(request)
      BY <1>1 DEF IInv, Ending
    <2>4. keepAlive' => complete'
      <3>1. keepAlive' = (keepAlive /\ complete) /\ complete' = complete
        BY <1>1, <2>1
      <3>2. keepAlive \in BOOLEAN /\ complete \in BOOLEAN
        BY DEF IInv, TypeOK
      <3> QED
        BY <3>1, <3>2
    <2>5. complete' => Taken' >= StreamLen(request')
      BY <2>1, <2>3
    <2>6. outcome' = IF valid' THEN "handled" ELSE "refused"
      BY <1>1, <2>1
    <2>7. IF valid' THEN Legal(request') /\ body' = Meant(request') ELSE ~Legal(request')
      BY <2>1, <2>3
    <2> QED
      BY <2>2, <2>4, <2>5, <2>6, <2>7 DEF Ending, Resolved
  <1>5. Beginning' /\ Loading' /\ LengthAwaited' /\ ChunksAwaited' /\ Loaded'
    BY <1>1 DEF Beginning, Loading, LengthAwaited, ChunksAwaited, Loaded
  <1> QED
    BY <1>2, <1>3, <1>4, <1>5 DEF IInv

LEMMA StutterInv == IInv /\ UNCHANGED vars => IInv'
  <1> SUFFICES ASSUME IInv, UNCHANGED vars PROVE IInv'
    OBVIOUS
  <1>1. StreamIsSent' /\ StashOK' /\ TypeOK'
    BY DEF IInv, StreamIsSent, StashOK, TypeOK, Taken, vars, client, data, flow, result
  <1>2. Beginning' /\ Loading'
    BY DEF IInv, Beginning, Loading, Untouched, Resolved, vars, client, data, flow, result
  <1>3. LengthAwaited' /\ ChunksAwaited'
    BY DEF IInv, LengthAwaited, ChunksAwaited, StashAt, Unparsed, Resolved,
           vars, client, data, flow, result
  <1>4. Loaded' /\ Ending'
    BY DEF IInv, Loaded, Ending, Taken, Resolved, vars, client, data, flow, result
  <1> QED
    BY <1>1, <1>2, <1>3, <1>4 DEF IInv

LEMMA NextInv == IInv /\ [Next]_vars => IInv'
  <1> SUFFICES ASSUME IInv, [Next]_vars PROVE IInv'
    OBVIOUS
  <1>1. CASE Arrive
    BY <1>1, ArriveInv
  <1>2. CASE Reading
    BY <1>2, ReadSomeInv, ReadExactlyInv, ReadUntilInv DEF Reading
  <1>3. CASE Parsing
    BY <1>3, FirstLineInv, HeadersInv, LengthLoadedInv, LengthMissingInv, PrepareChunksInv,
       SizeMissingInv, SizeUnreadableInv, ChunkMissingInv, ChunkFoundInv,
       LastChunkMissingInv, LastChunkFoundInv, TrailersMissingInv, TrailersFoundInv,
       BodyInv, EndInv DEF Parsing
  <1>4. CASE UNCHANGED vars
    BY <1>4, StutterInv
  <1> QED
    BY <1>1, <1>2, <1>3, <1>4 DEF Next

THEOREM Invariant == Spec => []IInv
  BY InitInv, NextInv, PTL DEF Spec

-----------------------------------------------------------------------------
(* What it is for *)

\* Every read asks for bytes that are not there yet, into room that there is:
\* what was taken is never more than what arrived, the array is never written
\* beyond its size, and the chunks that were found lie in the buffer.
THEOREM TypeCorrect == Spec => []TypeOK
  <1>1. IInv => TypeOK
    BY DEF IInv
  <1> QED
    BY <1>1, Invariant, PTL

\* However a request is cut into pieces, it is handled with the body that the
\* client sent and refused only if something is wrong with it.
THEOREM Handled == Spec => []HandledAsMeant
  <1>1. IInv => HandledAsMeant
    <2> SUFFICES ASSUME IInv PROVE HandledAsMeant
      OBVIOUS
    <2>1. CASE outcome = "none"
      BY <2>1 DEF HandledAsMeant
    <2>2. CASE outcome # "none"
      <3>1. state = "End" /\ ~Resolved
        <4>1. state \in States
          BY DEF IInv, TypeOK
        <4>2. state = "End"
          BY <2>2, <4>1 DEF IInv, States, Beginning, Loading, Loaded
        <4> QED
          BY <2>2, <4>2 DEF IInv, Ending
      <3> QED
        BY <3>1 DEF IInv, Ending, HandledAsMeant
    <2> QED
      BY <2>1, <2>2
  <1> QED
    BY <1>1, Invariant, PTL

\* A connection is kept only after all of the request was read, so that what
\* is read next is nothing that was left over of it.  More may have been read:
\* this does not say that all of the client's next request is still to come.
THEOREM InStep == Spec => []KeptInStep
  <1>1. IInv => KeptInStep
    <2> SUFFICES ASSUME IInv, outcome # "none", keepAlive
                 PROVE  Taken >= Len(Stream(request))
      BY DEF KeptInStep
    <2>1. state \in States
      BY DEF IInv, TypeOK
    <2>2. state = "End"
      BY <2>1 DEF IInv, States, Beginning, Loading, Loaded
    <2>3. complete /\ (complete => Taken >= StreamLen(request))
      BY <2>2 DEF IInv, Ending
    <2>4. Len(Stream(request)) = StreamLen(request)
      BY IsSent, FollowedAt
    <2> QED
      BY <2>3, <2>4
  <1> QED
    BY <1>1, Invariant, PTL
=============================================================================
