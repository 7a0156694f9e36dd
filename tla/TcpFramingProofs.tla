------------------------- MODULE TcpFramingProofs -------------------------
(***************************************************************************)
(* Proofs about TcpFraming: the parser is the inverse of the sender's      *)
(* format, the buffer is bounded, and the connection implements            *)
(* FrameChannel, for all bodies and all ways to cut the stream.            *)
(***************************************************************************)
EXTENDS TcpFraming, SequenceTheorems, TLAPS

-----------------------------------------------------------------------------
(* Pieces of sequences. *)

LEMMA Regroup ==
    ASSUME NEW c \in Seq(Byte), NEW u \in Seq(Byte), NEW v \in Seq(Byte)
    PROVE  (c \o u) \o v = c \o (u \o v)
BY ConcatAssociative

\* Sequences of one and of two.
LEMMA One ==
    ASSUME NEW S, NEW a \in S
    PROVE  <<a>> \in Seq(S) /\ Len(<<a>>) = 1 /\ <<a>>[1] = a
OBVIOUS

LEMMA Two ==
    ASSUME NEW S, NEW a \in S, NEW b \in S
    PROVE  <<a, b>> \in Seq(S) /\ Len(<<a, b>>) = 2 /\ <<a, b>>[1] = a /\ <<a, b>>[2] = b
OBVIOUS

\* What From cuts off.
LEMMA FromProperties ==
    ASSUME NEW S, NEW s \in Seq(S), NEW n \in 1 .. Len(s) + 1
    PROVE  /\ From(s, n) \in Seq(S)
           /\ Len(From(s, n)) = Len(s) + 1 - n
           /\ \A i \in 1 .. Len(s) + 1 - n : From(s, n)[i] = s[n + i - 1]
<1>1. Len(s) \in Nat
  BY LenProperties
<1>2. \A i \in n .. Len(s) : s[i] \in S
  BY <1>1, ElementOfSeq
<1>3. n \in Int /\ Len(s) \in Int
  BY <1>1
<1>4. /\ SubSeq(s, n, Len(s)) \in Seq(S)
      /\ Len(SubSeq(s, n, Len(s))) = IF n <= Len(s) THEN Len(s) - n + 1 ELSE 0
      /\ \A i \in 1 .. Len(s) - n + 1 : SubSeq(s, n, Len(s))[i] = s[n + i - 1]
  BY <1>2, <1>3, SubSeqProperties
<1> QED BY <1>1, <1>4 DEF From

\* The same of a piece in the middle.
LEMMA PieceProperties ==
    ASSUME NEW S, NEW s \in Seq(S), NEW m \in Nat \ {0}, NEW n \in Nat, n <= Len(s), m <= n + 1
    PROVE  /\ SubSeq(s, m, n) \in Seq(S)
           /\ Len(SubSeq(s, m, n)) = n + 1 - m
           /\ \A i \in 1 .. n + 1 - m : SubSeq(s, m, n)[i] = s[m + i - 1]
<1>1. Len(s) \in Nat
  BY LenProperties
<1>2. \A i \in m .. n : s[i] \in S
  BY <1>1, ElementOfSeq
<1>3. m \in Int /\ n \in Int
  OBVIOUS
<1>4. /\ SubSeq(s, m, n) \in Seq(S)
      /\ Len(SubSeq(s, m, n)) = IF m <= n THEN n - m + 1 ELSE 0
      /\ \A i \in 1 .. n - m + 1 : SubSeq(s, m, n)[i] = s[m + i - 1]
  BY <1>2, <1>3, SubSeqProperties
<1> QED BY <1>1, <1>4

\* What follows a prefix of known length.
LEMMA FromConcat ==
    ASSUME NEW S, NEW s \in Seq(S), NEW t \in Seq(S)
    PROVE  From(s \o t, Len(s) + 1) = t
<1>1. Len(s) \in Nat /\ Len(t) \in Nat
  BY LenProperties
<1>2. /\ s \o t \in Seq(S)
      /\ Len(s \o t) = Len(s) + Len(t)
      /\ \A i \in 1 .. Len(s) + Len(t) : (s \o t)[i] = IF i <= Len(s) THEN s[i] ELSE t[i - Len(s)]
  BY ConcatProperties, Zenon
<1>3. PICK st \in Seq(S) : st = s \o t
  BY <1>2
<1>4. /\ Len(st) = Len(s) + Len(t)
      /\ \A i \in 1 .. Len(s) + Len(t) : st[i] = IF i <= Len(s) THEN s[i] ELSE t[i - Len(s)]
  BY <1>2, <1>3, Zenon
<1>5. Len(s) + 1 \in 1 .. Len(st) + 1
  BY <1>1, <1>4
<1>6. PICK n \in 1 .. Len(st) + 1 : n = Len(s) + 1
  BY <1>5
<1>7. /\ From(st, n) \in Seq(S)
      /\ Len(From(st, n)) = Len(st) + 1 - n
      /\ \A i \in 1 .. Len(st) + 1 - n : From(st, n)[i] = st[n + i - 1]
  BY FromProperties, Zenon
<1>8. PICK u \in Seq(S) : u = From(st, n)
  BY <1>7
<1>9. /\ Len(u) = Len(t)
      /\ \A i \in 1 .. Len(t) : u[i] = st[Len(s) + i]
  <2>1. Len(st) + 1 - n = Len(t)
    BY <1>1, <1>4, <1>6
  <2>2. \A i \in 1 .. Len(t) : n + i - 1 = Len(s) + i
    BY <1>1, <1>6
  <2>3. Len(u) = Len(t) /\ \A i \in 1 .. Len(t) : u[i] = st[n + i - 1]
    BY <1>7, <1>8, <2>1, Zenon
  <2> QED BY <2>2, <2>3, Zenon
<1>10. \A i \in 1 .. Len(u) : u[i] = t[i]
  <2>1. TAKE i \in 1 .. Len(u)
  <2>2. i \in 1 .. Len(t)
    BY <1>9, Zenon
  <2>3. PICK j \in 1 .. Len(s) + Len(t) : j = Len(s) + i
    BY <1>1, <2>2
  <2>4. ~(j <= Len(s)) /\ j - Len(s) = i
    BY <1>1, <2>2, <2>3
  <2>5. st[j] = t[i]
    BY <1>4, <2>4, Zenon
  <2> QED BY <1>9, <2>2, <2>3, <2>5, Zenon
<1>11. u = t
  BY <1>9, <1>10, SeqEqual, Zenon
<1> QED BY <1>3, <1>6, <1>8, <1>11, Zenon

-----------------------------------------------------------------------------
(* The format. *)

\* Both halves of a 16-bit number are bytes, and it can be read back.
LEMMA Read16 ==
    ASSUME NEW n \in Nat, n < Two16
    PROVE  /\ BE16(n) \in Seq(Byte)
           /\ Len(BE16(n)) = 2
           /\ Two8 * BE16(n)[1] + BE16(n)[2] = n
BY DEF BE16, Byte, Two8, Two16

\* Two pairs side by side.
LEMMA Pairs ==
    ASSUME NEW a \in Byte, NEW b \in Byte, NEW c \in Byte, NEW d \in Byte
    PROVE  /\ <<a, b>> \o <<c, d>> \in Seq(Byte)
           /\ Len(<<a, b>> \o <<c, d>>) = 4
           /\ read_uint32_be(<<a, b>> \o <<c, d>>) = Two24 * a + Two16 * b + Two8 * c + d
<1>1. PICK s \in Seq(Byte) : s = <<a, b>>
  BY Two, Zenon
<1>2. PICK t \in Seq(Byte) : t = <<c, d>>
  BY Two, Zenon
<1>3. Len(s) = 2 /\ s[1] = a /\ s[2] = b /\ Len(t) = 2 /\ t[1] = c /\ t[2] = d
  BY <1>1, <1>2, Two, Zenon
<1>4. /\ s \o t \in Seq(Byte)
      /\ Len(s \o t) = Len(s) + Len(t)
      /\ \A i \in 1 .. Len(s) + Len(t) : (s \o t)[i] = IF i <= Len(s) THEN s[i] ELSE t[i - Len(s)]
  BY ConcatProperties, Zenon
<1>5. PICK st \in Seq(Byte) : st = s \o t
  BY <1>4
<1>6. /\ Len(st) = 4
      /\ st[1] = a /\ st[2] = b /\ st[3] = c /\ st[4] = d
  BY <1>3, <1>4, <1>5
<1>7. read_uint32_be(st) = Two24 * a + Two16 * b + Two8 * c + d
  BY <1>6 DEF read_uint32_be
<1> QED BY <1>1, <1>2, <1>5, <1>6, <1>7, Zenon

\* The same for 32 bits.
LEMMA Read32 ==
    ASSUME NEW n \in Nat, n \div Two16 < Two16
    PROVE  /\ BE32(n) \in Seq(Byte)
           /\ Len(BE32(n)) = 4
           /\ read_uint32_be(BE32(n)) = n
<1>1. /\ (n \div Two24) % Two8 \in Byte /\ (n \div Two16) % Two8 \in Byte
      /\ (n \div Two8) % Two8 \in Byte /\ n % Two8 \in Byte
  BY DEF Byte, Two8, Two16, Two24
<1>2. PICK a \in Byte, b \in Byte, c \in Byte, d \in Byte :
        /\ a = (n \div Two24) % Two8 /\ b = (n \div Two16) % Two8
        /\ c = (n \div Two8) % Two8 /\ d = n % Two8
  BY <1>1, Zenon
<1>3. Two24 * a + Two16 * b + Two8 * c + d = n
  BY <1>2 DEF Two8, Two16, Two24
<1>4. BE32(n) = <<a, b>> \o <<c, d>>
  BY <1>2, Zenon DEF BE32, BE16
<1>5. /\ <<a, b>> \o <<c, d>> \in Seq(Byte)
      /\ Len(<<a, b>> \o <<c, d>>) = 4
      /\ read_uint32_be(<<a, b>> \o <<c, d>>) = Two24 * a + Two16 * b + Two8 * c + d
  BY Pairs
<1> QED BY <1>3, <1>4, <1>5, Zenon

\* The length that is read depends on the first four bytes only.
LEMMA ReadPrefix ==
    ASSUME NEW s \in Seq(Byte), NEW t \in Seq(Byte), Len(s) >= 4
    PROVE  read_uint32_be(s \o t) = read_uint32_be(s)
<1>1. Len(s) \in Nat /\ Len(t) \in Nat
  BY LenProperties
<1>2. \A i \in 1 .. Len(s) + Len(t) : (s \o t)[i] = IF i <= Len(s) THEN s[i] ELSE t[i - Len(s)]
  BY ConcatProperties
<1>3. /\ (s \o t)[1] = s[1] /\ (s \o t)[2] = s[2]
      /\ (s \o t)[3] = s[3] /\ (s \o t)[4] = s[4]
  BY <1>1, <1>2
<1> QED BY <1>3 DEF read_uint32_be

\* The bytes of a frame: its length, and behind it the body.
LEMMA FrameBytes ==
    ASSUME NEW b \in Seq(Byte), Len(b) \div Two16 < Two16
    PROVE  /\ MakeFrame(b) \in Seq(Byte)
           /\ Len(MakeFrame(b)) = 4 + Len(b)
           /\ read_uint32_be(MakeFrame(b)) = Len(b)
           /\ From(MakeFrame(b), 5) = b
<1>1. Len(b) \in Nat
  BY LenProperties
<1>2. BE32(Len(b)) \in Seq(Byte) /\ Len(BE32(Len(b))) = 4 /\ read_uint32_be(BE32(Len(b))) = Len(b)
  BY <1>1, Read32, Zenon
<1>3. PICK h \in Seq(Byte) : h = BE32(Len(b))
  BY <1>2
<1>4. Len(h) = 4 /\ read_uint32_be(h) = Len(b) /\ MakeFrame(b) = h \o b
  BY <1>2, <1>3, Zenon DEF MakeFrame
<1>5. h \o b \in Seq(Byte) /\ Len(h \o b) = Len(h) + Len(b)
  BY ConcatProperties, Zenon
<1>6. Len(h) >= 4 /\ Len(h) + 1 = 5 /\ Len(h) + Len(b) = 4 + Len(b)
  BY <1>1, <1>4
<1>7. read_uint32_be(h \o b) = read_uint32_be(h)
  BY <1>6, ReadPrefix, Zenon
<1>8. From(h \o b, Len(h) + 1) = b
  BY FromConcat, Zenon
<1> QED BY <1>4, <1>5, <1>6, <1>7, <1>8, Zenon

\* The three bytes in front of a topic.
LEMMA HeaderBytes ==
    ASSUME NEW p \in Byte, NEW n \in Nat, n < Two16
    PROVE  /\ <<p>> \o BE16(n) \in Seq(Byte)
           /\ Len(<<p>> \o BE16(n)) = 3
           /\ (<<p>> \o BE16(n))[1] = p
           /\ Two8 * (<<p>> \o BE16(n))[2] + (<<p>> \o BE16(n))[3] = n
<1>1. PICK s \in Seq(Byte) : s = <<p>>
  BY One, Zenon
<1>2. BE16(n) \in Seq(Byte) /\ Len(BE16(n)) = 2 /\ Two8 * BE16(n)[1] + BE16(n)[2] = n
  BY Read16
<1>3. PICK t \in Seq(Byte) : t = BE16(n)
  BY <1>2
<1>4. Len(s) = 1 /\ s[1] = p /\ Len(t) = 2 /\ Two8 * t[1] + t[2] = n
  BY <1>1, <1>2, <1>3, One, Zenon
<1>5. /\ s \o t \in Seq(Byte)
      /\ Len(s \o t) = Len(s) + Len(t)
      /\ \A i \in 1 .. Len(s) + Len(t) : (s \o t)[i] = IF i <= Len(s) THEN s[i] ELSE t[i - Len(s)]
  BY ConcatProperties, Zenon
<1>6. PICK st \in Seq(Byte) : st = s \o t
  BY <1>5
<1>7. Len(st) = 3 /\ st[1] = p /\ st[2] = t[1] /\ st[3] = t[2]
  BY <1>4, <1>5, <1>6
<1>8. Two8 * st[2] + st[3] = n
  BY <1>4, <1>7, Zenon
<1> QED BY <1>1, <1>3, <1>6, <1>7, <1>8, Zenon

\* A body with its first three bytes exchanged for others is the same body
\* exactly if they are the same bytes.
LEMMA SameHeader ==
    ASSUME NEW b \in Seq(Byte), NEW h \in Seq(Byte), Len(h) = 3, Len(b) >= 3
    PROVE  h \o From(b, 4) = b <=> (h[1] = b[1] /\ h[2] = b[2] /\ h[3] = b[3])
<1>1. Len(b) \in Nat /\ 4 \in 1 .. Len(b) + 1
  BY LenProperties
<1>2. /\ From(b, 4) \in Seq(Byte)
      /\ Len(From(b, 4)) = Len(b) + 1 - 4
      /\ \A i \in 1 .. Len(b) + 1 - 4 : From(b, 4)[i] = b[4 + i - 1]
  BY <1>1, FromProperties, Zenon
<1>3. PICK t \in Seq(Byte) : t = From(b, 4)
  BY <1>2
<1>4. Len(t) = Len(b) - 3 /\ \A i \in 1 .. Len(t) : t[i] = b[3 + i]
  BY <1>1, <1>2, <1>3
<1>5. /\ h \o t \in Seq(Byte)
      /\ Len(h \o t) = Len(h) + Len(t)
      /\ \A i \in 1 .. Len(h) + Len(t) : (h \o t)[i] = IF i <= Len(h) THEN h[i] ELSE t[i - Len(h)]
  BY ConcatProperties, Zenon
<1>6. PICK u \in Seq(Byte) : u = h \o t
  BY <1>5
<1>7. /\ Len(u) = Len(b)
      /\ \A i \in 1 .. Len(b) : u[i] = IF i <= 3 THEN h[i] ELSE t[i - 3]
  BY <1>1, <1>4, <1>5, <1>6
<1>8. \A i \in 4 .. Len(b) : u[i] = b[i]
  <2>1. TAKE i \in 4 .. Len(b)
  <2>2. u[i] = t[i - 3]
    BY <1>1, <1>7
  <2>3. i - 3 \in 1 .. Len(t) /\ 3 + (i - 3) = i
    BY <1>1, <1>4
  <2>4. t[i - 3] = b[3 + (i - 3)]
    BY <1>4, <2>3, Zenon
  <2> QED BY <2>2, <2>3, <2>4, Zenon
<1>9. u[1] = h[1] /\ u[2] = h[2] /\ u[3] = h[3]
  <2>1. \A i \in 1 .. 3 : i \in 1 .. Len(b) /\ i <= 3
    BY <1>1
  <2>2. \A i \in 1 .. 3 : u[i] = h[i]
    BY <1>7, <2>1, Zenon
  <2>3. 1 \in 1 .. 3 /\ 2 \in 1 .. 3 /\ 3 \in 1 .. 3
    OBVIOUS
  <2> QED BY <2>2, <2>3, Zenon
<1>10. ASSUME h[1] = b[1], h[2] = b[2], h[3] = b[3]
       PROVE  u = b
  <2>1. \A i \in 1 .. Len(u) : u[i] = b[i]
    BY <1>1, <1>7, <1>8, <1>9, <1>10
  <2> QED BY <1>7, <2>1, SeqEqual, Zenon
<1> QED BY <1>3, <1>6, <1>9, <1>10, Zenon

\* Taking a body apart at byte 4 + n, and putting the parts behind a header for
\* n bytes of topic, gives the body back exactly if that was its header.
LEMMA TakenApart ==
    ASSUME NEW b \in Seq(Byte), NEW p \in Byte, NEW n \in Nat,
           1 <= n, n <= Len(b) - 3, n < Two16
    PROVE  (<<p>> \o BE16(n) \o SubSeq(b, 4, 3 + n) \o SubSeq(b, 4 + n, Len(b)) = b)
              <=> (p = b[1] /\ n = Two8 * b[2] + b[3])
<1>1. Len(b) \in Nat /\ Len(b) >= 3
  BY LenProperties
<1>2. PICK h \in Seq(Byte) : h = <<p>> \o BE16(n)
  BY HeaderBytes, Zenon
<1>3. Len(h) = 3 /\ h[1] = p /\ Two8 * h[2] + h[3] = n
  BY <1>2, HeaderBytes, Zenon
<1>4. PICK m \in Nat : m = 3 + n
  OBVIOUS
<1>5. SubSeq(b, 4, m) \in Seq(Byte) /\ SubSeq(b, m + 1, Len(b)) \in Seq(Byte)
  <2>1. m <= Len(b) /\ 4 <= m + 1 /\ m + 1 \in Nat \ {0} /\ m + 1 <= Len(b) + 1 /\ 4 \in Nat \ {0}
    BY <1>1, <1>4
  <2>2. SubSeq(b, 4, m) \in Seq(Byte)
    BY <2>1, PieceProperties
  <2>3. SubSeq(b, m + 1, Len(b)) \in Seq(Byte)
    BY <1>1, <2>1, PieceProperties
  <2> QED BY <2>2, <2>3
<1>6. PICK t \in Seq(Byte) : t = SubSeq(b, 4, m)
  BY <1>5
<1>7. PICK u \in Seq(Byte) : u = SubSeq(b, m + 1, Len(b))
  BY <1>5
<1>8. t \o u = From(b, 4)
  <2>1. 4 \in 1 .. Len(b) + 1 /\ m \in 4 - 1 .. Len(b) /\ Len(b) \in m .. Len(b)
    BY <1>1, <1>4
  <2>2. SubSeq(b, 4, m) \o SubSeq(b, m + 1, Len(b)) = SubSeq(b, 4, Len(b))
    BY <2>1, ConcatAdjacentSubSeq, Zenon
  <2> QED BY <1>6, <1>7, <2>2, Zenon DEF From
<1>9. h \o t \o u = h \o From(b, 4)
  <2>1. (h \o t) \o u = h \o (t \o u)
    BY Regroup, Zenon
  <2> QED BY <1>8, <2>1
<1>10. h \o From(b, 4) = b <=> (h[1] = b[1] /\ h[2] = b[2] /\ h[3] = b[3])
  BY <1>1, <1>3, SameHeader, Zenon
<1>11. (h[1] = b[1] /\ h[2] = b[2] /\ h[3] = b[3]) <=> (p = b[1] /\ n = Two8 * b[2] + b[3])
  <2>1. PICK x \in Byte, y \in Byte : x = h[2] /\ y = h[3]
    <3>1. 2 \in 1 .. Len(h) /\ 3 \in 1 .. Len(h)
      BY <1>3
    <3> QED BY <3>1, ElementOfSeq, Zenon
  <2>2. PICK v \in Byte, w \in Byte : v = b[2] /\ w = b[3]
    <3>1. 2 \in 1 .. Len(b) /\ 3 \in 1 .. Len(b)
      BY <1>1
    <3> QED BY <3>1, ElementOfSeq, Zenon
  <2>3. Two8 * x + y = n
    BY <1>3, <2>1, Zenon
  <2>4. (x = v /\ y = w) <=> n = Two8 * v + w
    BY <2>3 DEF Byte, Two8
  <2> QED BY <1>3, <2>1, <2>2, <2>4, Zenon
<1>12. SubSeq(b, 4, 3 + n) = t /\ SubSeq(b, 4 + n, Len(b)) = u
  <2>1. 3 + n = m /\ 4 + n = m + 1
    BY <1>4
  <2> QED BY <1>6, <1>7, <2>1, Zenon
<1> QED BY <1>2, <1>9, <1>10, <1>11, <1>12, Zenon

\* What a body of three bytes or more reads as, if it is long enough.
Reading(b, p, n) ==
    [priority |-> p, topic |-> SubSeq(b, 4, 3 + n), payload |-> SubSeq(b, 4 + n, Len(b))]

LEMMA ReadingProperties ==
    ASSUME NEW b \in Seq(Byte), NEW p \in EventPriority, NEW n \in 1 .. Len(b) - 3
    PROVE  /\ Reading(b, p, n) \in ParsedResult
           /\ Len(Reading(b, p, n).topic) = n
           /\ n < Two16 => (MakeBody(Reading(b, p, n)) = b
                              <=> (p = b[1] /\ n = Two8 * b[2] + b[3]))
<1>1. Len(b) \in Nat
  BY LenProperties
<1>2. /\ n \in Nat /\ 1 <= n /\ n <= Len(b) - 3
      /\ 3 + n \in Nat /\ 3 + n <= Len(b) /\ 4 <= (3 + n) + 1 /\ (3 + n) + 1 - 4 = n
      /\ 4 + n \in Nat \ {0} /\ 4 + n <= Len(b) + 1
      /\ 4 \in Nat \ {0}
  BY <1>1
<1>3. SubSeq(b, 4, 3 + n) \in Seq(Byte) /\ Len(SubSeq(b, 4, 3 + n)) = n
  <2>1. PICK m \in Nat : m = 3 + n
    BY <1>2
  <2>2. m <= Len(b) /\ 4 <= m + 1
    BY <1>2, <2>1, Zenon
  <2>3. SubSeq(b, 4, m) \in Seq(Byte) /\ Len(SubSeq(b, 4, m)) = m + 1 - 4
    BY <1>2, <2>2, PieceProperties
  <2> QED BY <1>2, <2>1, <2>3, Zenon
<1>4. SubSeq(b, 4 + n, Len(b)) \in Seq(Byte)
  <2>1. Len(b) <= Len(b)
    BY <1>1
  <2> QED BY <1>1, <1>2, <2>1, PieceProperties, Zenon
<1>5. /\ Reading(b, p, n).priority = p
      /\ Reading(b, p, n).topic = SubSeq(b, 4, 3 + n)
      /\ Reading(b, p, n).payload = SubSeq(b, 4 + n, Len(b))
  BY Zenon DEF Reading
<1>6. p \in Byte
  BY DEF Byte, EventPriority
<1>7. ASSUME n < Two16
      PROVE  MakeBody(Reading(b, p, n)) = b <=> (p = b[1] /\ n = Two8 * b[2] + b[3])
  <2>1. MakeBody(Reading(b, p, n))
          = <<p>> \o BE16(n) \o SubSeq(b, 4, 3 + n) \o SubSeq(b, 4 + n, Len(b))
    BY <1>3, <1>5, Zenon DEF MakeBody
  <2> QED BY <1>2, <1>6, <1>7, <2>1, TakenApart, ZenonT(40)
<1>8. Reading(b, p, n) \in ParsedResult
  BY <1>3, <1>4, Zenon DEF Reading, ParsedResult
<1> QED BY <1>3, <1>5, <1>7, <1>8, Zenon

\* parseFrame with the topic length read in place.
LEMMA ParseFrameCases ==
    ASSUME NEW b \in Seq(Byte)
    PROVE  parseFrame(b) =
             IF \/ Len(b) < 3
                \/ b[1] > CRITICAL
                \/ Len(b) < 3 + (Two8 * b[2] + b[3])
                \/ Two8 * b[2] + b[3] = 0
             THEN NoEvent ELSE Reading(b, b[1], Two8 * b[2] + b[3])
<1>1. CASE Len(b) < 3
  BY <1>1 DEF parseFrame
<1>2. CASE ~(Len(b) < 3)
  <2>1. Len(b) \in Nat /\ 2 \in 1 .. Len(b) + 1 /\ Len(b) + 1 - 2 >= 2
    BY <1>2, LenProperties
  <2>2. \A i \in 1 .. Len(b) + 1 - 2 : From(b, 2)[i] = b[2 + i - 1]
    BY <2>1, FromProperties, Zenon
  <2>3. From(b, 2)[1] = b[2] /\ From(b, 2)[2] = b[3]
    BY <2>1, <2>2
  <2>4. read_uint16_be(From(b, 2)) = Two8 * b[2] + b[3]
    BY <2>3, Zenon DEF read_uint16_be
  <2> QED BY <2>4, Zenon DEF parseFrame, read_uint8_be, Reading, From
<1> QED BY <1>1, <1>2

\* For every body the parser finds the event that a sender who keeps to the
\* format means by it, and throws where there is none: parseFrame is the inverse
\* of make_frame.
THEOREM ParserInvertsFormat == \A b \in Seq(Byte) : parseFrame(b) = Meaning(b)
<1>1. SUFFICES ASSUME NEW b \in Seq(Byte)
               PROVE  parseFrame(b) = Meaning(b)
  OBVIOUS
<1>2. Len(b) \in Nat
  BY LenProperties
<1>3. \A r : r \in Readings(b) <=>
               \E p \in EventPriority, n \in 1 .. Len(b) - 3 :
                  /\ n < Two16 /\ p = b[1] /\ n = Two8 * b[2] + b[3]
                  /\ r = Reading(b, p, n)
  <2>1. \A r : r \in Readings(b) <=>
               \E p \in EventPriority, n \in 1 .. Len(b) - 3 :
                  /\ r = Reading(b, p, n)
                  /\ Len(r.topic) < Two16
                  /\ MakeBody(r) = b
    BY SMT DEF Readings, Reading
  <2>2. \A p \in EventPriority, n \in 1 .. Len(b) - 3 :
           (Len(Reading(b, p, n).topic) < Two16 /\ MakeBody(Reading(b, p, n)) = b)
              <=> (n < Two16 /\ p = b[1] /\ n = Two8 * b[2] + b[3])
    <3>1. TAKE p \in EventPriority, n \in 1 .. Len(b) - 3
    <3>2. /\ Len(Reading(b, p, n).topic) = n
          /\ n < Two16 => (MakeBody(Reading(b, p, n)) = b
                             <=> (p = b[1] /\ n = Two8 * b[2] + b[3]))
      BY ReadingProperties, Zenon
    <3> QED BY <3>2, Zenon
  <2> QED BY <2>1, <2>2, Zenon
<1>4. CASE \E p \in EventPriority, n \in 1 .. Len(b) - 3 :
              p = b[1] /\ n = Two8 * b[2] + b[3]
  <2>1. PICK p \in EventPriority, n \in 1 .. Len(b) - 3 :
              p = b[1] /\ n = Two8 * b[2] + b[3]
    BY <1>4
  <2>2. n < Two16
    <3>1. 2 \in 1 .. Len(b) /\ 3 \in 1 .. Len(b)
      BY <1>2
    <3>2. PICK v \in Byte, w \in Byte : v = b[2] /\ w = b[3]
      BY <3>1, ElementOfSeq, Zenon
    <3>3. n = Two8 * v + w
      BY <2>1, <3>2, Zenon
    <3> QED BY <3>3 DEF Byte, Two8, Two16
  <2>3. Readings(b) = {Reading(b, p, n)}
    BY <1>3, <2>1, <2>2, Zenon
  <2>4. Meaning(b) = Reading(b, p, n)
    BY <2>3, Zenon DEF Meaning
  <2>5. ~(Len(b) < 3) /\ ~(p > CRITICAL) /\ ~(Len(b) < 3 + n) /\ n # 0
    BY <1>2 DEF EventPriority, CRITICAL
  <2> QED BY <2>1, <2>4, <2>5, ParseFrameCases, Zenon
<1>5. CASE ~ \E p \in EventPriority, n \in 1 .. Len(b) - 3 :
                p = b[1] /\ n = Two8 * b[2] + b[3]
  <2>1. Readings(b) = {}
    <3>1. \A r : r \notin Readings(b)
      BY <1>3, <1>5, Zenon
    <3> QED BY <3>1, SMT
  <2>2. Meaning(b) = NoEvent
    BY <2>1, Zenon DEF Meaning
  <2>3. ASSUME Len(b) >= 3
        PROVE  \/ b[1] > CRITICAL
               \/ Len(b) < 3 + (Two8 * b[2] + b[3])
               \/ Two8 * b[2] + b[3] = 0
    <3>1. 1 \in 1 .. Len(b) /\ 2 \in 1 .. Len(b) /\ 3 \in 1 .. Len(b)
      BY <1>2, <2>3
    <3>2. PICK u \in Byte, v \in Byte, w \in Byte : u = b[1] /\ v = b[2] /\ w = b[3]
      BY <3>1, ElementOfSeq, Zenon
    <3>3. ~(u \in EventPriority /\ Two8 * v + w \in 1 .. Len(b) - 3)
      BY <1>5, <3>2, Zenon
    <3>4. u > CRITICAL \/ Len(b) < 3 + (Two8 * v + w) \/ Two8 * v + w = 0
      BY <1>2, <3>3 DEF Byte, EventPriority, CRITICAL, Two8
    <3> QED BY <3>2, <3>4, Zenon
  <2>4. Len(b) < 3 \/ Len(b) >= 3
    BY <1>2
  <2> QED BY <2>2, <2>3, <2>4, ParseFrameCases, Zenon
<1> QED BY <1>4, <1>5, Zenon

-----------------------------------------------------------------------------
(* More about pieces: what is left of a concatenation. *)

LEMMA FromOfConcat ==
    ASSUME NEW S, NEW s \in Seq(S), NEW t \in Seq(S), NEW n \in 1 .. Len(s) + 1
    PROVE  From(s \o t, n) = From(s, n) \o t
<1>1. Len(s) \in Nat /\ n \in Nat
  BY LenProperties
<1>2. PICK k \in Nat : k = n - 1
  BY <1>1
<1>3. /\ 1 \in 1 .. Len(s) + 1 /\ k \in 1 - 1 .. Len(s) /\ Len(s) \in k .. Len(s)
      /\ k + 1 = n /\ k <= Len(s) /\ 1 <= k + 1 /\ 1 \in Nat \ {0} /\ k + 1 - 1 = k
  BY <1>1, <1>2
<1>4. SubSeq(s, 1, k) \o SubSeq(s, k + 1, Len(s)) = SubSeq(s, 1, Len(s))
  BY <1>3, ConcatAdjacentSubSeq, Zenon
<1>5. SubSeq(s, 1, Len(s)) = s
  BY SubSeqFull, Zenon
<1>6. SubSeq(s, 1, k) \in Seq(S) /\ Len(SubSeq(s, 1, k)) = k
  BY <1>3, PieceProperties
<1>7. PICK p \in Seq(S) : p = SubSeq(s, 1, k)
  BY <1>6
<1>8. From(s, n) \in Seq(S)
  BY FromProperties, Zenon
<1>9. PICK u \in Seq(S) : u = From(s, n)
  BY <1>8
<1>10. p \o u = s
  BY <1>3, <1>4, <1>5, <1>7, <1>9, Zenon DEF From
<1>11. (p \o u) \o t = p \o (u \o t)
  BY ConcatAssociative, SMT
<1>12. u \o t \in Seq(S)
  BY ConcatProperties, Zenon
<1>13. From(p \o (u \o t), Len(p) + 1) = u \o t
  BY <1>12, FromConcat, Zenon
<1>14. Len(p) + 1 = n
  BY <1>3, <1>6, <1>7, Zenon
<1> QED BY <1>9, <1>10, <1>11, <1>13, <1>14, Zenon

LEMMA PieceOfFrom ==
    ASSUME NEW S, NEW s \in Seq(S), NEW n \in 1 .. Len(s) + 1,
           NEW i \in Nat \ {0}, NEW j \in Nat, i <= j, j <= Len(s) + 1 - n
    PROVE  SubSeq(From(s, n), i, j) = SubSeq(s, n + i - 1, n + j - 1)
<1>1. Len(s) \in Nat /\ n \in Nat
  BY LenProperties
<1>2. /\ n \in 1 .. Len(s) /\ Len(s) \in 1 .. Len(s)
      /\ i \in 1 .. Len(s) - n + 1 /\ j \in 1 .. Len(s) - n + 1
  BY <1>1
<1> QED BY <1>2, SubSeqOfSubSeq DEF From

\* A piece of the first part.
LEMMA PieceOfConcat ==
    ASSUME NEW S, NEW s \in Seq(S), NEW t \in Seq(S),
           NEW i \in Nat \ {0}, NEW j \in Nat, i <= j, j <= Len(s)
    PROVE  SubSeq(s \o t, i, j) = SubSeq(s, i, j)
<1>1. Len(s) \in Nat
  BY LenProperties
<1>2. i \in 1 .. Len(s) /\ j \in 1 .. Len(s)
  BY <1>1
<1> QED BY <1>2, SubSeqOfConcat1, Zenon

-----------------------------------------------------------------------------
(* The stream: where each frame lies in it. *)

\* InStep without variables: S are the bytes that follow the first t of the
\* frames around the bodies w, and e is where these frames end.
StartIn(e, k) == IF k = 1 THEN 0 ELSE e[k - 1]

Offsets(w, e) ==
    /\ w \in Seq(Body)
    /\ e \in Seq(Nat)
    /\ Len(e) = Len(w)
    /\ \A k \in 1 .. Len(w) : e[k] = StartIn(e, k) + Len(MakeFrame(w[k]))
    /\ \A i, j \in 1 .. Len(w) + 1 : i <= j => StartIn(e, i) <= StartIn(e, j)

Cuts(S, w, e, t) ==
    /\ Len(S) = StartIn(e, Len(w) + 1) - StartIn(e, t + 1)
    /\ \A k \in t + 1 .. Len(w) :
          SubSeq(S, StartIn(e, k) + 1 - StartIn(e, t + 1), e[k] - StartIn(e, t + 1))
             = MakeFrame(w[k])

LEMMA BodyFrame ==
    ASSUME NEW b \in Body
    PROVE  /\ b \in Seq(Byte)
           /\ Len(b) \in Nat
           /\ MakeFrame(b) \in Seq(Byte)
           /\ Len(MakeFrame(b)) = 4 + Len(b)
           /\ read_uint32_be(MakeFrame(b)) = Len(b)
           /\ From(MakeFrame(b), 5) = b
<1>1. b \in Seq(Byte) /\ Len(b) \div Two16 < Two16
  BY FramingAssumption, Zenon DEF FramingAssumption
<1>2. Len(b) \in Nat
  BY <1>1, LenProperties
<1> QED BY <1>1, <1>2, FrameBytes, Zenon

\* What Offsets says of one frame.
LEMMA OffsetsAt ==
    ASSUME NEW w, NEW e, Offsets(w, e), NEW k \in 1 .. Len(w)
    PROVE  /\ Len(w) \in Nat
           /\ w[k] \in Body
           /\ StartIn(e, k) \in Nat
           /\ e[k] \in Nat
           /\ StartIn(e, k + 1) = e[k]
           /\ e[k] = StartIn(e, k) + 4 + Len(w[k])
<1>1. /\ w \in Seq(Body) /\ e \in Seq(Nat) /\ Len(e) = Len(w)
      /\ e[k] = StartIn(e, k) + Len(MakeFrame(w[k]))
  BY Zenon DEF Offsets
<1>2. Len(w) \in Nat
  BY <1>1, LenProperties
<1>3. w[k] \in Body /\ e[k] \in Nat
  BY <1>1, ElementOfSeq, Zenon
<1>4. StartIn(e, k) \in Nat
  <2>1. CASE k = 1
    BY <2>1 DEF StartIn
  <2>2. CASE k # 1
    <3>1. k - 1 \in 1 .. Len(e)
      BY <1>1, <1>2, <2>2
    <3>2. e[k - 1] \in Nat
      BY <1>1, <3>1, ElementOfSeq, Zenon
    <3> QED BY <2>2, <3>2, Zenon DEF StartIn
  <2> QED BY <2>1, <2>2
<1>5. StartIn(e, k + 1) = e[k]
  <2>1. PICK m \in Nat : m = k + 1
    BY <1>2
  <2>2. m # 1 /\ m - 1 = k
    BY <1>2, <2>1
  <2>3. StartIn(e, m) = e[k]
    BY <2>2, Zenon DEF StartIn
  <2> QED BY <2>1, <2>3, Zenon
<1>6. Len(MakeFrame(w[k])) = 4 + Len(w[k]) /\ Len(w[k]) \in Nat
  BY <1>3, BodyFrame, Zenon
<1>7. PICK f \in Nat : f = Len(w[k])
  BY <1>6
<1>8. PICK x \in Nat : x = StartIn(e, k)
  BY <1>4
<1>9. e[k] = x + (4 + f)
  BY <1>1, <1>6, <1>7, <1>8, Zenon
<1>10. x + (4 + f) = x + 4 + f
  OBVIOUS
<1> QED BY <1>2, <1>3, <1>4, <1>5, <1>7, <1>8, <1>9, <1>10, Zenon

\* Start positions are numbers, in order.
LEMMA StartInOrder ==
    ASSUME NEW w, NEW e, Offsets(w, e),
           NEW i \in 1 .. Len(w) + 1, NEW j \in 1 .. Len(w) + 1, i <= j
    PROVE  StartIn(e, i) \in Nat /\ StartIn(e, j) \in Nat /\ StartIn(e, i) <= StartIn(e, j)
<1>1. StartIn(e, i) <= StartIn(e, j)
  BY Zenon DEF Offsets
<1>2. ASSUME NEW k \in 1 .. Len(w) + 1
      PROVE  StartIn(e, k) \in Nat
  <2>1. w \in Seq(Body) /\ e \in Seq(Nat) /\ Len(e) = Len(w)
    BY Zenon DEF Offsets
  <2>2. Len(w) \in Nat
    BY <2>1, LenProperties
  <2>3. CASE k = 1
    BY <2>3 DEF StartIn
  <2>4. CASE k # 1
    <3>1. k - 1 \in 1 .. Len(e)
      BY <2>1, <2>2, <2>4
    <3>2. e[k - 1] \in Nat
      BY <2>1, <3>1, ElementOfSeq, Zenon
    <3> QED BY <2>4, <3>2, Zenon DEF StartIn
  <2> QED BY <2>3, <2>4
<1> QED BY <1>1, <1>2, Zenon

\* One more frame at the end of the stream.
LEMMA OffsetsWrite ==
    ASSUME NEW w, NEW e, Offsets(w, e), NEW b \in Body,
           NEW z, z = StartIn(e, Len(w) + 1) + Len(MakeFrame(b))
    PROVE  /\ Offsets(Append(w, b), Append(e, z))
           /\ \A k \in 1 .. Len(w) + 1 : StartIn(Append(e, z), k) = StartIn(e, k)
           /\ z \in Nat
<1>1. w \in Seq(Body) /\ e \in Seq(Nat) /\ Len(e) = Len(w)
  BY Zenon DEF Offsets
<1>2. Len(w) \in Nat
  BY <1>1, LenProperties
<1>3. PICK n \in Nat : n = Len(w)
  BY <1>2
<1>4. n + 1 \in 1 .. Len(w) + 1 /\ n + 1 <= n + 1
  BY <1>3
<1>5. StartIn(e, n + 1) \in Nat
  BY <1>3, <1>4, StartInOrder, Zenon
<1>6. Len(MakeFrame(b)) = 4 + Len(b) /\ Len(b) \in Nat
  BY BodyFrame, Zenon
<1>7. z \in Nat /\ StartIn(e, n + 1) <= z
  BY <1>3, <1>5, <1>6
<1>8. /\ Append(w, b) \in Seq(Body) /\ Len(Append(w, b)) = Len(w) + 1
      /\ \A k \in 1 .. Len(w) : Append(w, b)[k] = w[k]
      /\ Append(w, b)[Len(w) + 1] = b
  BY <1>1, AppendProperties
<1>9. /\ Append(e, z) \in Seq(Nat) /\ Len(Append(e, z)) = Len(e) + 1
      /\ \A k \in 1 .. Len(e) : Append(e, z)[k] = e[k]
      /\ Append(e, z)[Len(e) + 1] = z
  BY <1>1, <1>7, AppendProperties
<1>10. PICK w2 \in Seq(Body) : w2 = Append(w, b)
  BY <1>8
<1>11. PICK e2 \in Seq(Nat) : e2 = Append(e, z)
  BY <1>9
<1>12. /\ Len(w2) = n + 1 /\ \A k \in 1 .. n : w2[k] = w[k]
       /\ w2[n + 1] = b
       /\ Len(e2) = n + 1 /\ \A k \in 1 .. n : e2[k] = e[k]
       /\ e2[n + 1] = z
  BY <1>1, <1>3, <1>8, <1>9, <1>10, <1>11, Zenon
<1>13. \A k \in 1 .. n + 1 : StartIn(e2, k) = StartIn(e, k)
  <2>1. TAKE k \in 1 .. n + 1
  <2>2. CASE k = 1
    BY <2>2, Zenon DEF StartIn
  <2>3. CASE k # 1
    <3>1. k - 1 \in 1 .. n
      BY <2>3
    <3> QED BY <1>12, <2>3, <3>1, Zenon DEF StartIn
  <2> QED BY <2>2, <2>3
<1>14. StartIn(e2, (n + 1) + 1) = z
  <2>1. PICK m \in Nat : m = (n + 1) + 1
    OBVIOUS
  <2>2. m # 1 /\ m - 1 = n + 1
    BY <2>1
  <2>3. StartIn(e2, m) = z
    BY <1>12, <2>2, Zenon DEF StartIn
  <2> QED BY <2>1, <2>3, Zenon
<1>15. \A k \in 1 .. Len(w2) : e2[k] = StartIn(e2, k) + Len(MakeFrame(w2[k]))
  <2>1. TAKE k \in 1 .. Len(w2)
  <2>2. k \in 1 .. n + 1
    BY <1>12, Zenon
  <2>3. CASE k \in 1 .. n
    <3>1. e[k] = StartIn(e, k) + Len(MakeFrame(w[k]))
      BY <1>3, <2>3, Zenon DEF Offsets
    <3> QED BY <1>12, <1>13, <2>2, <2>3, <3>1, Zenon
  <2>4. CASE k = n + 1
    BY <1>3, <1>12, <1>13, <2>2, <2>4, Zenon
  <2> QED BY <2>2, <2>3, <2>4
<1>16. \A i, j \in 1 .. Len(w2) + 1 : i <= j => StartIn(e2, i) <= StartIn(e2, j)
  <2>1. SUFFICES ASSUME NEW i \in 1 .. (n + 1) + 1, NEW j \in 1 .. (n + 1) + 1, i <= j
                 PROVE  StartIn(e2, i) <= StartIn(e2, j)
    BY <1>12, Zenon
  <2>2. CASE j \in 1 .. n + 1
    <3>1. i \in 1 .. n + 1
      BY <2>1, <2>2
    <3> QED BY <1>3, <1>13, <2>1, <2>2, <3>1, StartInOrder, Zenon
  <2>3. CASE j = (n + 1) + 1 /\ i = j
    BY <1>7, <1>14, <2>3
  <2>4. CASE j = (n + 1) + 1 /\ i \in 1 .. n + 1
    <3>1. i <= n + 1
      BY <2>4
    <3>2. StartIn(e, i) \in Nat /\ StartIn(e, i) <= StartIn(e, n + 1)
      BY <1>3, <1>4, <2>4, <3>1, StartInOrder, Zenon
    <3>3. StartIn(e, i) <= z
      BY <1>5, <1>7, <3>2
    <3> QED BY <1>13, <1>14, <2>4, <3>3, Zenon
  <2> QED BY <2>2, <2>3, <2>4
<1>17. Offsets(w2, e2)
  BY <1>12, <1>15, <1>16, Zenon DEF Offsets
<1> QED BY <1>3, <1>7, <1>10, <1>11, <1>13, <1>17, Zenon

\* A further frame leaves the others where they are.
LEMMA CutsWrite ==
    ASSUME NEW w, NEW e, Offsets(w, e), NEW t \in Nat, t <= Len(w),
           NEW S \in Seq(Byte), Cuts(S, w, e, t),
           NEW b \in Body, NEW z, z = StartIn(e, Len(w) + 1) + Len(MakeFrame(b))
    PROVE  Cuts(S \o MakeFrame(b), Append(w, b), Append(e, z), t)
<1>1. w \in Seq(Body) /\ e \in Seq(Nat) /\ Len(e) = Len(w)
  BY Zenon DEF Offsets
<1>2. Len(w) \in Nat /\ Len(S) \in Nat
  BY <1>1, LenProperties
<1>3. /\ Offsets(Append(w, b), Append(e, z))
      /\ \A k \in 1 .. Len(w) + 1 : StartIn(Append(e, z), k) = StartIn(e, k)
      /\ z \in Nat
  BY OffsetsWrite
<1>4. PICK w2 : w2 = Append(w, b)
  OBVIOUS
<1>5. PICK e2 : e2 = Append(e, z)
  OBVIOUS
<1>6. /\ Len(w2) = Len(w) + 1 /\ w2[Len(w) + 1] = b
      /\ \A k \in 1 .. Len(w) : w2[k] = w[k]
  BY <1>1, <1>4, AppendProperties
<1>7. /\ e2[Len(w) + 1] = z
      /\ \A k \in 1 .. Len(w) : e2[k] = e[k]
  BY <1>1, <1>3, <1>5, AppendProperties
<1>8. Offsets(w2, e2) /\ \A k \in 1 .. Len(w) + 1 : StartIn(e2, k) = StartIn(e, k)
  BY <1>3, <1>4, <1>5, Zenon
<1>9. PICK n \in Nat : n = Len(w)
  BY <1>2
<1>10. PICK t1 \in Nat : t1 = t + 1
  OBVIOUS
<1>11. n + 1 \in 1 .. Len(w) + 1 /\ t1 \in 1 .. Len(w) + 1 /\ t1 <= n + 1
       /\ n + 1 \in 1 .. Len(w2)
  BY <1>2, <1>6, <1>9, <1>10
<1>12. PICK x \in Nat, y \in Nat : x = StartIn(e, t1) /\ y = StartIn(e, n + 1) /\ x <= y
  BY <1>11, StartInOrder, Zenon
<1>13. StartIn(e2, t1) = x /\ StartIn(e2, n + 1) = y
  BY <1>8, <1>11, <1>12, Zenon
<1>14. StartIn(e2, (n + 1) + 1) = z
  BY <1>7, <1>8, <1>9, <1>11, OffsetsAt, Zenon
<1>15. PICK f \in Seq(Byte) : f = MakeFrame(b)
  BY BodyFrame, Zenon
<1>16. z = y + Len(f) /\ Len(f) \in Nat
  <2>1. Len(f) \in Nat
    BY LenProperties
  <2> QED BY <2>1, <1>9, <1>12, <1>15, Zenon
<1>17. Len(S) = y - x
  BY <1>9, <1>10, <1>12, Zenon DEF Cuts
<1>18. S \o f \in Seq(Byte) /\ Len(S \o f) = Len(S) + Len(f)
  BY ConcatProperties, Zenon
<1>19. Len(S \o f) = z - x
  BY <1>12, <1>16, <1>17, <1>18
<1>20. ASSUME NEW k \in t1 .. n
       PROVE  SubSeq(S \o f, StartIn(e2, k) + 1 - x, e2[k] - x) = MakeFrame(w2[k])
  <2>1. k \in 1 .. Len(w) /\ k \in 1 .. Len(w) + 1 /\ t1 <= k /\ k + 1 \in 1 .. Len(w) + 1 /\ k + 1 <= n + 1
    BY <1>9, <1>10
  <2>2. PICK p \in Nat, q \in Nat : p = StartIn(e, k) /\ q = e[k] /\ q = p + 4 + Len(w[k])
    BY <2>1, OffsetsAt, Zenon
  <2>3. Len(w[k]) \in Nat
    BY <2>1, OffsetsAt, BodyFrame, Zenon
  <2>4. x <= p
    BY <1>11, <1>12, <2>1, <2>2, StartInOrder, Zenon
  <2>5. q <= y
    <3>1. StartIn(e, k + 1) = q
      BY <2>1, <2>2, OffsetsAt, Zenon
    <3> QED BY <1>11, <1>12, <2>1, <3>1, StartInOrder, Zenon
  <2>6. PICK i \in Nat \ {0}, j \in Nat : i = p + 1 - x /\ j = q - x
    <3>1. PICK l \in Nat : l = Len(w[k])
      BY <2>3
    <3>2. q = p + 4 + l
      BY <2>2, <3>1, Zenon
    <3>3. p + 1 - x \in Nat \ {0} /\ q - x \in Nat
      BY <2>4, <3>2
    <3> QED BY <3>3, Zenon
  <2>7. i <= j /\ j <= Len(S)
    <3>1. PICK l \in Nat : l = Len(w[k])
      BY <2>3
    <3>2. q = p + 4 + l
      BY <2>2, <3>1, Zenon
    <3>3. i <= j /\ j <= y - x
      BY <2>4, <2>5, <2>6, <3>2
    <3> QED BY <1>17, <3>3, Zenon
  <2>8. SubSeq(S \o f, i, j) = SubSeq(S, i, j)
    BY <2>7, PieceOfConcat, ZenonT(40)
  <2>9. SubSeq(S, i, j) = MakeFrame(w[k])
    BY <1>9, <1>10, <1>12, <2>2, <2>6, Zenon DEF Cuts
  <2>10. StartIn(e2, k) = p /\ e2[k] = q /\ w2[k] = w[k]
    BY <1>6, <1>7, <1>8, <2>1, <2>2, Zenon
  <2> QED BY <2>6, <2>8, <2>9, <2>10, Zenon
<1>21. SubSeq(S \o f, StartIn(e2, n + 1) + 1 - x, e2[n + 1] - x) = MakeFrame(w2[n + 1])
  <2>1. From(S \o f, Len(S) + 1) = f
    BY FromConcat, Zenon
  <2>2. StartIn(e2, n + 1) + 1 - x = Len(S) + 1 /\ z - x = Len(S \o f)
    BY <1>12, <1>13, <1>17, <1>19
  <2>3. e2[n + 1] = z /\ w2[n + 1] = b
    BY <1>6, <1>7, <1>9, Zenon
  <2> QED BY <1>15, <2>1, <2>2, <2>3, Zenon DEF From
<1>22. \A k \in t1 .. Len(w2) :
          SubSeq(S \o f, StartIn(e2, k) + 1 - x, e2[k] - x) = MakeFrame(w2[k])
  <2>1. TAKE k \in t1 .. Len(w2)
  <2>2. k \in t1 .. n \/ k = n + 1
    BY <1>6, <1>9
  <2> QED BY <1>20, <1>21, <2>2, Zenon
<1>23. Len(w2) + 1 = (n + 1) + 1
  BY <1>6, <1>9, Zenon
<1>24. Cuts(S \o f, w2, e2, t)
  BY <1>10, <1>13, <1>14, <1>19, <1>22, <1>23, Zenon DEF Cuts
<1> QED BY <1>4, <1>5, <1>15, <1>24, Zenon

\* Bytes that are left belong to a frame.
LEMMA SomeFrameLeft ==
    ASSUME NEW w, NEW e, Offsets(w, e), NEW t \in Nat, t <= Len(w),
           NEW S \in Seq(Byte), Cuts(S, w, e, t), Len(S) > 0
    PROVE  t < Len(w)
<1>1. SUFFICES ASSUME t = Len(w) PROVE FALSE
  <2>1. Len(w) \in Nat
    BY LenProperties DEF Offsets
  <2> QED BY <2>1
<1>2. t + 1 \in 1 .. Len(w) + 1 /\ t + 1 <= t + 1
  BY <1>1
<1>3. StartIn(e, t + 1) \in Nat
  BY <1>2, StartInOrder, Zenon
<1>4. Len(S) = StartIn(e, t + 1) - StartIn(e, t + 1)
  BY <1>1, Zenon DEF Cuts
<1> QED BY <1>3, <1>4

\* The bytes that are left begin with the first frame that is left.
LEMMA FirstFrame ==
    ASSUME NEW w, NEW e, Offsets(w, e), NEW t \in Nat, t < Len(w),
           NEW S \in Seq(Byte), Cuts(S, w, e, t)
    PROVE  /\ w[t + 1] \in Body
           /\ 4 + Len(w[t + 1]) <= Len(S)
           /\ SubSeq(S, 1, 4 + Len(w[t + 1])) = MakeFrame(w[t + 1])
           /\ StartIn(e, t + 2) = StartIn(e, t + 1) + 4 + Len(w[t + 1])
<1>1. w \in Seq(Body)
  BY Zenon DEF Offsets
<1>2. Len(w) \in Nat
  BY <1>1, LenProperties
<1>3. PICK k \in 1 .. Len(w) : k = t + 1
  BY <1>2
<1>4. PICK x \in Nat, y \in Nat :
        /\ x = StartIn(e, k) /\ y = e[k] /\ StartIn(e, k + 1) = y
        /\ y = x + 4 + Len(w[k]) /\ w[k] \in Body
  BY OffsetsAt, Zenon
<1>5. PICK l \in Nat : l = Len(w[k])
  BY <1>4, BodyFrame, Zenon
<1>6. k + 1 \in 1 .. Len(w) + 1 /\ Len(w) + 1 \in 1 .. Len(w) + 1 /\ k + 1 <= Len(w) + 1
  BY <1>2
<1>7. PICK z \in Nat : z = StartIn(e, Len(w) + 1) /\ y <= z
  BY <1>4, <1>6, StartInOrder, Zenon
<1>8. y = x + 4 + l
  BY <1>4, <1>5, Zenon
<1>9. Len(S) = z - x
  BY <1>3, <1>4, <1>7, Zenon DEF Cuts
<1>10. 4 + l <= Len(S)
  BY <1>7, <1>8, <1>9
<1>11. k \in t + 1 .. Len(w)
  BY <1>2, <1>3
<1>12. SubSeq(S, x + 1 - x, y - x) = MakeFrame(w[k])
  BY <1>3, <1>4, <1>11, Zenon DEF Cuts
<1>13. x + 1 - x = 1 /\ y - x = 4 + l
  BY <1>8
<1>14. t + 2 = k + 1
  BY <1>3
<1> QED BY <1>3, <1>4, <1>5, <1>10, <1>12, <1>13, <1>14, Zenon

\* Once it is taken, the others are left as they were.
LEMMA CutsTake ==
    ASSUME NEW w, NEW e, Offsets(w, e), NEW t \in Nat, t < Len(w),
           NEW S \in Seq(Byte), Cuts(S, w, e, t)
    PROVE  Cuts(From(S, 5 + Len(w[t + 1])), w, e, t + 1)
<1>1. Len(w) \in Nat
  BY LenProperties DEF Offsets
<1>2. PICK l \in Nat : l = Len(w[t + 1])
  BY FirstFrame, BodyFrame, Zenon
<1>3. 4 + l <= Len(S) /\ StartIn(e, t + 2) = StartIn(e, t + 1) + 4 + l
  BY <1>2, FirstFrame, Zenon
<1>4. t + 1 \in 1 .. Len(w) + 1 /\ t + 2 \in 1 .. Len(w) + 1 /\ Len(w) + 1 \in 1 .. Len(w) + 1
      /\ t + 1 <= t + 2 /\ t + 2 <= Len(w) + 1 /\ (t + 1) + 1 = t + 2
  BY <1>1
<1>5. PICK x \in Nat, y \in Nat : x = StartIn(e, t + 1) /\ y = StartIn(e, t + 2)
  BY <1>4, StartInOrder, Zenon
<1>6. PICK z \in Nat : z = StartIn(e, Len(w) + 1) /\ y <= z
  BY <1>4, <1>5, StartInOrder, Zenon
<1>7. y = x + 4 + l
  BY <1>3, <1>5, Zenon
<1>8. Len(S) = z - x
  BY <1>5, <1>6, Zenon DEF Cuts
<1>9. PICK n \in 1 .. Len(S) + 1 : n = 5 + l
  BY <1>3, <1>6, <1>7, <1>8
<1>10. From(S, n) \in Seq(Byte) /\ Len(From(S, n)) = Len(S) + 1 - n
  BY FromProperties, Zenon
<1>11. Len(From(S, n)) = z - y
  BY <1>6, <1>7, <1>8, <1>9, <1>10, SMTT(30)
<1>12. ASSUME NEW k \in t + 2 .. Len(w)
       PROVE  SubSeq(From(S, n), StartIn(e, k) + 1 - y, e[k] - y) = MakeFrame(w[k])
  <2>1. /\ k \in 1 .. Len(w) /\ k \in 1 .. Len(w) + 1 /\ k \in t + 1 .. Len(w) /\ t + 2 <= k
        /\ k + 1 \in 1 .. Len(w) + 1 /\ k + 1 <= Len(w) + 1
    BY <1>1
  <2>2. PICK p \in Nat, q \in Nat :
          /\ p = StartIn(e, k) /\ q = e[k] /\ StartIn(e, k + 1) = q
          /\ q = p + 4 + Len(w[k]) /\ w[k] \in Body
    BY <2>1, OffsetsAt, Zenon
  <2>3. PICK f \in Nat : f = Len(w[k])
    BY <2>2, BodyFrame, Zenon
  <2>4. q = p + 4 + f
    BY <2>2, <2>3, Zenon
  <2>5. y <= p
    BY <1>4, <1>5, <2>1, <2>2, StartInOrder, Zenon
  <2>6. q <= z
    BY <1>4, <1>6, <2>1, <2>2, StartInOrder, Zenon
  <2>7. p + 1 - y \in Nat \ {0} /\ q - y \in Nat
    BY <2>4, <2>5
  <2>8. PICK i \in Nat \ {0}, j \in Nat : i = p + 1 - y /\ j = q - y
    BY <2>7, Zenon
  <2>9. i <= j /\ j <= Len(S) + 1 - n
    BY <1>7, <1>8, <1>9, <2>4, <2>5, <2>6, <2>8
  <2>10. SubSeq(From(S, n), i, j) = SubSeq(S, n + i - 1, n + j - 1)
    BY <2>9, PieceOfFrom
  <2>11. n + i - 1 = p + 1 - x /\ n + j - 1 = q - x
    BY <1>7, <1>9, <2>8
  <2>12. SubSeq(S, p + 1 - x, q - x) = MakeFrame(w[k])
    BY <1>5, <2>1, <2>2, Zenon DEF Cuts
  <2> QED BY <2>2, <2>8, <2>10, <2>11, <2>12, Zenon
<1>13. PICK u : u = t + 1
  OBVIOUS
<1>14. u + 1 = t + 2
  BY <1>4, <1>13, Zenon
<1>15. Cuts(From(S, n), w, e, u)
  BY <1>5, <1>6, <1>11, <1>12, <1>14, Zenon DEF Cuts
<1> QED BY <1>2, <1>9, <1>13, <1>15, Zenon

\* The buffer holds the front of what is left: its first four bytes are the length
\* of the first frame that is left, and if all of that is there, it begins with it.
LEMMA FrontOfBuffer ==
    ASSUME NEW w, NEW e, Offsets(w, e), NEW t \in Nat, t <= Len(w),
           NEW c \in Seq(Byte), NEW r \in Seq(Byte), Cuts(c \o r, w, e, t), Len(c) >= 4
    PROVE  /\ t < Len(w)
           /\ w[t + 1] \in Body
           /\ read_uint32_be(c) = Len(w[t + 1])
           /\ Len(c) >= 4 + Len(w[t + 1]) =>
                 /\ SubSeq(c, 1, 4 + Len(w[t + 1])) = MakeFrame(w[t + 1])
                 /\ From(c, 5 + Len(w[t + 1])) \o r = From(c \o r, 5 + Len(w[t + 1]))
<1>1. c \o r \in Seq(Byte) /\ Len(c \o r) = Len(c) + Len(r)
  BY ConcatProperties, Zenon
<1>2. PICK S \in Seq(Byte) : S = c \o r
  BY <1>1
<1>3. Len(c) \in Nat /\ Len(r) \in Nat /\ Len(S) \in Nat
  BY LenProperties
<1>4. Len(S) = Len(c) + Len(r)
  BY <1>1, <1>2, Zenon
<1>5. Len(S) > 0
  BY <1>3, <1>4
<1>6. t < Len(w)
  BY <1>2, <1>5, SomeFrameLeft, Zenon
<1>7. /\ w[t + 1] \in Body
      /\ 4 + Len(w[t + 1]) <= Len(S)
      /\ SubSeq(S, 1, 4 + Len(w[t + 1])) = MakeFrame(w[t + 1])
  BY <1>2, <1>6, FirstFrame, Zenon
<1>8. PICK l \in Nat : l = Len(w[t + 1])
  BY <1>7, BodyFrame, Zenon
<1>9. PICK m \in Nat : m = 4 + l
  OBVIOUS
<1>10. m <= Len(S) /\ SubSeq(S, 1, m) = MakeFrame(w[t + 1])
  BY <1>7, <1>8, <1>9, Zenon
<1>11. PICK f \in Seq(Byte) :
         f = MakeFrame(w[t + 1]) /\ read_uint32_be(f) = l /\ Len(f) = m
  BY <1>7, <1>8, <1>9, BodyFrame, Zenon
<1>12. PICK g \in Seq(Byte) : f \o g = S
  <2>1. /\ 1 \in 1 .. Len(S) + 1 /\ m \in 1 - 1 .. Len(S) /\ Len(S) \in m .. Len(S)
        /\ m + 1 \in 1 .. Len(S) + 1
    BY <1>3, <1>10
  <2>2. SubSeq(S, 1, m) \o SubSeq(S, m + 1, Len(S)) = SubSeq(S, 1, Len(S))
    BY <2>1, ConcatAdjacentSubSeq, Zenon
  <2>3. SubSeq(S, 1, Len(S)) = S
    BY SubSeqFull, Zenon
  <2>4. From(S, m + 1) \in Seq(Byte)
    BY <2>1, FromProperties, Zenon
  <2> QED BY <1>10, <1>11, <2>2, <2>3, <2>4, Zenon DEF From
<1>13. Len(f) >= 4
  BY <1>9, <1>11
<1>14. read_uint32_be(S) = l
  BY <1>11, <1>12, <1>13, ReadPrefix, Zenon
<1>15. read_uint32_be(c) = l
  BY <1>2, <1>14, ReadPrefix, Zenon
<1>16. ASSUME Len(c) >= m
       PROVE  SubSeq(c, 1, m) = MakeFrame(w[t + 1]) /\ From(c, m + 1) \o r = From(S, m + 1)
  <2>1. 1 \in Nat \ {0} /\ 1 <= m /\ m <= Len(c) /\ m + 1 \in 1 .. Len(c) + 1
    BY <1>3, <1>9, <1>16
  <2>2. SubSeq(c \o r, 1, m) = SubSeq(c, 1, m)
    BY <2>1, PieceOfConcat, ZenonT(40)
  <2>3. From(c \o r, m + 1) = From(c, m + 1) \o r
    BY <2>1, FromOfConcat, Zenon
  <2> QED BY <1>2, <1>10, <2>2, <2>3, Zenon
<1>17. m + 1 = 5 + l
  BY <1>9
<1> QED BY <1>2, <1>6, <1>7, <1>8, <1>9, <1>15, <1>16, <1>17, Zenon

-----------------------------------------------------------------------------
(* Type correctness. *)

LEMMA MeaningType ==
    ASSUME NEW b \in Seq(Byte)
    PROVE  Meaning(b) \in ParsedResult \cup {NoEvent}
<1>1. CASE Readings(b) = {}
  BY <1>1, Zenon DEF Meaning
<1>2. CASE Readings(b) # {}
  <2>1. PICK r \in Readings(b) : r = Meaning(b)
    BY <1>2, Zenon DEF Meaning
  <2>2. PICK p \in EventPriority, n \in 1 .. Len(b) - 3 : r = Reading(b, p, n)
    BY <2>1, SMT DEF Readings, Reading
  <2>3. Reading(b, p, n) \in ParsedResult
    BY ReadingProperties, Zenon
  <2> QED BY <2>1, <2>2, <2>3, Zenon
<1> QED BY <1>1, <1>2

\* A frame in full is parsed as its body; what is cut off is of type byte string.
LEMMA ParseFrameType ==
    ASSUME NEW f \in Seq(Byte)
    PROVE  parseTCPFrame(f) \in ParsedResult \cup {NoEvent}
<1>1. Len(f) \in Nat
  BY LenProperties
<1>2. CASE Len(f) < 4 \/ read_uint32_be(f) # Len(f) - 4
  BY <1>2, Zenon DEF parseTCPFrame
<1>3. CASE ~(Len(f) < 4 \/ read_uint32_be(f) # Len(f) - 4)
  <2>1. 5 \in 1 .. Len(f) + 1
    BY <1>1, <1>3
  <2>2. From(f, 5) \in Seq(Byte)
    BY <2>1, FromProperties, Zenon
  <2>3. parseTCPFrame(f) = Meaning(From(f, 5))
    BY <1>3, <2>2, ParserInvertsFormat, Zenon DEF parseTCPFrame
  <2> QED BY <2>2, <2>3, MeaningType, Zenon
<1> QED BY <1>2, <1>3, Zenon

LEMMA FrameParsed ==
    ASSUME NEW b \in Body
    PROVE  parseTCPFrame(MakeFrame(b)) = Meaning(b)
<1>1. /\ b \in Seq(Byte) /\ Len(b) \in Nat
      /\ Len(MakeFrame(b)) = 4 + Len(b)
      /\ read_uint32_be(MakeFrame(b)) = Len(b)
      /\ From(MakeFrame(b), 5) = b
  BY BodyFrame, Zenon
<1>2. PICK n \in Nat, l \in Nat : n = Len(MakeFrame(b)) /\ l = Len(b) /\ n = 4 + l
  BY <1>1
<1>3. ~(n < 4) /\ l = n - 4
  BY <1>2
<1>4. parseTCPFrame(MakeFrame(b)) = parseFrame(b)
  BY <1>1, <1>2, <1>3, Zenon DEF parseTCPFrame
<1> QED BY <1>1, <1>4, ParserInvertsFormat, Zenon

LEMMA ReadType ==
    ASSUME NEW s \in Seq(Byte), Len(s) >= 4
    PROVE  read_uint32_be(s) \in Nat
<1>1. 1 \in 1 .. Len(s) /\ 2 \in 1 .. Len(s) /\ 3 \in 1 .. Len(s) /\ 4 \in 1 .. Len(s)
  BY LenProperties
<1>2. PICK a \in Byte, b \in Byte, c \in Byte, d \in Byte :
        a = s[1] /\ b = s[2] /\ c = s[3] /\ d = s[4]
  BY <1>1, ElementOfSeq, Zenon
<1>3. Two24 * a + Two16 * b + Two8 * c + d \in Nat
  BY DEF Byte, Two24, Two16, Two8
<1> QED BY <1>2, <1>3, Zenon DEF read_uint32_be

\* The first frame's start is a number as soon as there is one offset per frame.
Types == TypeOK /\ Offsets(written, ends)

LEMMA TypesInit == Init => Types
<1> SUFFICES ASSUME Init PROVE Types
  OBVIOUS
<1>1. TypeOK
  BY DEF Init, TypeOK
<1>2. Offsets(<<>>, <<>>)
  <2>1. <<>> \in Seq(Body) /\ <<>> \in Seq(Nat) /\ Len(<<>>) = 0
    BY EmptySeq
  <2>2. StartIn(<<>>, 1) = 0
    BY DEF StartIn
  <2>3. \A i \in 1 .. 0 + 1 : i = 1
    OBVIOUS
  <2>4. \A i, j \in 1 .. 0 + 1 : i <= j => StartIn(<<>>, i) <= StartIn(<<>>, j)
    BY <2>2, <2>3
  <2>5. \A i \in 1 .. 0 : FALSE
    OBVIOUS
  <2> QED BY <2>1, <2>4, <2>5, Zenon DEF Offsets
<1> QED BY <1>1, <1>2, Zenon DEF Types, Init

\* recv() moves bytes from the front of wire to the end of client_buf.
LEMMA ReceiveMoves ==
    ASSUME NEW c \in Seq(Byte), NEW r \in Seq(Byte), NEW n \in Nat \ {0}, n <= Len(r)
    PROVE  /\ c \o SubSeq(r, 1, n) \in Seq(Byte)
           /\ Len(c \o SubSeq(r, 1, n)) = Len(c) + n
           /\ From(r, n + 1) \in Seq(Byte)
           /\ (c \o SubSeq(r, 1, n)) \o From(r, n + 1) = c \o r
<1>1. Len(r) \in Nat /\ Len(c) \in Nat
  BY LenProperties
<1>2. /\ 1 \in 1 .. Len(r) + 1 /\ n \in 1 - 1 .. Len(r) /\ Len(r) \in n .. Len(r)
      /\ n + 1 \in 1 .. Len(r) + 1 /\ 1 \in Nat \ {0} /\ 1 <= n + 1 /\ n \in Nat /\ n + 1 - 1 = n
  BY <1>1
<1>3. SubSeq(r, 1, n) \in Seq(Byte) /\ Len(SubSeq(r, 1, n)) = n
  BY <1>2, PieceProperties
<1>4. From(r, n + 1) \in Seq(Byte)
  BY <1>2, FromProperties, Zenon
<1>5. PICK u \in Seq(Byte), v \in Seq(Byte) :
        u = SubSeq(r, 1, n) /\ v = From(r, n + 1) /\ Len(u) = n
  BY <1>3, <1>4, Zenon
<1>6. u \o v = r
  <2>1. SubSeq(r, 1, n) \o SubSeq(r, n + 1, Len(r)) = SubSeq(r, 1, Len(r))
    BY <1>2, ConcatAdjacentSubSeq, Zenon
  <2>2. SubSeq(r, 1, Len(r)) = r
    BY SubSeqFull, Zenon
  <2> QED BY <1>5, <2>1, <2>2, Zenon DEF From
<1>7. (c \o u) \o v = c \o (u \o v)
  BY Regroup, Zenon
<1>8. c \o u \in Seq(Byte) /\ Len(c \o u) = Len(c) + Len(u)
  BY ConcatProperties, Zenon
<1> QED BY <1>5, <1>6, <1>7, <1>8, Zenon

LEMMA TypesStep == Types /\ [Next]_vars => Types'
<1> SUFFICES ASSUME TypeOK, Offsets(written, ends), [Next]_vars
             PROVE  TypeOK' /\ Offsets(written, ends)'
  BY DEF Types
<1>1. ASSUME NEW b \in Body, Write(b)
      PROVE  TypeOK' /\ Offsets(written, ends)'
  <2>1. MakeFrame(b) \in Seq(Byte)
    BY BodyFrame, Zenon
  <2>2. wire' \in Seq(Byte)
    BY <1>1, <2>1, ConcatProperties, Zenon DEF Write, TypeOK
  <2>3. PICK z : z = StartIn(ends, Len(written) + 1) + Len(MakeFrame(b))
    OBVIOUS
  <2>4. Offsets(Append(written, b), Append(ends, z))
    BY <2>3, OffsetsWrite
  <2>5. written' = Append(written, b) /\ ends' = Append(ends, z)
    BY <1>1, <2>3, Zenon DEF Write, Start, StartIn
  <2>6. Offsets(written', ends')
    BY <2>4, <2>5, Zenon
  <2>7. written' \in Seq(Body) /\ ends' \in Seq(Nat)
    BY <2>6, Zenon DEF Offsets
  <2> QED BY <1>1, <2>2, <2>6, <2>7 DEF Write, TypeOK
<1>2. ASSUME NEW n \in 1 .. buffer_chunk, Receive(n)
      PROVE  TypeOK' /\ Offsets(written, ends)'
  <2>1. n \in Nat \ {0}
    BY FramingAssumption DEF FramingAssumption
  <2>2. client_buf' \in Seq(Byte) /\ wire' \in Seq(Byte)
    BY <1>2, <2>1, ReceiveMoves, Zenon DEF Receive, TypeOK
  <2> QED BY <1>2, <2>2 DEF Receive, TypeOK
<1>3. ASSUME Disconnect \/ StopFlag \/ ClientTest \/ WaitForMore \/ CloseOversized \/ UNCHANGED vars
      PROVE  TypeOK' /\ Offsets(written, ends)'
  <2>1. UNCHANGED <<wire, offered, written, ends, taken>>
    BY <1>3 DEF Disconnect, StopFlag, ClientTest, WaitForMore, CloseOversized, vars
  <2>2. client_buf' = client_buf \/ client_buf' = <<>>
    BY <1>3 DEF Disconnect, StopFlag, ClientTest, WaitForMore, CloseOversized, vars
  <2>3. isRunning' \in BOOLEAN /\ pc' \in {"test", "recv", "frames", "gone"}
    BY <1>3 DEF Disconnect, StopFlag, ClientTest, WaitForMore, CloseOversized, vars, TypeOK
  <2>4. client_buf' \in Seq(Byte)
    BY <2>2, EmptySeq, Zenon DEF TypeOK
  <2> QED BY <2>1, <2>3, <2>4, Zenon DEF TypeOK
<1>4. ASSUME SkipZero
      PROVE  TypeOK' /\ Offsets(written, ends)'
  <2>1. 5 \in 1 .. Len(client_buf) + 1
    BY <1>4, LenProperties DEF SkipZero, HasLength, TypeOK
  <2>2. client_buf' \in Seq(Byte)
    BY <1>4, <2>1, FromProperties, Zenon DEF SkipZero, TypeOK
  <2> QED BY <1>4, <2>2 DEF SkipZero, TypeOK
<1>5. ASSUME TakeFrame
      PROVE  TypeOK' /\ Offsets(written, ends)'
  <2>1. PICK l \in Nat : l = frame_len /\ Len(client_buf) >= 4 + l /\ Len(client_buf) \in Nat
    <3>1. Len(client_buf) >= 4 /\ Len(client_buf) >= 4 + frame_len
      BY <1>5 DEF TakeFrame, HasFrame, HasLength
    <3>2. frame_len \in Nat
      BY <3>1, ReadType, Zenon DEF TypeOK, frame_len
    <3>3. Len(client_buf) \in Nat
      BY LenProperties DEF TypeOK
    <3> QED BY <3>1, <3>2, <3>3, Zenon
  <2>2. /\ 5 + l \in 1 .. Len(client_buf) + 1
        /\ 4 + l \in Nat /\ 4 + l <= Len(client_buf) /\ 1 <= (4 + l) + 1 /\ 1 \in Nat \ {0}
    BY <2>1
  <2>3. client_buf' \in Seq(Byte)
    BY <1>5, <2>1, <2>2, FromProperties, Zenon DEF TakeFrame, TypeOK
  <2>4. SubSeq(client_buf, 1, 4 + l) \in Seq(Byte)
    BY <2>2, PieceProperties DEF TypeOK
  <2>5. PICK result : result = parseTCPFrame(SubSeq(client_buf, 1, 4 + l))
    OBVIOUS
  <2>6. result \in ParsedResult \cup {NoEvent}
    BY <2>4, <2>5, ParseFrameType, Zenon
  <2>7. offered' = IF result = NoEvent THEN offered ELSE Append(offered, result)
    BY <1>5, <2>1, <2>5, Zenon DEF TakeFrame
  <2>8. offered' \in Seq(ParsedResult)
    <3>1. CASE result = NoEvent
      BY <2>7, <3>1, Zenon DEF TypeOK
    <3>2. CASE result # NoEvent
      <4>1. result \in ParsedResult
        BY <2>6, <3>2, Zenon
      <4>2. Append(offered, result) \in Seq(ParsedResult)
        BY <4>1, AppendProperties DEF TypeOK
      <4> QED BY <2>7, <3>2, <4>2, Zenon
    <3> QED BY <3>1, <3>2
  <2>9. taken' \in Nat
    BY <1>5 DEF TakeFrame, TypeOK
  <2>10. UNCHANGED <<isRunning, pc, wire, written, ends>>
    BY <1>5 DEF TakeFrame
  <2> QED BY <2>3, <2>8, <2>9, <2>10, Zenon DEF TypeOK
<1> QED BY <1>1, <1>2, <1>3, <1>4, <1>5, Zenon DEF Next, Thread, Delivery

\* Every variable keeps its type; in particular each event that is offered has a
\* valid priority, whatever bytes the client sends.
THEOREM TypeCorrect == Spec => []TypeOK
<1>1. Types => TypeOK
  BY DEF Types
<1> QED BY <1>1, TypesInit, TypesStep, PTL DEF Spec

-----------------------------------------------------------------------------
(* The bound on the buffer. *)

\* Where handleClient is about to call recv(), no frame that is complete and none
\* that is too long is left in the buffer.
RestIsShort == pc \in {"test", "recv"} => Len(client_buf) < 4 + MAX_BUFFER_SIZE

LEMMA RestIsShortStep ==
    ASSUME Types, BufferBounded, RestIsShort, [Next]_vars
    PROVE  BufferBounded' /\ RestIsShort'
<1>1. MAX_BUFFER_SIZE \in Nat /\ buffer_chunk \in Nat \ {0}
  BY FramingAssumption DEF FramingAssumption
<1>2. client_buf \in Seq(Byte) /\ wire \in Seq(Byte) /\ Len(client_buf) \in Nat /\ Len(<<>>) = 0
  BY LenProperties, EmptySeq DEF Types, TypeOK
<1>3. ASSUME NEW n \in 1 .. buffer_chunk, Receive(n)
      PROVE  BufferBounded' /\ RestIsShort'
  <2>1. n \in Nat \ {0} /\ n <= Len(wire) /\ n <= buffer_chunk
    BY <1>1, <1>3 DEF Receive
  <2>2. Len(client_buf') = Len(client_buf) + n
    BY <1>2, <1>3, <2>1, ReceiveMoves, Zenon DEF Receive
  <2>3. Len(client_buf) < 4 + MAX_BUFFER_SIZE /\ pc' = "frames"
    BY <1>3 DEF Receive, RestIsShort
  <2>4. Len(client_buf') < 4 + MAX_BUFFER_SIZE + buffer_chunk
    BY <1>1, <1>2, <2>1, <2>2, <2>3
  <2> QED BY <2>3, <2>4 DEF BufferBounded, RestIsShort
<1>4. ASSUME WaitForMore
      PROVE  BufferBounded' /\ RestIsShort'
  <2>1. client_buf' = client_buf /\ pc = "frames"
    BY <1>4 DEF WaitForMore
  <2>2. Len(client_buf) < 4 + MAX_BUFFER_SIZE
    <3>1. CASE Len(client_buf) < 4
      BY <1>1, <1>2, <3>1
    <3>2. CASE Len(client_buf) >= 4
      <4>1. frame_len \in 1 .. MAX_BUFFER_SIZE /\ Len(client_buf) < 4 + frame_len
        BY <1>4, <2>1, <3>2, Zenon DEF WaitForMore, HasLength
      <4>2. PICK l \in 1 .. MAX_BUFFER_SIZE : l = frame_len /\ Len(client_buf) < 4 + l
        BY <4>1, Zenon
      <4> QED BY <1>1, <1>2, <4>2
    <3> QED BY <1>2, <3>1, <3>2
  <2>3. Len(client_buf) < 4 + MAX_BUFFER_SIZE + buffer_chunk
    BY <1>1, <1>2, <2>2
  <2> QED BY <2>1, <2>2, <2>3, Zenon DEF BufferBounded, RestIsShort
<1>5. ASSUME UNCHANGED client_buf, pc' \in {"test", "recv"} => pc \in {"test", "recv"}
      PROVE  BufferBounded' /\ RestIsShort'
  BY <1>5, Zenon DEF BufferBounded, RestIsShort
<1>6. ASSUME client_buf' = <<>>
      PROVE  BufferBounded' /\ RestIsShort'
  <2>1. 0 < 4 + MAX_BUFFER_SIZE /\ 0 < 4 + MAX_BUFFER_SIZE + buffer_chunk
    BY <1>1
  <2> QED BY <1>2, <1>6, <2>1, Zenon DEF BufferBounded, RestIsShort
<1>7. ASSUME NEW l \in Nat, pc = "frames", pc' = pc, 4 + l <= Len(client_buf),
             client_buf' = From(client_buf, 5 + l)
      PROVE  BufferBounded' /\ RestIsShort'
  <2>1. 5 + l \in 1 .. Len(client_buf) + 1
    BY <1>2, <1>7
  <2>2. Len(client_buf') = Len(client_buf) + 1 - (5 + l)
    BY <1>2, <1>7, <2>1, FromProperties, Zenon
  <2>3. Len(client_buf') < Len(client_buf)
    BY <1>2, <1>7, <2>2
  <2>4. Len(client_buf') \in Int
    BY <1>2, <2>2
  <2>5. BufferBounded'
    BY <1>1, <1>2, <2>3, <2>4 DEF BufferBounded
  <2> QED BY <1>7, <2>5 DEF RestIsShort
<1>8. ASSUME SkipZero
      PROVE  BufferBounded' /\ RestIsShort'
  <2>1. pc = "frames" /\ pc' = pc /\ 4 + 0 <= Len(client_buf) /\ client_buf' = From(client_buf, 5 + 0)
    BY <1>2, <1>8 DEF SkipZero, HasLength
  <2> QED BY <1>7, <2>1
<1>9. ASSUME TakeFrame
      PROVE  BufferBounded' /\ RestIsShort'
  <2>1. pc = "frames" /\ pc' = pc /\ Len(client_buf) >= 4
        /\ Len(client_buf) >= 4 + frame_len /\ client_buf' = From(client_buf, 5 + frame_len)
    BY <1>9, Zenon DEF TakeFrame, HasFrame, HasLength
  <2>2. PICK l \in Nat : l = frame_len
    BY <1>2, <2>1, ReadType, Zenon DEF frame_len
  <2>3. 4 + l <= Len(client_buf)
    <3>1. Len(client_buf) >= 4 + l
      BY <2>1, <2>2, Zenon
    <3> QED BY <1>2, <3>1
  <2>4. client_buf' = From(client_buf, 5 + l)
    BY <2>1, <2>2, Zenon
  <2> QED BY <1>7, <2>1, <2>3, <2>4, Zenon
<1>10. ASSUME ClientTest \/ Disconnect \/ CloseOversized \/ StopFlag \/ (\E b \in Body : Write(b)) \/ UNCHANGED vars
       PROVE  \/ client_buf' = <<>>
              \/ UNCHANGED client_buf /\ (pc' \in {"test", "recv"} => pc \in {"test", "recv"})
  BY <1>10 DEF ClientTest, Disconnect, CloseOversized, StopFlag, Write, vars
<1> QED
  BY <1>3, <1>4, <1>5, <1>6, <1>8, <1>9, <1>10, Zenon DEF Next, Thread, Delivery

\* The buffer of a connection never holds more than a longest frame and one
\* recv(), for all limits and all that a client may write.
THEOREM BufferStaysBounded == Spec => []BufferBounded
<1>1. Init => Types /\ BufferBounded /\ RestIsShort
  <2> SUFFICES ASSUME Init PROVE Types /\ BufferBounded /\ RestIsShort
    OBVIOUS
  <2>1. MAX_BUFFER_SIZE \in Nat /\ buffer_chunk \in Nat \ {0}
    BY FramingAssumption DEF FramingAssumption
  <2>2. 0 < 4 + MAX_BUFFER_SIZE /\ 0 < 4 + MAX_BUFFER_SIZE + buffer_chunk
    BY <2>1
  <2>3. Len(client_buf) = 0
    BY EmptySeq DEF Init
  <2>4. Types
    BY TypesInit
  <2> QED BY <2>2, <2>3, <2>4, Zenon DEF BufferBounded, RestIsShort
<1>2. Types /\ BufferBounded /\ RestIsShort /\ [Next]_vars => (Types /\ BufferBounded /\ RestIsShort)'
  BY TypesStep, RestIsShortStep, Zenon
<1> QED BY <1>1, <1>2, PTL DEF Spec

-----------------------------------------------------------------------------
(* The connection stays in step with its client. *)

LEMMA SameStart == \A k : Start(k) = StartIn(ends, k)
BY Zenon DEF Start, StartIn

\* The inductive form of InStep: what is unread can be cut into what is pending.
InPlace ==
    /\ taken <= Len(written)
    /\ pc # "gone" => Cuts(Unread, written, ends, taken)

\* Nothing has been written: no frame is pending, and no byte is unread.
LEMMA InPlaceInit == Init => InPlace
<1> SUFFICES ASSUME Init PROVE InPlace
  OBVIOUS
<1>1. Len(<<>>) = 0 /\ <<>> \in Seq(Byte) /\ <<>> \o <<>> = <<>> /\ 0 <= 0
  BY EmptySeq
<1>2. StartIn(<<>>, 0 + 1) = 0
  BY DEF StartIn
<1>3. Cuts(<<>>, <<>>, <<>>, 0)
  <2>1. 0 = 0 - 0 /\ \A k \in 0 + 1 .. 0 : FALSE
    OBVIOUS
  <2> QED BY <1>1, <1>2, <2>1, Zenon DEF Cuts
<1> QED BY <1>1, <1>3, Zenon DEF Init, InPlace, Unread

\* The frame at the head of the buffer is the oldest that is pending.
LEMMA Taking ==
    ASSUME Types, InPlace, HasLength, Len(client_buf) >= 4 + frame_len
    PROVE  /\ taken < Len(written)
           /\ written[taken + 1] \in Body
           /\ frame_len = Len(written[taken + 1])
           /\ SubSeq(client_buf, 1, 4 + frame_len) = MakeFrame(written[taken + 1])
           /\ Cuts(From(client_buf, 5 + frame_len) \o wire, written, ends, taken + 1)
<1>1. /\ client_buf \in Seq(Byte) /\ wire \in Seq(Byte) /\ taken \in Nat
      /\ Offsets(written, ends) /\ Unread \in Seq(Byte)
  BY ConcatProperties, Zenon DEF Types, TypeOK, Unread
<1>2. /\ pc = "frames" /\ Len(client_buf) >= 4 /\ taken <= Len(written)
      /\ pc # "gone" => Cuts(client_buf \o wire, written, ends, taken)
  BY Zenon DEF HasLength, InPlace, Unread
<1>3. Cuts(client_buf \o wire, written, ends, taken)
  BY <1>2
<1>4. /\ taken < Len(written)
      /\ written[taken + 1] \in Body
      /\ frame_len = Len(written[taken + 1])
  BY <1>1, <1>2, <1>3, FrontOfBuffer, Zenon DEF frame_len
<1>5. PICK b \in Body : b = written[taken + 1]
  BY <1>4
<1>6. Len(client_buf) >= 4 + Len(b)
  BY <1>4, <1>5, Zenon
<1>7. /\ SubSeq(client_buf, 1, 4 + Len(b)) = MakeFrame(b)
      /\ From(client_buf, 5 + Len(b)) \o wire = From(Unread, 5 + Len(b))
  BY <1>1, <1>2, <1>3, <1>5, <1>6, FrontOfBuffer, ZenonT(40) DEF Unread
<1>8. Cuts(From(Unread, 5 + Len(b)), written, ends, taken + 1)
  BY <1>1, <1>3, <1>4, <1>5, CutsTake, Zenon DEF Unread
<1> QED BY <1>4, <1>5, <1>7, <1>8, Zenon

LEMMA InPlaceStep ==
    ASSUME Types, InPlace, [Next]_vars
    PROVE  InPlace'
<1>1. /\ client_buf \in Seq(Byte) /\ wire \in Seq(Byte) /\ taken \in Nat
      /\ written \in Seq(Body) /\ Len(written) \in Nat
      /\ Offsets(written, ends) /\ Unread \in Seq(Byte)
  <2>1. written \in Seq(Body)
    BY DEF Types, TypeOK
  <2>2. Len(written) \in Nat
    BY <2>1, LenProperties
  <2> QED BY <2>1, <2>2, ConcatProperties, Zenon DEF Types, TypeOK, Unread
<1>2. ASSUME NEW b \in Body, Write(b)
      PROVE  InPlace'
  <2>1. MakeFrame(b) \in Seq(Byte)
    BY BodyFrame, Zenon
  <2>2. PICK z : z = StartIn(ends, Len(written) + 1) + Len(MakeFrame(b))
    OBVIOUS
  <2>3. /\ written' = Append(written, b) /\ ends' = Append(ends, z)
        /\ wire' = wire \o MakeFrame(b) /\ UNCHANGED <<pc, client_buf, taken>>
    BY <1>2, <2>2, SameStart, Zenon DEF Write
  <2>4. Len(written') = Len(written) + 1
    BY <1>1, <2>3, AppendProperties
  <2>5. taken' <= Len(written')
    BY <1>1, <2>3, <2>4 DEF InPlace
  <2>6. Unread' = Unread \o MakeFrame(b)
    BY <1>1, <2>1, <2>3, Regroup, Zenon DEF Unread
  <2>7. ASSUME pc # "gone" PROVE Cuts(Unread', written', ends', taken')
    <3>1. taken <= Len(written) /\ Cuts(Unread, written, ends, taken)
      BY <2>7, Zenon DEF InPlace
    <3>2. Cuts(Unread \o MakeFrame(b), Append(written, b), Append(ends, z), taken)
      BY <1>1, <2>2, <3>1, CutsWrite
    <3> QED BY <2>3, <2>6, <3>2, Zenon
  <2> QED BY <2>3, <2>5, <2>7, Zenon DEF InPlace
<1>3. ASSUME NEW n \in 1 .. buffer_chunk, Receive(n)
      PROVE  InPlace'
  <2>1. n \in Nat \ {0}
    BY FramingAssumption DEF FramingAssumption
  <2>2. Unread' = Unread
    BY <1>1, <1>3, <2>1, ReceiveMoves, Zenon DEF Receive, Unread
  <2>3. pc # "gone"
    BY <1>3 DEF Receive
  <2> QED BY <1>3, <2>2, <2>3, Zenon DEF Receive, InPlace
<1>4. ASSUME Disconnect \/ StopFlag \/ ClientTest \/ WaitForMore \/ CloseOversized \/ UNCHANGED vars
      PROVE  InPlace'
  <2>1. UNCHANGED <<wire, written, ends, taken>>
    BY <1>4 DEF Disconnect, StopFlag, ClientTest, WaitForMore, CloseOversized, vars
  <2>2. pc' # "gone" => UNCHANGED client_buf /\ pc # "gone"
    BY <1>4 DEF Disconnect, StopFlag, ClientTest, WaitForMore, CloseOversized, vars
  <2> QED BY <2>1, <2>2, Zenon DEF InPlace, Unread
<1>5. ASSUME HasLength, Len(client_buf) >= 4 + frame_len,
             client_buf' = From(client_buf, 5 + frame_len), taken' = taken + 1,
             UNCHANGED <<wire, written, ends>>
      PROVE  InPlace'
  <2>1. taken < Len(written) /\ Cuts(Unread', written', ends', taken')
    BY <1>5, Taking, Zenon DEF Unread
  <2>2. taken' <= Len(written')
    <3>1. PICK m \in Nat, n \in Nat : m = taken /\ n = Len(written)
      BY <1>1
    <3>2. m + 1 <= n
      BY <2>1, <3>1
    <3> QED BY <1>5, <3>1, <3>2, Zenon
  <2> QED BY <2>1, <2>2, Zenon DEF InPlace
<1>6. ASSUME SkipZero
      PROVE  InPlace'
  <2>1. HasLength /\ frame_len = 0 /\ client_buf' = From(client_buf, 5) /\ taken' = taken + 1
        /\ Len(client_buf) >= 4 /\ UNCHANGED <<wire, written, ends>>
    BY <1>6, Zenon DEF SkipZero, HasLength
  <2>2. 4 + 0 = 4 /\ 5 + 0 = 5
    OBVIOUS
  <2> QED BY <1>5, <2>1, <2>2, Zenon
<1>7. ASSUME TakeFrame
      PROVE  InPlace'
  BY <1>5, <1>7, Zenon DEF TakeFrame, HasFrame
<1> QED BY <1>2, <1>3, <1>4, <1>6, <1>7, Zenon DEF Next, Thread, Delivery

\* However the stream is cut by recv(), the framing loop never loses its place in
\* it: for all bodies, limits and numbers of frames.
THEOREM ConnectionInStep == Spec => []InStep
<1>1. InPlace => InStep
  <2> SUFFICES ASSUME InPlace, pc # "gone" PROVE InStep
    BY Zenon DEF InStep
  <2>1. taken <= Len(written) /\ Cuts(Unread, written, ends, taken)
    BY Zenon DEF InPlace
  <2> QED BY <2>1, SameStart, Zenon DEF InStep, Cuts, CutOut
<1>2. Init => Types /\ InPlace
  BY TypesInit, InPlaceInit
<1>3. Types /\ InPlace /\ [Next]_vars => (Types /\ InPlace)'
  BY TypesStep, InPlaceStep, Zenon
<1> QED BY <1>1, <1>2, <1>3, PTL DEF Spec

-----------------------------------------------------------------------------
(* The connection implements FrameChannel. *)

\* What is pending, seen from its head.
LEMMA HeadOfPending ==
    ASSUME NEW w \in Seq(Body), NEW t \in Nat, t < Len(w)
    PROVE  From(w, t + 1) # <<>> /\ Head(From(w, t + 1)) = w[t + 1] /\ Tail(From(w, t + 1)) = From(w, t + 2)
<1>1. Len(w) \in Nat
  BY LenProperties
<1>2. PICK m \in 1 .. Len(w) : m = t + 1 /\ m + 1 = t + 2
  BY <1>1
<1>3. Len(w) \in m .. Len(w) /\ m \in 1 .. Len(w) + 1 /\ Len(w) + 1 - m # 0
  BY <1>1
<1>4. Head(SubSeq(w, m, Len(w))) = w[m] /\ Tail(SubSeq(w, m, Len(w))) = SubSeq(w, m + 1, Len(w))
  BY <1>3, HeadTailOfSubSeq, Zenon
<1>5. Len(From(w, m)) = Len(w) + 1 - m
  BY <1>3, FromProperties, Zenon
<1>6. From(w, m) # <<>>
  BY <1>3, <1>5, EmptySeq, Zenon
<1> QED BY <1>2, <1>4, <1>6, Zenon DEF From

\* A write adds to its end.
LEMMA EndOfPending ==
    ASSUME NEW w \in Seq(Body), NEW t \in Nat, t <= Len(w), NEW b \in Body
    PROVE  From(Append(w, b), t + 1) = Append(From(w, t + 1), b)
<1>1. Len(w) \in Nat
  BY LenProperties
<1>2. PICK m \in 1 .. Len(w) + 1 : m = t + 1
  BY <1>1
<1>3. <<b>> \in Seq(Body)
  BY One, Zenon
<1>4. From(w, m) \in Seq(Body)
  BY FromProperties, Zenon
<1>5. Append(w, b) = w \o <<b>> /\ Append(From(w, m), b) = From(w, m) \o <<b>>
  BY <1>4, AppendIsConcat, Zenon
<1>6. From(w \o <<b>>, m) = From(w, m) \o <<b>>
  BY <1>3, FromOfConcat, Zenon
<1> QED BY <1>2, <1>5, <1>6, Zenon

\* A body of no bytes is no event.
LEMMA EmptyMeaning ==
    ASSUME NEW b \in Body, Len(b) = 0
    PROVE  Meaning(b) = NoEvent /\ ~Fatal(b)
<1>1. b \in Seq(Byte)
  BY FramingAssumption, Zenon DEF FramingAssumption
<1>2. Len(b) < 3 /\ ~(0 > MAX_BUFFER_SIZE)
  BY FramingAssumption DEF FramingAssumption
<1>3. parseFrame(b) = NoEvent
  BY <1>2, Zenon DEF parseFrame
<1> QED BY <1>1, <1>2, <1>3, ParserInvertsFormat, Zenon DEF Fatal

LEMMA ChannelStep ==
    ASSUME Types, InPlace, [Next]_vars
    PROVE  [Channel!Next]_(Channel!vars)
<1>1. taken \in Nat /\ written \in Seq(Body) /\ Len(written) \in Nat /\ taken <= Len(written)
  BY LenProperties DEF Types, TypeOK, InPlace
<1>2. ASSUME NEW b \in Body, Write(b)
      PROVE  Channel!Next
  <2>1. written' = Append(written, b) /\ UNCHANGED <<pc, offered, taken>>
    BY <1>2 DEF Write
  <2>2. pending' = Append(pending, b)
    BY <1>1, <2>1, EndOfPending, Zenon DEF pending
  <2> QED BY <2>1, <2>2, Zenon DEF Channel!Next, Channel!Write
<1>3. ASSUME NEW b \in Body, taken < Len(written), b = written[taken + 1], ~Fatal(b),
             pc # "gone", UNCHANGED <<pc, written>>, taken' = taken + 1,
             offered' = IF Meaning(b) = NoEvent THEN offered ELSE Append(offered, Meaning(b))
      PROVE  Channel!Next
  <2>1. pending # <<>> /\ Head(pending) = b /\ Tail(pending) = From(written, taken + 2)
    BY <1>1, <1>3, HeadOfPending, Zenon DEF pending
  <2>2. (taken + 1) + 1 = taken + 2
    BY <1>1
  <2>3. pending' = Tail(pending)
    BY <1>3, <2>1, <2>2, Zenon DEF pending
  <2>4. Channel!Take
    BY <1>3, <2>1, <2>3, Zenon DEF Channel!Take
  <2> QED BY <1>3, <2>1, <2>4, Zenon DEF Channel!Next, Channel!Deliver, Channel!Refuse
<1>4. ASSUME SkipZero
      PROVE  Channel!Next
  <2>1. HasLength /\ frame_len = 0 /\ Len(client_buf) >= 4 /\ pc # "gone"
        /\ UNCHANGED <<pc, written, offered>> /\ taken' = taken + 1
    BY <1>4 DEF SkipZero, HasLength
  <2>2. 4 + 0 = 4
    OBVIOUS
  <2>3. PICK b \in Body : b = written[taken + 1] /\ Len(b) = 0 /\ taken < Len(written)
    BY <2>1, <2>2, Taking, Zenon
  <2>4. Meaning(b) = NoEvent /\ ~Fatal(b)
    BY <2>3, EmptyMeaning, Zenon
  <2> QED BY <1>3, <2>1, <2>3, <2>4, Zenon
<1>5. ASSUME TakeFrame
      PROVE  Channel!Next
  <2>1. HasLength /\ frame_len <= MAX_BUFFER_SIZE /\ Len(client_buf) >= 4 + frame_len /\ pc = "frames"
        /\ UNCHANGED <<pc, written>> /\ taken' = taken + 1
    BY <1>5, Zenon DEF TakeFrame, HasFrame, HasLength
  <2>2. PICK b \in Body : b = written[taken + 1] /\ Len(b) = frame_len /\ taken < Len(written)
                          /\ SubSeq(client_buf, 1, 4 + frame_len) = MakeFrame(b)
    BY <2>1, Taking, Zenon
  <2>3. ~Fatal(b)
    <3>1. Len(b) <= MAX_BUFFER_SIZE /\ Len(b) \in Nat /\ MAX_BUFFER_SIZE \in Nat
      BY <2>1, <2>2, BodyFrame, FramingAssumption, Zenon DEF FramingAssumption
    <3>2. ~(Len(b) > MAX_BUFFER_SIZE)
      BY <3>1
    <3> QED BY <3>2, Zenon DEF Fatal
  <2>4. offered' = IF Meaning(b) = NoEvent THEN offered ELSE Append(offered, Meaning(b))
    BY <1>5, <2>2, FrameParsed, Zenon DEF TakeFrame
  <2>5. pc # "gone"
    BY <2>1
  <2> QED BY <1>3, <2>1, <2>2, <2>3, <2>4, <2>5, Zenon
<1>6. ASSUME NEW n \in 1 .. buffer_chunk, Receive(n)
      PROVE  UNCHANGED (Channel!vars)
  <2>1. UNCHANGED <<offered, written, taken>> /\ ((pc # "gone") <=> (pc' # "gone"))
    BY <1>6 DEF Receive
  <2>2. UNCHANGED pending
    BY <2>1, Zenon DEF pending
  <2> QED BY <2>1, <2>2, Zenon DEF Channel!vars
<1>7. ASSUME Disconnect \/ StopFlag \/ ClientTest \/ WaitForMore \/ CloseOversized \/ UNCHANGED vars
      PROVE  [Channel!Next]_(Channel!vars)
  <2>1. UNCHANGED <<offered, written, taken>>
    BY <1>7 DEF Disconnect, StopFlag, ClientTest, WaitForMore, CloseOversized, vars
  <2>2. pc' = "gone" \/ ((pc # "gone") <=> (pc' # "gone"))
    BY <1>7 DEF Disconnect, StopFlag, ClientTest, WaitForMore, CloseOversized, vars
  <2>3. UNCHANGED pending
    BY <2>1, Zenon DEF pending
  <2>4. CASE pc' = "gone"
    <3>1. Channel!Close
      BY <2>1, <2>3, <2>4, Zenon DEF Channel!Close
    <3> QED BY <3>1, Zenon DEF Channel!Next
  <2>5. CASE (pc # "gone") <=> (pc' # "gone")
    BY <2>1, <2>3, <2>5, Zenon DEF Channel!vars
  <2> QED BY <2>2, <2>4, <2>5
<1> QED BY <1>2, <1>4, <1>5, <1>6, <1>7, Zenon DEF Next, Thread, Delivery

\* The loop that cuts the stream and the parser together implement FrameChannel:
\* what the dispatcher is offered is what the client meant, in order and once, and
\* a frame that is refused costs no other.
THEOREM Implementation == Spec => ImplementsChannel
<1>1. Init => Channel!Init
  <2> SUFFICES ASSUME Init PROVE Channel!Init
    OBVIOUS
  <2>1. SubSeq(<<>>, 0 + 1, 0) = <<>> /\ Len(<<>>) = 0
    BY SubSeqEmpty, EmptySeq
  <2>2. pending = <<>>
    BY <2>1, Zenon DEF Init, pending, From
  <2> QED BY <2>2 DEF Init, Channel!Init
<1>2. Init => Types /\ InPlace
  BY TypesInit, InPlaceInit
<1>3. Types /\ InPlace /\ [Next]_vars => (Types /\ InPlace)'
  BY TypesStep, InPlaceStep, Zenon
<1>4. Types /\ InPlace /\ [Next]_vars => [Channel!Next]_(Channel!vars)
  BY ChannelStep
<1> QED BY <1>1, <1>2, <1>3, <1>4, PTL DEF Spec, ImplementsChannel, Channel!Spec
=============================================================================
