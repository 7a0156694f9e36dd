--------------------------- MODULE StartupProofs ---------------------------
(***************************************************************************)
(* Proofs about main before it is ready, and about the first events, for   *)
(* any configuration and topic files, any number of threads, and any       *)
(* widths of the conversions that hold the numbers of the configuration.   *)
(***************************************************************************)
EXTENDS Startup, FiniteSetTheorems, TLAPS

\* The least number principle, for a set.
LEMMA LeastNumber ==
    ASSUME NEW T, T \subseteq Nat, T # {}
    PROVE  \E n \in T : \A m \in T : n <= m
<1>1. PICK R : IsWellFoundedOn(R, Nat) /\ \A y, x \in Nat : y < x => <<y, x>> \in R
    <2> DEFINE S == OpToRel(<, Nat)
    <2>1. IsWellFoundedOn(S, Nat)
        BY NatLessThanWellFounded, Zenon
    <2>2. \A y, x \in Nat : y < x => <<y, x>> \in S
        BY DEF OpToRel
    <2> HIDE DEF S
    <2> QED BY <2>1, <2>2
<1>2. PICK n \in T : \A y \in T : <<y, n>> \notin R
    <2>1. IsWellFoundedOn(R, Nat) /\ T \subseteq Nat /\ T # {}
        BY <1>1
    <2> QED BY <2>1, WFMin, Zenon
<1>3. \A y \in T : ~(y < n)
    BY <1>1, <1>2
<1> QED BY <1>3

-----------------------------------------------------------------------------
(* A line of the topic file *)

LEMMA MinIs ==
    ASSUME NEW n \in Nat, NEW S, S \subseteq 1 .. n, S # {}
    PROVE  Min(S) \in S /\ \A k \in S : Min(S) <= k
<1>1. \E m \in S : \A k \in S : m <= k
    <2>1. S \subseteq Nat
        OBVIOUS
    <2> QED BY <2>1, LeastNumber
<1> QED BY <1>1 DEF Min

LEMMA MaxIs ==
    ASSUME NEW n \in Nat, NEW S, S \subseteq 1 .. n, S # {}
    PROVE  Max(S) \in S /\ \A k \in S : k <= Max(S)
<1>1. \E m \in S : \A k \in S : m >= k
    <2> DEFINE T == {n - k : k \in S}
    <2>1. T \subseteq Nat /\ T # {}
        <3>1. \A k \in S : n - k \in Nat
            OBVIOUS
        <3>2. PICK k \in S : TRUE
            OBVIOUS
        <3> QED BY <3>1, <3>2
    <2>2. PICK l \in T : \A t \in T : l <= t
        <3> HIDE DEF T
        <3> QED BY <2>1, LeastNumber
    <2>3. PICK m \in S : l = n - m
        OBVIOUS
    <2>4. \A k \in S : n - m <= n - k
        BY <2>2, <2>3
    <2>5. \A k \in S : m >= k
        BY <2>4
    <2> QED BY <2>5
<1> QED BY <1>1 DEF Max

\* find
FirstPlace(s, c) == SelectInSeq(s, LAMBDA x : x = c)

LEMMA FirstIs ==
    ASSUME NEW s \in Seq(Token), NEW c, NEW n \in 1 .. Len(s), s[n] = c,
           \A k \in 1 .. n - 1 : s[k] # c
    PROVE  FirstPlace(s, c) = n
<1> DEFINE I == {k \in 1 .. Len(s) : s[k] = c}
<1>1. I \subseteq 1 .. Len(s) /\ I # {} /\ n \in I
    OBVIOUS
<1>2. Min(I) \in I /\ \A k \in I : Min(I) <= k
    <2> HIDE DEF I
    <2>1. Len(s) \in Nat
        OBVIOUS
    <2> QED BY <1>1, <2>1, MinIs
<1>3. FirstPlace(s, c) = Min(I)
    <2>1. FirstPlace(s, c) = IF I # {} THEN Min(I) ELSE 0
        BY Zenon DEF SelectInSeq, FirstPlace
    <2> HIDE DEF I
    <2> QED BY <1>1, <2>1
<1>4. \A k \in I : n <= k
    OBVIOUS
<1> HIDE DEF I
<1>5. Min(I) = n
    <2>1. PICK m \in 1 .. Len(s) : m = Min(I)
        BY <1>1, <1>2
    <2>2. m <= n /\ n <= m
        BY <1>1, <1>2, <1>4, <2>1
    <2> QED BY <2>1, <2>2
<1> QED BY <1>3, <1>5

LEMMA NoneIs ==
    ASSUME NEW s \in Seq(Token), NEW c, \A k \in 1 .. Len(s) : s[k] # c
    PROVE  FirstPlace(s, c) = 0
<1> DEFINE I == {k \in 1 .. Len(s) : s[k] = c}
<1>1. I = {}
    OBVIOUS
<1>2. FirstPlace(s, c) = IF I # {} THEN Min(I) ELSE 0
    BY Zenon DEF SelectInSeq, FirstPlace
<1> HIDE DEF I
<1> QED BY <1>1, <1>2

LEMMA FirstOf ==
    ASSUME NEW s \in Seq(Token), NEW c, NEW i \in 1 .. Len(s), s[i] = c
    PROVE  \E n \in 1 .. Len(s) : s[n] = c /\ \A k \in 1 .. n - 1 : s[k] # c
<1> DEFINE I == {k \in 1 .. Len(s) : s[k] = c}
<1>1. I \subseteq 1 .. Len(s) /\ I # {}
    OBVIOUS
<1>2. Min(I) \in I /\ \A k \in I : Min(I) <= k
    <2> HIDE DEF I
    <2>1. Len(s) \in Nat
        OBVIOUS
    <2> QED BY <1>1, <2>1, MinIs
<1>3. PICK n \in 1 .. Len(s) : n = Min(I) /\ s[n] = c
    BY <1>2
<1>4. \A k \in 1 .. n - 1 : s[k] # c
    BY <1>2, <1>3
<1> QED BY <1>3, <1>4

\* From a to b there is what trim leaves of s.
Span(s, a, b) ==
    /\ a \in 1 .. b /\ b \in 1 .. Len(s)
    /\ s[a] # Blank /\ s[b] # Blank
    /\ \A k \in 1 .. a - 1 : s[k] = Blank
    /\ \A k \in b + 1 .. Len(s) : s[k] = Blank

LEMMA TrimIs ==
    ASSUME NEW s \in Seq(Token), NEW a \in Nat, NEW b \in Nat, Span(s, a, b)
    PROVE  Trim(s) = SubSeq(s, a, b)
<1> DEFINE I == {k \in 1 .. Len(s) : s[k] # Blank}
<1>0. a \in 1 .. b /\ b \in 1 .. Len(s) /\ Len(s) \in Nat
    BY DEF Span
<1>1. I \subseteq 1 .. Len(s) /\ I # {} /\ a \in I /\ b \in I
    BY <1>0 DEF Span
<1>2. \A k \in I : a <= k /\ k <= b
    <2> TAKE k \in I
    <2>1. k \notin 1 .. a - 1 /\ k \notin b + 1 .. Len(s) /\ k \in 1 .. Len(s)
        BY DEF Span
    <2> QED BY <1>0, <2>1
<1>3. /\ SelectInSeq(s, LAMBDA c : c # Blank) = Min(I)
      /\ SelectLastInSeq(s, LAMBDA c : c # Blank) = Max(I)
    <2>1. SelectInSeq(s, LAMBDA c : c # Blank) = IF I # {} THEN Min(I) ELSE 0
        BY Zenon DEF SelectInSeq
    <2>2. SelectLastInSeq(s, LAMBDA c : c # Blank) = IF I # {} THEN Max(I) ELSE 0
        BY Zenon DEF SelectLastInSeq
    <2> HIDE DEF I
    <2> QED BY <1>1, <2>1, <2>2
<1>4. Min(I) \in I /\ (\A k \in I : Min(I) <= k) /\ Max(I) \in I /\ \A k \in I : k <= Max(I)
    <2> HIDE DEF I
    <2>1. Len(s) \in Nat
        OBVIOUS
    <2> QED BY <1>1, <2>1, MinIs, MaxIs
<1> HIDE DEF I
<1>5. PICK m, l \in 1 .. Len(s) : m = Min(I) /\ l = Max(I)
    BY <1>1, <1>4
<1>6. m = a /\ l = b
    <2>1. m <= a /\ a <= m /\ l <= b /\ b <= l
        BY <1>1, <1>2, <1>4, <1>5
    <2> QED BY <1>0, <1>5, <2>1
<1>7. a # 0
    BY <1>0
<1> QED BY <1>3, <1>5, <1>6, <1>7 DEF Trim

LEMMA TrimOf ==
    ASSUME NEW s \in Seq(Token)
    PROVE  Trim(s) = <<>> \/ \E a, b \in Nat : Span(s, a, b) /\ Trim(s) = SubSeq(s, a, b)
<1> DEFINE I == {k \in 1 .. Len(s) : s[k] # Blank}
<1>1. CASE I = {}
    <2>1. SelectInSeq(s, LAMBDA c : c # Blank) = IF I # {} THEN Min(I) ELSE 0
        BY Zenon DEF SelectInSeq
    <2>2. SelectInSeq(s, LAMBDA c : c # Blank) = 0
        <3> HIDE DEF I
        <3> QED BY <1>1, <2>1
    <2> QED BY <2>2 DEF Trim
<1>2. CASE I # {}
    <2>1. I \subseteq 1 .. Len(s)
        OBVIOUS
    <2>2. Min(I) \in I /\ (\A k \in I : Min(I) <= k) /\ Max(I) \in I /\ \A k \in I : k <= Max(I)
        <3> HIDE DEF I
        <3>1. Len(s) \in Nat
            OBVIOUS
        <3> QED BY <1>2, <2>1, <3>1, MinIs, MaxIs
    <2>3. PICK a, b \in 1 .. Len(s) : a = Min(I) /\ b = Max(I)
        BY <2>2
    <2>4. s[a] # Blank /\ s[b] # Blank /\ a <= b
        BY <2>2, <2>3
    <2>5. \A k \in 1 .. Len(s) : s[k] # Blank => a <= k /\ k <= b
        BY <2>2, <2>3
    <2>6. Span(s, a, b)
        <3>1. \A k \in 1 .. a - 1 : s[k] = Blank
            BY <2>5
        <3>2. \A k \in b + 1 .. Len(s) : s[k] = Blank
            BY <2>5
        <3>3. a \in 1 .. b
            BY <2>4
        <3> QED BY <2>4, <3>1, <3>2, <3>3 DEF Span
    <2>7. a \in Nat /\ b \in Nat
        OBVIOUS
    <2> QED BY <2>6, <2>7, TrimIs
<1> QED BY <1>1, <1>2

LEMMA PartIs ==
    ASSUME NEW s \in Seq(Token), NEW a \in 1 .. Len(s) + 1, NEW b \in 0 .. Len(s), a <= b + 1
    PROVE  /\ SubSeq(s, a, b) \in Seq(Token) /\ Len(SubSeq(s, a, b)) = b - a + 1
           /\ \A k \in 1 .. b - a + 1 : SubSeq(s, a, b)[k] = s[a + k - 1]
<1> QED OBVIOUS

\* The sequence u is m places of s, from a on.
PartFrom(u, s, a, m) ==
    u \in Seq(Token) /\ Len(u) = m /\ \A k \in 1 .. m : u[k] = s[a + k - 1]

LEMMA PartsAgree ==
    ASSUME NEW a \in Int, NEW b \in Int, NEW c \in Int, NEW m \in Nat, 1 <= c, c + m - 1 <= b,
           NEW s, NEW t, PartFrom(t, s, a, b),
           NEW u, PartFrom(u, t, c, m), NEW v, PartFrom(v, s, a + c - 1, m)
    PROVE  u = v
<1>1. \A k \in 1 .. m : u[k] = v[k]
    <2> TAKE k \in 1 .. m
    <2>1. PICK j \in 1 .. b : j = c + k - 1 /\ a + j - 1 = a + c - 1 + k - 1
        <3>1. c + k - 1 \in 1 .. b /\ a + (c + k - 1) - 1 = a + c - 1 + k - 1
            OBVIOUS
        <3> QED BY <3>1
    <2>2. u[k] = t[j] /\ t[j] = s[a + j - 1] /\ v[k] = s[a + c - 1 + k - 1]
        BY <2>1 DEF PartFrom
    <2> QED BY <2>1, <2>2
<1>2. u \in Seq(Token) /\ v \in Seq(Token) /\ Len(u) = m /\ Len(v) = m
    BY DEF PartFrom
<1> QED BY <1>1, <1>2

\* A part of a part.
LEMMA PartOfPart ==
    ASSUME NEW s \in Seq(Token), NEW a \in 1 .. Len(s) + 1, NEW b \in 0 .. Len(s), a <= b + 1,
           NEW t \in Seq(Token), t = SubSeq(s, a, b),
           NEW c \in 1 .. Len(t) + 1, NEW d \in 0 .. Len(t), c <= d + 1
    PROVE  SubSeq(t, c, d) = SubSeq(s, a + c - 1, a + d - 1)
<1>1. Len(t) = b - a + 1 /\ PartFrom(t, s, a, b - a + 1)
    BY PartIs DEF PartFrom
<1>2. PICK u : u = SubSeq(t, c, d) /\ PartFrom(u, t, c, d - c + 1)
    <2>1. PartFrom(SubSeq(t, c, d), t, c, d - c + 1)
        BY PartIs DEF PartFrom
    <2> QED BY <2>1
<1>3. PICK v : v = SubSeq(s, a + c - 1, a + d - 1) /\ PartFrom(v, s, a + c - 1, d - c + 1)
    <2>1. PICK x \in 1 .. Len(s) + 1, y \in 0 .. Len(s) : x = a + c - 1 /\ y = a + d - 1 /\ x <= y + 1
        BY <1>1
    <2>2. y - x + 1 = d - c + 1
        BY <2>1
    <2>3. PartFrom(SubSeq(s, x, y), s, x, y - x + 1)
        BY <2>1, PartIs DEF PartFrom
    <2> QED BY <2>1, <2>2, <2>3
<1>4. PICK m \in Nat : m = d - c + 1
    <2>1. d - c + 1 \in Nat
        OBVIOUS
    <2> QED BY <2>1
<1>5. PICK l \in Int : l = b - a + 1 /\ l = Len(t)
    BY <1>1
<1>6. a \in Int /\ c \in Int /\ 1 <= c /\ c + m - 1 <= l
    BY <1>4, <1>5
<1> QED BY <1>1, <1>2, <1>3, <1>4, <1>5, <1>6, PartsAgree

\* How a line with an entry is laid out: from i to j there is the topic, at name the
\* name of the priority, at n the line ends, or a comment begins behind it.
Layout(line, i, j, colon, name, n) ==
    /\ i \in 1 .. j /\ j \in 1 .. colon - 1 /\ colon \in 1 .. name - 1 /\ name \in 1 .. n
    /\ n \in 1 .. Len(line)
    /\ \A k \in 1 .. n : line[k] # "#"
    /\ n = Len(line) \/ line[n + 1] = "#"
    /\ line[colon] = ":" /\ \A k \in 1 .. colon - 1 : line[k] # ":"
    /\ line[i] # Blank /\ line[j] # Blank
    /\ \A k \in 1 .. i - 1 : line[k] = Blank
    /\ \A k \in j + 1 .. colon - 1 : line[k] = Blank
    /\ \A k \in colon + 1 .. name - 1 : line[k] = Blank
    /\ \A k \in name + 1 .. n : line[k] = Blank
    /\ line[name] \in DOMAIN PriorityNamed

\* What such a line says.
Read(line, i, j, name) == <<SubSeq(line, i, j), PriorityNamed[line[name]]>>

LEMMA NamesAre ==
    /\ {"#", ":", Blank} \cap DOMAIN PriorityNamed = {}
    /\ \A x \in DOMAIN PriorityNamed : PriorityNamed[x] \in EventPriority
    /\ "#" # ":" /\ "#" # Blank /\ ":" # Blank
<1> QED BY DEF PriorityNamed, Blank, EventPriority, LOW, MEDIUM, HIGH, CRITICAL

LEMMA SaysLayout ==
    ASSUME NEW line \in Seq(Token), NEW t, NEW p, Says(line, t, p)
    PROVE  \E i, j, colon, name, n \in Nat :
              Layout(line, i, j, colon, name, n) /\ <<t, p>> = Read(line, i, j, name)
<1>0. Len(line) \in Nat
    OBVIOUS
<1>1. PICK colon, name \in 1 .. Len(line) :
          /\ \E i \in 1 .. colon : \E j \in i .. colon - 1 :
              /\ t = SubSeq(line, i, j)
              /\ {line[i], line[j]} \cap {Blank} = {}
              /\ Range(t) \cap {":", "#"} = {}
              /\ (\A k \in 1 .. i - 1 : line[k] = Blank)
              /\ (\A k \in j + 1 .. colon - 1 : line[k] = Blank)
          /\ line[colon] = ":" /\ colon < name
          /\ (\A k \in colon + 1 .. name - 1 : line[k] = Blank)
          /\ line[name] \in DOMAIN PriorityNamed /\ p = PriorityNamed[line[name]]
          /\ \E end \in name .. Len(line) :
              /\ (\A k \in name + 1 .. end : line[k] = Blank)
              /\ end = Len(line) \/ line[end + 1] = "#"
    BY Zenon DEF Says
<1>2. PICK i \in 1 .. colon : \E j \in i .. colon - 1 :
          /\ t = SubSeq(line, i, j)
          /\ {line[i], line[j]} \cap {Blank} = {}
          /\ Range(t) \cap {":", "#"} = {}
          /\ (\A k \in 1 .. i - 1 : line[k] = Blank)
          /\ (\A k \in j + 1 .. colon - 1 : line[k] = Blank)
    BY <1>1
<1>12. PICK j \in i .. colon - 1 :
          /\ t = SubSeq(line, i, j)
          /\ {line[i], line[j]} \cap {Blank} = {}
          /\ Range(t) \cap {":", "#"} = {}
          /\ (\A k \in 1 .. i - 1 : line[k] = Blank)
          /\ (\A k \in j + 1 .. colon - 1 : line[k] = Blank)
    BY <1>2
<1>3. PICK n \in name .. Len(line) : /\ (\A k \in name + 1 .. n : line[k] = Blank)
                                     /\ n = Len(line) \/ line[n + 1] = "#"
    BY <1>1
<1>4. \A k \in i .. j : line[k] # ":" /\ line[k] # "#"
    <2> TAKE k \in i .. j
    <2>1. /\ t \in Seq(Token) /\ Len(t) = j - i + 1 
          /\ \A l \in 1 .. j - i + 1 : t[l] = line[i + l - 1]
        BY <1>0, <1>12, PartIs
    <2>2. PICK l \in 1 .. j - i + 1 : i + l - 1 = k
        <3>1. k - i + 1 \in 1 .. j - i + 1 /\ i + (k - i + 1) - 1 = k
            OBVIOUS
        <3> QED BY <3>1
    <2>3. l \in DOMAIN t /\ t[l] = line[k]
        <3>1. DOMAIN t = 1 .. Len(t)
            BY <2>1
        <3> QED BY <2>1, <2>2, <3>1
    <2>4. line[k] \in Range(t)
        BY <2>3 DEF Range
    <2> QED BY <1>12, <2>4
<1>5. line[colon] # "#" /\ line[name] # "#" /\ line[i] # Blank /\ line[j] # Blank
    BY <1>1, <1>12, NamesAre
<1>6. \A k \in 1 .. colon - 1 : line[k] # ":" /\ line[k] # "#"
    <2> TAKE k \in 1 .. colon - 1
    <2>1. k \in 1 .. i - 1 \/ k \in i .. j \/ k \in j + 1 .. colon - 1
        OBVIOUS
    <2> QED BY <1>12, <1>4, <2>1, NamesAre
<1>7. \A k \in 1 .. n : line[k] # "#"
    <2> TAKE k \in 1 .. n
    <2>1. \/ k \in 1 .. colon - 1 \/ k = colon \/ k \in colon + 1 .. name - 1
          \/ k = name \/ k \in name + 1 .. n
        OBVIOUS
    <2> QED BY <1>1, <1>3, <1>5, <1>6, <2>1, NamesAre
<1>8. /\ i \in 1 .. j /\ j \in 1 .. colon - 1 /\ colon \in 1 .. name - 1 /\ name \in 1 .. n
      /\ n \in 1 .. Len(line)
    BY <1>0, <1>1
<1>9. Layout(line, i, j, colon, name, n)
    BY <1>1, <1>12, <1>3, <1>5, <1>6, <1>7, <1>8 DEF Layout
<1>10. <<t, p>> = Read(line, i, j, name)
    BY <1>1, <1>12 DEF Read
<1>11. i \in Nat /\ j \in Nat /\ colon \in Nat /\ name \in Nat /\ n \in Nat
    BY <1>8
<1> QED BY <1>9, <1>10, <1>11

LEMMA LayoutSays ==
    ASSUME NEW line \in Seq(Token), NEW i \in Nat, NEW j \in Nat, NEW colon \in Nat,
           NEW name \in Nat, NEW n \in Nat, Layout(line, i, j, colon, name, n)
    PROVE  Says(line, SubSeq(line, i, j), PriorityNamed[line[name]])
<1>1. PICK t \in Seq(Token) : /\ t = SubSeq(line, i, j) /\ Len(t) = j - i + 1
                              /\ \A l \in 1 .. j - i + 1 : t[l] = line[i + l - 1]
    <2>1. i \in 1 .. Len(line) + 1 /\ j \in 0 .. Len(line) /\ i <= j + 1
        BY DEF Layout
    <2> QED BY <2>1, PartIs
<1>2. Range(t) \cap {":", "#"} = {}
    <2>1. \A l \in 1 .. j - i + 1 : t[l] \notin {":", "#"}
        <3> TAKE l \in 1 .. j - i + 1
        <3>1. i + l - 1 \in 1 .. colon - 1 /\ i + l - 1 \in 1 .. n
            BY DEF Layout
        <3> QED BY <1>1, <3>1 DEF Layout
    <2>2. DOMAIN t = 1 .. j - i + 1
        BY <1>1
    <2> QED BY <2>1, <2>2 DEF Range
<1>3. /\ colon \in 1 .. Len(line) /\ name \in 1 .. Len(line) /\ i \in 1 .. colon
      /\ j \in i .. colon - 1 /\ colon < name /\ n \in name .. Len(line)
    BY DEF Layout
<1>4. {line[i], line[j]} \cap {Blank} = {}
    BY DEF Layout
<1>5. \E a \in 1 .. colon : \E b \in a .. colon - 1 :
          /\ t = SubSeq(line, a, b)
          /\ {line[a], line[b]} \cap {Blank} = {}
          /\ Range(t) \cap {":", "#"} = {}
          /\ (\A k \in 1 .. a - 1 : line[k] = Blank)
          /\ (\A k \in b + 1 .. colon - 1 : line[k] = Blank)
    <2>1. (\A k \in 1 .. i - 1 : line[k] = Blank) /\ \A k \in j + 1 .. colon - 1 : line[k] = Blank
        BY DEF Layout
    <2> QED BY <1>1, <1>2, <1>3, <1>4, <2>1, Zenon
<1>6. /\ line[colon] = ":" /\ colon < name
      /\ (\A k \in colon + 1 .. name - 1 : line[k] = Blank)
      /\ line[name] \in DOMAIN PriorityNamed
      /\ \E end \in name .. Len(line) :
              /\ (\A k \in name + 1 .. end : line[k] = Blank)
              /\ end = Len(line) \/ line[end + 1] = "#"
    BY <1>3 DEF Layout
<1> QED BY <1>1, <1>3, <1>5, <1>6, Zenon DEF Says

\* Where a line ends for the loader.
EndsAt(line, n) ==
    /\ n \in 0 .. Len(line)
    /\ \A k \in 1 .. n : line[k] # "#"
    /\ n = Len(line) \/ line[n + 1] = "#"

LEMMA EndOf == ASSUME NEW line \in Seq(Token) PROVE \E n \in Nat : EndsAt(line, n)
<1>1. CASE \A k \in 1 .. Len(line) : line[k] # "#"
    BY <1>1 DEF EndsAt
<1>2. CASE \E k \in 1 .. Len(line) : line[k] = "#"
    <2>1. PICK m \in 1 .. Len(line) : line[m] = "#" /\ \A k \in 1 .. m - 1 : line[k] # "#"
        BY <1>2, FirstOf
    <2>2. m - 1 \in Nat /\ m - 1 \in 0 .. Len(line) /\ (m - 1) + 1 = m
        OBVIOUS
    <2>3. EndsAt(line, m - 1)
        BY <2>1, <2>2 DEF EndsAt
    <2> QED BY <2>2, <2>3
<1> QED BY <1>1, <1>2

LEMMA UncommentIs ==
    ASSUME NEW line \in Seq(Token), NEW n \in Nat, EndsAt(line, n)
    PROVE  Uncomment(line) = SubSeq(line, 1, n)
<1>1. CASE n = Len(line)
    <2>1. FirstPlace(line, "#") = 0
        BY <1>1, NoneIs DEF EndsAt
    <2>2. SubSeq(line, 1, Len(line)) = line
        OBVIOUS
    <2>3. Uncomment(line) = line
        BY <2>1, Zenon DEF Uncomment, FirstPlace
    <2> QED BY <1>1, <2>2, <2>3
<1>2. CASE n # Len(line)
    <2>1. PICK m \in 1 .. Len(line) : m = n + 1 /\ m # 0 /\ m - 1 = n
        <3>1. n + 1 \in 1 .. Len(line) /\ n + 1 # 0 /\ (n + 1) - 1 = n
            BY <1>2 DEF EndsAt
        <3> QED BY <3>1
    <2>2. line[m] = "#" /\ \A k \in 1 .. m - 1 : line[k] # "#"
        BY <1>2, <2>1 DEF EndsAt
    <2>3. FirstPlace(line, "#") = m
        BY <2>2, FirstIs
    <2>4. Uncomment(line) = SubSeq(line, 1, m - 1)
        BY <2>1, <2>3, Zenon DEF Uncomment, FirstPlace
    <2> QED BY <2>1, <2>4
<1> QED BY <1>1, <1>2

\* What the line amounts to, if its first colon is at the place colon.
LEMMA Halves ==
    ASSUME NEW line \in Seq(Token), NEW n \in Nat, EndsAt(line, n), NEW colon \in 1 .. n,
           line[colon] = ":", \A k \in 1 .. colon - 1 : line[k] # ":",
           NEW topic, topic = Trim(SubSeq(line, 1, colon - 1)),
           NEW pr, pr = Trim(SubSeq(line, colon + 1, n))
    PROVE  EntryOf(line) =
               IF topic # <<>> /\ Len(pr) = 1 /\ pr[1] \in DOMAIN PriorityNamed
               THEN <<topic, PriorityNamed[pr[1]]>>
               ELSE NoEntry
<1>0. n \in 0 .. Len(line)
    BY DEF EndsAt
<1>1. PICK u \in Seq(Token) : /\ u = SubSeq(line, 1, n) /\ Len(u) = n
                              /\ \A k \in 1 .. n : u[k] = line[k]
    <2>1. 1 \in 1 .. Len(line) + 1 /\ 1 <= n + 1 /\ n - 1 + 1 = n /\ \A k \in 1 .. n : 1 + k - 1 = k
        BY <1>0
    <2>2. /\ SubSeq(line, 1, n) \in Seq(Token) /\ Len(SubSeq(line, 1, n)) = n - 1 + 1
          /\ \A k \in 1 .. n - 1 + 1 : SubSeq(line, 1, n)[k] = line[1 + k - 1]
        BY <1>0, <2>1, PartIs
    <2> QED BY <2>1, <2>2
<1>2. Uncomment(line) = u
    BY <1>1, UncommentIs
<1>3. FirstPlace(u, ":") = colon
    <2>1. colon \in 1 .. Len(u) /\ \A k \in 1 .. colon - 1 : k \in 1 .. n
        BY <1>1
    <2>2. u[colon] = ":" /\ \A k \in 1 .. colon - 1 : u[k] # ":"
        BY <1>1, <2>1
    <2> QED BY <2>1, <2>2, FirstIs
<1>4. \A c \in 1 .. n + 1, d \in 0 .. n : c <= d + 1 => SubSeq(u, c, d) = SubSeq(line, c, d)
    <2> TAKE c \in 1 .. n + 1, d \in 0 .. n
    <2> HAVE c <= d + 1
    <2>1. 1 \in 1 .. Len(line) + 1 /\ 1 <= n + 1 /\ 1 + c - 1 = c /\ 1 + d - 1 = d
        BY <1>0
    <2>2. SubSeq(u, c, d) = SubSeq(line, 1 + c - 1, 1 + d - 1)
        BY <1>0, <1>1, <2>1, PartOfPart
    <2> QED BY <2>1, <2>2
<1>5. /\ SubSeq(u, 1, colon - 1) = SubSeq(line, 1, colon - 1)
      /\ SubSeq(u, colon + 1, Len(u)) = SubSeq(line, colon + 1, n)
    <2>1. /\ 1 \in 1 .. n + 1 /\ colon - 1 \in 0 .. n /\ 1 <= (colon - 1) + 1
          /\ colon + 1 \in 1 .. n + 1 /\ n \in 0 .. n /\ colon + 1 <= n + 1
        BY <1>0
    <2> QED BY <1>1, <1>4, <2>1
<1>6. colon # 0
    OBVIOUS
<1> QED BY <1>2, <1>3, <1>5, <1>6, Zenon DEF EntryOf, FirstPlace

\* The part of a line from a to b, of which trim leaves what is from i to j.
LEMMA TrimPart ==
    ASSUME NEW line \in Seq(Token), NEW a \in 1 .. Len(line) + 1, NEW b \in 0 .. Len(line),
           NEW i \in a .. b, NEW j \in i .. b, line[i] # Blank, line[j] # Blank,
           \A k \in a .. i - 1 : line[k] = Blank,
           \A k \in j + 1 .. b : line[k] = Blank
    PROVE  Trim(SubSeq(line, a, b)) = SubSeq(line, i, j)
<1>0. a <= b + 1
    OBVIOUS
<1>1. PICK s \in Seq(Token) : /\ s = SubSeq(line, a, b) /\ Len(s) = b - a + 1
                              /\ \A k \in 1 .. b - a + 1 : s[k] = line[a + k - 1]
    <2>1. /\ SubSeq(line, a, b) \in Seq(Token) /\ Len(SubSeq(line, a, b)) = b - a + 1
          /\ \A k \in 1 .. b - a + 1 : SubSeq(line, a, b)[k] = line[a + k - 1]
        BY <1>0, PartIs
    <2> QED BY <2>1
<1>2. PICK x \in 1 .. Len(s), y \in 1 .. Len(s) :
          x = i - a + 1 /\ y = j - a + 1 /\ x <= y /\ a + x - 1 = i /\ a + y - 1 = j
    <2>1. /\ i - a + 1 \in 1 .. Len(s) /\ j - a + 1 \in 1 .. Len(s) /\ i - a + 1 <= j - a + 1
          /\ a + (i - a + 1) - 1 = i /\ a + (j - a + 1) - 1 = j
        BY <1>1
    <2> QED BY <2>1
<1>3. s[x] = line[i] /\ s[y] = line[j]
    BY <1>1, <1>2
<1>4. \A k \in 1 .. x - 1 : s[k] = Blank
    <2> TAKE k \in 1 .. x - 1
    <2>1. k \in 1 .. b - a + 1 /\ a + k - 1 \in a .. i - 1
        BY <1>1, <1>2
    <2> QED BY <1>1, <2>1
<1>5. \A k \in y + 1 .. Len(s) : s[k] = Blank
    <2> TAKE k \in y + 1 .. Len(s)
    <2>1. k \in 1 .. b - a + 1 /\ a + k - 1 \in j + 1 .. b
        BY <1>1, <1>2
    <2> QED BY <1>1, <2>1
<1>6. Span(s, x, y)
    BY <1>2, <1>3, <1>4, <1>5 DEF Span
<1>7. Trim(s) = SubSeq(s, x, y)
    <2>1. x \in Nat /\ y \in Nat
        OBVIOUS
    <2> QED BY <1>6, <2>1, TrimIs
<1>8. SubSeq(s, x, y) = SubSeq(line, a + x - 1, a + y - 1)
    <2>1. x \in 1 .. Len(s) + 1 /\ y \in 0 .. Len(s) /\ x <= y + 1
        BY <1>2
    <2> QED BY <1>0, <1>1, <2>1, PartOfPart
<1> QED BY <1>1, <1>2, <1>7, <1>8

LEMMA TrimPartOf ==
    ASSUME NEW line \in Seq(Token), NEW a \in 1 .. Len(line) + 1, NEW b \in 0 .. Len(line),
           a <= b + 1, Trim(SubSeq(line, a, b)) # <<>>
    PROVE  \E i \in a .. b : \E j \in i .. b :
               /\ line[i] # Blank /\ line[j] # Blank
               /\ \A k \in a .. i - 1 : line[k] = Blank
               /\ \A k \in j + 1 .. b : line[k] = Blank
<1>1. PICK s \in Seq(Token) : /\ s = SubSeq(line, a, b) /\ Len(s) = b - a + 1
                              /\ \A k \in 1 .. b - a + 1 : s[k] = line[a + k - 1]
    <2>1. /\ SubSeq(line, a, b) \in Seq(Token) /\ Len(SubSeq(line, a, b)) = b - a + 1
          /\ \A k \in 1 .. b - a + 1 : SubSeq(line, a, b)[k] = line[a + k - 1]
        BY PartIs
    <2> QED BY <2>1
<1>2. PICK x, y \in Nat : Span(s, x, y)
    BY <1>1, TrimOf
<1>3. x \in 1 .. y /\ y \in 1 .. b - a + 1 /\ s[x] # Blank /\ s[y] # Blank
    BY <1>1, <1>2 DEF Span
<1>4. PICK i \in a .. b, j \in a .. b : i = a + x - 1 /\ j = a + y - 1 /\ i <= j
    <2>1. a + x - 1 \in a .. b /\ a + y - 1 \in a .. b /\ a + x - 1 <= a + y - 1
        BY <1>3
    <2> QED BY <2>1
<1>5. line[i] # Blank /\ line[j] # Blank
    BY <1>1, <1>3, <1>4
<1>6. \A k \in a .. i - 1 : line[k] = Blank
    <2> TAKE k \in a .. i - 1
    <2>1. /\ k - a + 1 \in 1 .. x - 1 /\ k - a + 1 \in 1 .. b - a + 1
          /\ a + (k - a + 1) - 1 = k
        BY <1>3, <1>4
    <2>2. s[k - a + 1] = Blank
        BY <1>2, <2>1 DEF Span
    <2> QED BY <1>1, <2>1, <2>2
<1>7. \A k \in j + 1 .. b : line[k] = Blank
    <2> TAKE k \in j + 1 .. b
    <2>1. /\ k - a + 1 \in y + 1 .. Len(s) /\ k - a + 1 \in 1 .. b - a + 1
          /\ a + (k - a + 1) - 1 = k
        BY <1>1, <1>3, <1>4
    <2>2. s[k - a + 1] = Blank
        BY <1>2, <2>1 DEF Span
    <2> QED BY <1>1, <2>1, <2>2
<1>8. j \in i .. b
    BY <1>4
<1> QED BY <1>5, <1>6, <1>7, <1>8

LEMMA LayoutEntry ==
    ASSUME NEW line \in Seq(Token), NEW i \in Nat, NEW j \in Nat, NEW colon \in Nat,
           NEW name \in Nat, NEW n \in Nat, Layout(line, i, j, colon, name, n)
    PROVE  EntryOf(line) = Read(line, i, j, name)
<1>1. EndsAt(line, n)
    BY DEF Layout, EndsAt
<1>2. /\ i \in 1 .. j /\ j \in 1 .. colon - 1 /\ colon \in 1 .. name - 1 /\ name \in 1 .. n
      /\ n \in 1 .. Len(line) /\ Len(line) \in Nat
    BY DEF Layout
<1>3. Trim(SubSeq(line, 1, colon - 1)) = SubSeq(line, i, j)
    <2>1. /\ 1 \in 1 .. Len(line) + 1 /\ colon - 1 \in 0 .. Len(line)
          /\ i \in 1 .. colon - 1 /\ j \in i .. colon - 1
        BY <1>2
    <2>2. /\ line[i] # Blank /\ line[j] # Blank /\ (\A k \in 1 .. i - 1 : line[k] = Blank)
          /\ \A k \in j + 1 .. colon - 1 : line[k] = Blank
        BY DEF Layout
    <2> QED BY <2>1, <2>2, TrimPart
<1>4. Trim(SubSeq(line, colon + 1, n)) = SubSeq(line, name, name)
    <2>1. /\ colon + 1 \in 1 .. Len(line) + 1 /\ n \in 0 .. Len(line)
          /\ name \in colon + 1 .. n /\ name \in name .. n
        BY <1>2
    <2>2. /\ line[name] # Blank /\ (\A k \in colon + 1 .. name - 1 : line[k] = Blank)
          /\ \A k \in name + 1 .. n : line[k] = Blank
        BY NamesAre DEF Layout
    <2> QED BY <2>1, <2>2, TrimPart
<1>5. PICK t : t = SubSeq(line, i, j) /\ t # <<>>
    <2>1. i \in 1 .. Len(line) + 1 /\ j \in 0 .. Len(line) /\ i <= j + 1 /\ j - i + 1 # 0
        BY <1>2
    <2>2. Len(SubSeq(line, i, j)) = j - i + 1
        BY <2>1, PartIs
    <2>3. Len(<<>>) = 0
        OBVIOUS
    <2> QED BY <2>1, <2>2, <2>3
<1>6. PICK pr : pr = SubSeq(line, name, name) /\ Len(pr) = 1 /\ pr[1] = line[name]
    <2>1. name \in 1 .. Len(line)
        BY <1>2
    <2>2. Len(SubSeq(line, name, name)) = 1 /\ SubSeq(line, name, name)[1] = line[name]
        BY <2>1
    <2> QED BY <2>2
<1>7. /\ colon \in 1 .. n /\ line[colon] = ":" /\ (\A k \in 1 .. colon - 1 : line[k] # ":")
      /\ line[name] \in DOMAIN PriorityNamed
    BY <1>2 DEF Layout
<1>8. EntryOf(line) = IF t # <<>> /\ Len(pr) = 1 /\ pr[1] \in DOMAIN PriorityNamed
                      THEN <<t, PriorityNamed[pr[1]]>> ELSE NoEntry
    BY <1>1, <1>3, <1>4, <1>5, <1>6, <1>7, Halves
<1> QED BY <1>5, <1>6, <1>7, <1>8 DEF Read

LEMMA EntryLayout ==
    ASSUME NEW line \in Seq(Token), EntryOf(line) # NoEntry
    PROVE  \E i, j, colon, name, n \in Nat : Layout(line, i, j, colon, name, n)
<1>1. PICK n \in Nat : EndsAt(line, n)
    BY EndOf
<1>2. n \in 0 .. Len(line) /\ Len(line) \in Nat
    BY <1>1 DEF EndsAt
<1>3. PICK u \in Seq(Token) : /\ u = Uncomment(line) /\ Len(u) = n
                              /\ \A k \in 1 .. n : u[k] = line[k]
    <2>1. 1 \in 1 .. Len(line) + 1 /\ 1 <= n + 1 /\ n - 1 + 1 = n /\ \A k \in 1 .. n : 1 + k - 1 = k
        BY <1>2
    <2>2. /\ SubSeq(line, 1, n) \in Seq(Token) /\ Len(SubSeq(line, 1, n)) = n - 1 + 1
          /\ \A k \in 1 .. n - 1 + 1 : SubSeq(line, 1, n)[k] = line[1 + k - 1]
        BY <1>2, <2>1, PartIs
    <2>3. Uncomment(line) = SubSeq(line, 1, n)
        BY <1>1, UncommentIs
    <2> QED BY <2>1, <2>2, <2>3
<1>4. FirstPlace(u, ":") # 0
    BY <1>3, Zenon DEF EntryOf, FirstPlace
<1>5. PICK colon \in 1 .. n : line[colon] = ":" /\ \A k \in 1 .. colon - 1 : line[k] # ":"
    <2>1. \E k \in 1 .. Len(u) : u[k] = ":"
        BY <1>4, NoneIs
    <2>2. PICK c \in 1 .. Len(u) : u[c] = ":" /\ \A k \in 1 .. c - 1 : u[k] # ":"
        BY <2>1, FirstOf
    <2>3. c \in 1 .. n /\ \A k \in 1 .. c - 1 : k \in 1 .. n
        BY <1>3
    <2> QED BY <1>3, <2>2, <2>3
<1>6. PICK t, pr : t = Trim(SubSeq(line, 1, colon - 1)) /\ pr = Trim(SubSeq(line, colon + 1, n))
    OBVIOUS
<1>7. t # <<>> /\ Len(pr) = 1 /\ pr[1] \in DOMAIN PriorityNamed
    <2>1. EntryOf(line) = IF t # <<>> /\ Len(pr) = 1 /\ pr[1] \in DOMAIN PriorityNamed
                          THEN <<t, PriorityNamed[pr[1]]>> ELSE NoEntry
        BY <1>1, <1>5, <1>6, Halves
    <2> QED BY <2>1
<1>8. PICK i \in 1 .. colon - 1 : \E j \in i .. colon - 1 :
               /\ line[i] # Blank /\ line[j] # Blank
               /\ \A k \in 1 .. i - 1 : line[k] = Blank
               /\ \A k \in j + 1 .. colon - 1 : line[k] = Blank
    <2>1. 1 \in 1 .. Len(line) + 1 /\ colon - 1 \in 0 .. Len(line) /\ 1 <= (colon - 1) + 1
        BY <1>2
    <2> QED BY <1>6, <1>7, <2>1, TrimPartOf, ZenonT(40)
<1>9. PICK j \in i .. colon - 1 :
               /\ line[i] # Blank /\ line[j] # Blank
               /\ \A k \in 1 .. i - 1 : line[k] = Blank
               /\ \A k \in j + 1 .. colon - 1 : line[k] = Blank
    BY <1>8
<1>10. colon + 1 \in 1 .. Len(line) + 1 /\ n \in 0 .. Len(line) /\ colon + 1 <= n + 1
    BY <1>2
<1>11. PICK a \in colon + 1 .. n : \E b \in a .. n :
               /\ line[a] # Blank /\ line[b] # Blank
               /\ \A k \in colon + 1 .. a - 1 : line[k] = Blank
               /\ \A k \in b + 1 .. n : line[k] = Blank
    <2>1. Len(<<>>) # 1
        OBVIOUS
    <2> QED BY <1>6, <1>7, <1>10, <2>1, TrimPartOf
<1>12. PICK b \in a .. n :
               /\ line[a] # Blank /\ line[b] # Blank
               /\ \A k \in colon + 1 .. a - 1 : line[k] = Blank
               /\ \A k \in b + 1 .. n : line[k] = Blank
    BY <1>11
<1>13. pr = SubSeq(line, a, b)
    BY <1>6, <1>10, <1>12, TrimPart
<1>14. b = a /\ line[a] \in DOMAIN PriorityNamed
    <2>1. a \in 1 .. Len(line) + 1 /\ b \in 0 .. Len(line) /\ a <= b + 1
        BY <1>2
    <2>2. Len(pr) = b - a + 1 /\ \A k \in 1 .. b - a + 1 : pr[k] = line[a + k - 1]
        BY <1>13, <2>1, PartIs
    <2>3. b = a
        <3>1. b - a + 1 = 1
            BY <1>7, <2>2, Zenon
        <3>2. a \in Nat /\ b \in Nat
            BY <1>2
        <3> QED BY <3>1, <3>2
    <2>4. 1 \in 1 .. b - a + 1 /\ a + 1 - 1 = a
        BY <2>3
    <2>5. pr[1] = line[a]
        BY <2>2, <2>4
    <2> QED BY <1>7, <2>3, <2>5
<1>15. /\ i \in 1 .. j /\ j \in 1 .. colon - 1 /\ colon \in 1 .. a - 1 /\ a \in 1 .. n
       /\ n \in 1 .. Len(line)
    BY <1>2
<1>16. Layout(line, i, j, colon, a, n)
    BY <1>1, <1>5, <1>9, <1>12, <1>14, <1>15 DEF Layout, EndsAt
<1> QED BY <1>15, <1>16

\* For every line: the loader takes an entry from it exactly if the format says
\* something with it, and then that.
THEOREM LineIsRead ==
    ASSUME NEW line \in Seq(Token)
    PROVE  /\ EntryOf(line) = NoEntry \/ EntryOf(line) \in Seq(Token) \X EventPriority
           /\ \A t, p : EntryOf(line) # NoEntry => (Says(line, t, p) <=> EntryOf(line) = <<t, p>>)
           /\ \A t, p : EntryOf(line) = NoEntry => ~Says(line, t, p)
<1>1. ASSUME NEW i \in Nat, NEW j \in Nat, NEW colon \in Nat, NEW name \in Nat, NEW n \in Nat,
             Layout(line, i, j, colon, name, n)
      PROVE  Read(line, i, j, name) \in Seq(Token) \X EventPriority
    <2>1. i \in 1 .. Len(line) + 1 /\ j \in 0 .. Len(line) /\ i <= j + 1
        BY <1>1 DEF Layout
    <2>2. SubSeq(line, i, j) \in Seq(Token)
        BY <2>1, PartIs
    <2>3. PriorityNamed[line[name]] \in EventPriority
        BY <1>1, NamesAre DEF Layout
    <2> QED BY <2>2, <2>3 DEF Read
<1>2. ASSUME EntryOf(line) # NoEntry
      PROVE  /\ EntryOf(line) \in Seq(Token) \X EventPriority
             /\ \A t, p : EntryOf(line) = <<t, p>> => Says(line, t, p)
    <2>1. PICK i, j, colon, name, n \in Nat : Layout(line, i, j, colon, name, n)
        BY <1>2, EntryLayout
    <2>2. EntryOf(line) = Read(line, i, j, name)
        BY <2>1, LayoutEntry
    <2>3. Says(line, SubSeq(line, i, j), PriorityNamed[line[name]])
        BY <2>1, LayoutSays
    <2>4. EntryOf(line) \in Seq(Token) \X EventPriority
        BY <1>1, <2>1, <2>2
    <2>5. ASSUME NEW t, NEW p, EntryOf(line) = <<t, p>>
          PROVE  t = SubSeq(line, i, j) /\ p = PriorityNamed[line[name]]
        BY <2>2, <2>5 DEF Read
    <2> QED BY <2>3, <2>4, <2>5
<1>3. ASSUME NEW t, NEW p, Says(line, t, p)
      PROVE  EntryOf(line) = <<t, p>> /\ EntryOf(line) # NoEntry
    <2>1. PICK i, j, colon, name, n \in Nat :
              Layout(line, i, j, colon, name, n) /\ <<t, p>> = Read(line, i, j, name)
        BY <1>3, SaysLayout
    <2>2. EntryOf(line) = Read(line, i, j, name)
        BY <2>1, LayoutEntry
    <2> QED BY <1>1, <2>1, <2>2, TopicFileAssumption
<1> QED BY <1>2, <1>3

-----------------------------------------------------------------------------
(* The inductive invariant *)

\* Line i of the file has an entry for topic t.
Gives(i, t) == EntryOf(topics[i]) # NoEntry /\ EntryOf(topics[i])[1] = t

\* The files are among those that the program may be given.
FilesGiven == \E i \in Input : doc = i[1] /\ topics = i[2]

\* A configuration is only ever the one that the file holds, and then it is
\* complete and valid; from "signals" on there is one.
ConfigLoaded ==
    /\ \/ config = NoConfig
       \/ doc # NoFile /\ Converts(doc) /\ config = AppConfiguration(doc) /\ IsValid(config)
    /\ mpc \in {"signals", "topics", "storage", "pool", "unwind", "aborted", "ready"} =>
            config # NoConfig

\* Which of the things that main constructs exist where it is.
Constructed ==
    /\ mpc \in {"load", "signals", "topics", "storage", "failed", "unwind"} => workers = 0
    /\ mpc \in {"load", "signals", "topics", "storage", "failed"} => ~open
    /\ mpc \in {"pool", "ready"} => open
    /\ mpc = "aborted" => workers \in 1 .. PoolSize - 1
    /\ mpc = "ready" => workers = PoolSize /\ serverPort = Port(config["ingestion.tcp.port"])

\* The table is what the lines read so far say, the last one about a topic
\* counting.
TableSoFar ==
    /\ DOMAIN Table = {EntryOf(topics[i])[1] : i \in {j \in 1 .. lines : EntryOf(topics[j]) # NoEntry}}
    /\ \A i \in 1 .. lines : \A t \in DOMAIN Table :
            Gives(i, t) /\ (\A j \in i + 1 .. lines : ~Gives(j, t)) => Table[t] = EntryOf(topics[i])[2]
    /\ mpc = "storage" => lines = LineCount

\* No number is drawn twice.
NumbersDrawn ==
    /\ \A n \in returned : n < global_event_id
    /\ \A c \in Creator : created[c] # "none" =>
            /\ number[c] < global_event_id /\ number[c] \notin returned
            /\ \A d \in Creator \ {c} : created[d] # "none" => number[d] # number[c]

\* Who has filled the table sees it filled.
FillersSeeTable == \A c \in filled : TableRight(c)

IInv ==
    /\ TypeOK
    /\ FilesGiven
    /\ ConfigLoaded
    /\ Constructed
    /\ TableSoFar
    /\ NumbersDrawn
    /\ FillersSeeTable

-----------------------------------------------------------------------------
(* The numbers of the configuration *)

\* The two numbers that matter, in a file or a configuration.
PortIn(f) == f["ingestion.tcp.port"]
ThreadsIn(f) == f["Threads_pool.max_threads"]

LEMMA ValidNumbers ==
    ASSUME NEW c, IsValid(c)
    PROVE  IsPort(PortIn(c)) /\ \E min : ThreadsAreValid(min, ThreadsIn(c))
BY Zenon DEF IsValid, PortIn, ThreadsIn

\* What the file says under a key of a number is what the configuration holds,
\* and the validation and the size of size_t bound it.
LEMMA FileNumbers ==
    ASSUME NEW i \in Input, i[1] # NoFile, Converts(i[1]), IsValid(AppConfiguration(i[1]))
    PROVE  /\ DOMAIN i[1] = Key /\ DOMAIN AppConfiguration(i[1]) = Key
           /\ AppConfiguration(i[1]) # NoConfig
           /\ PortIn(AppConfiguration(i[1])) = PortIn(i[1])
           /\ PortIn(i[1]) \in Nat \ {0} /\ PortIn(i[1]) < 65536
           /\ ThreadsIn(AppConfiguration(i[1])) = ThreadsIn(i[1])
           /\ ThreadsIn(i[1]) \in 1 .. SizeModulus - 1
<1> DEFINE p == "ingestion.tcp.port"
           n == "Threads_pool.max_threads"
<1>1. PICK d : d = i[1]
    OBVIOUS
<1>2. DOMAIN d = Key /\ AppConfiguration(d) # NoConfig
    BY <1>1, StartupAssumption, Zenon
<1>3. \A k \in IntKey : d[k] \in {Missing, Malformed} \/ d[k] \in Int
    BY <1>1, StartupAssumption, Zenon
<1>4. d[n] \in {Missing, Malformed} \/ d[n] < SizeModulus
    BY <1>1, StartupAssumption, Zenon
<1>5. p \in IntKey /\ p \notin SwitchKey /\ n \in IntKey /\ n \notin SwitchKey
    BY DEF IntKey, SwitchKey
<1>6. PortIn(d) = d[p] /\ ThreadsIn(d) = d[n]
      /\ PortIn(AppConfiguration(d)) = AppConfiguration(d)[p]
      /\ ThreadsIn(AppConfiguration(d)) = AppConfiguration(d)[n]
    BY Zenon DEF PortIn, ThreadsIn
<1> HIDE DEF p, n
<1>7. DOMAIN AppConfiguration(d) = Key
    BY DEF AppConfiguration
<1>8. \A k \in IntKey : k \notin SwitchKey => AppConfiguration(d)[k] = d[k]
    BY DEF AppConfiguration, Key
<1>9. AppConfiguration(d)[p] = d[p] /\ AppConfiguration(d)[n] = d[n]
    BY <1>5, <1>8
<1>10. \A k \in IntKey : d[k] \notin {Missing, Malformed}
    BY <1>1, Zenon DEF Converts
<1>11. d[p] \in Int /\ d[n] \in Int /\ d[n] < SizeModulus
    BY <1>3, <1>4, <1>5, <1>10
<1>12. IsPort(d[p]) /\ \E min : ThreadsAreValid(min, d[n])
    BY <1>1, <1>6, <1>9, ValidNumbers
<1>13. d[p] > 0 /\ d[p] <= 65535 /\ d[n] > 0
    BY <1>12 DEF IsPort, ThreadsAreValid
<1>14. d[p] \in Nat \ {0} /\ d[p] < 65536 /\ d[n] \in 1 .. SizeModulus - 1
    BY <1>11, <1>13, StartupAssumption
<1> QED BY <1>1, <1>2, <1>6, <1>7, <1>9, <1>14

LEMMA SmallRemainder == \A n, m \in Nat : n < m => n % m = n
OBVIOUS

\* So neither conversion changes the number.
LEMMA Conversions ==
    ASSUME FilesGiven, ConfigLoaded, config # NoConfig
    PROVE  /\ DOMAIN config = Key /\ DOMAIN doc = Key
           /\ PortIn(doc) \in Nat \ {0} /\ PortIn(doc) < 65536
           /\ Port(PortIn(config)) = PortIn(doc)
           /\ ThreadsIn(doc) \in Nat \ {0} /\ PoolSize = ThreadsIn(doc)
<1>1. PICK i \in Input : doc = i[1]
    BY DEF FilesGiven
<1>2. /\ i[1] # NoFile /\ Converts(i[1]) /\ IsValid(AppConfiguration(i[1]))
      /\ config = AppConfiguration(i[1])
    BY <1>1, Zenon DEF ConfigLoaded
<1>3. PICK p \in Nat \ {0}, n \in 1 .. SizeModulus - 1 :
          /\ p < 65536 /\ PortIn(doc) = p /\ PortIn(config) = p
          /\ ThreadsIn(doc) = n /\ ThreadsIn(config) = n
    BY <1>1, <1>2, FileNumbers
<1>4. DOMAIN config = Key /\ DOMAIN doc = Key
    BY <1>1, <1>2, FileNumbers
<1>5. p % 65536 = p
    BY <1>3, SmallRemainder
<1>6. n % SizeModulus = n /\ n \in Nat \ {0}
    BY SmallRemainder, StartupAssumption
<1>7. PoolSize = Size(ThreadsIn(config))
    BY Zenon DEF PoolSize, ThreadsIn
<1> QED BY <1>3, <1>4, <1>5, <1>6, <1>7 DEF Port, Size

-----------------------------------------------------------------------------
(* Each part of the invariant, step by step *)

\* The topic file, if there is one, is a sequence of lines.
LEMMA TopicLines ==
    ASSUME FilesGiven
    PROVE  /\ LineCount \in Nat
           /\ \A i \in 1 .. LineCount : topics[i] \in Seq(Token)
<1>1. topics # NoTopics => topics \in Seq(Seq(Token))
    BY StartupAssumption DEF FilesGiven
<1> QED BY <1>1 DEF LineCount

LEMMA InitHolds == Init => IInv
<1> SUFFICES ASSUME Init PROVE IInv
    OBVIOUS
<1> USE DEF Init, FactoryInit
<1>1. FilesGiven /\ ConfigLoaded /\ Constructed
    BY DEF FilesGiven, ConfigLoaded, Constructed
<1>2. TypeOK
    <2>1. 0 \in 0 .. LineCount
        BY <1>1, TopicLines
    <2>2. FactoryTypeOK
        BY DEF FactoryTypeOK
    <2>3. \A t \in DOMAIN Table : t \in Seq(Token) /\ Table[t] \in EventPriority
        OBVIOUS
    <2>4. workers \in 0 .. IF config = NoConfig THEN 0 ELSE PoolSize
        OBVIOUS
    <2>5. config = NoConfig /\ mpc = "load" /\ handlers \in BOOLEAN /\ g_running \in BOOLEAN
          /\ open \in BOOLEAN /\ lines = 0 /\ serverPort = 0 /\ returned = {} /\ badCrc = {}
        OBVIOUS
    <2> HIDE DEF Init, FactoryInit
    <2> QED BY <2>1, <2>2, <2>3, <2>4, <2>5 DEF TypeOK
<1>3. TableSoFar
    BY DEF TableSoFar
<1>4. NumbersDrawn /\ FillersSeeTable
    BY DEF NumbersDrawn, FillersSeeTable
<1> QED BY <1>1, <1>2, <1>3, <1>4 DEF IInv


\* What Load leaves: a failed start, or the configuration of the file.
LEMMA LoadIs ==
    ASSUME Load
    PROVE  /\ mpc = "load" /\ mpc' \in {"failed", "signals"}
           /\ UNCHANGED <<doc, topics, handlers, g_running, Table, lines, open, workers, serverPort>>
           /\ mpc' = "failed" => config' = config
           /\ mpc' = "signals" => /\ doc # NoFile /\ Converts(doc) /\ IsValid(AppConfiguration(doc))
                                  /\ config' = AppConfiguration(doc)
BY Zenon DEF Load, Step, loadConfig

\* Steps of main: the files stay, and the creators of events are left alone.
LEMMA MainLeaves ==
    ASSUME Main
    PROVE  UNCHANGED <<factoryVars, returned, badCrc, doc, topics>>
BY Zenon DEF Main, Load, InstallHandlers, LoadFileConfig, SetTopicTable, OpenStorage,
             CreateWorker, ConstructRest, Unwind, Signal

\* Every other step leaves main alone.
LEMMA OtherSteps ==
    ASSUME [Next]_vars, ~Main
    PROVE  UNCHANGED mainVars
BY DEF Next, vars, Create, Visible

LEMMA FilesStay == IInv /\ [Next]_vars => FilesGiven'
<1> SUFFICES ASSUME IInv, [Next]_vars PROVE FilesGiven'
    OBVIOUS
<1>1. UNCHANGED <<doc, topics>>
    BY MainLeaves, OtherSteps DEF mainVars
<1> QED BY <1>1 DEF IInv, FilesGiven

LEMMA ConfigLoadedHolds == IInv /\ [Next]_vars => ConfigLoaded'
<1> SUFFICES ASSUME IInv, [Next]_vars PROVE ConfigLoaded'
    OBVIOUS
<1>1. ConfigLoaded /\ FilesGiven
    BY DEF IInv
<1>2. CASE Load
    <2>1. mpc' = "failed" => ConfigLoaded'
        BY <1>1, <1>2, LoadIs DEF ConfigLoaded
    <2>2. ASSUME mpc' = "signals" PROVE ConfigLoaded'
        <3>1. PICK i \in Input : doc = i[1]
            BY <1>1 DEF FilesGiven
        <3>2. /\ doc # NoFile /\ Converts(doc) /\ IsValid(AppConfiguration(doc))
              /\ config' = AppConfiguration(doc) /\ doc' = doc
            BY <1>2, <2>2, LoadIs
        <3>3. AppConfiguration(doc) # NoConfig
            BY <3>1, <3>2, FileNumbers
        <3> QED BY <3>2, <3>3, Zenon DEF ConfigLoaded
    <2> QED BY <1>2, <2>1, <2>2, LoadIs
<1>3. ASSUME Main, ~Load
      PROVE  /\ config' = config /\ doc' = doc
             /\ mpc' \in {"signals", "topics", "storage", "pool", "unwind", "aborted", "ready"} =>
                    mpc \in {"signals", "topics", "storage", "pool", "unwind", "aborted", "ready"}
    BY <1>3 DEF Main, InstallHandlers, LoadFileConfig, SetTopicTable, OpenStorage, CreateWorker,
                ConstructRest, Unwind, Signal, Step, Ended
<1>4. ASSUME ~Main PROVE UNCHANGED <<config, doc, mpc>>
    BY <1>4, OtherSteps DEF mainVars
<1> QED BY <1>1, <1>2, <1>3, <1>4 DEF ConfigLoaded

\* With a configuration, the pool has a size, and the port one of 16 bits.
LEMMA SizesAre ==
    ASSUME FilesGiven, ConfigLoaded, config # NoConfig
    PROVE  PoolSize \in Nat \ {0} /\ Port(PortIn(config)) \in Nat /\ Port(PortIn(config)) < 65536
BY Conversions

\* The port that the last step of main gives the server.
LEMMA RestIs ==
    ASSUME ConstructRest
    PROVE  /\ mpc = "pool" /\ mpc' = "ready" /\ workers = PoolSize
           /\ serverPort' = Port(PortIn(config))
           /\ UNCHANGED <<doc, topics, config, handlers, g_running, Table, lines, open, workers>>
BY Zenon DEF ConstructRest, Step, PortIn

LEMMA ConstructedIs ==
    /\ Constructed <=>
        /\ mpc \in {"load", "signals", "topics", "storage", "failed", "unwind"} => workers = 0
        /\ mpc \in {"load", "signals", "topics", "storage", "failed"} => ~open
        /\ mpc \in {"pool", "ready"} => open
        /\ mpc = "aborted" => workers \in 1 .. PoolSize - 1
        /\ mpc = "ready" => workers = PoolSize /\ serverPort = Port(PortIn(config))
    /\ Constructed' <=>
        /\ mpc' \in {"load", "signals", "topics", "storage", "failed", "unwind"} => workers' = 0
        /\ mpc' \in {"load", "signals", "topics", "storage", "failed"} => ~open'
        /\ mpc' \in {"pool", "ready"} => open'
        /\ mpc' = "aborted" => workers' \in 1 .. PoolSize' - 1
        /\ mpc' = "ready" => workers' = PoolSize' /\ serverPort' = Port(PortIn(config'))
BY Zenon DEF Constructed, PortIn

LEMMA ConstructedHolds == IInv /\ [Next]_vars => Constructed'
<1> SUFFICES ASSUME IInv, [Next]_vars PROVE Constructed'
    OBVIOUS
<1>1. /\ FilesGiven /\ ConfigLoaded /\ Constructed
      /\ workers \in 0 .. IF config = NoConfig THEN 0 ELSE PoolSize
    BY DEF IInv, TypeOK
<1>2. config' = config => PoolSize' = PoolSize
    BY Zenon DEF PoolSize
<1>3. mpc = "pool" => config # NoConfig
    BY <1>1 DEF ConfigLoaded
<1>4. CASE Load
    BY <1>1, <1>4, LoadIs, ConstructedIs
<1>5. CASE InstallHandlers
    BY <1>1, <1>5, ConstructedIs DEF InstallHandlers, Step
<1>6. CASE LoadFileConfig
    BY <1>1, <1>2, <1>6, ConstructedIs DEF LoadFileConfig
<1>7. CASE SetTopicTable
    BY <1>1, <1>7, ConstructedIs DEF SetTopicTable, Step
<1>8. CASE OpenStorage
    BY <1>1, <1>8, ConstructedIs DEF OpenStorage, Step
<1>9. CASE CreateWorker
    <2>1. /\ mpc = "pool" /\ workers < PoolSize /\ config' = config /\ open' = open
          /\ serverPort' = serverPort
          /\ \/ mpc' = "pool"
             \/ mpc' = "unwind" /\ workers' = 0
             \/ mpc' = "aborted" /\ workers' = workers /\ workers # 0
        BY <1>9 DEF CreateWorker
    <2>2. PoolSize \in Nat \ {0} /\ workers \in 0 .. PoolSize
        BY <1>1, <1>3, <2>1, SizesAre
    <2>3. mpc' = "aborted" => workers' \in 1 .. PoolSize' - 1
        BY <1>2, <2>1, <2>2
    <2> QED BY <1>1, <2>1, <2>3, ConstructedIs
<1>10. CASE ConstructRest
    BY <1>1, <1>2, <1>10, RestIs, ConstructedIs
<1>11. CASE Unwind
    BY <1>1, <1>11, ConstructedIs DEF Unwind, Step
<1>12. CASE Signal
    <2>1. /\ UNCHANGED <<config, open, workers, serverPort>>
          /\ mpc' \in {mpc, "killed"}
        BY <1>12 DEF Signal
    <2> QED BY <1>1, <1>2, <2>1, ConstructedIs
<1>13. CASE ~Main
    <2>1. UNCHANGED <<mpc, config, open, workers, serverPort>>
        BY <1>13, OtherSteps DEF mainVars
    <2> QED BY <1>1, <1>2, <2>1, ConstructedIs
<1> QED BY <1>4, <1>5, <1>6, <1>7, <1>8, <1>9, <1>10, <1>11, <1>12, <1>13 DEF Main

-----------------------------------------------------------------------------
(* The topic table *)

\* The table with the entry of one more line.
LEMMA EnterIs ==
    ASSUME NEW T, NEW e, e # NoEntry
    PROVE  /\ DOMAIN Enter(T, e) = DOMAIN T \cup {e[1]}
           /\ Enter(T, e)[e[1]] = e[2]
           /\ \A t \in DOMAIN T : t # e[1] => Enter(T, e)[t] = T[t]
BY DEF Enter

\* Steps of main other than those that read the topic file.
LEMMA TableStays ==
    ASSUME Main, ~LoadFileConfig
    PROVE  /\ Table' = Table /\ lines' = lines
           /\ mpc' = "storage" => mpc = "storage" \/ SetTopicTable
BY DEF Main, Load, InstallHandlers, SetTopicTable, OpenStorage, CreateWorker, ConstructRest,
       Unwind, Signal, Step, Ended

LEMMA TableSoFarHolds == IInv /\ [Next]_vars => TableSoFar'
<1> SUFFICES ASSUME IInv, [Next]_vars PROVE TableSoFar'
    OBVIOUS
<1>1. TableSoFar /\ FilesGiven /\ lines \in 0 .. LineCount
    BY DEF IInv, TypeOK
<1>2. topics' = topics /\ LineCount' = LineCount
    BY MainLeaves, OtherSteps, Zenon DEF mainVars, LineCount
<1>3. LineCount \in Nat /\ \A i \in 1 .. LineCount : topics[i] \in Seq(Token)
    BY <1>1, TopicLines
<1>4. \A i, t : Gives(i, t)' <=> Gives(i, t)
    BY <1>2 DEF Gives
<1>5. CASE LoadFileConfig
    <2> DEFINE e == EntryOf(topics[lines + 1])
    <2>1. /\ mpc' = "topics" /\ lines' = lines + 1 /\ lines + 1 \in 1 .. LineCount
          /\ Table' = Enter(Table, e)
        BY <1>1, <1>3, <1>5 DEF LoadFileConfig
    <2> HIDE DEF e
    <2>2. lines \in Nat /\ 1 .. lines' = (1 .. lines) \cup {lines + 1}
        BY <1>1, <1>3, <2>1
    <2>3. CASE e = NoEntry
        <3>1. Table' = Table
            BY <2>1, <2>3 DEF Enter
        <3>2. \A t : ~Gives(lines + 1, t)
            BY <2>3 DEF Gives, e
        <3>3. DOMAIN Table' = {EntryOf(topics'[i])[1] : i \in {j \in 1 .. lines' : EntryOf(topics'[j]) # NoEntry}}
            <4>1. {j \in 1 .. lines' : EntryOf(topics[j]) # NoEntry} = {j \in 1 .. lines : EntryOf(topics[j]) # NoEntry}
                BY <2>2, <2>3 DEF e
            <4> QED BY <1>1, <1>2, <3>1, <4>1 DEF TableSoFar
        <3>4. ASSUME NEW i \in 1 .. lines', NEW t \in DOMAIN Table', Gives(i, t),
                     \A j \in i + 1 .. lines' : ~Gives(j, t)
              PROVE  Table'[t] = EntryOf(topics[i])[2]
            <4>1. i \in 1 .. lines
                BY <2>2, <3>2, <3>4
            <4>2. \A j \in i + 1 .. lines : j \in i + 1 .. lines'
                BY <2>1, <2>2, <4>1
            <4> QED BY <1>1, <3>1, <3>4, <4>1, <4>2 DEF TableSoFar
        <3> QED BY <1>2, <1>4, <2>1, <3>3, <3>4 DEF TableSoFar
    <2>4. CASE e # NoEntry
        <3>1. /\ DOMAIN Table' = DOMAIN Table \cup {e[1]}
              /\ Table'[e[1]] = e[2]
              /\ \A t \in DOMAIN Table : t # e[1] => Table'[t] = Table[t]
            BY <2>1, <2>4, EnterIs, ZenonT(40)
        <3>2. \A t : Gives(lines + 1, t) <=> t = e[1]
            BY <2>4 DEF Gives, e
        <3>3. DOMAIN Table' = {EntryOf(topics'[i])[1] : i \in {j \in 1 .. lines' : EntryOf(topics'[j]) # NoEntry}}
            <4>1. {j \in 1 .. lines' : EntryOf(topics[j]) # NoEntry}
                      = {j \in 1 .. lines : EntryOf(topics[j]) # NoEntry} \cup {lines + 1}
                BY <2>2, <2>4 DEF e
            <4>2. DOMAIN Table = {EntryOf(topics[i])[1] : i \in {j \in 1 .. lines : EntryOf(topics[j]) # NoEntry}}
                BY <1>1 DEF TableSoFar
            <4> QED BY <1>2, <3>1, <4>1, <4>2 DEF e
        <3>4. ASSUME NEW i \in 1 .. lines', NEW t \in DOMAIN Table', Gives(i, t),
                     \A j \in i + 1 .. lines' : ~Gives(j, t)
              PROVE  Table'[t] = EntryOf(topics[i])[2]
            <4>1. CASE i = lines + 1
                BY <3>1, <3>2, <3>4, <4>1 DEF e
            <4>2. CASE i # lines + 1
                <5>1. i \in 1 .. lines /\ lines + 1 \in i + 1 .. lines'
                    BY <2>1, <2>2, <4>2
                <5>2. t # e[1]
                    BY <3>2, <3>4, <5>1
                <5>3. t \in DOMAIN Table /\ Table'[t] = Table[t]
                    BY <3>1, <5>2
                <5>4. \A j \in i + 1 .. lines : j \in i + 1 .. lines'
                    BY <2>1, <2>2, <5>1
                <5> QED BY <1>1, <3>4, <5>1, <5>3, <5>4 DEF TableSoFar
            <4> QED BY <4>1, <4>2
        <3> QED BY <1>2, <1>4, <2>1, <3>3, <3>4 DEF TableSoFar
    <2> QED BY <2>3, <2>4
<1>6. CASE Main /\ ~LoadFileConfig
    <2>1. Table' = Table /\ lines' = lines /\ (mpc' = "storage" => mpc = "storage" \/ SetTopicTable)
        BY <1>6, TableStays
    <2>2. SetTopicTable => lines = LineCount
        BY DEF SetTopicTable
    <2> QED BY <1>1, <1>2, <1>4, <2>1, <2>2 DEF TableSoFar
<1>7. CASE ~Main
    <2>1. UNCHANGED <<Table, lines, mpc>>
        BY <1>7, OtherSteps DEF mainVars
    <2> QED BY <1>1, <1>2, <1>4, <2>1 DEF TableSoFar
<1> QED BY <1>5, <1>6, <1>7 DEF Main

-----------------------------------------------------------------------------
(* The events created *)

LEMMA CreateStep ==
    ASSUME IInv, NEW c \in Creator, Create(c)
    PROVE  /\ UNCHANGED mainVars
           /\ created[c] # created'[c]
           /\ \/ /\ DrawId(c) /\ UNCHANGED <<returned, badCrc>>
              \/ /\ FindTable(c) /\ UNCHANGED <<returned, badCrc>>
              \/ /\ FillTable(c) /\ UNCHANGED <<returned, badCrc>>
              \/ /\ ReturnEvent(c)
                 /\ returned' = returned \cup {number[c]}
                 /\ badCrc' = IF TableRight(c) THEN badCrc ELSE badCrc \cup {number[c]}
<1>1. created \in [Creator -> {"none", "crc", "use"}]
    BY DEF IInv, TypeOK, FactoryTypeOK
<1> QED BY <1>1 DEF Create, DrawId, FindTable, FillTable, ReturnEvent

LEMMA FactoryTypeHolds == IInv /\ [Next]_vars => FactoryTypeOK' /\ returned' \subseteq Nat /\ badCrc' \subseteq returned'
<1> SUFFICES ASSUME IInv, [Next]_vars
             PROVE  FactoryTypeOK' /\ returned' \subseteq Nat /\ badCrc' \subseteq returned'
    OBVIOUS
<1>1. FactoryTypeOK /\ returned \subseteq Nat /\ badCrc \subseteq returned
    BY DEF IInv, TypeOK
<1>2. CASE Main \/ UNCHANGED vars
    <2>1. UNCHANGED <<factoryVars, returned, badCrc>>
        BY <1>2, MainLeaves DEF vars
    <2> QED BY <1>1, <2>1 DEF FactoryTypeOK, factoryVars
<1>3. ASSUME NEW c \in Creator, Create(c)
      PROVE  FactoryTypeOK' /\ returned' \subseteq Nat /\ badCrc' \subseteq returned'
    <2>1. CASE DrawId(c) /\ UNCHANGED <<returned, badCrc>>
        BY <1>1, <2>1 DEF FactoryTypeOK, DrawId
    <2>2. CASE FindTable(c) /\ UNCHANGED <<returned, badCrc>>
        BY <1>1, <2>2 DEF FactoryTypeOK, FindTable
    <2>3. CASE FillTable(c) /\ UNCHANGED <<returned, badCrc>>
        BY <1>1, <2>3 DEF FactoryTypeOK, FillTable
    <2>4. CASE /\ ReturnEvent(c) /\ returned' = returned \cup {number[c]}
               /\ badCrc' = IF TableRight(c) THEN badCrc ELSE badCrc \cup {number[c]}
        <3>1. FactoryTypeOK'
            BY <1>1, <2>4 DEF FactoryTypeOK, ReturnEvent
        <3>2. number[c] \in Nat
            BY <1>1 DEF FactoryTypeOK
        <3> QED BY <1>1, <2>4, <3>1, <3>2
    <2> QED BY <1>3, <2>1, <2>2, <2>3, <2>4, CreateStep
<1>4. ASSUME NEW c \in Creator, Visible(c)
      PROVE  FactoryTypeOK' /\ returned' \subseteq Nat /\ badCrc' \subseteq returned'
    <2>1. FactoryTypeOK'
        BY <1>1, <1>4 DEF FactoryTypeOK, Visible, StoreSeen
    <2> QED BY <1>1, <1>4, <2>1 DEF Visible
<1> QED BY <1>2, <1>3, <1>4 DEF Next

LEMMA TypeOKHolds == IInv /\ [Next]_vars => TypeOK'
<1> SUFFICES ASSUME IInv, [Next]_vars PROVE TypeOK'
    OBVIOUS
<1>1. /\ TypeOK /\ FilesGiven /\ ConfigLoaded /\ Constructed
      /\ FilesGiven' /\ ConfigLoaded'
    BY FilesStay, ConfigLoadedHolds DEF IInv
<1>2. FactoryTypeOK' /\ returned' \subseteq Nat /\ badCrc' \subseteq returned'
    BY FactoryTypeHolds
<1>3. /\ mpc' \in Ended \cup {"load", "signals", "topics", "storage", "pool", "unwind", "ready"}
      /\ handlers' \in BOOLEAN /\ g_running' \in BOOLEAN /\ open' \in BOOLEAN
    <2>0. /\ mpc \in Ended \cup {"load", "signals", "topics", "storage", "pool", "unwind", "ready"}
          /\ handlers \in BOOLEAN /\ g_running \in BOOLEAN /\ open \in BOOLEAN
        BY <1>1 DEF TypeOK
    <2>1. CASE Load
        BY <2>0, <2>1, LoadIs DEF Ended
    <2>2. CASE ConstructRest
        BY <2>0, <2>2, RestIs
    <2>3. CASE InstallHandlers \/ LoadFileConfig \/ SetTopicTable
        BY <2>0, <2>3 DEF InstallHandlers, LoadFileConfig, SetTopicTable, Step
    <2>4. CASE OpenStorage
        BY <2>0, <2>4 DEF OpenStorage, Step
    <2>5. CASE CreateWorker
        BY <2>0, <2>5 DEF Ended, CreateWorker
    <2>6. CASE Unwind \/ Signal
        BY <2>0, <2>6 DEF Ended, Unwind, Signal, Step
    <2>7. CASE ~Main
        BY <2>0, <2>7, OtherSteps DEF mainVars
    <2> QED BY <2>1, <2>2, <2>3, <2>4, <2>5, <2>6, <2>7 DEF Main
<1>4. config' = NoConfig \/ (DOMAIN config' = Key /\ DOMAIN doc' = Key)
    <2>1. ASSUME config' # NoConfig PROVE DOMAIN config' = Key /\ DOMAIN doc' = Key
        <3>1. PICK i \in Input : doc' = i[1]
            BY <1>1 DEF FilesGiven
        <3>2. /\ i[1] # NoFile /\ Converts(i[1]) /\ IsValid(AppConfiguration(i[1]))
              /\ config' = AppConfiguration(i[1])
            BY <1>1, <2>1, <3>1, Zenon DEF ConfigLoaded
        <3> QED BY <3>1, <3>2, FileNumbers
    <2> QED BY <2>1
<1>5. /\ \A t \in DOMAIN Table' : t \in Seq(Token) /\ Table'[t] \in EventPriority
      /\ lines' \in 0 .. LineCount'
    <2>1. /\ \A t \in DOMAIN Table : t \in Seq(Token) /\ Table[t] \in EventPriority
          /\ lines \in 0 .. LineCount
        BY <1>1 DEF TypeOK
    <2>2. LineCount' = LineCount
        BY MainLeaves, OtherSteps, Zenon DEF mainVars, LineCount
    <2>3. CASE LoadFileConfig
        <3>1. PICK e : /\ e = EntryOf(topics[lines + 1])
                       /\ lines' = lines + 1 /\ lines + 1 \in 1 .. LineCount
                       /\ Table' = Enter(Table, e)
            BY <1>1, <2>1, <2>3, TopicLines DEF LoadFileConfig
        <3>2. e = NoEntry \/ e \in Seq(Token) \X EventPriority
            <4>1. topics[lines + 1] \in Seq(Token)
                BY <1>1, <3>1, TopicLines
            <4> QED BY <3>1, <4>1, LineIsRead
        <3>3. CASE e = NoEntry
            BY <2>1, <2>2, <3>1, <3>3 DEF Enter
        <3>4. CASE e # NoEntry
            <4>1. e[1] \in Seq(Token) /\ e[2] \in EventPriority
                BY <3>2, <3>4
            <4>2. /\ DOMAIN Table' = DOMAIN Table \cup {e[1]}
                  /\ Table'[e[1]] = e[2]
                  /\ \A t \in DOMAIN Table : t # e[1] => Table'[t] = Table[t]
                BY <3>1, <3>4, EnterIs
            <4> QED BY <2>1, <2>2, <3>1, <4>1, <4>2
        <3> QED BY <3>3, <3>4
    <2>4. CASE Main /\ ~LoadFileConfig
        <3>1. Table' = Table /\ lines' = lines
            BY <2>4, TableStays
        <3> QED BY <2>1, <2>2, <3>1
    <2>5. CASE ~Main
        <3>1. UNCHANGED <<Table, lines>>
            BY <2>5, OtherSteps DEF mainVars
        <3> QED BY <2>1, <2>2, <3>1
    <2> QED BY <2>3, <2>4, <2>5
<1>6. workers' \in 0 .. IF config' = NoConfig THEN 0 ELSE PoolSize'
    <2>1. workers \in 0 .. IF config = NoConfig THEN 0 ELSE PoolSize
        BY <1>1 DEF TypeOK
    <2>2. config' = config => PoolSize' = PoolSize
        BY Zenon DEF PoolSize
    <2>3. CASE Load
        <3>1. workers' = 0
            BY <1>1, <2>3, LoadIs, ConstructedIs
        <3>2. config' # NoConfig => PoolSize' \in Nat
            <4>1. ASSUME config' # NoConfig PROVE PoolSize' \in Nat
                <5>1. PICK i \in Input : doc' = i[1]
                    BY <1>1 DEF FilesGiven
                <5>2. /\ i[1] # NoFile /\ Converts(i[1]) /\ IsValid(AppConfiguration(i[1]))
                      /\ config' = AppConfiguration(i[1])
                    BY <1>1, <4>1, <5>1, Zenon DEF ConfigLoaded
                <5>3. PICK n \in Nat : n = ThreadsIn(config')
                    <6>1. ThreadsIn(config') \in 1 .. SizeModulus - 1
                        BY <5>2, FileNumbers
                    <6> QED BY <6>1, StartupAssumption
                <5>4. PoolSize' = Size(n)
                    BY <5>3, Zenon DEF PoolSize, ThreadsIn
                <5> QED BY <5>4, StartupAssumption DEF Size
            <4> QED BY <4>1
        <3> QED BY <3>1, <3>2
    <2>4. CASE CreateWorker
        <3>1. mpc = "pool" /\ config' = config /\ workers < PoolSize /\ workers' \in {workers, workers + 1}
            BY <2>4 DEF CreateWorker
        <3>2. config # NoConfig
            BY <1>1, <3>1 DEF ConfigLoaded
        <3>3. PoolSize \in Nat \ {0}
            BY <1>1, <3>2, SizesAre
        <3> QED BY <2>1, <2>2, <3>1, <3>2, <3>3
    <2>5. CASE Main /\ ~Load /\ ~CreateWorker
        <3>1. UNCHANGED <<config, workers>>
            BY <2>5, Zenon DEF Main, InstallHandlers, LoadFileConfig, SetTopicTable, OpenStorage,
                               ConstructRest, Unwind, Signal
        <3> QED BY <2>1, <2>2, <3>1
    <2>6. CASE ~Main
        <3>1. UNCHANGED <<config, workers>>
            BY <2>6, OtherSteps DEF mainVars
        <3> QED BY <2>1, <2>2, <3>1
    <2> QED BY <2>3, <2>4, <2>5, <2>6
<1>7. serverPort' \in Nat /\ serverPort' < 65536
    <2>1. CASE ConstructRest
        BY <1>1, <2>1, RestIs, SizesAre DEF ConfigLoaded
    <2>2. CASE Main /\ ~ConstructRest
        <3>1. serverPort' = serverPort
            BY <2>2, Zenon DEF Main, Load, InstallHandlers, LoadFileConfig, SetTopicTable, OpenStorage,
                               CreateWorker, Unwind, Signal
        <3> QED BY <1>1, <3>1 DEF TypeOK
    <2>3. CASE ~Main
        <3>1. serverPort' = serverPort
            BY <2>3, OtherSteps DEF mainVars
        <3> QED BY <1>1, <3>1 DEF TypeOK
    <2> QED BY <2>1, <2>2, <2>3
<1> QED BY <1>2, <1>3, <1>4, <1>5, <1>6, <1>7 DEF TypeOK

LEMMA NumbersDrawnHolds == IInv /\ [Next]_vars => NumbersDrawn'
<1> SUFFICES ASSUME IInv, [Next]_vars PROVE NumbersDrawn'
    OBVIOUS
<1>1. /\ NumbersDrawn /\ FactoryTypeOK
      /\ returned \subseteq Nat /\ global_event_id \in Nat
      /\ created \in [Creator -> {"none", "crc", "use"}] /\ number \in [Creator -> Nat]
    BY DEF IInv, TypeOK, FactoryTypeOK
<1>2. CASE Main \/ UNCHANGED vars
    <2>1. UNCHANGED <<factoryVars, returned, badCrc>>
        BY <1>2, MainLeaves DEF vars
    <2> QED BY <1>1, <2>1 DEF NumbersDrawn, factoryVars
<1>3. ASSUME NEW c \in Creator, Create(c)
      PROVE  NumbersDrawn'
    <2>1. CASE DrawId(c) /\ UNCHANGED <<returned, badCrc>>
        <3>1. /\ global_event_id' = global_event_id + 1 /\ returned' = returned
              /\ number' = [number EXCEPT ![c] = global_event_id]
              /\ created' = [created EXCEPT ![c] = "crc"]
            BY <2>1 DEF DrawId
        <3>2. \A n \in returned' : n < global_event_id'
            BY <1>1, <3>1 DEF NumbersDrawn
        <3>3. /\ number'[c] = global_event_id
              /\ \A d \in Creator \ {c} : number'[d] = number[d] /\ created'[d] = created[d]
            BY <1>1, <3>1
        <3>4. number'[c] < global_event_id' /\ number'[c] \notin returned'
            BY <1>1, <3>1, <3>3 DEF NumbersDrawn
        <3>5. \A d \in Creator \ {c} : created'[d] # "none" =>
                  /\ number'[d] < global_event_id' /\ number'[d] \notin returned'
                  /\ number'[d] # number'[c]
            BY <1>1, <3>1, <3>3 DEF NumbersDrawn
        <3>6. \A d \in Creator \ {c} : \A e \in Creator \ {c, d} :
                  created'[d] # "none" /\ created'[e] # "none" => number'[e] # number'[d]
            BY <1>1, <3>3 DEF NumbersDrawn
        <3> QED BY <3>2, <3>4, <3>5, <3>6 DEF NumbersDrawn
    <2>2. CASE FindTable(c) /\ UNCHANGED <<returned, badCrc>>
        <3>1. /\ UNCHANGED <<global_event_id, returned, number>>
              /\ \A d \in Creator : created'[d] # "none" => created[d] # "none"
            BY <1>1, <2>2 DEF FindTable
        <3> QED BY <1>1, <3>1 DEF NumbersDrawn
    <2>3. CASE FillTable(c) /\ UNCHANGED <<returned, badCrc>>
        <3>1. /\ UNCHANGED <<global_event_id, returned, number>>
              /\ \A d \in Creator : created'[d] # "none" => created[d] # "none"
            BY <1>1, <2>3 DEF FillTable
        <3> QED BY <1>1, <3>1 DEF NumbersDrawn
    <2>4. CASE ReturnEvent(c) /\ returned' = returned \cup {number[c]}
        <3>1. /\ UNCHANGED <<global_event_id, number>> /\ created[c] # "none" /\ created'[c] = "none"
              /\ \A d \in Creator \ {c} : created'[d] = created[d]
            BY <1>1, <2>4 DEF ReturnEvent
        <3> QED BY <1>1, <2>4, <3>1 DEF NumbersDrawn
    <2> QED BY <1>3, <2>1, <2>2, <2>3, <2>4, CreateStep
<1>4. ASSUME NEW c \in Creator, Visible(c)
      PROVE  NumbersDrawn'
    <2>1. UNCHANGED <<global_event_id, returned, number, created>>
        BY <1>4 DEF Visible, StoreSeen
    <2> QED BY <1>1, <2>1 DEF NumbersDrawn
<1> QED BY <1>2, <1>3, <1>4 DEF Next

LEMMA FillersSeeTableHolds == IInv /\ [Next]_vars => FillersSeeTable'
<1> SUFFICES ASSUME IInv, [Next]_vars PROVE FillersSeeTable'
    OBVIOUS
<1>1. /\ FillersSeeTable /\ filled \subseteq Creator
      /\ unseen \in [Creator -> SUBSET (Entry \cup {Flag})]
    BY DEF IInv, TypeOK, FactoryTypeOK
<1>2. CASE Main \/ UNCHANGED vars
    <2>1. UNCHANGED <<factoryVars, returned, badCrc>>
        BY <1>2, MainLeaves DEF vars
    <2> QED BY <1>1, <2>1 DEF FillersSeeTable, TableRight, factoryVars
<1>3. ASSUME NEW c \in Creator, Create(c)
      PROVE  FillersSeeTable'
    <2>1. CASE FillTable(c)
        <3>1. /\ CRC32_TABLE' = CRC32_TABLE /\ filled' = filled \cup {c}
              /\ unseen'[c] = Entry \cup {Flag}
              /\ \A d \in Creator \ {c} : unseen'[d] = unseen[d]
            BY <1>1, <2>1 DEF FillTable
        <3> QED BY <1>1, <3>1 DEF FillersSeeTable, TableRight
    <2>2. CASE ~FillTable(c)
        <3>1. UNCHANGED <<CRC32_TABLE, filled, unseen>>
            BY <1>3, <2>2, CreateStep DEF DrawId, FindTable, ReturnEvent
        <3> QED BY <1>1, <3>1 DEF FillersSeeTable, TableRight
    <2> QED BY <2>1, <2>2
<1>4. ASSUME NEW c \in Creator, Visible(c)
      PROVE  FillersSeeTable'
    <2>1. PICK s \in unseen[c] : /\ unseen' = [unseen EXCEPT ![c] = @ \ {s}]
                                 /\ CRC32_TABLE' = CRC32_TABLE \cup ({s} \cap Entry)
                                 /\ filled' = filled
        BY <1>4 DEF Visible, StoreSeen
    <2>2. /\ unseen'[c] = unseen[c] \ {s}
          /\ \A d \in Creator \ {c} : unseen'[d] = unseen[d]
        BY <1>1, <2>1
    <2> QED BY <1>1, <2>1, <2>2 DEF FillersSeeTable, TableRight
<1> QED BY <1>2, <1>3, <1>4 DEF Next

-----------------------------------------------------------------------------
THEOREM Invariance == Spec => []IInv
<1>1. IInv /\ [Next]_vars => IInv'
    BY TypeOKHolds, FilesStay, ConfigLoadedHolds, ConstructedHolds, TableSoFarHolds,
       NumbersDrawnHolds, FillersSeeTableHolds DEF IInv
<1> QED BY InitHolds, <1>1, PTL DEF Spec

\* The type invariant of the start and the first events.
THEOREM TypeCorrect == Spec => []TypeOK
BY Invariance, PTL DEF IInv

\* Whatever the configuration file says, and however wide size_t is: when main
\* is ready, the port and the number of threads are those of the file.
LEMMA ReadyIsUsableFollows == IInv => ReadyIsUsable
<1> SUFFICES ASSUME IInv, mpc = "ready"
             PROVE  /\ serverPort = PortIn(doc) /\ serverPort > 0
                    /\ workers = ThreadsIn(doc) /\ workers > 0
                    /\ open
    BY Zenon DEF ReadyIsUsable, PortIn, ThreadsIn
<1>1. FilesGiven /\ ConfigLoaded /\ config # NoConfig
    BY DEF IInv, ConfigLoaded
<1>2. open /\ workers = PoolSize /\ serverPort = Port(PortIn(config))
    BY ConstructedIs DEF IInv
<1>3. /\ PortIn(doc) \in Nat \ {0} /\ Port(PortIn(config)) = PortIn(doc)
      /\ ThreadsIn(doc) \in Nat \ {0} /\ PoolSize = ThreadsIn(doc)
    BY <1>1, Conversions
<1> QED BY <1>2, <1>3

THEOREM ReadyUsable == Spec => []ReadyIsUsable
BY Invariance, ReadyIsUsableFollows, PTL

\* What a line says is about a part of the line.
LEMMA SaysPart ==
    ASSUME NEW line, NEW t, NEW p, Says(line, t, p)
    PROVE  t \in {SubSeq(line, i, j) : i, j \in 1 .. Len(line)}
<1>1. PICK colon, name \in 1 .. Len(line) :
          \E i \in 1 .. colon : \E j \in i .. colon - 1 : t = SubSeq(line, i, j)
    BY DEF Says
<1>2. PICK i \in 1 .. colon : \E j \in i .. colon - 1 : t = SubSeq(line, i, j)
    BY <1>1
<1>3. PICK j \in i .. colon - 1 : t = SubSeq(line, i, j)
    BY <1>2
<1>4. i \in 1 .. Len(line) /\ j \in 1 .. Len(line)
    OBVIOUS
<1> QED BY <1>3, <1>4

LEMMA TableIsTheFileFollows == IInv => TableIsTheFile
<1> SUFFICES ASSUME IInv, mpc = "storage", topics # NoTopics
             PROVE  /\ DOMAIN Table = TopicsNamed
                    /\ \A t \in TopicsNamed : Table[t] \in SaidOf(t, LastAbout(t))
    BY DEF TableIsTheFile
<1>1. /\ TableSoFar /\ lines = Len(topics) /\ Len(topics) \in Nat
      /\ \A i \in 1 .. Len(topics) : topics[i] \in Seq(Token) /\ topics[i] \in Range(topics)
    <2>1. TableSoFar /\ lines = LineCount /\ FilesGiven
        BY DEF IInv, TableSoFar
    <2>2. LineCount = Len(topics)
        BY DEF LineCount
    <2>3. Len(topics) \in Nat /\ \A i \in 1 .. Len(topics) : topics[i] \in Seq(Token)
        BY <2>1, <2>2, TopicLines
    <2>4. topics \in Seq(Seq(Token))
        BY <2>1, StartupAssumption DEF FilesGiven
    <2>5. \A i \in 1 .. Len(topics) : topics[i] \in Range(topics)
        BY <2>4 DEF Range
    <2> QED BY <2>1, <2>2, <2>3, <2>5
<1>2. ASSUME NEW i \in 1 .. Len(topics), NEW t
      PROVE  /\ SaidOf(t, i) # {} <=> Gives(i, t)
             /\ Gives(i, t) => EntryOf(topics[i])[2] \in SaidOf(t, i) /\ t \in Parts(topics[i])
    <2>1. PICK e : e = EntryOf(topics[i])
        OBVIOUS
    <2>2. /\ e = NoEntry \/ e \in Seq(Token) \X EventPriority
          /\ \A p : e # NoEntry => (Says(topics[i], t, p) <=> e = <<t, p>>)
          /\ \A p : e = NoEntry => ~Says(topics[i], t, p)
        BY <1>1, <2>1, LineIsRead
    <2>3. CASE e = NoEntry
        BY <2>1, <2>2, <2>3 DEF Gives, SaidOf
    <2>4. CASE e # NoEntry
        <3>1. PICK u \in Seq(Token), q \in EventPriority : e = <<u, q>>
            BY <2>2, <2>4
        <3>2. e[1] = u /\ e[2] = q /\ \A p : e = <<t, p>> <=> t = u /\ p = q
            BY <3>1
        <3>3. Gives(i, t) <=> t = u
            BY <2>1, <2>4, <3>2 DEF Gives
        <3>4. \A p : p \in SaidOf(t, i) <=> t = u /\ p = q
            BY <2>2, <2>4, <3>2 DEF SaidOf
        <3>5. ASSUME t = u PROVE t \in Parts(topics[i])
            <4>1. Says(topics[i], t, q)
                BY <3>4, <3>5 DEF SaidOf
            <4>2. t \in {SubSeq(topics[i], j, k) : j, k \in 1 .. Len(topics[i])}
                BY <4>1, SaysPart
            <4> QED BY <4>2 DEF Parts
        <3> QED BY <2>1, <3>2, <3>3, <3>4, <3>5
    <2> QED BY <2>3, <2>4
<1>3. DOMAIN Table = TopicsNamed
    <2>1. \A t : (\E i \in 1 .. Len(topics) : Gives(i, t)) =>
                    t \in UNION {Parts(line) : line \in Range(topics)}
        BY <1>1, <1>2
    <2>2. \A t : t \in DOMAIN Table <=> \E i \in 1 .. Len(topics) : Gives(i, t)
        BY <1>1 DEF TableSoFar, Gives
    <2> QED BY <1>2, <2>1, <2>2 DEF TopicsNamed
<1>4. ASSUME NEW t \in DOMAIN Table
      PROVE  Table[t] \in SaidOf(t, LastAbout(t))
    <2> DEFINE T == {i \in 1 .. Len(topics) : Gives(i, t)}
    <2>1. PICK m \in T : \A i \in T : i <= m
        <3>1. T \subseteq 1 .. Len(topics) /\ T # {}
            BY <1>1, <1>4 DEF TableSoFar, Gives
        <3> HIDE DEF T
        <3> QED BY <1>1, <3>1, MaxIs
    <2>2. m \in 1 .. Len(topics) /\ Gives(m, t)
          /\ \A j \in m + 1 .. Len(topics) : j \in 1 .. Len(topics) /\ ~Gives(j, t)
        BY <1>1, <2>1
    <2>3. SaidOf(t, m) # {} /\ \A j \in m + 1 .. Len(topics) : SaidOf(t, j) = {}
        BY <1>2, <2>2
    <2>4. ASSUME NEW i \in 1 .. Len(topics), SaidOf(t, i) # {},
                 \A j \in i + 1 .. Len(topics) : SaidOf(t, j) = {}
          PROVE  i = m
        <3>1. ~(i < m) /\ ~(m < i)
            BY <1>1, <2>2, <2>3, <2>4
        <3> QED BY <1>1, <2>2, <3>1
    <2>5. LastAbout(t) = m
        BY <2>2, <2>3, <2>4 DEF LastAbout
    <2>6. Table[t] = EntryOf(topics[m])[2]
        BY <1>1, <2>2 DEF TableSoFar
    <2> QED BY <1>2, <2>2, <2>5, <2>6
<1>5. \A t \in TopicsNamed : Table[t] \in SaidOf(t, LastAbout(t))
    BY <1>3, <1>4
<1> QED BY <1>3, <1>5

\* For every topic file: when the dispatcher is given the table, it holds what
\* the file says, the last line about a topic counting, and nothing else.
THEOREM TableSaysTheFile == Spec => []TableIsTheFile
BY Invariance, TableIsTheFileFollows, PTL

\* Numbers with the same remainder are the same or the modulus apart.
LEMMA Apart ==
    ASSUME NEW M \in Nat \ {0}, NEW m \in Nat, NEW n \in Nat, m < n, m % M = n % M
    PROVE  m + M <= n
<1>1. PICK a, b, r \in Nat : m = M * a + r /\ n = M * b + r
    <2>1. /\ m = M * (m \div M) + (m % M) /\ n = M * (n \div M) + (n % M)
          /\ m \div M \in Nat /\ n \div M \in Nat /\ m % M \in Nat
        OBVIOUS
    <2> QED BY <2>1
<1>2. PICK x, y \in Nat : x = M * a /\ y = M * b
    OBVIOUS
<1>3. x < y
    BY <1>1, <1>2
<1>4. a < b
    <2>1. b <= a => M * b <= M * a
        OBVIOUS
    <2> QED BY <1>2, <1>3, <2>1
<1>5. M * a + M <= M * b
    <2>1. PICK k \in Nat : b = a + 1 + k
        <3>1. b - a - 1 \in Nat /\ b = a + 1 + (b - a - 1)
            BY <1>4
        <3> QED BY <3>1
    <2>2. M * (a + 1 + k) = M * a + M + M * k /\ M * k \in Nat
        OBVIOUS
    <2> QED BY <1>2, <2>1, <2>2
<1> QED BY <1>1, <1>2, <1>5

LEMMA IdsApartFollows == IInv => IdsApart
<1> SUFFICES ASSUME IInv, NEW c \in Creator, created[c] # "none",
                    NEW n \in returned \cup {number[d] : d \in {d \in Creator \ {c} : created[d] # "none"}},
                    Id(n) = Id(number[c])
             PROVE  n + IdModulus <= number[c] \/ number[c] + IdModulus <= n
    BY DEF IdsApart
<1>1. /\ NumbersDrawn /\ returned \subseteq Nat /\ number \in [Creator -> Nat]
    BY DEF IInv, TypeOK, FactoryTypeOK
<1>2. n \in Nat /\ number[c] \in Nat
    BY <1>1
<1>3. n # number[c]
    BY <1>1 DEF NumbersDrawn
<1>4. n < number[c] \/ number[c] < n
    BY <1>2, <1>3
<1>5. n % IdModulus = number[c] % IdModulus
    BY DEF Id
<1> QED BY <1>2, <1>4, <1>5, Apart, FactoryAssumption

\* However many threads create events, and however their steps interleave: no
\* identifier comes again before all the others have been used.
THEOREM IdentifiersApart == Spec => []IdsApart
BY Invariance, IdsApartFollows, PTL

\* A thread that has filled the checksum table never returns a wrong checksum,
\* in whatever order the stores of the threads reach each other.
THEOREM FillersCompute == Spec => FillersAreRight
<1>1. ASSUME IInv, [Next]_vars, NEW c \in filled, created[c] = "use", created'[c] = "none"
      PROVE  badCrc' = badCrc
    <2>1. /\ created \in [Creator -> {"none", "crc", "use"}] /\ c \in Creator /\ TableRight(c)
        BY <1>1 DEF IInv, TypeOK, FactoryTypeOK, FillersSeeTable
    <2>2. CASE Main \/ UNCHANGED vars
        BY <2>2, MainLeaves DEF vars
    <2>3. ASSUME NEW d \in Creator, Create(d) PROVE badCrc' = badCrc
        <3>1. CASE ReturnEvent(d)
            <4>1. d = c
                BY <1>1, <2>1, <3>1 DEF ReturnEvent
            <4> QED BY <1>1, <2>1, <2>3, <3>1, <4>1, CreateStep
        <3>2. CASE ~ReturnEvent(d)
            BY <1>1, <2>3, <3>2, CreateStep
        <3> QED BY <3>1, <3>2
    <2>4. ASSUME NEW d \in Creator, Visible(d) PROVE badCrc' = badCrc
        BY <2>4 DEF Visible
    <2> QED BY <1>1, <2>2, <2>3, <2>4 DEF Next
<1>2. IInv /\ [Next]_vars =>
          [\A c \in filled : created[c] = "use" /\ created'[c] = "none" => badCrc' = badCrc]_vars
    BY <1>1
<1> QED BY Invariance, <1>2, PTL DEF Spec, FillersAreRight
=============================================================================
