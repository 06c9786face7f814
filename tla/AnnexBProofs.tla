----------------------------- MODULE AnnexBProofs -----------------------------
(***************************************************************************)
(* The conversion to Annex B for frames of any length.                      *)
(***************************************************************************)
EXTENDS AnnexB, Integers, SequenceTheorems, WellFoundedInduction, TLAPS

(* Induction over the natural numbers, over a set instead of a predicate. *)
LEMMA Counting ==
  ASSUME NEW N, 0 \in N, \A n \in Nat : n \in N => n + 1 \in N
  PROVE  Nat \subseteq N
<1> SUFFICES ASSUME Nat \ N # {} PROVE FALSE
  OBVIOUS
<1>1. PICK m \in Nat \ N : \A n \in Nat \ N : <<n, m>> \notin OpToRel(<, Nat)
  <2>. HIDE DEF OpToRel
  <2>. QED BY NatLessThanWellFounded, WFMin, Zenon
<1>2. \A n \in Nat \ N : ~(n < m)
  BY <1>1 DEF OpToRel
<1>3. m - 1 \in Nat /\ m - 1 \notin N
  OBVIOUS
<1>. QED BY <1>2, <1>3

-----------------------------------------------------------------------------
(* The loop.                                                                *)

End(d, o) == o + 4 + UInt32At(d, o)
Unit(d, o) == SubSeq(d, o + 5, End(d, o))

\* What the loop puts out from each offset of D on.
Writes(g, d, D) ==
    g = [o \in D |-> IF UnitFits(d, o) THEN startCode \o Unit(d, o) \o g[End(d, o)] ELSE <<>>]

LEMMA ConversionDef ==
  ASSUME NEW d
  PROVE  convertToAnnexB(d) = (CHOOSE g : Writes(g, d, 0..Len(d)))[0]
BY DEF convertToAnnexB, Writes, Unit, End

Data == Seq(Nat)

LEMMA Concatenated ==
  ASSUME NEW s \in Data, NEW t \in Data
  PROVE  /\ s \o t \in Data
         /\ Len(s \o t) = Len(s) + Len(t)
         /\ \A i \in 1..Len(s) + Len(t) : (s \o t)[i] = IF i <= Len(s) THEN s[i] ELSE t[i - Len(s)]
BY ConcatProperties DEF Data

LEMMA Associative ==
  ASSUME NEW s \in Data, NEW t \in Data, NEW u \in Data
  PROVE  (s \o t) \o u = s \o (t \o u)
BY ConcatAssociative DEF Data

\* A unit that fits ends behind its offset and within the block.
LEMMA EndAhead ==
  ASSUME NEW d \in Data, NEW o \in Nat, UnitFits(d, o)
  PROVE  /\ UInt32At(d, o) \in Nat
         /\ End(d, o) \in o + 5..Len(d)
<1>1. o + 1 \in 1..Len(d) /\ o + 2 \in 1..Len(d) /\ o + 3 \in 1..Len(d) /\ o + 4 \in 1..Len(d)
  BY LenProperties DEF Data, UnitFits
<1>2. d[o + 1] \in Nat /\ d[o + 2] \in Nat /\ d[o + 3] \in Nat /\ d[o + 4] \in Nat
  BY <1>1, ElementOfSeq DEF Data
<1>3. UInt32At(d, o) \in Nat
  BY <1>2 DEF UInt32At
<1>. QED  BY <1>3, LenProperties DEF Data, UnitFits, End

\* The last n offsets of a block, and its end.
LastOf(d, n) == {o \in 0..Len(d) : Len(d) - o <= n}

LEMMA WritesExists ==
  ASSUME NEW d \in Data
  PROVE  \E g : Writes(g, d, 0..Len(d))
<1> DEFINE N == {n \in Nat : \E g : Writes(g, d, LastOf(d, n))}
<1>0. Len(d) \in Nat
  BY LenProperties DEF Data
<1>1. 0 \in N
  <2>1. \A o \in LastOf(d, 0) : ~UnitFits(d, o)
    BY <1>0, EndAhead DEF LastOf
  <2>2. Writes([o \in LastOf(d, 0) |-> <<>>], d, LastOf(d, 0))
    BY <2>1 DEF Writes
  <2>. QED  BY <2>2
<1>2. ASSUME NEW n \in Nat, n \in N PROVE n + 1 \in N
  <2>1. PICK g : Writes(g, d, LastOf(d, n))
    BY <1>2
  <2> DEFINE h == [o \in LastOf(d, n + 1) |->
                     IF UnitFits(d, o) THEN startCode \o Unit(d, o) \o g[End(d, o)] ELSE <<>>]
  <2>2. ASSUME NEW o \in LastOf(d, n + 1), UnitFits(d, o)
        PROVE  g[End(d, o)] = h[End(d, o)]
    <3>1. End(d, o) \in LastOf(d, n) /\ End(d, o) \in LastOf(d, n + 1)
      BY <1>0, <2>2, EndAhead DEF LastOf
    <3>. QED  BY <2>1, <3>1 DEF Writes
  <2>3. Writes(h, d, LastOf(d, n + 1))
    BY <2>2 DEF Writes
  <2>. QED  BY <2>3
<1>3. Len(d) \in N
  <2>. HIDE DEF N
  <2>. QED  BY <1>0, <1>1, <1>2, Counting
<1>4. LastOf(d, Len(d)) = 0..Len(d)
  BY <1>0 DEF LastOf
<1>. QED  BY <1>3, <1>4

\* What a block holds at an offset, seen behind p.
LEMMA Shifted ==
  ASSUME NEW p \in Data, NEW d \in Data, NEW o \in Nat
  PROVE  /\ UnitFits(p \o d, Len(p) + o) <=> UnitFits(d, o)
         /\ UnitFits(d, o) =>
              /\ End(p \o d, Len(p) + o) = Len(p) + End(d, o)
              /\ Unit(p \o d, Len(p) + o) = Unit(d, o)
<1> DEFINE e == p \o d
           q == Len(p) + o
<1>0. Len(p) \in Nat /\ Len(d) \in Nat /\ q \in Nat
  BY LenProperties DEF Data
<1>1. /\ e \in Data
      /\ Len(e) = Len(p) + Len(d)
      /\ \A i \in 1..Len(d) : e[Len(p) + i] = d[i]
  <2>1. /\ e \in Data
        /\ Len(e) = Len(p) + Len(d)
        /\ \A i \in 1..Len(p) + Len(d) : e[i] = IF i <= Len(p) THEN p[i] ELSE d[i - Len(p)]
    BY Concatenated
  <2>. HIDE DEF e
  <2>2. ASSUME NEW i \in 1..Len(d) PROVE e[Len(p) + i] = d[i]
    <3>1. Len(p) + i \in 1..Len(p) + Len(d) /\ ~(Len(p) + i <= Len(p)) /\ (Len(p) + i) - Len(p) = i
      BY <1>0
    <3>. QED  BY <2>1, <3>1
  <2>. QED  BY <2>1, <2>2
<1>. HIDE DEF e
<1>2. ASSUME o + 4 <= Len(d) PROVE UInt32At(e, q) = UInt32At(d, o)
  <2>1. /\ e[Len(p) + (o + 1)] = d[o + 1] /\ e[Len(p) + (o + 2)] = d[o + 2]
        /\ e[Len(p) + (o + 3)] = d[o + 3] /\ e[Len(p) + (o + 4)] = d[o + 4]
    BY <1>0, <1>1, <1>2
  <2>2. /\ q + 1 = Len(p) + (o + 1) /\ q + 2 = Len(p) + (o + 2)
        /\ q + 3 = Len(p) + (o + 3) /\ q + 4 = Len(p) + (o + 4)
    BY <1>0
  <2>. QED  BY <2>1, <2>2 DEF UInt32At
<1>3. q + 4 <= Len(e) <=> o + 4 <= Len(d)
  BY <1>0, <1>1
<1>4. ASSUME o + 4 <= Len(d) PROVE UInt32At(d, o) \in Nat
  <2>1. o + 1 \in 1..Len(d) /\ o + 2 \in 1..Len(d) /\ o + 3 \in 1..Len(d) /\ o + 4 \in 1..Len(d)
    BY <1>0, <1>4
  <2>2. d[o + 1] \in Nat /\ d[o + 2] \in Nat /\ d[o + 3] \in Nat /\ d[o + 4] \in Nat
    BY <2>1, ElementOfSeq DEF Data
  <2>. QED  BY <2>2 DEF UInt32At
<1>5. UnitFits(e, q) <=> UnitFits(d, o)
  <2>1. CASE o + 4 <= Len(d)
    <3> DEFINE l == UInt32At(d, o)
    <3>1. l \in Nat /\ UInt32At(e, q) = l
      BY <1>2, <1>4, <2>1
    <3>. HIDE DEF l
    <3>2. q + 4 + l <= Len(e) <=> o + 4 + l <= Len(d)
      BY <1>0, <1>1, <3>1
    <3>. QED  BY <1>3, <3>1, <3>2, <2>1 DEF UnitFits, l
  <2>. QED  BY <1>3, <2>1 DEF UnitFits
<1>6. ASSUME UnitFits(d, o) PROVE End(e, q) = Len(p) + End(d, o) /\ Unit(e, q) = Unit(d, o)
  <2>1. UInt32At(e, q) = UInt32At(d, o) /\ UInt32At(d, o) \in Nat
    BY <1>2, <1>4, <1>6 DEF UnitFits
  <2>2. End(e, q) = Len(p) + End(d, o) /\ End(d, o) \in o + 5..Len(d)
    BY <1>0, <1>6, <2>1, EndAhead DEF End
  <2> DEFINE m == q + 5
             n == End(e, q)
  <2>3. m \in Len(p) + 1..Len(p) + Len(d) /\ n \in Len(p) + 1..Len(p) + Len(d)
        /\ m - Len(p) = o + 5 /\ n - Len(p) = End(d, o)
    BY <1>0, <2>2
  <2>. HIDE DEF m, n
  <2>4. SubSeq(e, m, n) = SubSeq(d, m - Len(p), n - Len(p))
    BY <2>3, SubSeqOfConcat2 DEF e, Data
  <2>. QED  BY <2>2, <2>3, <2>4 DEF Unit, m, n
<1>. QED  BY <1>5, <1>6 DEF e

\* So what is put out from an offset on depends on the bytes behind it only.
LEMMA WritesShifted ==
  ASSUME NEW p \in Data, NEW d \in Data, NEW g, NEW h,
         Writes(g, p \o d, 0..Len(p) + Len(d)), Writes(h, d, 0..Len(d))
  PROVE  \A o \in 0..Len(d) : g[Len(p) + o] = h[o]
<1> DEFINE N == {n \in Nat : \A o \in LastOf(d, n) : g[Len(p) + o] = h[o]}
<1>0. Len(p) \in Nat /\ Len(d) \in Nat
  BY LenProperties DEF Data
<1>s. ASSUME NEW o \in 0..Len(d), UnitFits(d, o) => g[Len(p) + End(d, o)] = h[End(d, o)]
      PROVE  g[Len(p) + o] = h[o]
  <2>1. Len(p) + o \in 0..Len(p) + Len(d) /\ o \in Nat
    BY <1>0
  <2>2. h[o] = IF UnitFits(d, o) THEN startCode \o Unit(d, o) \o h[End(d, o)] ELSE <<>>
    BY DEF Writes
  <2>3. g[Len(p) + o] = IF UnitFits(p \o d, Len(p) + o)
                        THEN startCode \o Unit(p \o d, Len(p) + o) \o g[End(p \o d, Len(p) + o)]
                        ELSE <<>>
    BY <2>1 DEF Writes
  <2>. QED  BY <1>s, <2>1, <2>2, <2>3, Shifted
<1>1. 0 \in N
  <2>1. \A o \in LastOf(d, 0) : o \in 0..Len(d) /\ ~UnitFits(d, o)
    BY <1>0, EndAhead DEF LastOf
  <2>. QED  BY <1>s, <2>1
<1>2. ASSUME NEW n \in Nat, n \in N PROVE n + 1 \in N
  <2>1. ASSUME NEW o \in LastOf(d, n + 1) PROVE g[Len(p) + o] = h[o]
    <3>1. o \in 0..Len(d) /\ (UnitFits(d, o) => End(d, o) \in LastOf(d, n))
      BY <1>0, EndAhead DEF LastOf
    <3>. QED  BY <1>2, <1>s, <3>1
  <2>. QED  BY <2>1
<1>3. Len(d) \in N
  <2>. HIDE DEF N
  <2>. QED  BY <1>0, <1>1, <1>2, Counting
<1>4. LastOf(d, Len(d)) = 0..Len(d)
  BY <1>0 DEF LastOf
<1>. QED  BY <1>3, <1>4

\* What is put out are bytes again.
LEMMA ConversionTyped ==
  ASSUME NEW d \in Data
  PROVE  convertToAnnexB(d) \in Data
<1> DEFINE g == CHOOSE g0 : Writes(g0, d, 0..Len(d))
           N == {n \in Nat : \A o \in LastOf(d, n) : g[o] \in Data}
<1>0. Len(d) \in Nat /\ startCode \in Data /\ <<>> \in Data
  BY LenProperties DEF Data, startCode
<1>1. Writes(g, d, 0..Len(d))
  BY WritesExists
<1>2. convertToAnnexB(d) = g[0]
  BY ConversionDef
<1>. HIDE DEF g
<1>3. ASSUME NEW o \in 0..Len(d), UnitFits(d, o) => g[End(d, o)] \in Data
      PROVE  g[o] \in Data
  <2>1. CASE UnitFits(d, o)
    <3>1. \A i \in o + 5..End(d, o) : d[i] \in Nat
      BY <1>0, <2>1, EndAhead, ElementOfSeq DEF Data
    <3>2. Unit(d, o) \in Data
      BY <2>1, <3>1, EndAhead, SubSeqProperties DEF Unit, Data
    <3>3. g[o] = startCode \o Unit(d, o) \o g[End(d, o)]
      BY <1>1, <2>1 DEF Writes
    <3> DEFINE u == Unit(d, o)
               e == g[End(d, o)]
    <3>4. u \in Data /\ e \in Data
      BY <1>3, <2>1, <3>2
    <3>. HIDE DEF u, e
    <3>5. startCode \o u \o e \in Data
      BY <1>0, <3>4, Concatenated
    <3>. QED  BY <3>3, <3>5 DEF u, e
  <2>2. CASE ~UnitFits(d, o)
    BY <1>0, <1>1, <2>2 DEF Writes
  <2>. QED  BY <2>1, <2>2
<1>4. 0 \in N
  <2>1. \A o \in LastOf(d, 0) : o \in 0..Len(d) /\ ~UnitFits(d, o)
    BY <1>0, EndAhead DEF LastOf
  <2>. QED  BY <1>3, <2>1
<1>5. ASSUME NEW n \in Nat, n \in N PROVE n + 1 \in N
  <2>1. ASSUME NEW o \in LastOf(d, n + 1) PROVE g[o] \in Data
    <3>1. o \in 0..Len(d) /\ (UnitFits(d, o) => End(d, o) \in LastOf(d, n))
      BY <1>0, EndAhead DEF LastOf
    <3>. QED  BY <1>3, <1>5, <3>1
  <2>. QED  BY <2>1
<1>6. Len(d) \in N
  <2>. HIDE DEF N
  <2>. QED  BY <1>0, <1>4, <1>5, Counting
<1>7. 0 \in LastOf(d, Len(d))
  BY <1>0 DEF LastOf
<1>. QED  BY <1>2, <1>6, <1>7

\* Nothing is put out when the first length is zero or its unit does not fit.
LEMMA NothingFits ==
  ASSUME NEW d \in Data, ~UnitFits(d, 0)
  PROVE  convertToAnnexB(d) = <<>>
<1> DEFINE g == CHOOSE g0 : Writes(g0, d, 0..Len(d))
<1>1. Writes(g, d, 0..Len(d))
  BY WritesExists
<1>2. 0 \in 0..Len(d)
  BY LenProperties DEF Data
<1>. HIDE DEF g
<1>3. g[0] = <<>>
  BY <1>1, <1>2 DEF Writes
<1>. QED  BY <1>3, ConversionDef DEF g

\* A unit that fits is put out behind a start code, and then what follows it.
LEMMA FirstFits ==
  ASSUME NEW p \in Data, NEW r \in Data, UnitFits(p \o r, 0), End(p \o r, 0) = Len(p)
  PROVE  convertToAnnexB(p \o r) = startCode \o Unit(p \o r, 0) \o convertToAnnexB(r)
<1> DEFINE d == p \o r
           g == CHOOSE g0 : Writes(g0, d, 0..Len(d))
           h == CHOOSE h0 : Writes(h0, r, 0..Len(r))
<1>0. d \in Data /\ Len(d) = Len(p) + Len(r) /\ Len(d) \in Nat /\ Len(p) \in Nat /\ Len(r) \in Nat
  BY Concatenated, LenProperties DEF Data
<1>. HIDE DEF d
<1>1. Writes(g, d, 0..Len(d)) /\ Writes(h, r, 0..Len(r))
  BY <1>0, WritesExists
<1>2. convertToAnnexB(d) = g[0] /\ convertToAnnexB(r) = h[0]
  BY ConversionDef
<1>. HIDE DEF g, h
<1>3. g[0] = startCode \o Unit(d, 0) \o g[End(d, 0)]
  BY <1>0, <1>1 DEF Writes, d
<1>4. g[Len(p) + 0] = h[0]
  BY <1>0, <1>1, WritesShifted DEF d
<1>5. End(d, 0) = Len(p) + 0
  BY <1>0 DEF d
<1>. QED  BY <1>2, <1>3, <1>4, <1>5 DEF d

-----------------------------------------------------------------------------
(* Frames of several units.                                                 *)

\* A number is the value of its four bytes.
LEMMA DivDiv ==
  ASSUME NEW n \in Nat, NEW m \in {256, 256 * 256}
  PROVE  (n \div m) \div 256 = n \div (m * 256) /\ n \div m \in Nat
<1>1. CASE m = 256
  BY <1>1, SMTT(30)
<1>2. CASE m = 256 * 256
  BY <1>2, SMTT(30)
<1>. QED  BY <1>1, <1>2

LEMMA Digits ==
  ASSUME NEW n \in Nat
  PROVE  (((n \div (256 * 256 * 256)) * 256 + ((n \div (256 * 256)) % 256)) * 256
            + ((n \div 256) % 256)) * 256 + (n % 256) = n
<1> DEFINE a == n \div 256
           b == n \div (256 * 256)
           c == n \div (256 * 256 * 256)
<1>1. a \in Nat /\ b \in Nat /\ c \in Nat /\ a \div 256 = b /\ b \div 256 = c
  BY DivDiv
<1>2. n = a * 256 + (n % 256)
  OBVIOUS
<1>. HIDE DEF a, b, c
<1>3. a = b * 256 + (a % 256) /\ b = c * 256 + (b % 256)
  BY <1>1
<1>. QED  BY <1>1, <1>2, <1>3 DEF a, b, c

\* A frame with a prefix for its first unit.
LEMMA FirstUnit ==
  ASSUME NEW u \in Data, u # <<>>, NEW r \in Data
  PROVE  /\ LengthPrefixed(u) \in Data /\ Len(LengthPrefixed(u)) = 4 + Len(u)
         /\ UInt32At(LengthPrefixed(u) \o r, 0) = Len(u)
         /\ convertToAnnexB(LengthPrefixed(u) \o r) = startCode \o u \o convertToAnnexB(r)
<1> DEFINE b == BigEndian(Len(u))
           p == LengthPrefixed(u)
           d == p \o r
<1>0. Len(u) \in Nat /\ Len(u) > 0 /\ Len(r) \in Nat
  BY EmptySeq, LenProperties DEF Data
<1>1. b \in Data /\ Len(b) = 4
  <2>1. /\ Len(u) \div (256 * 256 * 256) \in Nat /\ (Len(u) \div (256 * 256)) % 256 \in Nat
        /\ (Len(u) \div 256) % 256 \in Nat /\ Len(u) % 256 \in Nat
    BY <1>0
  <2>. QED  BY <2>1 DEF BigEndian, Data
<1>2. p \in Data /\ Len(p) = 4 + Len(u)
  <2>. HIDE DEF b
  <2>1. p = b \o u
    BY DEF LengthPrefixed, b
  <2>. HIDE DEF p
  <2>2. b \o u \in Data /\ Len(b \o u) = Len(b) + Len(u)
    BY <1>1, Concatenated
  <2>. QED  BY <1>1, <2>1, <2>2
<1>3. \A i \in 1..4 : d[i] = b[i]
  <2>. HIDE DEF b
  <2>1. p = b \o u
    BY DEF LengthPrefixed, b
  <2>. HIDE DEF p
  <2>2. \A i \in 1..4 : p[i] = b[i]
    <3>1. ASSUME NEW i \in 1..4 PROVE (b \o u)[i] = b[i]
      <4>1. i \in 1..Len(b) + Len(u) /\ i <= Len(b)
        BY <1>0, <1>1
      <4>. HIDE DEF d
      <4>. QED  BY <1>1, <4>1, Concatenated
    <3>. QED  BY <2>1, <3>1
  <2>3. \A i \in 1..4 : d[i] = p[i]
    BY <1>0, <1>2, Concatenated
  <2>. QED  BY <2>2, <2>3
<1>4. d \in Data /\ Len(d) = 4 + Len(u) + Len(r)
  <2>. HIDE DEF p
  <2>. QED  BY <1>2, Concatenated
<1>5. UInt32At(d, 0) = Len(u)
  <2>. HIDE DEF d
  <2>1. UInt32At(d, 0) = ((b[1] * 256 + b[2]) * 256 + b[3]) * 256 + b[4]
    BY <1>3 DEF UInt32At
  <2>2. /\ b[1] = Len(u) \div (256 * 256 * 256) /\ b[2] = (Len(u) \div (256 * 256)) % 256
        /\ b[3] = (Len(u) \div 256) % 256 /\ b[4] = Len(u) % 256
    BY DEF BigEndian
  <2>. HIDE DEF b
  <2>. QED  BY <1>0, <2>1, <2>2, Digits
<1>6. UnitFits(d, 0) /\ End(d, 0) = Len(p)
  <2>. HIDE DEF d, p
  <2>. QED  BY <1>0, <1>2, <1>4, <1>5 DEF UnitFits, End
<1>7. Unit(d, 0) = u
  <2>. HIDE DEF b
  <2>1. p = b \o u
    BY DEF LengthPrefixed, b
  <2>. HIDE DEF p
  <2>2. SubSeq(d, 5, 4 + Len(u)) = SubSeq(p, 5, 4 + Len(u))
    BY <1>0, <1>2, SubSeqOfConcat1 DEF Data
  <2>3. SubSeq(p, 5, 4 + Len(u)) = SubSeq(u, 5 - 4, (4 + Len(u)) - 4)
    <3>1. 5 \in Len(b) + 1..Len(b) + Len(u) /\ 4 + Len(u) \in Len(b) + 1..Len(b) + Len(u)
      BY <1>0, <1>1
    <3>. HIDE DEF d
    <3>2. SubSeq(b \o u, 5, 4 + Len(u)) = SubSeq(u, 5 - Len(b), (4 + Len(u)) - Len(b))
      BY <1>1, <3>1, SubSeqOfConcat2 DEF Data
    <3>. QED  BY <1>1, <2>1, <3>2
  <2>4. SubSeq(u, 1, Len(u)) = u
    BY SubSeqFull DEF Data
  <2>5. End(d, 0) = 4 + Len(u)
    BY <1>2, <1>6
  <2>. HIDE DEF d
  <2>. QED  BY <1>0, <2>2, <2>3, <2>4, <2>5 DEF Unit
<1>8. p \o r = d
  OBVIOUS
<1>. HIDE DEF d, p
<1>9. convertToAnnexB(d) = startCode \o Unit(d, 0) \o convertToAnnexB(r)
  BY <1>2, <1>6, <1>8, FirstFits
<1>. QED  BY <1>2, <1>5, <1>7, <1>8, <1>9 DEF p

\* How the library joins the sequences of a sequence, one by one.
Joins(g, s, D) == g = [i \in D |-> IF i = 1 THEN s[i] ELSE g[i - 1] \o s[i]]

LEMMA FlattenDef ==
  ASSUME NEW s, Len(s) # 0
  PROVE  FlattenSeq(s) = (CHOOSE g : Joins(g, s, 1..Len(s)))[Len(s)]
BY DEF FlattenSeq, Joins

LEMMA JoinsExists ==
  ASSUME NEW s, NEW n \in Nat
  PROVE  \E g : Joins(g, s, 1..n)
<1> DEFINE N == {k \in Nat : \E g : Joins(g, s, 1..k)}
<1>1. 0 \in N
  <2>1. Joins([i \in 1..0 |-> <<>>], s, 1..0)
    BY DEF Joins
  <2>. QED  BY <2>1
<1>2. ASSUME NEW k \in Nat, k \in N PROVE k + 1 \in N
  <2>1. PICK g : Joins(g, s, 1..k)
    BY <1>2
  <2> DEFINE h == [i \in 1..k + 1 |-> IF i = 1 THEN s[i] ELSE g[i - 1] \o s[i]]
  <2>2. ASSUME NEW i \in 1..k + 1, i # 1 PROVE g[i - 1] = h[i - 1]
    <3>1. i - 1 \in 1..k /\ i - 1 \in 1..k + 1
      BY <2>2
    <3>. QED  BY <2>1, <3>1 DEF Joins
  <2>3. Joins(h, s, 1..k + 1)
    BY <2>2 DEF Joins
  <2>. QED  BY <2>3
<1>. HIDE DEF N
<1>3. n \in N
  BY <1>1, <1>2, Counting
<1>. QED  BY <1>3 DEF N

\* Units one after another, with their lengths in front and with start codes.
WithLengths(us) == [i \in DOMAIN us |-> LengthPrefixed(us[i])]
WithCodes(us) == [i \in DOMAIN us |-> startCode \o us[i]]

Frames(us, n, g, h) ==
    /\ n \in Nat /\ us \in [1..n -> Data \ {<<>>}]
    /\ Joins(g, WithLengths(us), 1..n) /\ Joins(h, WithCodes(us), 1..n)

\* The bytes of x come out as those of y, whatever follows them.
Becomes(x, y) ==
    /\ x \in Data /\ y \in Data
    /\ \A r \in Data : convertToAnnexB(x \o r) = y \o convertToAnnexB(r)

LEMMA JoinedConverted ==
  ASSUME NEW us, NEW n, NEW g, NEW h, Frames(us, n, g, h), NEW m \in 1..n
  PROVE  Becomes(g[m], h[m])
<1> DEFINE OK(k) == Becomes(g[k], h[k])
           N == {k \in Nat : k \in 1..n => OK(k)}
           s == WithLengths(us)
           t == WithCodes(us)
<1>a. n \in Nat /\ us \in [1..n -> Data \ {<<>>}] /\ Joins(g, s, 1..n) /\ Joins(h, t, 1..n)
  BY DEF Frames
<1>. HIDE DEF s, t
<1>0. startCode \in Data
  BY DEF startCode, Data
<1>1. 0 \in N
  BY <1>a
<1>2. ASSUME NEW k \in Nat, k \in N PROVE k + 1 \in N
  <2> SUFFICES ASSUME k + 1 \in 1..n PROVE OK(k + 1)
    BY <1>2
  <2> DEFINE u == us[k + 1]
  <2>1. u \in Data /\ u # <<>> /\ s[k + 1] = LengthPrefixed(u) /\ t[k + 1] = startCode \o u
    BY <1>a DEF WithLengths, WithCodes, s, t
  <2>. HIDE DEF u
  <2>2. LengthPrefixed(u) \in Data /\ startCode \o u \in Data
    BY <1>0, <2>1, FirstUnit, Concatenated
  <2>3. \A r \in Data : convertToAnnexB(r) \in Data
    BY ConversionTyped
  <2>4. \A r \in Data : convertToAnnexB(LengthPrefixed(u) \o r)
                          = (startCode \o u) \o convertToAnnexB(r)
    BY <2>1, FirstUnit
  <2>5. CASE k = 0
    <3>1. g[k + 1] = LengthPrefixed(u) /\ h[k + 1] = startCode \o u
      BY <1>a, <2>1, <2>5 DEF Joins
    <3>. QED  BY <2>2, <2>4, <3>1 DEF Becomes
  <2>6. CASE k # 0
    <3>1. k \in 1..n /\ (k + 1) - 1 = k /\ k + 1 # 1 /\ OK(k)
      BY <1>a, <1>2, <2>6
    <3> DEFINE a == g[k]
               b == h[k]
    <3>2. g[k + 1] = a \o LengthPrefixed(u) /\ h[k + 1] = b \o (startCode \o u)
      BY <1>a, <2>1, <3>1 DEF Joins
    <3>3. a \in Data /\ b \in Data /\ \A r \in Data : convertToAnnexB(a \o r) = b \o convertToAnnexB(r)
      BY <3>1 DEF Becomes
    <3>. HIDE DEF a, b
    <3>4. g[k + 1] \in Data /\ h[k + 1] \in Data
      BY <2>2, <3>2, <3>3, Concatenated
    <3>5. ASSUME NEW r \in Data
          PROVE  convertToAnnexB(g[k + 1] \o r) = h[k + 1] \o convertToAnnexB(r)
      <4>1. LengthPrefixed(u) \o r \in Data
        BY <2>2, Concatenated
      <4>2. g[k + 1] \o r = a \o (LengthPrefixed(u) \o r)
        <5>1. (a \o LengthPrefixed(u)) \o r = a \o (LengthPrefixed(u) \o r)
          BY <2>2, <3>3, Associative
        <5>. QED  BY <3>2, <5>1
      <4>3. h[k + 1] \o convertToAnnexB(r) = b \o ((startCode \o u) \o convertToAnnexB(r))
        <5> DEFINE v == startCode \o u
                   w == convertToAnnexB(r)
        <5>1. v \in Data /\ w \in Data
          BY <2>2, <2>3
        <5>. HIDE DEF v, w
        <5>2. (b \o v) \o w = b \o (v \o w)
          BY <3>3, <5>1, Associative
        <5>. QED  BY <3>2, <5>2 DEF v, w
      <4>. QED  BY <2>4, <3>3, <4>1, <4>2, <4>3
    <3>. QED  BY <3>4, <3>5 DEF Becomes
  <2>. QED  BY <2>5, <2>6
<1>. HIDE DEF N
<1>3. \A k \in Nat : k \in N
  BY <1>1, <1>2, Counting
<1>. QED  BY <1>a, <1>3 DEF N

LEMMA UnitsTyped ==
  ASSUME NEW u \in Units
  PROVE  u \in Data /\ u # <<>> /\ Len(u) \in Nat /\ Len(u) < 256 * 256 * 256
<1>1. \A x \in Bytes : x \in Nat
  BY BytesAssumption
<1>2. PICK m \in 0..MaxUnit : u \in [1..m -> Bytes]
  BY DEF Units, BoundedSeq, SeqOf
<1>3. m \in Nat /\ m <= MaxUnit /\ u \in [1..m -> Nat]
  <2>1. MaxUnit \in Nat
    BY BytesAssumption
  <2>. QED  BY <1>1, <1>2, <2>1
<1>5. u \in Data /\ Len(u) = m
  BY <1>3 DEF Data
<1>4. u # <<>>
  BY DEF Units
<1>. QED  BY <1>3, <1>4, <1>5, BytesAssumption

\* The tails the property looks at: a unit cut short, no length at all, too great a length.
LEMMA BrokenFitsNot ==
  ASSUME NEW r \in Broken
  PROVE  r \in Data /\ ~UnitFits(r, 0)
<1>1. ASSUME NEW u \in Units, NEW n \in 0..Len(u) + 3, r = SubSeq(LengthPrefixed(u), 1, n)
      PROVE  r \in Data /\ ~UnitFits(r, 0)
  <2> DEFINE p == LengthPrefixed(u)
  <2>1. Len(u) \in Nat /\ u \in Data /\ u # <<>> /\ <<>> \in Data
    BY UnitsTyped, EmptySeq DEF Data
  <2>2. p \in Data /\ Len(p) = 4 + Len(u) /\ UInt32At(p \o <<>>, 0) = Len(u)
    BY <2>1, FirstUnit
  <2>. HIDE DEF p
  <2>3. p \o <<>> = p
    BY <2>2, ConcatEmptySeq DEF Data
  <2>4. \A i \in 1..n : p[i] \in Nat
    BY <2>1, <2>2, ElementOfSeq DEF Data
  <2>5. r \in Data /\ Len(r) = n /\ \A i \in 1..n : r[i] = p[i]
    BY <1>1, <2>4, SubSeqProperties DEF Data, p
  <2>6. ASSUME UnitFits(r, 0) PROVE FALSE
    <3>1. n >= 4
      BY <2>5, <2>6 DEF UnitFits
    <3>2. UInt32At(r, 0) = UInt32At(p, 0)
      BY <2>5, <3>1 DEF UInt32At
    <3>. QED  BY <2>1, <2>2, <2>3, <2>5, <2>6, <3>2 DEF UnitFits
  <2>. QED  BY <2>5, <2>6
<1>2. ASSUME NEW u \in Units, NEW x \in {0, 1}, r = <<x, 0, 0, 0>> \o u
      PROVE  r \in Data /\ ~UnitFits(r, 0)
  <2> DEFINE p == <<x, 0, 0, 0>>
  <2>1. p \in Data /\ Len(p) = 4 /\ p[1] = x /\ p[2] = 0 /\ p[3] = 0 /\ p[4] = 0
    BY DEF Data
  <2>2. u \in Data /\ Len(u) \in Nat /\ Len(u) < 256 * 256 * 256
    BY UnitsTyped
  <2>. HIDE DEF p
  <2>3. r \in Data /\ Len(r) = 4 + Len(u) /\ \A i \in 1..4 : r[i] = p[i]
    <3>1. r = p \o u
      BY <1>2 DEF p
    <3>2. p \o u \in Data /\ Len(p \o u) = 4 + Len(u)
      BY <2>1, <2>2, Concatenated
    <3>3. ASSUME NEW i \in 1..4 PROVE (p \o u)[i] = p[i]
      <4>1. i \in 1..Len(p) + Len(u) /\ i <= Len(p)
        BY <2>1, <2>2
      <4>. QED  BY <2>1, <2>2, <4>1, Concatenated
    <3>. QED  BY <3>1, <3>2, <3>3
  <2>4. UInt32At(r, 0) = x * (256 * 256 * 256)
    BY <2>1, <2>3 DEF UInt32At
  <2>5. ASSUME UnitFits(r, 0) PROVE FALSE
    <3>1. UInt32At(r, 0) > 0 /\ 4 + UInt32At(r, 0) <= Len(r)
      BY <2>5 DEF UnitFits
    <3>. QED  BY <2>2, <2>3, <2>4, <3>1
  <2>. QED  BY <2>3, <2>5
<1>. QED  BY <1>1, <1>2 DEF Broken, CutShort

(* The conversion to Annex B loses nothing of a frame and adds nothing to it: every whole unit
   comes out once, unchanged, in order, behind a start code, and nothing of what follows the
   last one; for units and frames of any length. *)
THEOREM UnitsAreConverted == WholeUnitsConverted
<1> SUFFICES ASSUME NEW units \in BoundedSeq(Units, MaxUnits), NEW tail \in Broken
             PROVE  convertToAnnexB(Joined(units, LengthPrefixed) \o tail)
                      = Joined(units, LAMBDA u : startCode \o u)
  BY DEF WholeUnitsConverted
<1> DEFINE s == WithLengths(units)
           t == WithCodes(units)
<1>1. /\ Joined(units, LengthPrefixed) = FlattenSeq(s)
      /\ Joined(units, LAMBDA u : startCode \o u) = FlattenSeq(t)
  BY DEF Joined, WithLengths, WithCodes
<1>2. PICK n \in 0..MaxUnits : units \in [1..n -> Units]
  BY DEF BoundedSeq, SeqOf
<1>3. n \in Nat /\ DOMAIN units = 1..n
  <2>. HIDE DEF s, t
  <2>. QED  BY <1>2, BytesAssumption
<1>4. Len(s) = n /\ Len(t) = n
  BY <1>3 DEF WithLengths, WithCodes
<1>5. units \in [1..n -> Data \ {<<>>}]
  BY <1>2, UnitsTyped
<1>7. tail \in Data /\ convertToAnnexB(tail) = <<>>
  BY BrokenFitsNot, NothingFits
<1>8. CASE n = 0
  <2>1. s = <<>> /\ t = <<>>
    BY <1>3, <1>8 DEF WithLengths, WithCodes
  <2>. HIDE DEF s, t
  <2>2. FlattenSeq(s) = <<>> /\ FlattenSeq(t) = <<>>
    BY <1>4, <1>8, <2>1 DEF FlattenSeq
  <2>3. <<>> \o tail = tail
    BY <1>7, ConcatEmptySeq DEF Data
  <2>. QED  BY <1>1, <1>7, <2>2, <2>3
<1>9. CASE n # 0
  <2> DEFINE g == CHOOSE g0 : Joins(g0, s, 1..n)
             h == CHOOSE h0 : Joins(h0, t, 1..n)
  <2>. HIDE DEF s, t
  <2>1. Joins(g, s, 1..n) /\ Joins(h, t, 1..n)
    BY <1>3, JoinsExists
  <2>2. FlattenSeq(s) = g[n] /\ FlattenSeq(t) = h[n]
    BY <1>4, <1>9, FlattenDef
  <2>. HIDE DEF g, h
  <2>3. n \in 1..n
    BY <1>3, <1>9
  <2>4. h[n] \in Data /\ convertToAnnexB(g[n] \o tail) = h[n] \o convertToAnnexB(tail)
    <3>1. Frames(units, n, g, h)
      BY <1>3, <1>5, <2>1 DEF Frames, s, t
    <3>2. Becomes(g[n], h[n])
      BY <2>3, <3>1, JoinedConverted
    <3>. QED  BY <1>7, <3>2 DEF Becomes
  <2>5. h[n] \o <<>> = h[n]
    BY <2>4, ConcatEmptySeq DEF Data
  <2>. QED  BY <1>1, <1>7, <2>2, <2>4, <2>5
<1>. QED  BY <1>8, <1>9
=============================================================================
