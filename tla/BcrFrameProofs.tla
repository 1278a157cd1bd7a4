---------------------------- MODULE BcrFrameProofs ----------------------------
(***************************************************************************)
(* Proofs about BcrFrame, for packets of every content and length that a   *)
(* frame has room for, and for every damaged byte: what decode_bcr_frame   *)
(* makes of a frame that still has its start byte.                         *)
(***************************************************************************)
EXTENDS BcrFrame, WellFoundedInduction, TLAPS

-----------------------------------------------------------------------------
(* Induction.  The set of the numbers for which a property holds takes the *)
(* place of the property, so that the provers can instantiate it.          *)

LEMMA LeastNatural ==
    ASSUME NEW T, T \subseteq Nat, T # {}
    PROVE  \E n \in T : \A m \in T : n <= m
<1> DEFINE R == OpToRel(<, Nat)
<1>1. IsWellFoundedOn(R, Nat)
  BY NatLessThanWellFounded, Zenon
<1>2. \A x, y \in Nat : x < y => <<x, y>> \in R
  BY Zenon DEF OpToRel
<1> HIDE DEF R
<1>3. PICK n \in T : \A m \in T : ~(<<m, n>> \in R)
  BY <1>1, WFMin
<1>4. \A m \in T : ~(m < n)
  <2> TAKE m \in T
  <2>1. m \in Nat /\ n \in Nat
    OBVIOUS
  <2> QED
    BY <1>2, <1>3, <2>1, Zenon
<1>5. \A m \in T : n <= m
  BY <1>4
<1> QED
  BY <1>5

LEMMA SetInduction ==
    ASSUME NEW S, 0 \in S, \A n \in Nat : n \in S => n + 1 \in S
    PROVE  Nat \subseteq S
<1> SUFFICES ASSUME Nat \ S # {} PROVE FALSE
  OBVIOUS
<1>1. PICK n \in Nat \ S : \A m \in Nat \ S : n <= m
  BY LeastNatural
<1>2. n # 0 /\ n - 1 \in Nat /\ n - 1 \notin Nat \ S
  BY <1>1
<1>3. (n - 1) + 1 \in S
  BY <1>2
<1> QED
  BY <1>1, <1>3

-----------------------------------------------------------------------------
(* The recursion of the decoder                                            *)

Bytes == 0..255

IsDecoding(s, g) == g = [i \in 1..(Len(s) + 1) |-> DecodeBlock(s, g, i)]

\* What a place decodes to depends on later places alone.
LEMMA DecodeBlockLocal ==
    ASSUME NEW s \in Seq(Nat), NEW i \in 1..(Len(s) + 1), NEW g, NEW h,
           \A m \in 1..(Len(s) + 1) : m > i => g[m] = h[m]
    PROVE  DecodeBlock(s, g, i) = DecodeBlock(s, h, i)
<1>1. CASE i = Len(s) + 1 \/ BadBlock(s, i) \/ i + s[i] = Len(s) + 1
  BY <1>1 DEF DecodeBlock
<1>2. CASE ~(i = Len(s) + 1 \/ BadBlock(s, i) \/ i + s[i] = Len(s) + 1)
  <2>1. i \in 1..Len(s) /\ Len(s) \in Nat /\ s[i] \in Nat
    BY <1>2
  <2>2. s[i] # 0 /\ i + s[i] <= Len(s) + 1
    BY <1>2, <2>1 DEF BadBlock
  <2>3. i + s[i] \in 1..(Len(s) + 1) /\ i + s[i] > i
    BY <2>1, <2>2
  <2>4. g[i + s[i]] = h[i + s[i]]
    BY <2>3
  <2> QED
    BY <2>4 DEF DecodeBlock
<1> QED
  BY <1>1, <1>2

\* The equations of the recursion hold from place Len(s) + 2 - k on.
LastPlaces(s, g, k) ==
    /\ g = [i \in 1..(Len(s) + 1) |-> g[i]]
    /\ \A i \in 1..(Len(s) + 1) :
            i + k >= Len(s) + 2 => g[i] = DecodeBlock(s, g, i)

LEMMA OneMorePlace ==
    ASSUME NEW s \in Seq(Nat), NEW k \in Nat, NEW g, LastPlaces(s, g, k)
    PROVE  \E h : LastPlaces(s, h, k + 1)
<1> DEFINE j == Len(s) + 1 - k
           h == [g EXCEPT ![j] = DecodeBlock(s, g, j)]
<1>1. Len(s) \in Nat
  OBVIOUS
<1>2. CASE j \notin 1..(Len(s) + 1)
  <2>1. \A i \in 1..(Len(s) + 1) : i + k >= Len(s) + 2
    BY <1>1, <1>2
  <2> QED
    BY <2>1 DEF LastPlaces
<1>3. CASE j \in 1..(Len(s) + 1)
  <2>1. /\ h = [i \in 1..(Len(s) + 1) |-> h[i]]
        /\ h[j] = DecodeBlock(s, g, j)
        /\ \A i \in 1..(Len(s) + 1) : i # j => h[i] = g[i]
    BY <1>3 DEF LastPlaces
  <2> HIDE DEF h
  <2>2. ASSUME NEW i \in 1..(Len(s) + 1), i + (k + 1) >= Len(s) + 2
        PROVE  h[i] = DecodeBlock(s, h, i)
    <3>1. i >= j
      BY <1>1, <2>2
    <3>2. \A m \in 1..(Len(s) + 1) : m > i => g[m] = h[m]
      BY <1>1, <2>1, <3>1
    <3> HIDE DEF j
    <3>3. DecodeBlock(s, g, i) = DecodeBlock(s, h, i)
      BY <3>2, DecodeBlockLocal
    <3>4. CASE i = j
      BY <2>1, <3>3, <3>4
    <3>5. CASE i # j
      <4>1. i + k >= Len(s) + 2
        BY <1>1, <3>1, <3>5 DEF j
      <4>2. g[i] = DecodeBlock(s, g, i)
        BY <4>1 DEF LastPlaces
      <4> QED
        BY <2>1, <3>3, <3>5, <4>2
    <3> QED
      BY <3>4, <3>5
  <2> QED
    BY <2>1, <2>2 DEF LastPlaces
<1> QED
  BY <1>2, <1>3

\* CobsFrom is the function that its recursive definition describes.
LEMMA CobsFromFacts ==
    ASSUME NEW s \in Seq(Nat)
    PROVE  \A i \in 1..(Len(s) + 1) :
              CobsFrom(s)[i] = DecodeBlock(s, CobsFrom(s), i)
<1> DEFINE S == { k \in Nat : \E g : LastPlaces(s, g, k) }
<1>1. Len(s) \in Nat
  OBVIOUS
<1>2. 0 \in S
  <2> DEFINE g == [i \in 1..(Len(s) + 1) |-> 0]
  <2>1. LastPlaces(s, g, 0)
    BY <1>1 DEF LastPlaces
  <2> QED
    BY <2>1
<1>3. \A n \in Nat : n \in S => n + 1 \in S
  BY OneMorePlace
<1> HIDE DEF S
<1>4. Len(s) + 1 \in S
  BY <1>1, <1>2, <1>3, SetInduction
<1>5. PICK g : LastPlaces(s, g, Len(s) + 1)
  BY <1>4 DEF S
<1>6. IsDecoding(s, g)
  BY <1>1, <1>5 DEF LastPlaces, IsDecoding
<1>7. IsDecoding(s, CHOOSE f : IsDecoding(s, f))
  BY <1>6, Zenon
<1>8. CobsFrom(s) = CHOOSE f : IsDecoding(s, f)
  BY Zenon DEF CobsFrom, IsDecoding
<1>9. IsDecoding(s, CobsFrom(s))
  BY <1>7, <1>8, Zenon
<1> HIDE DEF S
<1> QED
  BY <1>9 DEF IsDecoding

-----------------------------------------------------------------------------
(* The length of what is decoded                                           *)

\* What a place of an encoded sequence may decode to: the bytes behind it, some
\* of which have become 0.
Fits(s, f, i) ==
    IF i = Len(s) + 1 THEN f = << >>
    ELSE f # Raised =>
            /\ f \in Seq(Bytes) /\ Len(f) = Len(s) - i
            /\ \A k \in 1..(Len(s) - i) : f[k] \in {s[i + k], 0}

LEMMA PartOf ==
    ASSUME NEW S, NEW s \in Seq(S), NEW m \in 1..(Len(s) + 1),
           NEW n \in (m - 1)..Len(s)
    PROVE  /\ SubSeq(s, m, n) \in Seq(S) /\ Len(SubSeq(s, m, n)) = n - m + 1
           /\ \A k \in 1..(n - m + 1) : SubSeq(s, m, n)[k] = s[m + k - 1]
  OBVIOUS

LEMMA Joined ==
    ASSUME NEW a \in Seq(Bytes), NEW b \in Seq(Bytes)
    PROVE  /\ a \o b \in Seq(Bytes) /\ Len(a \o b) = Len(a) + Len(b)
           /\ \A k \in 1..Len(a) : (a \o b)[k] = a[k]
           /\ \A k \in 1..Len(b) : (a \o b)[Len(a) + k] = b[k]
  OBVIOUS

LEMMA BlockLength ==
    ASSUME NEW s \in Seq(Bytes), NEW i \in 1..Len(s), ~BadBlock(s, i)
    PROVE  /\ s[i] \in 1..255 /\ i + s[i] <= Len(s) + 1
           /\ Block(s, i) \in Seq(Bytes) /\ Len(Block(s, i)) = s[i] - 1
           /\ \A k \in 1..(s[i] - 1) : Block(s, i)[k] = s[i + k]
<1> DEFINE b == s[i]
           N == Len(s)
           m == i + 1
           n == i + b - 1
<1>1. b \in Bytes /\ N \in Nat /\ i \in 1..N
  OBVIOUS
<1>2. b # 0 /\ ~(i + b > N + 1)
  BY DEF BadBlock
<1> HIDE DEF b, N
<1>3. b \in 1..255 /\ i + b <= N + 1
  BY <1>1, <1>2 DEF Bytes
<1>4. m \in 1..(N + 1) /\ n \in (m - 1)..N /\ n - m + 1 = b - 1
  BY <1>1, <1>3
<1> HIDE DEF m, n
<1>5. /\ SubSeq(s, m, n) \in Seq(Bytes) /\ Len(SubSeq(s, m, n)) = n - m + 1
      /\ \A k \in 1..(n - m + 1) : SubSeq(s, m, n)[k] = s[m + k - 1]
  BY <1>1, <1>4, PartOf DEF N
<1>6. Block(s, i) = SubSeq(s, m, n)
  BY DEF Block, m, n, b
<1>7. \A k \in 1..(b - 1) : m + k - 1 = i + k
  BY <1>1, <1>3 DEF m
<1>8. \A k \in 1..(b - 1) : Block(s, i)[k] = s[i + k]
  BY <1>4, <1>5, <1>6, <1>7
<1> QED
  BY <1>3, <1>4, <1>5, <1>6, <1>8 DEF b, N

\* Each length byte is replaced by the 0 that it stands for, but the first.
LEMMA BlockFits ==
    ASSUME NEW s \in Seq(Bytes), Len(s) < 255, NEW i \in 1..(Len(s) + 1),
           NEW from,
           \A m \in 1..(Len(s) + 1) : m > i => Fits(s, from[m], m)
    PROVE  Fits(s, DecodeBlock(s, from, i), i)
<1>1. Len(s) \in Nat
  OBVIOUS
<1>2. CASE i = Len(s) + 1
  BY <1>2 DEF DecodeBlock, Fits
<1>3. CASE i # Len(s) + 1 /\ BadBlock(s, i)
  BY <1>3 DEF DecodeBlock, Fits
<1>4. CASE i # Len(s) + 1 /\ ~BadBlock(s, i)
  <2> DEFINE b == s[i]
             N == Len(s)
             j == i + b
             B == Block(s, i)
  <2>1. i \in 1..N /\ N \in Nat /\ N < 255
    BY <1>1, <1>4
  <2>2. /\ b \in 1..255 /\ j <= N + 1
        /\ B \in Seq(Bytes) /\ Len(B) = b - 1
        /\ \A k \in 1..(b - 1) : B[k] = s[i + k]
    BY <1>4, <2>1, BlockLength
  <2>3. DecodeBlock(s, from, i) =
            IF j = N + 1 THEN B
            ELSE IF from[j] = Raised THEN Raised
            ELSE B \o Stuffed(s, i) \o from[j]
    BY <1>4 DEF DecodeBlock
  <2>4. \A f : Fits(s, f, i) <=>
                (f # Raised => /\ f \in Seq(Bytes) /\ Len(f) = N - i
                               /\ \A k \in 1..(N - i) : f[k] \in {s[i + k], 0})
    BY <1>4 DEF Fits
  <2>5. j \in 1..N /\ j > i /\ from[j] # Raised =>
            /\ from[j] \in Seq(Bytes) /\ Len(from[j]) = N - j
            /\ \A k \in 1..(N - j) : from[j][k] \in {s[j + k], 0}
    <3> SUFFICES ASSUME j \in 1..N, j > i, from[j] # Raised
                 PROVE  /\ from[j] \in Seq(Bytes) /\ Len(from[j]) = N - j
                        /\ \A k \in 1..(N - j) : from[j][k] \in {s[j + k], 0}
      OBVIOUS
    <3> HIDE DEF j
    <3>1. j # N + 1 /\ j \in 1..(N + 1)
      BY <2>1
    <3>2. Fits(s, from[j], j)
      BY <3>1
    <3> QED
      BY <3>1, <3>2 DEF Fits
  <2>6. Stuffed(s, i) = IF b < 255 THEN << 0 >> ELSE << >>
    BY DEF Stuffed
  <2> DEFINE f == from[j]
             D == DecodeBlock(s, from, i)
  <2> HIDE DEF b, N, B, f, D
  <2>7. CASE j = N + 1
    <3>1. b - 1 = N - i
      BY <2>1, <2>2, <2>7
    <3>2. D = B
      BY <2>3, <2>7 DEF D
    <3>3. \A k \in 1..(N - i) : D[k] \in {s[i + k], 0}
      BY <2>2, <3>1, <3>2
    <3> QED
      BY <2>2, <2>4, <3>1, <3>2, <3>3 DEF D
  <2>8. CASE j # N + 1 /\ f = Raised
    <3>1. D = Raised
      BY <2>3, <2>8 DEF D, f
    <3> QED
      BY <2>4, <3>1 DEF D
  <2>9. CASE j # N + 1 /\ f # Raised
    <3>1. j \in 1..N /\ j > i /\ b < 255 /\ b + (N - j) = N - i
      BY <2>1, <2>2, <2>9
    <3>2. /\ f \in Seq(Bytes) /\ Len(f) = N - j
          /\ \A k \in 1..(N - j) : f[k] \in {s[j + k], 0}
      BY <2>5, <2>9, <3>1 DEF f
    <3>3. D = B \o << 0 >> \o f
      BY <2>3, <2>6, <2>9, <3>1 DEF D, f
    <3>4. << 0 >> \in Seq(Bytes) /\ Len(<< 0 >>) = 1
      BY DEF Bytes
    <3>5. \A k \in 1..(N - i) : k > b => k - b \in 1..(N - j)
                                        /\ j + (k - b) = i + k
      BY <2>1, <2>2, <3>1
    <3> HIDE DEF j
    <3>6. B \o << 0 >> \in Seq(Bytes) /\ Len(B \o << 0 >>) = b
      BY <2>2, <3>4
    <3>7. /\ (B \o << 0 >>) \o f \in Seq(Bytes)
          /\ Len((B \o << 0 >>) \o f) = b + (N - j)
      BY <3>2, <3>6
    <3>8. ASSUME NEW k \in 1..(N - i) PROVE D[k] \in {s[i + k], 0}
      <4>1. CASE k < b
        <5>1. D[k] = B[k]
          BY <2>2, <3>2, <3>3, <3>6, <3>7, <4>1
        <5> QED
          BY <2>2, <4>1, <5>1
      <4>2. CASE k = b
        <5>1. D[k] = 0
          BY <2>2, <3>2, <3>3, <3>6, <3>7, <4>2
        <5> QED
          BY <5>1
      <4>3. CASE k > b
        <5>1. D[k] = f[k - b]
          <6>1. k - b \in 1..(N - j) /\ k = b + (k - b)
            BY <2>2, <3>5, <4>3
          <6>2. \A q \in 1..(N - j) : ((B \o << 0 >>) \o f)[b + q] = f[q]
            BY <3>2, <3>6, Joined
          <6> QED
            BY <3>3, <6>1, <6>2
        <5> QED
          BY <3>2, <3>5, <4>3, <5>1
      <4> QED
        BY <2>2, <4>1, <4>2, <4>3
    <3>9. Len(D) = N - i /\ D \in Seq(Bytes)
      BY <3>1, <3>3, <3>7
    <3> QED
      BY <2>4, <3>8, <3>9 DEF D
  <2> QED
    BY <2>7, <2>8, <2>9
<1> QED
  BY <1>2, <1>3, <1>4

LEMMA BytesAreNumbers == ASSUME NEW s \in Seq(Bytes) PROVE s \in Seq(Nat)
<1>1. Len(s) \in Nat /\ s = [i \in 1..Len(s) |-> s[i]]
  OBVIOUS
<1>2. \A i \in 1..Len(s) : s[i] \in Bytes
  OBVIOUS
<1>3. Bytes \subseteq Nat
  BY DEF Bytes
<1>4. \A i \in 1..Len(s) : s[i] \in Nat
  BY <1>2, <1>3
<1> QED
  BY <1>1, <1>4

\* The places that decode to what fits them, counted from the end.
DecodesToFitting(s) ==
    { k \in Nat : \A i \in 1..(Len(s) + 1) :
                     i + k >= Len(s) + 2 => Fits(s, CobsFrom(s)[i], i) }

LEMMA EveryPlaceFits ==
    ASSUME NEW s \in Seq(Bytes), Len(s) < 255
    PROVE  \A i \in 1..(Len(s) + 1) : Fits(s, CobsFrom(s)[i], i)
<1> DEFINE F == CobsFrom(s)
<1>1. s \in Seq(Nat) /\ Len(s) \in Nat
  BY BytesAreNumbers
<1>2. \A i \in 1..(Len(s) + 1) : F[i] = DecodeBlock(s, F, i)
  BY <1>1, CobsFromFacts
<1>3. 0 \in DecodesToFitting(s)
  BY <1>1 DEF DecodesToFitting
<1>4. ASSUME NEW n \in Nat, n \in DecodesToFitting(s)
      PROVE  n + 1 \in DecodesToFitting(s)
  <2>1. ASSUME NEW i \in 1..(Len(s) + 1), i + (n + 1) >= Len(s) + 2
        PROVE  Fits(s, F[i], i)
    <3>1. \A m \in 1..(Len(s) + 1) : m > i => Fits(s, F[m], m)
      BY <1>1, <1>4, <2>1 DEF DecodesToFitting
    <3> HIDE DEF F
    <3>2. Fits(s, DecodeBlock(s, F, i), i)
      BY <3>1, BlockFits
    <3> QED
      BY <1>2, <3>2
  <2> QED
    BY <2>1 DEF DecodesToFitting
<1>5. Nat \subseteq DecodesToFitting(s)
  BY <1>3, <1>4, SetInduction
<1>6. Len(s) + 1 \in DecodesToFitting(s)
  BY <1>1, <1>5
<1>7. \A i \in 1..(Len(s) + 1) : i + (Len(s) + 1) >= Len(s) + 2
  BY <1>1
<1> QED
  BY <1>6, <1>7 DEF DecodesToFitting

\* A COBS sequence of less than 255 bytes that decodes at all decodes to one
\* byte less, whatever is in it, and each byte stays in its place.
LEMMA DecodedBytes ==
    ASSUME NEW s \in Seq(Bytes), Len(s) > 0, Len(s) < 255,
           CobsDecode(s) # Raised
    PROVE  /\ CobsDecode(s) \in Seq(Bytes) /\ Len(CobsDecode(s)) = Len(s) - 1
           /\ \A k \in 1..(Len(s) - 1) : CobsDecode(s)[k] \in {s[1 + k], 0}
<1> DEFINE N == Len(s)
           f == CobsFrom(s)[1]
<1>1. N \in Nat /\ N > 0
  OBVIOUS
<1>2. Fits(s, f, 1)
  BY <1>1, EveryPlaceFits
<1>3. f # Raised
  BY DEF CobsDecode
<1> HIDE DEF f
<1>4. 1 # N + 1
  BY <1>1
<1>5. /\ f \in Seq(Bytes) /\ Len(f) = N - 1
      /\ \A k \in 1..(N - 1) : f[k] \in {s[1 + k], 0}
  BY <1>2, <1>3, <1>4 DEF Fits
<1> QED
  BY <1>5 DEF CobsDecode, f

\* If the first byte is the start byte, the first block has 84 bytes, none of
\* which is 0.
LEMMA FirstBlock ==
    ASSUME NEW s \in Seq(Bytes), Len(s) > 0, Len(s) < 255, s[1] = StartByte,
           CobsDecode(s) # Raised
    PROVE  Len(s) >= StartByte /\ CobsDecode(s)[19] # 0
<1> DEFINE N == Len(s)
           F == CobsFrom(s)
           B == Block(s, 1)
           D == DecodeBlock(s, F, 1)
           r == F[86]
<1>1. N \in Nat /\ N > 0 /\ 1 \in 1..N /\ s \in Seq(Nat)
  BY BytesAreNumbers
<1>2. D = CobsDecode(s)
  BY <1>1, CobsFromFacts DEF CobsDecode
<1>3. D # Raised
  BY <1>2
<1>4. 1 # N + 1 /\ StartByte = 85 /\ 1 + s[1] = 86
  BY <1>1 DEF StartByte
<1>5. ~BadBlock(s, 1)
  BY <1>3, <1>4 DEF DecodeBlock
<1>6. N >= 85 /\ s[20] # 0
  <2> DEFINE b == s[1]
  <2>1. ~(1 + b > N + 1) /\ \A k \in (1 + 1)..(1 + b - 1) : s[k] # 0
    BY <1>5, Zenon DEF BadBlock
  <2>2. b = 85
    BY DEF StartByte
  <2> HIDE DEF b, N
  <2>3. 20 \in (1 + 1)..(1 + b - 1) /\ N >= 85
    BY <1>1, <2>1, <2>2
  <2> QED
    BY <2>1, <2>3, Zenon
<1>7. B \in Seq(Bytes) /\ Len(B) = 84 /\ B[19] = s[20]
  <2>1. /\ B \in Seq(Bytes) /\ Len(B) = s[1] - 1
        /\ \A k \in 1..(s[1] - 1) : B[k] = s[1 + k]
    BY <1>1, <1>5, BlockLength
  <2> HIDE DEF B
  <2> QED
    BY <1>4, <2>1
<1>8. CASE N = 85
  <2>1. D = B
    BY <1>4, <1>5, <1>8 DEF DecodeBlock
  <2> QED
    BY <1>2, <1>4, <1>6, <1>7, <2>1
<1>9. CASE N # 85
  <2>1. 86 \in 1..N /\ 86 # N + 1
    <3> HIDE DEF N
    <3> QED
      BY <1>1, <1>6, <1>9
  <2>2. r # Raised /\ D = B \o << 0 >> \o r
    <3>1. D = IF r = Raised THEN Raised ELSE B \o Stuffed(s, 1) \o r
      <4> HIDE DEF F
      <4> QED
        BY <1>4, <1>5, <2>1 DEF DecodeBlock
    <3>2. s[1] < 255
      BY <1>4
    <3>3. Stuffed(s, 1) = << 0 >>
      BY <3>2 DEF Stuffed
    <3> HIDE DEF D, B, r, F
    <3> QED
      BY <1>3, <3>1, <3>3
  <2>3. Fits(s, r, 86)
    BY <1>1, <2>1, EveryPlaceFits
  <2> HIDE DEF r, B, D, F
  <2>4. r \in Seq(Bytes)
    BY <2>1, <2>2, <2>3 DEF Fits
  <2> DEFINE z == << 0 >>
  <2>5. z \in Seq(Bytes) /\ Len(z) = 1
    BY DEF Bytes
  <2> HIDE DEF z
  <2>6. /\ B \o z \in Seq(Bytes) /\ Len(B \o z) = 85
        /\ (B \o z)[19] = B[19]
    <3>1. /\ B \o z \in Seq(Bytes) /\ Len(B \o z) = Len(B) + Len(z)
          /\ \A k \in 1..Len(B) : (B \o z)[k] = B[k]
      <4>1. B \in Seq(Bytes) /\ z \in Seq(Bytes)
        BY <1>7, <2>5
      <4> QED
        BY <4>1, Joined, Zenon
    <3>2. 19 \in 1..Len(B) /\ Len(B) + Len(z) = 85
      BY <1>7, <2>5
    <3> QED
      BY <3>1, <3>2
  <2>7. ((B \o z) \o r)[19] = (B \o z)[19]
    <3>1. \A k \in 1..Len(B \o z) : ((B \o z) \o r)[k] = (B \o z)[k]
      BY <2>4, <2>6, Joined
    <3>2. 19 \in 1..Len(B \o z)
      BY <2>6
    <3> QED
      BY <3>1, <3>2
  <2> QED
    BY <1>2, <1>4, <1>6, <1>7, <2>2, <2>6, <2>7 DEF z
<1> QED
  BY <1>8, <1>9

-----------------------------------------------------------------------------
(* What the encoder makes                                                  *)

LEMMA NextZeroFacts ==
    ASSUME NEW s \in Seq(Nat), NEW j \in 1..(Len(s) + 1)
    PROVE  /\ NextZero(s, j) \in j..(Len(s) + 1)
           /\ NextZero(s, j) = Len(s) + 1 \/ s[NextZero(s, j)] = 0
           /\ \A i \in j..(NextZero(s, j) - 1) : s[i] # 0
<1> DEFINE T == { k \in j..(Len(s) + 1) : k = Len(s) + 1 \/ s[k] = 0 }
<1>1. Len(s) \in Nat
  OBVIOUS
<1>2. T \subseteq Nat /\ Len(s) + 1 \in T
  BY <1>1
<1>3. PICK n \in T : \A m \in T : n <= m
  BY <1>2, LeastNatural
<1>4. n \in j..(Len(s) + 1) /\ (n = Len(s) + 1 \/ s[n] = 0)
  BY <1>3
<1>5. ASSUME NEW i \in j..(n - 1) PROVE s[i] # 0
  <2>1. i \in j..(Len(s) + 1) /\ ~(n <= i)
    BY <1>1, <1>4
  <2> QED
    BY <1>3, <2>1
<1> DEFINE First(k) == /\ k = Len(s) + 1 \/ s[k] = 0
                       /\ \A i \in j..(k - 1) : s[i] # 0
           z == CHOOSE k \in j..(Len(s) + 1) : First(k)
<1>6. \E k \in j..(Len(s) + 1) : First(k)
  BY <1>4, <1>5
<1>7. NextZero(s, j) = z
  BY DEF NextZero
<1> HIDE DEF First
<1>8. z \in j..(Len(s) + 1) /\ First(z)
  BY <1>6, Zenon
<1> QED
  BY <1>7, <1>8 DEF First

\* The places of the encoded sequence that hold the length of a block.
LengthPlaces(s) == { j \in 1..(Len(s) + 1) : j = 1 \/ (j > 1 /\ s[j - 1] = 0) }

LEMMA EncodedPlaces ==
    ASSUME NEW s \in Seq(Bytes)
    PROVE  /\ Len(CobsEncode(s)) = Len(s) + 1
           /\ DOMAIN CobsEncode(s) = 1..(Len(s) + 1)
           /\ \A j \in LengthPlaces(s) :
                 CobsEncode(s)[j] = NextZero(s, j) - j + 1
           /\ \A j \in (1..(Len(s) + 1)) \ LengthPlaces(s) :
                 /\ j > 1 /\ s[j - 1] # 0 /\ s[j - 1] \in Bytes
                 /\ CobsEncode(s)[j] = s[j - 1]
<1> DEFINE N == Len(s)
           e == CobsEncode(s)
           L == LengthPlaces(s)
<1>1. N \in Nat /\ \A i \in 1..N : s[i] \in Bytes
  OBVIOUS
<1>2. e = [ j \in 1..(N + 1) |-> IF j \in L THEN NextZero(s, j) - j + 1
                                           ELSE s[j - 1] ]
  BY DEF CobsEncode, LengthPlaces
<1>3. \A j \in (1..(N + 1)) \ L : j > 1 /\ s[j - 1] # 0
  BY <1>1 DEF LengthPlaces
<1>4. \A j \in L : j \in 1..(N + 1)
  BY DEF LengthPlaces
<1> HIDE DEF N, L, e
<1>5. Len(e) = N + 1 /\ DOMAIN e = 1..(N + 1)
  BY <1>1, <1>2
<1>6. \A j \in (1..(N + 1)) \ L : j - 1 \in 1..N
  BY <1>1, <1>3
<1> QED
  BY <1>1, <1>2, <1>3, <1>4, <1>5, <1>6 DEF N, L, e

\* What is encoded is a sequence of bytes, one longer.
LEMMA EncodedBytes ==
    ASSUME NEW s \in Seq(Bytes), Len(s) < 254
    PROVE  CobsEncode(s) \in Seq(Bytes) /\ Len(CobsEncode(s)) = Len(s) + 1
<1> DEFINE N == Len(s)
           e == CobsEncode(s)
           L == LengthPlaces(s)
<1>1. N \in Nat /\ N < 254 /\ s \in Seq(Nat)
  BY BytesAreNumbers
<1>2. ASSUME NEW j \in L PROVE e[j] \in Bytes
  <2> DEFINE z == NextZero(s, j)
  <2>1. j \in 1..(N + 1)
    BY DEF LengthPlaces
  <2>2. z \in j..(N + 1)
    BY <1>1, <2>1, NextZeroFacts
  <2>3. e[j] = z - j + 1
    BY EncodedPlaces
  <2> HIDE DEF z, N
  <2> QED
    BY <1>1, <2>1, <2>2, <2>3 DEF Bytes
<1>3. \A j \in (1..(N + 1)) \ L : e[j] \in Bytes
  BY EncodedPlaces
<1>4. e = [j \in 1..(N + 1) |-> e[j]]
  BY DEF CobsEncode
<1>5. Len(e) = N + 1
  BY EncodedPlaces
<1> HIDE DEF N, e, L
<1>6. \A j \in 1..(N + 1) : e[j] \in Bytes
  BY <1>2, <1>3
<1> QED
  BY <1>1, <1>4, <1>5, <1>6 DEF N, e

-----------------------------------------------------------------------------
(* Frames                                                                  *)

Headers(ack) == << UserPacket, TcPacket, 0, 0, 0, DefaultApid, 0, ack, 0 >>

\* The frame of a peer is a sequence of at most 254 bytes.
LEMMA PeerFrameFacts ==
    ASSUME NEW p \in Payloads, NEW crc \in Crcs, NEW ack \in AckCounts
    PROVE  PeerFrame(p, crc, ack) \in Seq(Bytes)
           /\ Len(PeerFrame(p, crc, ack)) <= 254
<1> DEFINE h == Headers(ack)
           s == h \o p \o crc
           e == CobsEncode(s)
           w == << StartByte >>
<1>1. p \in Seq(Bytes) /\ Len(p) <= 240
  BY CodecAssumption DEF Bytes
<1>2. crc \in Seq(Bytes) /\ Len(crc) = 2
  <2>1. crc \in Bytes \X Bytes
    BY CodecAssumption DEF Bytes
  <2>2. PICK x \in Bytes, y \in Bytes : crc = << x, y >>
    BY <2>1
  <2> QED
    BY <2>2
<1>3. h \in Seq(Bytes) /\ Len(h) = 9
  <2>1. ack \in Bytes
    BY CodecAssumption DEF Bytes
  <2> QED
    BY <2>1 DEF Headers, UserPacket, TcPacket, DefaultApid, Bytes
<1>4. w \in Seq(Bytes) /\ Len(w) = 1
  BY DEF StartByte, Bytes
<1>5. PeerFrame(p, crc, ack) = w \o e \o w
  BY Zenon DEF PeerFrame, Headers
<1> HIDE DEF h, w
<1>6. h \o p \in Seq(Bytes) /\ Len(h \o p) = Len(h) + Len(p)
  BY <1>1, <1>3, Joined
<1>7. s \in Seq(Bytes) /\ Len(s) = Len(h \o p) + Len(crc)
  BY <1>2, <1>6, Joined
<1> HIDE DEF s
<1>8. Len(s) <= 251 /\ Len(s) < 254 /\ Len(s) \in Nat
  <2> DEFINE N == Len(p)
             K == Len(s)
  <2> HIDE DEF N, K
  <2>1. K = (9 + N) + 2
    BY <1>2, <1>3, <1>6, <1>7, Zenon DEF N, K
  <2>2. N \in Nat /\ N <= 240
    BY <1>1 DEF N
  <2>3. K <= 251 /\ K < 254 /\ K \in Nat
    BY <2>1, <2>2
  <2> QED
    BY <2>3 DEF K
<1>9. e \in Seq(Bytes) /\ Len(e) = Len(s) + 1
  BY <1>7, <1>8, EncodedBytes
<1> HIDE DEF e
<1>10. w \o e \in Seq(Bytes) /\ Len(w \o e) = Len(w) + Len(e)
  BY <1>4, <1>9, Joined
<1>11. /\ (w \o e) \o w \in Seq(Bytes)
       /\ Len((w \o e) \o w) = Len(w \o e) + Len(w)
  BY <1>4, <1>10, Joined
<1>12. Len((w \o e) \o w) <= 254
  <2> DEFINE K == Len(s)
             R == Len((w \o e) \o w)
  <2> HIDE DEF K, R
  <2>1. R = (1 + (K + 1)) + 1 /\ K \in Nat /\ K <= 251
    BY <1>4, <1>8, <1>9, <1>10, <1>11, Zenon DEF K, R
  <2>2. R <= 254
    BY <2>1
  <2> QED
    BY <2>2 DEF R
<1> QED
  BY <1>5, <1>11, <1>12

\* What decode_bcr_frame makes of a frame that begins with the start byte.
LEMMA DecodedFrame ==
    ASSUME NEW f \in Seq(Bytes), Len(f) > 1, Len(f) < 256,
           f[1] = StartByte, DecodeBcrFrame(f) # Raised
    PROVE  /\ Len(f) > StartByte /\ Len(DecodeBcrFrame(f)) = Len(f) - 13
           /\ \A i \in 1..Len(DecodeBcrFrame(f)) :
                 DecodeBcrFrame(f)[i] \in {f[i + 10], 0}
           /\ DecodeBcrFrame(f)[10] # 0
<1> DEFINE N == Len(f)
           w == N - 1
           s == SubSeq(f, 1, w)
           t == CobsDecode(s)
           m == 10
           n == Len(t) - 2
           d == DecodeBcrFrame(f)
<1>1. N \in Nat /\ N > 1 /\ N < 256 /\ w \in Nat /\ StartByte = 85
  BY DEF StartByte
<1>2. /\ s \in Seq(Bytes) /\ Len(s) = N - 1
      /\ \A k \in 1..(N - 1) : s[k] = f[k]
  <2>1. 1 \in 1..(Len(f) + 1) /\ w \in (1 - 1)..Len(f) /\ w - 1 + 1 = N - 1
    BY <1>1
  <2> HIDE DEF w
  <2>2. /\ SubSeq(f, 1, w) \in Seq(Bytes) /\ Len(SubSeq(f, 1, w)) = w - 1 + 1
        /\ \A k \in 1..(w - 1 + 1) : SubSeq(f, 1, w)[k] = f[1 + k - 1]
    BY <2>1, PartOf
  <2>3. \A k \in 1..(w - 1 + 1) : 1 + k - 1 = k
    BY <1>1, <2>1
  <2> HIDE DEF N
  <2> QED
    BY <2>1, <2>2, <2>3
<1>3. d = IF t = Raised THEN Raised ELSE SubSeq(t, m, n)
  BY DEF DecodeBcrFrame, Ccsds
<1>4. t # Raised /\ d = SubSeq(t, m, n)
  BY <1>3
<1> HIDE DEF s, d
<1>5. Len(s) > 0 /\ Len(s) < 255 /\ s[1] = StartByte
  BY <1>1, <1>2
<1> HIDE DEF N, w
<1>6. Len(s) >= StartByte /\ t[19] # 0
  BY <1>2, <1>4, <1>5, FirstBlock
<1>7. /\ t \in Seq(Bytes) /\ Len(t) = Len(s) - 1
      /\ \A k \in 1..(Len(s) - 1) : t[k] \in {s[1 + k], 0}
  BY <1>2, <1>4, <1>5, DecodedBytes
<1> HIDE DEF t
<1>8. /\ m \in 1..(Len(t) + 1) /\ n \in (m - 1)..Len(t)
      /\ n - m + 1 = N - 13
  BY <1>1, <1>2, <1>6, <1>7
<1>9. \A i \in 1..(N - 13) : /\ m + i - 1 = i + 9 /\ i + 9 \in 1..(Len(s) - 1)
                             /\ 1 + (i + 9) = i + 10 /\ i + 10 \in 1..(N - 1)
  BY <1>1, <1>2, <1>6
<1>10. 10 \in 1..(N - 13) /\ 10 + 9 = 19
  BY <1>1, <1>2, <1>6
<1> HIDE DEF m, n
<1>11. /\ Len(d) = N - 13
       /\ \A i \in 1..(N - 13) : d[i] = t[m + i - 1]
  BY <1>4, <1>7, <1>8, PartOf
<1>12. \A i \in 1..(N - 13) : d[i] = t[i + 9]
  BY <1>9, <1>11
<1>13. \A i \in 1..(N - 13) : d[i] \in {f[i + 10], 0}
  BY <1>2, <1>7, <1>9, <1>12
<1>14. d[10] # 0
  BY <1>6, <1>10, <1>12
<1>15. N > StartByte
  BY <1>1, <1>2, <1>6
<1> QED
  BY <1>11, <1>13, <1>14, <1>15 DEF d, N

-----------------------------------------------------------------------------
(* The peer, the line and the reader                                       *)

OnTheLine ==
    frameStage = "line" => line \in Seq(Bytes) /\ Len(line) <= 254

ReadFrame ==
    frameStage = "done" =>
        /\ frame \in Seq(Bytes) /\ Len(frame) \in 2..254
        /\ frame[1] = StartByte
        /\ result = DecodeBcrFrame(frame)

FrameInv == OnTheLine /\ ReadFrame

LEMMA FrameInvInit == FrameInit => FrameInv
  BY DEF FrameInit, FrameInv, OnTheLine, ReadFrame

LEMMA SendKeeps ==
    ASSUME NEW p \in Payloads, NEW c \in Crcs, NEW a \in AckCounts,
           PeerSends(p, c, a)
    PROVE  FrameInv'
<1>1. line' = PeerFrame(p, c, a) /\ frameStage' = "line"
  BY DEF PeerSends
<1>2. line' \in Seq(Bytes) /\ Len(line') <= 254
  BY <1>1, PeerFrameFacts
<1> QED
  BY <1>1, <1>2 DEF FrameInv, OnTheLine, ReadFrame

LEMMA DamageKeeps ==
    ASSUME FrameInv, NEW b \in Noise, NEW i \in 1..Len(line),
           LineDamages(i, b)
    PROVE  FrameInv'
<1>1. /\ frameStage = "line" /\ line' = [line EXCEPT ![i] = b]
      /\ frameStage' = "line"
  BY DEF LineDamages
<1>2. line \in Seq(Bytes) /\ Len(line) <= 254
  BY <1>1 DEF FrameInv, OnTheLine
<1>3. b \in Bytes
  BY CodecAssumption DEF Bytes
<1>4. line' \in Seq(Bytes) /\ Len(line') = Len(line)
  BY <1>1, <1>2, <1>3
<1> QED
  BY <1>1, <1>2, <1>4 DEF FrameInv, OnTheLine, ReadFrame

LEMMA ReadKeeps == ASSUME FrameInv, ReadCommand PROVE FrameInv'
<1>1. /\ frameStage = "line" /\ result' = DecodeBcrFrame(frame')
      /\ frameStage' = "done"
  BY DEF ReadCommand
<1>2. line \in Seq(Bytes) /\ Len(line) <= 254
  BY <1>1 DEF FrameInv, OnTheLine
<1>3. PICK i, j \in 1..Len(line) :
          i < j /\ line[i] = StartByte /\ frame' = SubSeq(line, i, j)
  BY DEF ReadCommand
<1>4. /\ i \in 1..(Len(line) + 1) /\ j \in (i - 1)..Len(line)
      /\ j - i + 1 \in 2..254 /\ i + 1 - 1 = i /\ 1 \in 1..(j - i + 1)
  BY <1>2, <1>3
<1>5. /\ SubSeq(line, i, j) \in Seq(Bytes)
      /\ Len(SubSeq(line, i, j)) = j - i + 1
      /\ \A k \in 1..(j - i + 1) : SubSeq(line, i, j)[k] = line[i + k - 1]
  BY <1>2, <1>4, PartOf
<1>6. /\ frame' \in Seq(Bytes) /\ Len(frame') \in 2..254
      /\ frame'[1] = StartByte
  BY <1>3, <1>4, <1>5
<1> QED
  BY <1>1, <1>6 DEF FrameInv, OnTheLine, ReadFrame

LEMMA FrameInvNext == ASSUME FrameInv, [FrameNext]_frameVars PROVE FrameInv'
<1>1. ASSUME NEW a \in AckCounts, ScriptEncodes(a) PROVE FrameInv'
  BY <1>1 DEF ScriptEncodes, FrameInv, OnTheLine, ReadFrame
<1>2. ASSUME NEW p \in Payloads, NEW c \in Crcs, NEW a \in AckCounts,
             PeerSends(p, c, a)
      PROVE  FrameInv'
  BY <1>2, SendKeeps
<1>3. ASSUME NEW b \in Noise, NEW i \in 1..Len(line), LineDamages(i, b)
      PROVE  FrameInv'
  BY <1>3, DamageKeeps
<1>4. CASE ReadCommand
  BY <1>4, ReadKeeps
<1>5. CASE UNCHANGED frameVars
  BY <1>5 DEF frameVars, FrameInv, OnTheLine, ReadFrame
<1> QED
  BY <1>1, <1>2, <1>3, <1>4, <1>5, Zenon DEF FrameNext

LEMMA FrameInvHolds == FrameSpec => []FrameInv
<1>1. FrameInv /\ [FrameNext]_frameVars => FrameInv'
  BY FrameInvNext
<1> QED
  BY <1>1, FrameInvInit, PTL DEF FrameSpec

\* What the decoder makes of the frame that was read.
LEMMA ReadFrameDecodes ==
    ASSUME FrameInv, FrameDecoded
    PROVE  /\ Len(frame) > StartByte /\ Len(result) = Len(frame) - 13
           /\ \A i \in 1..Len(result) : result[i] \in {frame[i + 10], 0}
           /\ result[10] # 0
<1>1. /\ frame \in Seq(Bytes) /\ Len(frame) > 1 /\ Len(frame) < 256
      /\ frame[1] = StartByte /\ result = DecodeBcrFrame(frame)
      /\ DecodeBcrFrame(frame) # Raised
  <2>1. /\ frame \in Seq(Bytes) /\ Len(frame) \in 2..254
        /\ frame[1] = StartByte /\ result = DecodeBcrFrame(frame)
        /\ result # Raised
    BY DEF FrameInv, ReadFrame, FrameDecoded
  <2>2. \A n \in 2..254 : n > 1 /\ n < 256
    OBVIOUS
  <2>3. Len(frame) > 1 /\ Len(frame) < 256
    BY <2>1, <2>2, Zenon
  <2> QED
    BY <2>1, <2>3
<1> QED
  BY <1>1, DecodedFrame

\* A frame of less than 86 bytes raises in decode_bcr_frame, for packets of
\* every content of up to 240 bytes, every CRC, and every damaged byte.
THEOREM ShortFrameRaisesHolds == FrameSpec => []ShortFrameRaises
<1>1. FrameInv => ShortFrameRaises
  <2> SUFFICES ASSUME FrameInv, frameStage = "done", Len(frame) <= StartByte,
                      result # Raised
               PROVE  FALSE
    BY DEF ShortFrameRaises
  <2>1. Len(frame) > StartByte
    BY ReadFrameDecodes DEF FrameDecoded
  <2>2. Len(frame) \in Nat
    BY DEF FrameInv, ReadFrame
  <2> QED
    BY <2>1, <2>2 DEF StartByte
<1> QED
  BY <1>1, FrameInvHolds, PTL

\* What decodes is the stuffed frame itself, with some bytes replaced by 0.
THEOREM DecodedInPlaceHolds == FrameSpec => []DecodedInPlace
<1>1. FrameInv => DecodedInPlace
  BY ReadFrameDecodes DEF DecodedInPlace
<1> QED
  BY <1>1, FrameInvHolds, PTL

\* read_command never gets a command packet out of a frame.
THEOREM NeverAPacketHolds == FrameSpec => []NeverAPacket
<1>1. FrameInv => NeverAPacket
  BY ReadFrameDecodes DEF NeverAPacket, IsCommandPacket
<1> QED
  BY <1>1, FrameInvHolds, PTL
=============================================================================
