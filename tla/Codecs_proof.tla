----------------------------- MODULE Codecs_proof -----------------------------
(***************************************************************************)
(* Theorems about Codecs, for every sequence of reads and every gain: the  *)
(* loss of both G.711 codecs, of a byte coded again or converted, and the  *)
(* widths in the deemphasis filter.                                        *)
(***************************************************************************)
EXTENDS Codecs, FiniteSetTheorems, WellFoundedInduction, TLAPS

\* The segment ends in order: search counts those below the value.
LEMMA Segment ==
    ASSUME NEW val \in Int, NEW s \in 0 .. 8,
           s = 0 \/ val > seg_end[s], s = 8 \/ val <= seg_end[s + 1]
    PROVE  search(val) = s
<1>1. {i \in 1 .. 8 : val > seg_end[i]} = 1 .. s
  <2>1. \A i \in 1 .. 8 : i <= s => val > seg_end[i]
    BY DEF seg_end
  <2>2. \A i \in 1 .. 8 : i > s => val <= seg_end[i]
    BY DEF seg_end
  <2>3. \A i \in 1 .. 8 : seg_end[i] \in Int
    BY DEF seg_end
  <2> QED
    BY <2>1, <2>2, <2>3
<1>2. Cardinality(1 .. s) = s
  <2>1. 1 \in Int /\ s \in Int
    OBVIOUS
  <2>2. Cardinality(1 .. s) = IF 1 > s THEN 0 ELSE s - 1 + 1
    BY <2>1, FS_Interval, Zenon
  <2> QED
    BY <2>2
<1> QED
  BY <1>1, <1>2 DEF search

\* Every value has its segment.
LEMMA Segments ==
    ASSUME NEW val \in Int
    PROVE  \E s \in 0 .. 8 : /\ s = 0 \/ val > seg_end[s]
                             /\ s = 8 \/ val <= seg_end[s + 1]
BY DEF seg_end

\* A positive magnitude in segment s is at least 2^(s + 7), less than twice that, and
\* what is dropped of it is less than a sixteenth of the segment.
LEMMA Compression ==
    ASSUME NEW m \in Nat, NEW s \in 0 .. 7, s = 0 \/ m > seg_end[s], m <= seg_end[s + 1], m >= 128
    PROVE  \E q \in 0 .. 15 :
               /\ Compressed(s, m, s + 3) = 16 * s + q
               /\ (16 + q) * 2^s <= m \div 8 /\ 8 * (16 + q) * 2^s <= m
               /\ m < 8 * (17 + q) * 2^s
<1>1. CASE s = 0
  BY <1>1 DEF seg_end, Compressed
<1>2. CASE s = 1
  BY <1>2 DEF seg_end, Compressed
<1>3. CASE s = 2
  BY <1>3 DEF seg_end, Compressed
<1>4. CASE s = 3
  BY <1>4 DEF seg_end, Compressed
<1>5. CASE s = 4
  BY <1>5 DEF seg_end, Compressed
<1>6. CASE s = 5
  BY <1>6 DEF seg_end, Compressed
<1>7. CASE s = 6
  BY <1>7 DEF seg_end, Compressed
<1>8. CASE s = 7
  BY <1>8 DEF seg_end, Compressed
<1> QED
  BY <1>1, <1>2, <1>3, <1>4, <1>5, <1>6, <1>7, <1>8
\* The code of linear2ulaw and of linear2alaw but for sign and order of bits, and what
\* the decoders make of it: the middle of the interval that has this code.
UCode(m) == IF search(m) = 8 THEN 127 ELSE Compressed(search(m), m, search(m) + 3)
UValue(code) == ((code % 16) * 8 + BIAS) * 2^((code \div 16) % 8)

LEMMA UCoded ==
    ASSUME NEW m \in Nat, m >= BIAS
    PROVE  /\ UCode(m) \in 0 .. 127 /\ UValue(UCode(m)) \in Int
           /\ m > 32767 => UValue(UCode(m)) = 32256
           /\ m <= 32767 => 32 * Magnitude(UValue(UCode(m)) - m) <= m
<1>1. PICK s \in 0 .. 8 : (s = 0 \/ m > seg_end[s]) /\ (s = 8 \/ m <= seg_end[s + 1])
  BY Segments
<1>2. search(m) = s
  BY <1>1, Segment
<1>3. CASE s = 8
  <2>1. UCode(m) = 127 /\ m > 32767
    BY <1>1, <1>2, <1>3 DEF UCode, seg_end
  <2> QED
    BY <2>1 DEF UValue, BIAS
<1>4. CASE s \in 0 .. 7
  <2>1. PICK q \in 0 .. 15 : /\ Compressed(s, m, s + 3) = 16 * s + q
                            /\ 8 * (16 + q) * 2^s <= m /\ m < 8 * (17 + q) * 2^s
    <3>1. m >= 128 /\ s # 8
      BY <1>4 DEF BIAS
    <3> QED
      BY <1>1, <1>4, <3>1, Compression, Zenon
  <2>2. UCode(m) = 16 * s + q /\ m <= 32767
    BY <1>1, <1>2, <1>4, <2>1 DEF UCode, seg_end
  <2>3. (16 * s + q) % 16 = q /\ ((16 * s + q) \div 16) % 8 = s
    BY <1>4
  <2>4. UValue(UCode(m)) = 8 * (16 + q) * 2^s + 4 * 2^s
    BY <2>2, <2>3 DEF UValue, BIAS
  <2> QED
    BY <1>4, <2>1, <2>2, <2>4 DEF Magnitude
<1> QED
  BY <1>3, <1>4
\* What the decoders make of a byte is this with a sign.
LEMMA USides ==
    ASSUME NEW c \in 0 .. 127
    PROVE  /\ ulaw2linear(127 - c) = BIAS - UValue(c)
           /\ ulaw2linear(255 - c) = UValue(c) - BIAS
<1>1. 255 - (127 - c) = 128 + c /\ 255 - (255 - c) = c
  OBVIOUS
<1>2. (128 + c) % 16 = c % 16 /\ ((128 + c) \div 16) % 8 = (c \div 16) % 8
  OBVIOUS
<1> QED
  BY <1>1, <1>2 DEF ulaw2linear, UValue

\* The u-law coder in these terms.
LEMMA ULawCode ==
    ASSUME NEW y \in Int
    PROVE  /\ linear2ulaw(y) = (IF y < 0 THEN 127 ELSE 255) - UCode(BIAS + Magnitude(y))
           /\ linear2ulaw(y) \in Bytes
           /\ ulaw2linear(linear2ulaw(y)) =
                  IF y < 0 THEN BIAS - UValue(UCode(BIAS + Magnitude(y)))
                  ELSE UValue(UCode(BIAS + Magnitude(y))) - BIAS
<1>1. BIAS + Magnitude(y) \in Nat /\ BIAS + Magnitude(y) >= BIAS
  BY DEF BIAS, Magnitude
<1>2. UCode(BIAS + Magnitude(y)) \in 0 .. 127 /\ UValue(UCode(BIAS + Magnitude(y))) \in Int
  BY <1>1, UCoded
<1>3. linear2ulaw(y) = (IF y < 0 THEN 127 ELSE 255) - UCode(BIAS + Magnitude(y))
  BY DEF linear2ulaw, UCode, Magnitude
<1> DEFINE c == UCode(BIAS + Magnitude(y))
<1>4. ulaw2linear(127 - c) = BIAS - UValue(c) /\ ulaw2linear(255 - c) = UValue(c) - BIAS
  BY <1>2, USides
<1> QED
  BY <1>2, <1>3, <1>4 DEF Bytes

\* A u-law byte is within 1/32 of the biased sample, clipped where u-law ends.
LEMMA ULawError ==
    ASSUME NEW y \in Int
    PROVE  LET x == Clipped(y, 32635) IN
           32 * Magnitude(ulaw2linear(linear2ulaw(y)) - x) <= Magnitude(x) + BIAS
<1> DEFINE m == BIAS + Magnitude(y)
<1> DEFINE v == UValue(UCode(m))
<1>1. m \in Nat /\ m >= BIAS
  BY DEF BIAS, Magnitude
<1>2. v \in Int /\ (m > 32767 => v = 32256) /\ (m <= 32767 => 32 * Magnitude(v - m) <= m)
  BY <1>1, UCoded
<1>3. ulaw2linear(linear2ulaw(y)) = IF y < 0 THEN BIAS - v ELSE v - BIAS
  BY ULawCode
<1> HIDE DEF v
<1>4. CASE m > 32767
  BY <1>1, <1>2, <1>3, <1>4 DEF BIAS, Magnitude, Clipped
<1>5. CASE m <= 32767
  BY <1>1, <1>2, <1>3, <1>5 DEF BIAS, Magnitude, Clipped
<1> QED
  BY <1>1, <1>4, <1>5
\* Toggle changes the low bit of every pair: doing it twice undoes it, and it leaves
\* the sign bit alone.
Toggled(p) == IF p % 2 = 0 THEN p + 1 ELSE p - 1

Pairs(a, b, c, d) == a + 4 * b + 16 * c + 64 * d

LEMMA TogglePairs ==
    ASSUME NEW a \in 0 .. 3, NEW b \in 0 .. 3, NEW c \in 0 .. 3, NEW d \in 0 .. 3
    PROVE  Toggle(Pairs(a, b, c, d)) =
               Pairs(Toggled(a), Toggled(b), Toggled(c), Toggled(d))
<1> DEFINE byte == Pairs(a, b, c, d)
<1>1. /\ (byte \div 4^0) % 4 = a /\ (byte \div 4^1) % 4 = b
      /\ (byte \div 4^2) % 4 = c /\ (byte \div 4^3) % 4 = d
  BY DEF Pairs
<1> QED
  BY <1>1 DEF Toggle, Toggled, Pairs

LEMMA ToggleTwice ==
    ASSUME NEW byte \in 0 .. 127
    PROVE  /\ Toggle(byte) \in 0 .. 127
           /\ Toggle(Toggle(byte)) = byte
           /\ Toggle(Toggle(byte) + 128) = byte + 128
<1> DEFINE a == byte % 4
<1> DEFINE b == (byte \div 4) % 4
<1> DEFINE c == (byte \div 16) % 4
<1> DEFINE d == byte \div 64
<1>1. /\ a \in 0 .. 3 /\ b \in 0 .. 3 /\ c \in 0 .. 3 /\ d \in 0 .. 1
      /\ byte = Pairs(a, b, c, d)
  BY DEF Pairs
<1> HIDE DEF a, b, c, d
<1>2. ASSUME NEW e \in 0 .. 3
      PROVE  Toggled(e) \in 0 .. 3 /\ Toggled(Toggled(e)) = e
  BY DEF Toggled
<1>3. Toggled(d) \in 0 .. 1 /\ Toggled(d) + 2 \in 0 .. 3 /\ Toggled(Toggled(d) + 2) = d + 2
  BY <1>1 DEF Toggled
<1>4. Toggle(byte) = Pairs(Toggled(a), Toggled(b), Toggled(c), Toggled(d))
  <2>1. d \in 0 .. 3
    BY <1>1
  <2>2. Toggle(Pairs(a, b, c, d)) =
          Pairs(Toggled(a), Toggled(b), Toggled(c), Toggled(d))
    BY <1>1, <2>1, TogglePairs, ZenonT(40)
  <2> QED
    BY <1>1, <2>2, Zenon
<1>5. /\ Toggled(a) \in 0 .. 3 /\ Toggled(b) \in 0 .. 3 /\ Toggled(c) \in 0 .. 3
      /\ Toggled(d) \in 0 .. 3
      /\ Toggled(Toggled(a)) = a /\ Toggled(Toggled(b)) = b /\ Toggled(Toggled(c)) = c
      /\ Toggled(Toggled(d)) = d
  <2>1. d \in 0 .. 3
    BY <1>1
  <2> QED
    BY <1>1, <1>2, <2>1
<1>6. Toggle(Toggle(byte)) = Pairs(a, b, c, d)
  <2>1. Toggle(Pairs(Toggled(a), Toggled(b), Toggled(c), Toggled(d))) =
          Pairs(Toggled(Toggled(a)), Toggled(Toggled(b)), Toggled(Toggled(c)), Toggled(Toggled(d)))
    BY <1>5, TogglePairs
  <2> QED
    BY <1>4, <1>5, <2>1, Zenon
<1>7. Toggle(Toggle(byte) + 128) = Pairs(a, b, c, d + 2)
  <2>1. Toggle(Pairs(Toggled(a), Toggled(b), Toggled(c), Toggled(d) + 2)) =
          Pairs(a, b, c, d + 2)
    <3>1. Toggle(Pairs(Toggled(a), Toggled(b), Toggled(c), Toggled(d) + 2)) =
            Pairs(Toggled(Toggled(a)), Toggled(Toggled(b)), Toggled(Toggled(c)), Toggled(Toggled(d) + 2))
      BY <1>3, <1>5, TogglePairs
    <3> QED
      BY <1>3, <1>5, <3>1, Zenon
  <2>2. Toggle(byte) + 128 =
          Pairs(Toggled(a), Toggled(b), Toggled(c), Toggled(d) + 2)
    BY <1>3, <1>4, <1>5 DEF Pairs
  <2> QED
    BY <2>1, <2>2
<1> QED
  <2>1. Toggle(byte) \in 0 .. 127
    BY <1>3, <1>4, <1>5 DEF Pairs
  <2>2. Toggle(Toggle(byte)) = byte
    BY <1>1, <1>6, Zenon
  <2>3. Toggle(Toggle(byte) + 128) = byte + 128
    BY <1>1, <1>7 DEF Pairs
  <2> QED
    BY <2>1, <2>2, <2>3

\* The same for A-law: its first two segments have intervals of the same size, and a
\* magnitude below zero is taken for the end of the first.
ACode(m) ==
    IF search(m) = 8 THEN 127
    ELSE Compressed(search(m), m, IF search(m) < 2 THEN 4 ELSE search(m) + 3)
AValue(code) ==
    IF (code \div 16) % 8 = 0 THEN (code % 16) * 16 + 8
    ELSE ((code % 16) * 16 + 264) * 2^(((code \div 16) % 8) - 1)

LEMMA ACompression ==
    ASSUME NEW m \in Nat, NEW s \in 1 .. 7, m > seg_end[s], m <= seg_end[s + 1]
    PROVE  \E q \in 0 .. 15 :
               /\ Compressed(s, m, IF s < 2 THEN 4 ELSE s + 3) = 16 * s + q
               /\ 16 * (16 + q) * 2^(s - 1) <= m
               /\ m < 16 * (17 + q) * 2^(s - 1)
<1>1. CASE s = 1
  BY <1>1 DEF seg_end, Compressed
<1>2. CASE s = 2
  BY <1>2 DEF seg_end, Compressed
<1>3. CASE s = 3
  BY <1>3 DEF seg_end, Compressed
<1>4. CASE s = 4
  BY <1>4 DEF seg_end, Compressed
<1>5. CASE s = 5
  BY <1>5 DEF seg_end, Compressed
<1>6. CASE s = 6
  BY <1>6 DEF seg_end, Compressed
<1>7. CASE s = 7
  BY <1>7 DEF seg_end, Compressed
<1> QED
  BY <1>1, <1>2, <1>3, <1>4, <1>5, <1>6, <1>7

LEMMA ACoded ==
    ASSUME NEW m \in Int, m >= -16
    PROVE  /\ ACode(m) \in 0 .. 127 /\ AValue(ACode(m)) \in Int
           /\ m < 0 => AValue(ACode(m)) = 248
           /\ m \in 0 .. 255 => Magnitude(AValue(ACode(m)) - m) <= 8
           /\ m >= 256 /\ m <= 32767 => 32 * Magnitude(AValue(ACode(m)) - m) <= m
           /\ m > 32767 => AValue(ACode(m)) = 32256
<1>1. PICK s \in 0 .. 8 : (s = 0 \/ m > seg_end[s]) /\ (s = 8 \/ m <= seg_end[s + 1])
  BY Segments
<1>2. search(m) = s
  BY <1>1, Segment
<1>3. CASE s = 8
  <2>1. ACode(m) = 127 /\ m > 32767
    BY <1>1, <1>2, <1>3 DEF ACode, seg_end
  <2> QED
    BY <2>1 DEF AValue
<1>4. CASE s \in 1 .. 7
  <2>1. m >= 256 /\ m <= 32767
    BY <1>1, <1>4 DEF seg_end
  <2>2. m \in Nat /\ m > seg_end[s] /\ m <= seg_end[s + 1]
    BY <1>1, <1>4, <2>1
  <2>3. PICK q \in 0 .. 15 : /\ Compressed(s, m, IF s < 2 THEN 4 ELSE s + 3) = 16 * s + q
                            /\ 16 * (16 + q) * 2^(s - 1) <= m /\ m < 16 * (17 + q) * 2^(s - 1)
    BY <1>4, <2>2, ACompression, Zenon
  <2>4. ACode(m) = 16 * s + q
    BY <1>2, <1>4, <2>3 DEF ACode
  <2>5. (16 * s + q) % 16 = q /\ ((16 * s + q) \div 16) % 8 = s
    BY <1>4
  <2>6. AValue(ACode(m)) = 16 * (16 + q) * 2^(s - 1) + 8 * 2^(s - 1)
    BY <1>4, <2>4, <2>5 DEF AValue
  <2> QED
    BY <1>4, <2>1, <2>3, <2>4, <2>6 DEF Magnitude
<1>5. CASE s = 0
  <2>1. m <= 255 /\ ACode(m) = (m \div 16) % 16
    BY <1>1, <1>2, <1>5 DEF ACode, Compressed, seg_end
  <2> QED
    BY <2>1 DEF AValue, Magnitude
<1> QED
  <2>1. s = 8 \/ s \in 1 .. 7 \/ s = 0
    OBVIOUS
  <2> QED
    BY <1>3, <1>4, <1>5, <2>1
\* The A-law coder in these terms.
AMagnitude(y) == IF y >= 0 THEN y ELSE -y - 8

LEMMA ALawCode ==
    ASSUME NEW y \in Int
    PROVE  /\ linear2alaw(y) \in Bytes
           /\ alaw2linear(linear2alaw(y)) =
                  IF y >= 0 THEN AValue(ACode(AMagnitude(y))) ELSE -AValue(ACode(AMagnitude(y)))
<1> DEFINE c == ACode(AMagnitude(y))
<1>1. AMagnitude(y) \in Int /\ AMagnitude(y) >= -16
  BY DEF AMagnitude
<1>2. c \in 0 .. 127 /\ AValue(c) \in Int
  BY <1>1, ACoded
<1>3. linear2alaw(y) = Toggle(c) + IF y >= 0 THEN 128 ELSE 0
  BY Zenon DEF linear2alaw, ACode, AMagnitude
<1> HIDE DEF c
<1>4. /\ Toggle(c) \in 0 .. 127 /\ Toggle(Toggle(c)) = c /\ Toggle(Toggle(c) + 128) = c + 128
  BY <1>2, ToggleTwice
<1>5. ((128 + c) % 16) = c % 16 /\ ((128 + c) \div 16) % 8 = (c \div 16) % 8
  BY <1>2
<1>6. CASE y >= 0
  <2>1. linear2alaw(y) = Toggle(c) + 128
    BY <1>3, <1>6
  <2>2. Toggle(linear2alaw(y)) = 128 + c /\ 128 + c >= 128
    BY <1>2, <1>4, <2>1
  <2>3. alaw2linear(linear2alaw(y)) = AValue(c)
    BY <1>5, <2>2 DEF alaw2linear, AValue
  <2> QED
    BY <1>4, <1>6, <2>1, <2>3 DEF Bytes, c
<1>7. CASE ~ (y >= 0)
  <2>1. linear2alaw(y) = Toggle(c)
    BY <1>3, <1>4, <1>7
  <2>2. Toggle(linear2alaw(y)) = c /\ ~ (c >= 128)
    BY <1>2, <1>4, <2>1
  <2>3. alaw2linear(linear2alaw(y)) = -AValue(c)
    BY <2>2 DEF alaw2linear, AValue
  <2> QED
    BY <1>4, <1>7, <2>1, <2>3 DEF Bytes, c
<1> QED
  BY <1>6, <1>7

\* An A-law byte is off by at most 16, or by 1/16 of the sample clipped where 16 bits
\* end, but for the samples whose magnitude comes out negative.
LEMMA ALawError ==
    ASSUME NEW y \in Int
    PROVE  LET x == Clipped(y, 32767)
               heard == alaw2linear(linear2alaw(y))
           IN  x \notin -7 .. -1 =>
                   Magnitude(heard - x) <= 16 \/ 16 * Magnitude(heard - x) <= Magnitude(x)
<1> DEFINE m == AMagnitude(y)
<1> DEFINE v == AValue(ACode(m))
<1>1. m \in Int /\ m >= -16 /\ m = IF y >= 0 THEN y ELSE -y - 8
  BY DEF AMagnitude
<1>2. /\ v \in Int /\ (m < 0 => v = 248) /\ (m \in 0 .. 255 => Magnitude(v - m) <= 8)
      /\ (m >= 256 /\ m <= 32767 => 32 * Magnitude(v - m) <= m)
      /\ (m > 32767 => v = 32256)
  BY <1>1, ACoded
<1>3. alaw2linear(linear2alaw(y)) = IF y >= 0 THEN v ELSE -v
  BY ALawCode
<1> HIDE DEF v, m
<1>4. CASE m < 0
  BY <1>1, <1>2, <1>3, <1>4 DEF Magnitude, Clipped
<1>5. CASE m \in 0 .. 255
  BY <1>1, <1>2, <1>3, <1>5 DEF Magnitude, Clipped
<1>6. CASE m >= 256 /\ m <= 32767
  BY <1>1, <1>2, <1>3, <1>6 DEF Magnitude, Clipped
<1>7. CASE m > 32767
  BY <1>1, <1>2, <1>3, <1>7 DEF Magnitude, Clipped
<1> QED
  BY <1>1, <1>4, <1>5, <1>6, <1>7
\* A code is its segment and its interval.
LEMMA Rows ==
    ASSUME NEW c \in 0 .. 127
    PROVE  \E s \in 0 .. 7, q \in 0 .. 15 :
               c = 16 * s + q /\ (c \div 16) % 8 = s /\ c % 16 = q
<1>1. c \div 16 \in 0 .. 7 /\ c % 16 \in 0 .. 15
  OBVIOUS
<1>2. c = 16 * (c \div 16) + (c % 16) /\ (c \div 16) % 8 = c \div 16
  OBVIOUS
<1> QED
  BY <1>1, <1>2

\* The middle of an interval is coded as this interval.
InURow(m, s, q) ==
    /\ m \in Nat /\ m >= BIAS /\ m >= 128
    /\ s = 0 \/ m > seg_end[s]
    /\ m <= seg_end[s + 1]
    /\ \A r \in 0 .. 15 : 8 * (16 + r) * 2^s <= m /\ m < 8 * (17 + r) * 2^s => r = q

LEMMA UMiddle ==
    ASSUME NEW s \in 0 .. 7, NEW q \in 0 .. 15, NEW m, m = (q * 8 + BIAS) * 2^s
    PROVE  InURow(m, s, q)
<1>1. CASE s = 0
  BY <1>1 DEF InURow, seg_end, BIAS
<1>2. CASE s = 1
  BY <1>2 DEF InURow, seg_end, BIAS
<1>3. CASE s = 2
  BY <1>3 DEF InURow, seg_end, BIAS
<1>4. CASE s = 3
  BY <1>4 DEF InURow, seg_end, BIAS
<1>5. CASE s = 4
  BY <1>5 DEF InURow, seg_end, BIAS
<1>6. CASE s = 5
  BY <1>6 DEF InURow, seg_end, BIAS
<1>7. CASE s = 6
  BY <1>7 DEF InURow, seg_end, BIAS
<1>8. CASE s = 7
  BY <1>8 DEF InURow, seg_end, BIAS
<1> QED
  BY <1>1, <1>2, <1>3, <1>4, <1>5, <1>6, <1>7, <1>8

LEMMA URecoded ==
    ASSUME NEW c \in 0 .. 127
    PROVE  UValue(c) \in Nat /\ UValue(c) >= BIAS /\ UCode(UValue(c)) = c
<1>1. PICK s \in 0 .. 7, q \in 0 .. 15 : c = 16 * s + q /\ (c \div 16) % 8 = s /\ c % 16 = q
  BY Rows
<1> DEFINE m == (q * 8 + BIAS) * 2^s
<1>2. UValue(c) = m
  BY <1>1 DEF UValue
<1>3. /\ m \in Nat /\ m >= BIAS /\ m >= 128 /\ (s = 0 \/ m > seg_end[s]) /\ m <= seg_end[s + 1]
      /\ \A r \in 0 .. 15 : 8 * (16 + r) * 2^s <= m /\ m < 8 * (17 + r) * 2^s => r = q
  <2> HIDE DEF m
  <2>1. m = (q * 8 + BIAS) * 2^s
    BY DEF m
  <2>2. InURow(m, s, q)
    BY <2>1, UMiddle, Zenon
  <2> QED
    BY <2>2 DEF InURow
<1> HIDE DEF m
<1>4. search(m) = s
  <2>1. m \in Int /\ s \in 0 .. 8
    BY <1>3
  <2> QED
    BY <1>3, <2>1, Segment, Zenon
<1>5. PICK r \in 0 .. 15 : /\ Compressed(s, m, s + 3) = 16 * s + r
                          /\ 8 * (16 + r) * 2^s <= m /\ m < 8 * (17 + r) * 2^s
  BY <1>3, Compression, Zenon
<1>6. r = q /\ s # 8
  BY <1>3, <1>5
<1>7. UCode(m) = 16 * s + q
  BY <1>4, <1>5, <1>6 DEF UCode
<1> QED
  BY <1>1, <1>2, <1>3, <1>7

LEMMA AMiddle ==
    ASSUME NEW s \in 1 .. 7, NEW q \in 0 .. 15, NEW m,
           m = (q * 16 + 264) * 2^(s - 1) \/ m = (q * 16 + 264) * 2^(s - 1) - 8
    PROVE  /\ m \in Nat /\ m > seg_end[s] /\ m <= seg_end[s + 1]
           /\ \A r \in 0 .. 15 :
                  16 * (16 + r) * 2^(s - 1) <= m /\ m < 16 * (17 + r) * 2^(s - 1) => r = q
<1>1. CASE s = 1
  BY <1>1 DEF seg_end
<1>2. CASE s = 2
  BY <1>2 DEF seg_end
<1>3. CASE s = 3
  BY <1>3 DEF seg_end
<1>4. CASE s = 4
  BY <1>4 DEF seg_end
<1>5. CASE s = 5
  BY <1>5 DEF seg_end
<1>6. CASE s = 6
  BY <1>6 DEF seg_end
<1>7. CASE s = 7
  BY <1>7 DEF seg_end
<1> QED
  BY <1>1, <1>2, <1>3, <1>4, <1>5, <1>6, <1>7

LEMMA ARecoded ==
    ASSUME NEW c \in 0 .. 127
    PROVE  /\ AValue(c) \in Nat /\ AValue(c) >= 8
           /\ ACode(AValue(c)) = c /\ ACode(AValue(c) - 8) = c
<1>1. PICK s \in 0 .. 7, q \in 0 .. 15 : c = 16 * s + q /\ (c \div 16) % 8 = s /\ c % 16 = q
  BY Rows
<1>2. CASE s = 0
  <2>1. AValue(c) = 16 * q + 8 /\ c = q
    BY <1>1, <1>2 DEF AValue
  <2>2. ASSUME NEW m \in Nat, m = 16 * q + 8 \/ m = 16 * q
        PROVE  ACode(m) = c
    <3>1. search(m) = 0
      <4>1. m <= seg_end[0 + 1] /\ m \in Int /\ 0 \in 0 .. 8
        BY <2>2 DEF seg_end
      <4> QED
        BY <4>1, Segment
    <3> QED
      BY <2>1, <2>2, <3>1 DEF ACode, Compressed
  <2> QED
    BY <2>1, <2>2
<1>3. CASE s \in 1 .. 7
  <2>1. AValue(c) = (q * 16 + 264) * 2^(s - 1)
    BY <1>1, <1>3 DEF AValue
  <2>2. ASSUME NEW m, m = AValue(c) \/ m = AValue(c) - 8
        PROVE  m \in Nat /\ ACode(m) = c
    <3>1. /\ m \in Nat /\ m > seg_end[s] /\ m <= seg_end[s + 1]
          /\ \A r \in 0 .. 15 :
                 16 * (16 + r) * 2^(s - 1) <= m /\ m < 16 * (17 + r) * 2^(s - 1) => r = q
      BY <1>3, <2>1, <2>2, AMiddle, ZenonT(40)
    <3>2. search(m) = s
      <4>1. m \in Int /\ s \in 0 .. 8
        BY <3>1
      <4> QED
        BY <3>1, <4>1, Segment, Zenon
    <3>3. PICK r \in 0 .. 15 : /\ Compressed(s, m, IF s < 2 THEN 4 ELSE s + 3) = 16 * s + r
                              /\ 16 * (16 + r) * 2^(s - 1) <= m
                              /\ m < 16 * (17 + r) * 2^(s - 1)
      BY <1>3, <3>1, ACompression, Zenon
    <3>4. r = q /\ s # 8
      BY <1>3, <3>1, <3>3
    <3> QED
      BY <1>1, <3>1, <3>2, <3>3, <3>4 DEF ACode
  <2>3. AValue(c) \in Nat /\ ACode(AValue(c)) = c /\ AValue(c) - 8 \in Nat /\ ACode(AValue(c) - 8) = c
    BY <2>2
  <2> QED
    BY <2>3
<1> QED
  <2>1. s = 0 \/ s \in 1 .. 7
    OBVIOUS
  <2> QED
    BY <1>2, <1>3, <2>1
\* The two tables, row by row.
LEMMA U2ARows ==
    ASSUME NEW q \in 0 .. 15
    PROVE  /\ u2a[q + 1] = q \div 2 + 1
           /\ u2a[16 + q + 1] = 9 + q
           /\ u2a[32 + q + 1] = IF q < 4 THEN 25 + 2 * q ELSE 29 + q
           /\ u2a[48 + q + 1] = IF q = 0 THEN 46 ELSE 47 + q
           /\ u2a[64 + q + 1] = 64 + q
           /\ u2a[80 + q + 1] = 81 + q
           /\ u2a[96 + q + 1] = 97 + q
           /\ u2a[112 + q + 1] = 113 + q
BY DEF u2a

LEMMA A2URows ==
    ASSUME NEW q \in 0 .. 15
    PROVE  /\ a2u[q + 1] = IF q < 8 THEN 2 * q + 1 ELSE q + 8
           /\ a2u[16 + q + 1] = IF q < 8 THEN 24 + q ELSE 28 + q \div 2
           /\ a2u[32 + q + 1] = IF q < 12 THEN 36 + q ELSE 42 + q \div 2
           /\ a2u[48 + q + 1] = IF q < 14 THEN 50 + q ELSE 64
           /\ a2u[64 + q + 1] = IF q < 15 THEN 65 + q ELSE 79
           /\ a2u[80 + q + 1] = 80 + q
           /\ a2u[96 + q + 1] = 96 + q
           /\ a2u[112 + q + 1] = 112 + q
BY DEF a2u
\* What the decoders make of a code, segment by segment.
LEMMA Powers ==
    ASSUME NEW s
    PROVE  /\ s = 0 => 2^s = 1
           /\ s = 1 => 2^s = 2
           /\ s = 2 => 2^s = 4
           /\ s = 3 => 2^s = 8
           /\ s = 4 => 2^s = 16
           /\ s = 5 => 2^s = 32
           /\ s = 6 => 2^s = 64
           /\ s = 7 => 2^s = 128
<1>1. ASSUME s = 0 PROVE 2^s = 1
  BY <1>1
<1>2. ASSUME s = 1 PROVE 2^s = 2
  BY <1>2
<1>3. ASSUME s = 2 PROVE 2^s = 4
  BY <1>3
<1>4. ASSUME s = 3 PROVE 2^s = 8
  BY <1>4
<1>5. ASSUME s = 4 PROVE 2^s = 16
  BY <1>5
<1>6. ASSUME s = 5 PROVE 2^s = 32
  BY <1>6
<1>7. ASSUME s = 6 PROVE 2^s = 64
  BY <1>7
<1>8. ASSUME s = 7 PROVE 2^s = 128
  BY <1>8
<1> QED
  BY <1>1, <1>2, <1>3, <1>4, <1>5, <1>6, <1>7, <1>8

LEMMA UValues ==
    ASSUME NEW c \in 0 .. 127
    PROVE  /\ c < 16 => UValue(c) = 1 * (8 * (c - 0) + 132)
           /\ c >= 16 /\ c < 32 => UValue(c) = 2 * (8 * (c - 16) + 132)
           /\ c >= 32 /\ c < 48 => UValue(c) = 4 * (8 * (c - 32) + 132)
           /\ c >= 48 /\ c < 64 => UValue(c) = 8 * (8 * (c - 48) + 132)
           /\ c >= 64 /\ c < 80 => UValue(c) = 16 * (8 * (c - 64) + 132)
           /\ c >= 80 /\ c < 96 => UValue(c) = 32 * (8 * (c - 80) + 132)
           /\ c >= 96 /\ c < 112 => UValue(c) = 64 * (8 * (c - 96) + 132)
           /\ c >= 112 => UValue(c) = 128 * (8 * (c - 112) + 132)
<1> DEFINE s == (c \div 16) % 8
<1> DEFINE q == c % 16
<1>1. UValue(c) = (q * 8 + 132) * 2^s
  BY DEF UValue, BIAS
<1>2. s \in 0 .. 7 /\ q \in 0 .. 15 /\ c = 16 * s + q
  OBVIOUS
<1> HIDE DEF s, q
<1>3. 2^s \in Int
  BY <1>2
<1>4. ASSUME NEW x \in Int, 2^s = x
      PROVE  UValue(c) = x * (8 * q + 132)
  BY <1>1, <1>2, <1>4
<1> QED
  BY <1>2, <1>4, Powers

LEMMA AValues ==
    ASSUME NEW c \in 0 .. 127
    PROVE  /\ c < 16 => AValue(c) = 16 * c + 8
           /\ c >= 16 /\ c < 32 => AValue(c) = 1 * (16 * (c - 16) + 264)
           /\ c >= 32 /\ c < 48 => AValue(c) = 2 * (16 * (c - 32) + 264)
           /\ c >= 48 /\ c < 64 => AValue(c) = 4 * (16 * (c - 48) + 264)
           /\ c >= 64 /\ c < 80 => AValue(c) = 8 * (16 * (c - 64) + 264)
           /\ c >= 80 /\ c < 96 => AValue(c) = 16 * (16 * (c - 80) + 264)
           /\ c >= 96 /\ c < 112 => AValue(c) = 32 * (16 * (c - 96) + 264)
           /\ c >= 112 => AValue(c) = 64 * (16 * (c - 112) + 264)
<1> DEFINE s == (c \div 16) % 8
<1> DEFINE q == c % 16
<1>1. AValue(c) = IF s = 0 THEN q * 16 + 8 ELSE (q * 16 + 264) * 2^(s - 1)
  BY DEF AValue
<1>2. s \in 0 .. 7 /\ q \in 0 .. 15 /\ c = 16 * s + q
  OBVIOUS
<1> HIDE DEF s, q
<1>3. 2^(s - 1) \in Int
  BY <1>2
<1>4. ASSUME NEW x \in Int, 2^(s - 1) = x, s # 0
      PROVE  AValue(c) = x * (16 * q + 264)
  BY <1>1, <1>2, <1>4
<1> QED
  BY <1>1, <1>2, <1>4, Powers

\* A conversion stays within 1/16 of the sample.
LEMMA U2AClose ==
    ASSUME NEW c \in 0 .. 127
    PROVE  /\ u2a[c + 1] - 1 \in 0 .. 127
           /\ 16 * Magnitude(AValue(u2a[c + 1] - 1) - (UValue(c) - BIAS)) <= UValue(c)
<1>1. PICK s \in 0 .. 7, q \in 0 .. 15 : c = 16 * s + q
  BY Rows
<1>2. CASE s = 0
  <2>1. u2a[c + 1] \in Int /\ u2a[c + 1] - 1 = q \div 2
    BY <1>1, <1>2, U2ARows
  <2>2. u2a[c + 1] - 1 \in 0 .. 127
    BY <1>1, <2>1
  <2> QED
    BY <1>1, <1>2, <2>1, <2>2, AValues, UValues DEF Magnitude, BIAS
<1>3. CASE s = 1
  <2>1. u2a[c + 1] \in Int /\ u2a[c + 1] - 1 = 8 + q
    BY <1>1, <1>3, U2ARows
  <2>2. u2a[c + 1] - 1 \in 0 .. 127
    BY <1>1, <2>1
  <2> QED
    BY <1>1, <1>3, <2>1, <2>2, AValues, UValues DEF Magnitude, BIAS
<1>4. CASE s = 2
  <2>1. u2a[c + 1] \in Int /\ u2a[c + 1] - 1 = (IF q < 4 THEN 24 + 2 * q ELSE 28 + q)
    BY <1>1, <1>4, U2ARows
  <2>2. u2a[c + 1] - 1 \in 0 .. 127
    BY <1>1, <2>1
  <2> QED
    BY <1>1, <1>4, <2>1, <2>2, AValues, UValues DEF Magnitude, BIAS
<1>5. CASE s = 3
  <2>1. u2a[c + 1] \in Int /\ u2a[c + 1] - 1 = IF q = 0 THEN 45 ELSE 46 + q
    BY <1>1, <1>5, U2ARows
  <2>2. u2a[c + 1] - 1 \in 0 .. 127
    BY <1>1, <2>1
  <2> QED
    BY <1>1, <1>5, <2>1, <2>2, AValues, UValues DEF Magnitude, BIAS
<1>6. CASE s = 4
  <2>1. u2a[c + 1] \in Int /\ u2a[c + 1] - 1 = 63 + q
    BY <1>1, <1>6, U2ARows
  <2>2. u2a[c + 1] - 1 \in 0 .. 127
    BY <1>1, <2>1
  <2> QED
    BY <1>1, <1>6, <2>1, <2>2, AValues, UValues DEF Magnitude, BIAS
<1>7. CASE s = 5
  <2>1. u2a[c + 1] \in Int /\ u2a[c + 1] - 1 = 80 + q
    BY <1>1, <1>7, U2ARows
  <2>2. u2a[c + 1] - 1 \in 0 .. 127
    BY <1>1, <2>1
  <2> QED
    BY <1>1, <1>7, <2>1, <2>2, AValues, UValues DEF Magnitude, BIAS
<1>8. CASE s = 6
  <2>1. u2a[c + 1] \in Int /\ u2a[c + 1] - 1 = 96 + q
    BY <1>1, <1>8, U2ARows
  <2>2. u2a[c + 1] - 1 \in 0 .. 127
    BY <1>1, <2>1
  <2> QED
    BY <1>1, <1>8, <2>1, <2>2, AValues, UValues DEF Magnitude, BIAS
<1>9. CASE s = 7
  <2>1. u2a[c + 1] \in Int /\ u2a[c + 1] - 1 = 112 + q
    BY <1>1, <1>9, U2ARows
  <2>2. u2a[c + 1] - 1 \in 0 .. 127
    BY <1>1, <2>1
  <2> QED
    BY <1>1, <1>9, <2>1, <2>2, AValues, UValues DEF Magnitude, BIAS
<1> QED
  BY <1>2, <1>3, <1>4, <1>5, <1>6, <1>7, <1>8, <1>9

LEMMA A2UClose ==
    ASSUME NEW c \in 0 .. 127
    PROVE  /\ a2u[c + 1] \in 0 .. 127
           /\ 16 * Magnitude(UValue(a2u[c + 1]) - BIAS - AValue(c)) <= AValue(c) + BIAS
<1>1. PICK s \in 0 .. 7, q \in 0 .. 15 : c = 16 * s + q
  BY Rows
<1>2. CASE s = 0
  <2>1. a2u[c + 1] = IF q < 8 THEN 2 * q + 1 ELSE q + 8
    BY <1>1, <1>2, A2URows
  <2>2. a2u[c + 1] \in 0 .. 127
    BY <1>1, <2>1
  <2> QED
    BY <1>1, <1>2, <2>1, <2>2, AValues, UValues DEF Magnitude, BIAS
<1>3. CASE s = 1
  <2>1. a2u[c + 1] = IF q < 8 THEN 24 + q ELSE 28 + q \div 2
    BY <1>1, <1>3, A2URows
  <2>2. a2u[c + 1] \in 0 .. 127
    BY <1>1, <2>1
  <2> QED
    BY <1>1, <1>3, <2>1, <2>2, AValues, UValues DEF Magnitude, BIAS
<1>4. CASE s = 2
  <2>1. a2u[c + 1] = IF q < 12 THEN 36 + q ELSE 42 + q \div 2
    BY <1>1, <1>4, A2URows
  <2>2. a2u[c + 1] \in 0 .. 127
    BY <1>1, <2>1
  <2> QED
    BY <1>1, <1>4, <2>1, <2>2, AValues, UValues DEF Magnitude, BIAS
<1>5. CASE s = 3
  <2>1. a2u[c + 1] = IF q < 14 THEN 50 + q ELSE 64
    BY <1>1, <1>5, A2URows
  <2>2. a2u[c + 1] \in 0 .. 127
    BY <1>1, <2>1
  <2> QED
    BY <1>1, <1>5, <2>1, <2>2, AValues, UValues DEF Magnitude, BIAS
<1>6. CASE s = 4
  <2>1. a2u[c + 1] = IF q < 15 THEN 65 + q ELSE 79
    BY <1>1, <1>6, A2URows
  <2>2. a2u[c + 1] \in 0 .. 127
    BY <1>1, <2>1
  <2> QED
    BY <1>1, <1>6, <2>1, <2>2, AValues, UValues DEF Magnitude, BIAS
<1>7. CASE s = 5
  <2>1. a2u[c + 1] = 80 + q
    BY <1>1, <1>7, A2URows
  <2>2. a2u[c + 1] \in 0 .. 127
    BY <1>1, <2>1
  <2> QED
    BY <1>1, <1>7, <2>1, <2>2, AValues, UValues DEF Magnitude, BIAS
<1>8. CASE s = 6
  <2>1. a2u[c + 1] = 96 + q
    BY <1>1, <1>8, A2URows
  <2>2. a2u[c + 1] \in 0 .. 127
    BY <1>1, <2>1
  <2> QED
    BY <1>1, <1>8, <2>1, <2>2, AValues, UValues DEF Magnitude, BIAS
<1>9. CASE s = 7
  <2>1. a2u[c + 1] = 112 + q
    BY <1>1, <1>9, A2URows
  <2>2. a2u[c + 1] \in 0 .. 127
    BY <1>1, <2>1
  <2> QED
    BY <1>1, <1>9, <2>1, <2>2, AValues, UValues DEF Magnitude, BIAS
<1> QED
  BY <1>2, <1>3, <1>4, <1>5, <1>6, <1>7, <1>8, <1>9

\* The same for A-law.
LEMMA ASides ==
    ASSUME NEW c \in 0 .. 127
    PROVE  /\ alaw2linear(Toggle(c) + 128) = AValue(c)
           /\ alaw2linear(Toggle(c)) = -AValue(c)
<1>1. Toggle(Toggle(c)) = c /\ Toggle(Toggle(c) + 128) = c + 128
  BY ToggleTwice
<1>2. (c + 128) % 16 = c % 16 /\ ((c + 128) \div 16) % 8 = (c \div 16) % 8 /\ c + 128 >= 128
  OBVIOUS
<1>3. alaw2linear(Toggle(c) + 128) = AValue(c)
  <2> DEFINE byte == Toggle(Toggle(c) + 128)
  <2>1. byte % 16 = c % 16 /\ (byte \div 16) % 8 = (c \div 16) % 8 /\ byte >= 128
    BY <1>1, <1>2
  <2>2. alaw2linear(Toggle(c) + 128) =
          LET t == (byte % 16) * 16 IN
          IF (byte \div 16) % 8 = 0 THEN t + 8 ELSE (t + 264) * 2^(((byte \div 16) % 8) - 1)
    BY <2>1, Zenon DEF alaw2linear
  <2> HIDE DEF byte
  <2> QED
    BY <2>1, <2>2, Zenon DEF AValue
<1>4. alaw2linear(Toggle(c)) = -AValue(c)
  BY <1>1 DEF alaw2linear, AValue
<1> QED
  BY <1>3, <1>4

\* A u-law byte coded again, and converted.
LEMMA URequantized ==
    ASSUME NEW byte \in Bytes
    PROVE  LET x == ulaw2linear(byte) IN
           /\ ulaw2linear(linear2ulaw(x)) = x
           /\ 16 * Magnitude(alaw2linear(ulaw2alaw(byte)) - x) <= Magnitude(x) + BIAS
<1> DEFINE x == ulaw2linear(byte)
<1>1. PICK c \in 0 .. 127 : byte = 255 - c \/ byte = 127 - c
  <2>1. (IF byte >= 128 THEN 255 - byte ELSE 127 - byte) \in 0 .. 127
    BY DEF Bytes
  <2> QED
    BY <2>1 DEF Bytes
<1> DEFINE d == u2a[c + 1] - 1
<1>2. UValue(c) \in Nat /\ UValue(c) >= BIAS /\ UCode(UValue(c)) = c
  BY URecoded
<1>3. x = (IF byte = 255 - c THEN UValue(c) - BIAS ELSE BIAS - UValue(c)) /\ x \in Int
  BY <1>1, <1>2, USides, SMTT(40) DEF BIAS
<1>4. d \in 0 .. 127 /\ 16 * Magnitude(AValue(d) - (UValue(c) - BIAS)) <= UValue(c)
  BY U2AClose
<1>5. AValue(d) \in Nat
  BY <1>4, ARecoded
<1>6. alaw2linear(ulaw2alaw(byte)) = IF byte = 255 - c THEN AValue(d) ELSE -AValue(d)
  <2>1. CASE byte = 255 - c
    <3>1. byte >= 128 /\ 255 - byte + 1 = c + 1
      BY <2>1
    <3>2. ulaw2alaw(byte) = 128 + Toggle(d)
      BY <3>1 DEF ulaw2alaw
    <3>3. Toggle(d) \in 0 .. 127
      BY <1>4, ToggleTwice
    <3>4. 128 + Toggle(d) = Toggle(d) + 128
      BY <3>3
    <3> QED
      BY <1>4, <2>1, <3>2, <3>4, ASides
  <2>2. CASE byte = 127 - c
    <3>1. ~ (byte >= 128) /\ byte # 255 - c /\ 127 - byte + 1 = c + 1
      BY <2>2
    <3>2. ulaw2alaw(byte) = Toggle(d)
      BY <3>1 DEF ulaw2alaw
    <3> QED
      BY <1>4, <3>1, <3>2, ASides
  <2> QED
    BY <1>1, <2>1, <2>2
<1> HIDE DEF d, x
<1>7. Magnitude(x) = UValue(c) - BIAS /\ BIAS + Magnitude(x) = UValue(c)
  BY <1>2, <1>3 DEF Magnitude, BIAS
<1>8. ulaw2linear(linear2ulaw(x)) = IF x < 0 THEN BIAS - UValue(c) ELSE UValue(c) - BIAS
  <2>1. BIAS + Magnitude(x) = UValue(c)
    BY <1>2, <1>7 DEF BIAS
  <2>2. UValue(UCode(BIAS + Magnitude(x))) = UValue(c)
    BY <1>2, <2>1, Zenon
  <2> QED
    BY <1>3, <2>2, ULawCode
<1>9. ulaw2linear(linear2ulaw(x)) = x
  BY <1>2, <1>3, <1>8 DEF BIAS
<1>10. 16 * Magnitude(alaw2linear(ulaw2alaw(byte)) - x) <= Magnitude(x) + BIAS
  <2> DEFINE u == UValue(c) - BIAS
  <2> DEFINE v == AValue(d)
  <2>1. u \in Int /\ v \in Int /\ Magnitude(x) = u /\ 16 * Magnitude(v - u) <= u + BIAS
    BY <1>2, <1>4, <1>5, <1>7 DEF BIAS
  <2>2. \/ alaw2linear(ulaw2alaw(byte)) = v /\ x = u
        \/ alaw2linear(ulaw2alaw(byte)) = -v /\ x = -u
    <3>1. BIAS - UValue(c) = -u
      BY <1>2 DEF BIAS
    <3> QED
      BY <1>3, <1>6, <3>1
  <2> HIDE DEF u, v
  <2> QED
    BY <2>1, <2>2 DEF Magnitude, BIAS
<1> QED
  BY <1>9, <1>10 DEF x

\* An A-law byte coded again, and converted.
LEMMA ARequantized ==
    ASSUME NEW byte \in Bytes
    PROVE  LET x == alaw2linear(byte) IN
           /\ alaw2linear(linear2alaw(x)) = x
           /\ 16 * Magnitude(ulaw2linear(alaw2ulaw(byte)) - x) <= Magnitude(x) + BIAS
<1> DEFINE x == alaw2linear(byte)
<1>1. PICK c \in 0 .. 127 : byte = Toggle(c) + 128 \/ (byte = Toggle(c) /\ byte < 128)
  <2>1. CASE byte >= 128
    <3>1. byte - 128 \in 0 .. 127
      BY <2>1 DEF Bytes
    <3>2. Toggle(byte - 128) \in 0 .. 127 /\ Toggle(Toggle(byte - 128)) = byte - 128
      BY <3>1, ToggleTwice
    <3>3. byte = Toggle(Toggle(byte - 128)) + 128
      BY <3>2 DEF Bytes
    <3> QED
      BY <3>2, <3>3
  <2>2. CASE byte < 128
    <3>1. byte \in 0 .. 127
      BY <2>2 DEF Bytes
    <3> QED
      BY <2>2, <3>1, ToggleTwice
  <2> QED
    BY <2>1, <2>2 DEF Bytes
<1>2. Toggle(c) \in 0 .. 127 /\ Toggle(Toggle(c)) = c
  BY ToggleTwice
<1>3. AValue(c) \in Nat /\ AValue(c) >= 8 /\ ACode(AValue(c)) = c /\ ACode(AValue(c) - 8) = c
  BY ARecoded
<1>4. x = IF byte >= 128 THEN AValue(c) ELSE -AValue(c)
  BY <1>1, <1>2, ASides
<1>5. a2u[c + 1] \in 0 .. 127
      /\ 16 * Magnitude(UValue(a2u[c + 1]) - BIAS - AValue(c)) <= AValue(c) + BIAS
  BY A2UClose
<1>6. UValue(a2u[c + 1]) \in Nat
  BY <1>5, URecoded
<1>7. ulaw2linear(alaw2ulaw(byte)) =
        IF byte >= 128 THEN UValue(a2u[c + 1]) - BIAS ELSE BIAS - UValue(a2u[c + 1])
  <2>1. CASE byte >= 128
    <3>1. byte - 128 = Toggle(c)
      BY <1>1, <1>2, <2>1
    <3>2. alaw2ulaw(byte) = 255 - a2u[c + 1]
      BY <1>2, <2>1, <3>1 DEF alaw2ulaw
    <3> QED
      BY <1>5, <2>1, <3>2, USides
  <2>2. CASE ~ (byte >= 128)
    <3>1. byte = Toggle(c)
      BY <1>1, <1>2, <2>2
    <3>2. alaw2ulaw(byte) = 127 - a2u[c + 1]
      BY <1>2, <2>2, <3>1 DEF alaw2ulaw
    <3> QED
      BY <1>5, <2>2, <3>2, USides
  <2> QED
    BY <2>1, <2>2
<1> HIDE DEF x
<1>8. x \in Int /\ Magnitude(x) = AValue(c)
  BY <1>3, <1>4 DEF Magnitude
<1>9. ACode(AMagnitude(x)) = c /\ (x >= 0 <=> byte >= 128)
  <2>1. CASE byte >= 128
    <3>1. AMagnitude(x) = AValue(c) /\ x >= 0
      BY <1>3, <1>4, <2>1 DEF AMagnitude
    <3> QED
      BY <1>3, <2>1, <3>1
  <2>2. CASE ~ (byte >= 128)
    <3>1. AMagnitude(x) = AValue(c) - 8 /\ ~ (x >= 0)
      BY <1>3, <1>4, <2>2 DEF AMagnitude
    <3> QED
      BY <1>3, <2>2, <3>1
  <2> QED
    BY <2>1, <2>2
<1>10. alaw2linear(linear2alaw(x)) = IF x >= 0 THEN AValue(c) ELSE -AValue(c)
  BY <1>8, <1>9, ALawCode
<1>11. alaw2linear(linear2alaw(x)) = x
  BY <1>4, <1>9, <1>10
<1>12. 16 * Magnitude(ulaw2linear(alaw2ulaw(byte)) - x) <= Magnitude(x) + BIAS
  BY <1>3, <1>4, <1>5, <1>6, <1>7, <1>8 DEF Magnitude, BIAS
<1> QED
  BY <1>11, <1>12 DEF x
-------------------------------------------------------------------------------
\* The deemphasis filter.

\* Induction, from the well-foundedness of < on the natural numbers.
LessThan == {p \in Nat \X Nat : p[1] < p[2]}

LEMMA LessThanWellFounded == IsWellFoundedOn(LessThan, Nat)
BY NatLessThanWellFounded DEF OpToRel, LessThan

LEMMA Induction ==
    ASSUME NEW T \in SUBSET Nat, 0 \in T, \A m \in T : m + 1 \in T
    PROVE  T = Nat
<1> SUFFICES ASSUME Nat \ T # {} PROVE FALSE
  OBVIOUS
<1>1. PICK x \in Nat \ T : \A y \in Nat \ T : ~ (<<y, x>> \in LessThan)
  BY LessThanWellFounded, WFMin, Zenon
<1>2. x # 0 /\ x - 1 \in Nat /\ x - 1 < x /\ x = (x - 1) + 1
  BY <1>1
<1>3. <<x - 1, x>> \in Nat \X Nat /\ <<x - 1, x>>[1] = x - 1 /\ <<x - 1, x>>[2] = x
  BY <1>1, <1>2
<1>4. <<x - 1, x>> \in LessThan
  BY <1>2, <1>3, Zenon DEF LessThan
<1>5. x - 1 \in T
  BY <1>1, <1>2, <1>4, Zenon
<1> QED
  BY <1>1, <1>2, <1>4, <1>5

LEMMA DeemphIsInt ==
    ASSUME NEW s \in Int, NEW x \in Int
    PROVE  Wrap16(x) \in Int /\ deemph(s, x).state \in Int
<1>1. Wrap16(x) \in Int
  BY DEF Wrap16
<1>2. deemph(s, x).state = x + (s * coeff01) \div 2^15
  BY DEF deemph
<1>3. x + (s * coeff01) \div 2^15 \in Int
  BY DEF coeff01
<1> QED
  BY <1>1, <1>2, <1>3

\* The states up to the m-th are those of the filter.
FilteredTo(f, m, inputs) ==
    /\ f[0] = state
    /\ \A k \in 1 .. Len(inputs) :
           k <= m => f[k] = deemph(f[k - 1], Wrap16(inputs[k])).state

LEMMA StatesExist ==
    ASSUME NEW L \in Nat, NEW inputs \in [1 .. L -> Int], Len(inputs) = L, state \in Int
    PROVE  \E f \in [0 .. L -> Int] : FilteredTo(f, L, inputs)
<1> DEFINE T == {m \in Nat : m <= L => \E f \in [0 .. L -> Int] : FilteredTo(f, m, inputs)}
<1>1. 0 \in T
  <2> DEFINE f == [k \in 0 .. L |-> state]
  <2>1. f \in [0 .. L -> Int] /\ f[0] = state
    OBVIOUS
  <2>2. FilteredTo(f, 0, inputs)
    BY <2>1 DEF FilteredTo
  <2> QED
    BY <2>1, <2>2
<1>2. ASSUME NEW m \in T PROVE m + 1 \in T
  <2> SUFFICES ASSUME m + 1 <= L PROVE \E f \in [0 .. L -> Int] : FilteredTo(f, m + 1, inputs)
    OBVIOUS
  <2>1. m \in Nat /\ m <= L /\ m + 1 \in 1 .. L /\ m \in 0 .. L /\ m + 1 \in 0 .. L
    OBVIOUS
  <2>2. PICK f \in [0 .. L -> Int] : FilteredTo(f, m, inputs)
    BY <2>1
  <2> DEFINE x == deemph(f[m], Wrap16(inputs[m + 1])).state
  <2> DEFINE g == [f EXCEPT ![m + 1] = x]
  <2>3. x \in Int
    <3>1. f[m] \in Int /\ inputs[m + 1] \in Int
      BY <2>1, <2>2
    <3>2. Wrap16(inputs[m + 1]) \in Int
      BY <3>1, DeemphIsInt
    <3> QED
      BY <3>1, <3>2, DeemphIsInt
  <2> HIDE DEF x
  <2>4. g \in [0 .. L -> Int] /\ g[m + 1] = x /\ \A k \in 0 .. L : k # m + 1 => g[k] = f[k]
    BY <2>1, <2>2, <2>3
  <2> HIDE DEF g
  <2>5. ASSUME NEW k \in 1 .. L, k <= m + 1
        PROVE  g[k] = deemph(g[k - 1], Wrap16(inputs[k])).state
    <3>1. k - 1 \in 0 .. L /\ k \in 0 .. L /\ k - 1 # m + 1 /\ g[k - 1] = f[k - 1]
      BY <2>1, <2>4, <2>5
    <3>2. CASE k = m + 1
      <4>1. k - 1 = m
        BY <2>1, <3>2
      <4> QED
        BY <2>4, <3>1, <3>2, <4>1 DEF x
    <3>3. CASE k # m + 1
      <4>1. k <= m /\ g[k] = f[k]
        BY <2>1, <2>4, <2>5, <3>1, <3>3
      <4> QED
        BY <2>2, <3>1, <4>1 DEF FilteredTo
    <3> QED
      BY <3>2, <3>3
  <2>6. g[0] = state
    BY <2>1, <2>2, <2>4 DEF FilteredTo
  <2>7. FilteredTo(g, m + 1, inputs)
    BY <2>5, <2>6 DEF FilteredTo
  <2> QED
    BY <2>4, <2>7
<1>3. L \in T
  <2>1. T \in SUBSET Nat
    OBVIOUS
  <2> HIDE DEF T
  <2> QED
    BY <1>1, <1>2, <2>1, Induction
<1> QED
  BY <1>3

LEMMA StatesFilter ==
    ASSUME NEW L \in Nat, NEW inputs \in [1 .. L -> Int], Len(inputs) = L, state \in Int
    PROVE  FilteredTo(States(inputs), L, inputs)
<1> DEFINE s[k \in 0 .. Len(inputs)] ==
               IF k = 0 THEN state ELSE deemph(s[k - 1], Wrap16(inputs[k])).state
<1>1. States(inputs) = s
  BY Zenon DEF States
<1>2. PICK f \in [0 .. L -> Int] : FilteredTo(f, L, inputs)
  BY StatesExist
<1>3. ASSUME NEW k \in 0 .. L
      PROVE  f[k] = IF k = 0 THEN state ELSE deemph(f[k - 1], Wrap16(inputs[k])).state
  <2>1. k # 0 => k \in 1 .. L /\ k <= L
    OBVIOUS
  <2> QED
    BY <1>2, <2>1 DEF FilteredTo
<1>4. f = [k \in 0 .. Len(inputs) |->
             IF k = 0 THEN state ELSE deemph(f[k - 1], Wrap16(inputs[k])).state]
  BY <1>2, <1>3
<1>5. s = [k \in 0 .. Len(inputs) |->
             IF k = 0 THEN state ELSE deemph(s[k - 1], Wrap16(inputs[k])).state]
  BY <1>4, Zenon DEF s
<1> HIDE DEF s
<1>6. ASSUME NEW k \in 0 .. L
      PROVE  s[k] = IF k = 0 THEN state ELSE deemph(s[k - 1], Wrap16(inputs[k])).state
  <2>1. k \in 0 .. Len(inputs)
    OBVIOUS
  <2> QED
    BY <1>5, <2>1, Zenon
<1>7. FilteredTo(s, L, inputs)
  <2>1. 0 \in 0 .. L /\ \A k \in 1 .. L : k \in 0 .. L /\ k # 0
    OBVIOUS
  <2> QED
    BY <1>6, <2>1 DEF FilteredTo
<1> QED
  BY <1>1, <1>7

\* One step of the filter, of an input that is not too loud.
LEMMA DeemphStep ==
    ASSUME NEW s \in Int, NEW x \in Int, -StateBound <= s, s <= StateBound,
           Magnitude(x) <= QuietPeak
    PROVE  -StateBound <= deemph(s, x).state /\ deemph(s, x).state <= StateBound
<1>1. deemph(s, x).state = x + (s * coeff01) \div 2^15
  BY DEF deemph
<1>2. -QuietPeak <= x /\ x <= QuietPeak
  BY DEF Magnitude, QuietPeak
<1> DEFINE d == (s * 25889) \div 32768
<1>3. d \in Int /\ 32768 * d <= s * 25889 /\ s * 25889 < 32768 * d + 32768
  OBVIOUS
<1>4. d = (s * coeff01) \div 2^15
  BY DEF coeff01
<1>5. -51922 <= s /\ s <= 51922 /\ -10900 <= x /\ x <= 10900
  BY <1>2 DEF StateBound, QuietPeak
<1> HIDE DEF d
<1>6. -51922 <= x + d /\ x + d <= 51922
  BY ONLY <1>3, <1>5, s \in Int, x \in Int
<1> QED
  BY <1>1, <1>4, <1>6 DEF StateBound

\* So much for a packet: the state after it is an integer, and within its bound if
\* it was and no input is too loud.
LEMMA PacketStates ==
    ASSUME NEW L \in Nat, NEW inputs \in [1 .. L -> Int], Len(inputs) = L, state \in Int
    PROVE  \A k \in 0 .. L :
               /\ States(inputs)[k] \in Int
               /\ ~TooLoud(inputs) /\ -StateBound <= state /\ state <= StateBound =>
                      -StateBound <= States(inputs)[k] /\ States(inputs)[k] <= StateBound
<1> DEFINE f == States(inputs)
<1>1. FilteredTo(f, L, inputs)
  BY StatesFilter
<1> DEFINE Bounded(k) ==
               /\ f[k] \in Int
               /\ ~TooLoud(inputs) /\ -StateBound <= state /\ state <= StateBound =>
                      -StateBound <= f[k] /\ f[k] <= StateBound
<1> DEFINE T == {m \in Nat : m <= L => Bounded(m)}
<1> HIDE DEF f
<1>2. 0 \in T
  BY <1>1 DEF FilteredTo
<1>3. ASSUME NEW m \in T PROVE m + 1 \in T
  <2> SUFFICES ASSUME m + 1 <= L PROVE Bounded(m + 1)
    OBVIOUS
  <2>1. m \in Nat /\ m + 1 \in 1 .. L /\ (m + 1) - 1 = m /\ Bounded(m)
    OBVIOUS
  <2> DEFINE x == Wrap16(inputs[m + 1])
  <2>2. f[m + 1] = deemph(f[m], x).state
    BY <1>1, <2>1 DEF FilteredTo
  <2>3. x \in Int
    BY <2>1, DeemphIsInt
  <2>4. ~TooLoud(inputs) => Magnitude(x) <= QuietPeak
    <3>1. m + 1 \in DOMAIN inputs
      BY <2>1
    <3>2. Magnitude(x) \in Int
      BY <2>3 DEF Magnitude
    <3> QED
      BY <3>1, <3>2 DEF TooLoud, QuietPeak
  <2> HIDE DEF x
  <2>5. f[m + 1] \in Int
    BY <2>1, <2>2, <2>3, DeemphIsInt
  <2>6. ASSUME ~TooLoud(inputs), -StateBound <= state, state <= StateBound
        PROVE  -StateBound <= f[m + 1] /\ f[m + 1] <= StateBound
    BY <2>1, <2>2, <2>3, <2>4, <2>6, DeemphStep
  <2> QED
    BY <2>5, <2>6
<1>4. T = Nat
  <2>1. T \in SUBSET Nat
    OBVIOUS
  <2> HIDE DEF T
  <2> QED
    BY <1>2, <1>3, <2>1, Induction
<1>5. \A k \in 0 .. L : Bounded(k)
  <2>1. ASSUME NEW k \in 0 .. L PROVE Bounded(k)
    <3>1. k \in Nat /\ k <= L
      OBVIOUS
    <3>2. k \in T
      BY <1>4, <3>1
    <3> QED
      BY <3>1, <3>2
  <2> QED
    BY <2>1
<1> QED
  BY <1>5 DEF f
-------------------------------------------------------------------------------
\* The encoder.

LEMMA SamplesAreInts == Sample16 \subseteq Int
<1> SUFFICES ASSUME NEW a, NEW b, a = -32768, b = 32767 PROVE Sample16 \subseteq Int
  OBVIOUS
<1>1. Sample16 = a .. b
  BY DEF Sample16
<1>2. a \in Int /\ b \in Int
  OBVIOUS
<1> QED
  BY ONLY <1>1, <1>2

LEMMA SampleRange == ASSUME NEW x \in Int, -32768 <= x, x <= 32767 PROVE x \in Sample16
<1> SUFFICES ASSUME NEW a, NEW b, a = -32768, b = 32767 PROVE x \in Sample16
  OBVIOUS
<1>1. Sample16 = a .. b
  BY DEF Sample16
<1>2. a \in Int /\ b \in Int /\ a <= x /\ x <= b
  OBVIOUS
<1> QED
  BY ONLY <1>1, <1>2, x \in Int

\* Decimated samples are numbers.
LEMMA Decimated ==
    ASSUME NEW samples \in Seq(Sample16), NEW i \in 1 .. newlen(samples)
    PROVE  Average(samples, i) \in Int /\ Third(samples, i) \in Int
<1>1. /\ Len(samples) \in Nat /\ newlen(samples) = Len(samples) \div 3
      /\ \A k \in 1 .. Len(samples) : samples[k] \in Int
  <2>1. Len(samples) \in Nat /\ \A k \in 1 .. Len(samples) : samples[k] \in Sample16
    OBVIOUS
  <2>2. \A k \in 1 .. Len(samples) : samples[k] \in Int
    BY <2>1, SamplesAreInts
  <2> QED
    BY <2>1, <2>2 DEF newlen, AUDIO_DECIM
<1>2. /\ 3 * i - 2 \in 1 .. Len(samples) /\ 3 * i - 1 \in 1 .. Len(samples)
      /\ 3 * i \in 1 .. Len(samples) /\ i \in 1 .. Len(samples)
  BY <1>1
<1>3. ASSUME NEW a \in Int PROVE Divide(a, AUDIO_DECIM) \in Int
  BY DEF Divide, AUDIO_DECIM
<1>4. samples[3 * i - 2] + samples[3 * i - 1] + samples[3 * i] \in Int /\ samples[i] \in Int
  BY <1>1, <1>2, SMTT(40)
<1> QED
  BY <1>3, <1>4 DEF Average, Third

LEMMA Gain ==
    ASSUME scenario \in Scenario
    PROVE  scenario.gain \in Nat /\ 2^scenario.gain \in Int
<1>1. scenario.gain \in 0 .. 15
  BY Zenon DEF Scenario
<1>2. scenario.gain \in Nat
  BY <1>1
<1> QED
  BY <1>2

\* What G711Encode makes of n decimated samples.
LEMMA Encoded ==
    ASSUME TypeOK, StateBounded, NEW n \in Nat, NEW decimated \in [1 .. n -> Int],
           G711Encode(decimated), scenario' = scenario,
           scenario.codec \in {CODEC_PCMU, CODEC_PCMA}
    PROVE  /\ out' \in Seq(Int) /\ Len(out') = n /\ state' \in Int /\ loud' \in BOOLEAN
           /\ \A i \in 1 .. n :
                  out'[i] \in Bytes /\ (Plain => out'[i] = Code(decimated[i] * 2^scenario.gain))
           /\ StateBounded'
<1> DEFINE amplified == [i \in DOMAIN decimated |-> decimated[i] * 2^scenario.gain]
<1>1. scenario.gain \in Nat /\ 2^scenario.gain \in Int /\ state \in Int /\ loud \in BOOLEAN
  BY Gain DEF TypeOK
<1>2. DOMAIN decimated = 1 .. n /\ amplified \in [1 .. n -> Int] /\ Len(amplified) = n
  BY <1>1
<1>3. ASSUME NEW x \in Int PROVE Code(x) \in Bytes /\ Code(x) \in Int
  <2>1. Code(x) \in Bytes
    BY ULawCode, ALawCode DEF Code
  <2>2. Bytes \subseteq Int
    BY DEF Bytes
  <2> QED
    BY <2>1, <2>2, Zenon
<1>4. StateBound \in Nat
  BY DEF StateBound
<1>5. CASE Plain
  <2>1. out' = [i \in DOMAIN decimated |-> Code(amplified[i])] /\ UNCHANGED <<state, loud>>
    BY <1>5, Zenon DEF G711Encode, Plain
  <2>2. \A i \in 1 .. n : /\ amplified[i] = decimated[i] * 2^scenario.gain
                           /\ Code(amplified[i]) \in Bytes /\ Code(amplified[i]) \in Int
    BY <1>2, <1>3
  <2> HIDE DEF amplified
  <2>3. out' = [i \in 1 .. n |-> Code(amplified[i])]
    BY <1>2, <2>1
  <2>4. out' \in [1 .. n -> Int]
    BY <2>2, <2>3
  <2> QED
    BY <1>1, <2>1, <2>2, <2>3, <2>4 DEF StateBounded
<1>6. CASE ~Plain
  <2> DEFINE s == States(amplified)
  <2> DEFINE o(i) == deemph(s[i - 1], Wrap16(amplified[i])).output
  <2>1. /\ out' = [i \in DOMAIN decimated |-> Code(o(i))]
        /\ state' = s[Len(amplified)] /\ loud' = (loud \/ TooLoud(amplified))
    BY <1>6, Zenon DEF G711Encode, Plain
  <2> HIDE DEF amplified
  <2>2. \A k \in 0 .. n :
            /\ States(amplified)[k] \in Int
            /\ ~TooLoud(amplified) /\ -StateBound <= state /\ state <= StateBound =>
                   -StateBound <= States(amplified)[k] /\ States(amplified)[k] <= StateBound
    BY <1>1, <1>2, PacketStates
  <2>3. ASSUME NEW i \in 1 .. n PROVE o(i) \in Int
    <3>1. i - 1 \in 0 .. n /\ s[i - 1] \in Int /\ Wrap16(amplified[i]) \in Int
      BY <1>2, <2>2, DeemphIsInt
    <3>2. ASSUME NEW a \in Int, NEW b \in Int PROVE deemph(a, b).output \in Int
      BY DEF deemph, Wrap16, coeff00, coeff01
    <3> QED
      BY <3>1, <3>2
  <2> HIDE DEF o
  <2>4. out' = [i \in 1 .. n |-> Code(o(i))] /\ \A i \in 1 .. n : Code(o(i)) \in Bytes /\ Code(o(i)) \in Int
    BY <1>2, <1>3, <2>1, <2>3
  <2>5. out' \in [1 .. n -> Int]
    BY <2>4
  <2>6. state' = s[n] /\ n \in 0 .. n
    BY <1>2, <2>1
  <2>7. StateBounded'
    <3> SUFFICES ASSUME ~loud' PROVE state' \in -StateBound .. StateBound
      BY DEF StateBounded
    <3>1. ~loud /\ ~TooLoud(amplified)
      BY <2>1
    <3>2. state \in -StateBound .. StateBound
      BY <3>1 DEF StateBounded
    <3>3. -StateBound <= state /\ state <= StateBound
      BY <1>1, <1>4, <3>2
    <3>4. s[n] \in Int /\ -StateBound <= s[n] /\ s[n] <= StateBound
      BY <2>2, <2>6, <3>1, <3>3
    <3> QED
      BY <1>4, <2>6, <3>4
  <2>8. loud' \in BOOLEAN
    BY <2>1
  <2> QED
    BY <1>6, <2>2, <2>4, <2>5, <2>6, <2>7, <2>8
<1> QED
  BY <1>5, <1>6

\* The invariant holds at first, and every packet preserves it.
LEMMA InitIInv == Init => IInv
<1> SUFFICES ASSUME Init PROVE IInv
  OBVIOUS
<1>1. scenario \in Scenario
  BY ScenariosAssumption DEF Init
<1>2. TypeOK
  <2>1. scenario.reads \in Seq(Seq(Sample16)) /\ << >> \in Seq(Sample16) /\ << >> \in Seq(Int)
    BY <1>1 DEF Scenario
  <2>2. todo \in Seq(Seq(Sample16)) /\ buffer \in Seq(Sample16) /\ out \in Seq(Int)
    BY <2>1, Zenon DEF Init
  <2>3. state \in Int
    BY DEF Init
  <2>4. loud \in BOOLEAN
    BY Zenon DEF Init
  <2> QED
    BY <1>1, <2>2, <2>3, <2>4 DEF TypeOK
<1>3. Len(out) = 0 /\ newlen(buffer) = 0
  BY DEF Init, newlen, AUDIO_DECIM
<1>4. Coded
  BY <1>3 DEF Coded
<1>5. StateBounded
  <2>1. StateBound \in Nat /\ state = 0
    BY DEF Init, StateBound
  <2> QED
    BY <2>1 DEF StateBounded
<1> QED
  BY <1>2, <1>4, <1>5 DEF IInv

LEMMA NextIInv == IInv /\ [Next]_vars => IInv'
<1> SUFFICES ASSUME IInv, [Next]_vars PROVE IInv'
  OBVIOUS
<1>1. TypeOK /\ Coded /\ StateBounded
  BY DEF IInv
<1>2. CASE UNCHANGED vars
  BY <1>1, <1>2 DEF IInv, TypeOK, Coded, StateBounded, Plain, Amplified, Code, vars
<1>3. CASE PCMEncode
  <2> DEFINE n == newlen(buffer')
  <2>1. /\ todo \in Seq(Seq(Sample16)) /\ todo # << >>
        /\ todo' = Tail(todo) /\ buffer' = Head(todo) /\ scenario' = scenario
    BY <1>1, <1>3 DEF PCMEncode, TypeOK
  <2>2. todo' \in Seq(Seq(Sample16)) /\ buffer' \in Seq(Sample16)
    BY <2>1
  <2>3. n \in Nat
    BY <2>2 DEF newlen, AUDIO_DECIM
  <2>4. \A i \in 1 .. n : Average(buffer', i) \in Int /\ Third(buffer', i) \in Int
    BY <2>2, Decimated
  <2> HIDE DEF n
  <2>5. scenario \in Scenario /\ scenario' \in Scenario
    BY <1>1, <2>1 DEF TypeOK
  <2>6. /\ out' \in Seq(Int) /\ Len(out') = n /\ state' \in Int /\ loud' \in BOOLEAN
        /\ scenario.codec # CODEC_NONE =>
               \A i \in 1 .. n : out'[i] \in Bytes /\ (Plain => out'[i] = Code(Amplified(i)'))
        /\ StateBounded'
    <3>1. CASE stdioOutEncode(Head(todo))
      <4>1. /\ out' = [i \in 1 .. n |-> Average(buffer', i)] /\ scenario.codec = CODEC_NONE
            /\ UNCHANGED <<state, loud>>
        BY <2>1, <3>1 DEF stdioOutEncode, n
      <4>2. out' \in [1 .. n -> Int]
        BY <2>4, <4>1
      <4> QED
        BY <1>1, <2>3, <4>1, <4>2 DEF TypeOK, StateBounded
    <3>2. CASE G711uLawEncode(Head(todo))
      <4> DEFINE decimated == [i \in 1 .. n |-> Average(buffer', i)]
      <4>1. scenario.codec = CODEC_PCMU /\ G711Encode(decimated)
        BY <2>1, <3>2 DEF G711uLawEncode, n
      <4>2. decimated \in [1 .. n -> Int]
        BY <2>4
      <4>3. \A i \in 1 .. n : decimated[i] * 2^scenario.gain = Amplified(i)'
        BY <2>1, <4>1 DEF Amplified
      <4> HIDE DEF decimated
      <4> QED
        BY <1>1, <2>1, <2>3, <4>1, <4>2, <4>3, Encoded
    <3>3. CASE G711aLawEncode(Head(todo))
      <4> DEFINE decimated == [i \in 1 .. n |-> Third(buffer', i)]
      <4>1. scenario.codec = CODEC_PCMA /\ G711Encode(decimated)
        BY <2>1, <3>3 DEF G711aLawEncode, n
      <4>2. decimated \in [1 .. n -> Int]
        BY <2>4
      <4>3. \A i \in 1 .. n : decimated[i] * 2^scenario.gain = Amplified(i)'
        BY <2>1, <4>1 DEF Amplified, CODEC_PCMA, CODEC_PCMU
      <4> HIDE DEF decimated
      <4> QED
        BY <1>1, <2>1, <2>3, <4>1, <4>2, <4>3, Encoded
    <3> QED
      BY <1>3, <3>1, <3>2, <3>3 DEF PCMEncode
  <2>7. TypeOK'
    BY <2>2, <2>5, <2>6 DEF TypeOK
  <2>8. Coded'
    BY <2>1, <2>6 DEF Coded, n, Plain, Code
  <2> QED
    BY <2>6, <2>7, <2>8 DEF IInv
<1> QED
  BY <1>2, <1>3 DEF Next

\* What the last packet holds and what the filter has kept are right in every state,
\* for any number of reads of any length.
THEOREM Invariance == Spec => []IInv
BY InitIInv, NextIInv, PTL DEF Spec

\* Every byte of every u-law packet decodes to within 1/32 of the amplified, clipped
\* average of its three samples.
THEOREM ULawKeepsSamples == Spec => []ULawFaithful
<1>1. IInv => ULawFaithful
  <2> SUFFICES ASSUME IInv, scenario.codec = CODEC_PCMU, Plain, NEW i \in 1 .. Len(out)
               PROVE  LET x == Clipped(Average(buffer, i) * 2^scenario.gain, 32635) IN
                      32 * Magnitude(PCMDecode(out, scenario.codec)[i] - x) <= Magnitude(x) + BIAS
    BY DEF ULawFaithful
  <2> DEFINE y == Average(buffer, i) * 2^scenario.gain
  <2>1. out \in Seq(Int) /\ i \in DOMAIN out /\ i \in 1 .. newlen(buffer)
    BY DEF IInv, TypeOK, Coded
  <2>2. Average(buffer, i) \in Int /\ scenario.gain \in Nat
    BY <2>1, Decimated, Gain DEF IInv, TypeOK
  <2>3. y \in Int
    BY <2>2
  <2>4. out[i] = linear2ulaw(y)
    BY DEF IInv, Coded, Code, Amplified, CODEC_PCMU, CODEC_NONE
  <2>5. PCMDecode(out, scenario.codec)[i] = ulaw2linear(out[i])
    BY <2>1 DEF PCMDecode, G711uLawDecode
  <2> HIDE DEF y
  <2>6. LET x == Clipped(y, 32635) IN
        32 * Magnitude(ulaw2linear(linear2ulaw(y)) - x) <= Magnitude(x) + BIAS
    BY <2>3, ULawError
  <2> QED
    BY <2>4, <2>5, <2>6 DEF y
<1> QED
  BY <1>1, Invariance, PTL

\* Every byte of every A-law packet decodes to within 16 or 1/16 of the sample it was
\* given, the samples -7 .. -1 apart, which the coder gets wrong.
THEOREM ALawKeepsSamples == Spec => []ALawCoded
<1>1. IInv => ALawCoded
  <2> SUFFICES ASSUME IInv, scenario.codec = CODEC_PCMA, Plain, NEW i \in 1 .. Len(out)
               PROVE  LET x == Clipped(Third(buffer, i) * 2^scenario.gain, 32767)
                          error == Magnitude(PCMDecode(out, scenario.codec)[i] - x)
                      IN  x \notin -7 .. -1 => error <= 16 \/ 16 * error <= Magnitude(x)
    BY DEF ALawCoded
  <2> DEFINE y == Third(buffer, i) * 2^scenario.gain
  <2>1. out \in Seq(Int) /\ i \in DOMAIN out /\ i \in 1 .. newlen(buffer)
    BY DEF IInv, TypeOK, Coded
  <2>2. Third(buffer, i) \in Int /\ scenario.gain \in Nat
    BY <2>1, Decimated, Gain DEF IInv, TypeOK
  <2>3. y \in Int
    BY <2>2
  <2>4. out[i] = linear2alaw(y)
    BY DEF IInv, Coded, Code, Amplified, CODEC_PCMA, CODEC_PCMU, CODEC_NONE
  <2>5. PCMDecode(out, scenario.codec)[i] = alaw2linear(out[i])
    BY <2>1 DEF PCMDecode, G711aLawDecode, CODEC_PCMA, CODEC_PCMU
  <2> HIDE DEF y
  <2>6. LET x == Clipped(y, 32767)
            heard == alaw2linear(linear2alaw(y))
        IN  x \notin -7 .. -1 =>
                Magnitude(heard - x) <= 16 \/ 16 * Magnitude(heard - x) <= Magnitude(x)
    BY <2>3, ALawError
  <2> QED
    BY <2>4, <2>5, <2>6 DEF y
<1> QED
  BY <1>1, Invariance, PTL

\* Coding again what a byte of a packet decodes to loses nothing, and converting it to
\* the other codec no more than 1/16.
THEOREM RequantizedOnce == Spec => []Requantized
<1>1. IInv => Requantized
  <2> SUFFICES ASSUME IInv, scenario.codec # CODEC_NONE, NEW byte \in ToSet(out)
               PROVE  byte \in Bytes
    <3>1. CODEC_PCMU # CODEC_NONE /\ CODEC_PCMA # CODEC_NONE
      BY DEF CODEC_PCMU, CODEC_PCMA, CODEC_NONE
    <3> QED
      BY <3>1, URequantized, ARequantized, Zenon DEF Requantized
  <2>1. PICK i \in DOMAIN out : byte = out[i]
    BY DEF ToSet
  <2>2. i \in 1 .. Len(out)
    BY DEF IInv, TypeOK
  <2> QED
    BY <2>1, <2>2 DEF IInv, Coded
<1> QED
  BY <1>1, Invariance, PTL

\* As long as no input was louder than a third of full scale, the filter's products stay
\* within 32 bits and its output within 16, after any number of packets.
THEOREM DeemphasisFits == Spec => []DeemphInRange
<1>1. IInv => DeemphInRange
  <2> SUFFICES ASSUME IInv, ~loud
               PROVE  /\ Magnitude(state) <= (2^30 - 1 + 2^30) \div coeff01
                      /\ (state * coeff00) \div 2^14 + (state * coeff00) \div 2^15 \in Sample16
    BY DEF DeemphInRange
  <2>1. state \in Int /\ -StateBound <= state /\ state <= StateBound
    <3>1. state \in Int /\ state \in -StateBound .. StateBound
      BY DEF IInv, TypeOK, StateBounded
    <3>2. StateBound \in Nat
      BY DEF StateBound
    <3> QED
      BY <3>1, <3>2
  <2>2. -51922 <= state /\ state <= 51922
    BY <2>1 DEF StateBound
  <2> DEFINE p == state * 6878
  <2>3. p \in Int /\ -(51922 * 6878) <= p /\ p <= 51922 * 6878
    BY <2>1, <2>2
  <2>4. p = state * coeff00
    BY DEF coeff00
  <2> HIDE DEF p
  <2> DEFINE o == p \div 2^14 + p \div 2^15
  <2>5. o \in Int /\ -32768 <= o /\ o <= 32767
    BY ONLY <2>3
  <2> HIDE DEF o
  <2>6. o \in Sample16
    BY <2>5, SampleRange
  <2>7. Magnitude(state) <= (2^30 - 1 + 2^30) \div coeff01
    BY <2>1, <2>2 DEF Magnitude, coeff01
  <2> QED
    BY <2>4, <2>6, <2>7 DEF o
<1> QED
  BY <1>1, Invariance, PTL
===============================================================================
