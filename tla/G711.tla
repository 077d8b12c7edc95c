--------------------------------- MODULE G711 ---------------------------------
(***************************************************************************)
(* The conversions of Common/g711.c between linear samples and the bytes   *)
(* of the two G.711 codecs.  A shift by k is a division by 2^k, a mask of  *)
(* n bits a remainder by 2^n: both round towards minus infinity, as the    *)
(* arithmetic shift of a negative int does.                                *)
(***************************************************************************)
EXTENDS Integers, Sequences, FiniteSets

Bytes == 0 .. 255
seg_end == <<255, 511, 1023, 2047, 4095, 8191, 16383, 32767>>

\* The segment a magnitude falls into, 8 if it is out of range.
search(val) == Cardinality({i \in 1 .. 8 : val > seg_end[i]})

\* The byte xor 0x55: the low bit of every pair of bits changes.
Toggle(byte) ==
    LET pair(i) == (byte \div 4^i) % 4
        toggled(i) == IF pair(i) % 2 = 0 THEN pair(i) + 1 ELSE pair(i) - 1
    IN  toggled(0) + 4 * toggled(1) + 16 * toggled(2) + 64 * toggled(3)

\* Segment number and four bits of a magnitude whose lowest bits are dropped.
Compressed(seg, magnitude, dropped) == 16 * seg + ((magnitude \div 2^dropped) % 16)

\* Mutant of linear2alaw: the sign bit is forgotten.
unsigned2alaw(pcm_val) ==
    LET magnitude == IF pcm_val >= 0 THEN pcm_val ELSE -pcm_val - 8
        seg == search(magnitude)
    IN  Toggle(IF seg = 8 THEN 127
               ELSE Compressed(seg, magnitude, IF seg < 2 THEN 4 ELSE seg + 3))

linear2alaw(pcm_val) ==
    LET magnitude == IF pcm_val >= 0 THEN pcm_val ELSE -pcm_val - 8
        seg == search(magnitude)
        code == IF seg = 8 THEN 127
                ELSE Compressed(seg, magnitude, IF seg < 2 THEN 4 ELSE seg + 3)
    IN  Toggle(code) + IF pcm_val >= 0 THEN 128 ELSE 0

alaw2linear(a_val) ==
    LET byte == Toggle(a_val)
        seg == (byte \div 16) % 8
        t == (byte % 16) * 16
        value == IF seg = 0 THEN t + 8 ELSE (t + 264) * 2^(seg - 1)
    IN  IF byte >= 128 THEN value ELSE -value

BIAS == 132

\* Mutant of linear2ulaw: no bias.
unbiased2ulaw(pcm_val) ==
    LET magnitude == IF pcm_val < 0 THEN -pcm_val ELSE pcm_val
        seg == search(magnitude)
        code == IF seg = 8 THEN 127 ELSE Compressed(seg, magnitude, seg + 3)
    IN  (IF pcm_val < 0 THEN 127 ELSE 255) - code

linear2ulaw(pcm_val) ==
    LET magnitude == BIAS + IF pcm_val < 0 THEN -pcm_val ELSE pcm_val
        seg == search(magnitude)
        code == IF seg = 8 THEN 127 ELSE Compressed(seg, magnitude, seg + 3)
    IN  (IF pcm_val < 0 THEN 127 ELSE 255) - code

ulaw2linear(u_val) ==
    LET byte == 255 - u_val
        t == ((byte % 16) * 8 + BIAS) * 2^((byte \div 16) % 8)
    IN  IF byte >= 128 THEN BIAS - t ELSE t - BIAS
-------------------------------------------------------------------------------
\* The tables of the direct conversions, for the codes 0 .. 127.
u2a == <<
    1, 1, 2, 2, 3, 3, 4, 4, 5, 5, 6, 6, 7, 7, 8, 8,
    9, 10, 11, 12, 13, 14, 15, 16, 17, 18, 19, 20, 21, 22, 23, 24,
    25, 27, 29, 31, 33, 34, 35, 36, 37, 38, 39, 40, 41, 42, 43, 44,
    46, 48, 49, 50, 51, 52, 53, 54, 55, 56, 57, 58, 59, 60, 61, 62,
    64, 65, 66, 67, 68, 69, 70, 71, 72, 73, 74, 75, 76, 77, 78, 79,
    81, 82, 83, 84, 85, 86, 87, 88, 89, 90, 91, 92, 93, 94, 95, 96,
    97, 98, 99, 100, 101, 102, 103, 104, 105, 106, 107, 108, 109, 110, 111, 112,
    113, 114, 115, 116, 117, 118, 119, 120, 121, 122, 123, 124, 125, 126, 127, 128>>

a2u == <<
    1, 3, 5, 7, 9, 11, 13, 15, 16, 17, 18, 19, 20, 21, 22, 23,
    24, 25, 26, 27, 28, 29, 30, 31, 32, 32, 33, 33, 34, 34, 35, 35,
    36, 37, 38, 39, 40, 41, 42, 43, 44, 45, 46, 47, 48, 48, 49, 49,
    50, 51, 52, 53, 54, 55, 56, 57, 58, 59, 60, 61, 62, 63, 64, 64,
    65, 66, 67, 68, 69, 70, 71, 72, 73, 74, 75, 76, 77, 78, 79, 79,
    80, 81, 82, 83, 84, 85, 86, 87, 88, 89, 90, 91, 92, 93, 94, 95,
    96, 97, 98, 99, 100, 101, 102, 103, 104, 105, 106, 107, 108, 109, 110, 111,
    112, 113, 114, 115, 116, 117, 118, 119, 120, 121, 122, 123, 124, 125, 126, 127>>

\* The sign bit apart, a conversion looks the seven bits up, in either codec's
\* order of magnitudes.
alaw2ulaw(aval) ==
    IF aval >= 128 THEN 255 - a2u[Toggle(aval - 128) + 1]
    ELSE 127 - a2u[Toggle(aval) + 1]

\* Mutant of ulaw2alaw: the numbers of the table are taken as they are.
ulaw2alawPlain(uval) ==
    IF uval >= 128 THEN 128 + Toggle(u2a[255 - uval + 1] % 128)
    ELSE Toggle(u2a[127 - uval + 1] % 128)

ulaw2alaw(uval) ==
    IF uval >= 128 THEN 128 + Toggle(u2a[255 - uval + 1] - 1)
    ELSE Toggle(u2a[127 - uval + 1] - 1)
===============================================================================
