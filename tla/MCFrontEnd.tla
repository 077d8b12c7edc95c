------------------------------ MODULE MCFrontEnd ------------------------------
(***************************************************************************)
(* The front end on tones of full scale and of a 64th of it, on one steady *)
(* full-scale tone, and on the noise that drives the filters hardest.      *)
(***************************************************************************)
EXTENDS FrontEnd, FiniteSets

\* (int)(32767 * cos(2 pi i / 2048)) for i in 0 .. 512
MCWave ==
    <<
      32767, 32766, 32766, 32765, 32764, 32763, 32761, 32759, 32757, 32754, 32751, 32748,
      32744, 32740, 32736, 32732, 32727, 32722, 32717, 32711, 32705, 32699, 32692, 32685,
      32678, 32670, 32662, 32654, 32646, 32637, 32628, 32618, 32609, 32599, 32588, 32578,
      32567, 32556, 32544, 32532, 32520, 32508, 32495, 32482, 32468, 32455, 32441, 32426,
      32412, 32397, 32382, 32366, 32350, 32334, 32318, 32301, 32284, 32267, 32249, 32231,
      32213, 32194, 32176, 32156, 32137, 32117, 32097, 32077, 32056, 32035, 32014, 31992,
      31970, 31948, 31926, 31903, 31880, 31856, 31833, 31809, 31785, 31760, 31735, 31710,
      31684, 31659, 31633, 31606, 31580, 31553, 31525, 31498, 31470, 31442, 31413, 31385,
      31356, 31326, 31297, 31267, 31236, 31206, 31175, 31144, 31113, 31081, 31049, 31017,
      30984, 30951, 30918, 30885, 30851, 30817, 30783, 30748, 30713, 30678, 30643, 30607,
      30571, 30535, 30498, 30461, 30424, 30386, 30349, 30311, 30272, 30234, 30195, 30156,
      30116, 30076, 30036, 29996, 29955, 29915, 29873, 29832, 29790, 29748, 29706, 29663,
      29621, 29577, 29534, 29490, 29446, 29402, 29358, 29313, 29268, 29222, 29177, 29131,
      29085, 29038, 28992, 28945, 28897, 28850, 28802, 28754, 28706, 28657, 28608, 28559,
      28510, 28460, 28410, 28360, 28309, 28259, 28208, 28156, 28105, 28053, 28001, 27948,
      27896, 27843, 27790, 27736, 27683, 27629, 27575, 27520, 27466, 27411, 27355, 27300,
      27244, 27188, 27132, 27076, 27019, 26962, 26905, 26847, 26789, 26731, 26673, 26615,
      26556, 26497, 26437, 26378, 26318, 26258, 26198, 26137, 26077, 26016, 25954, 25893,
      25831, 25769, 25707, 25645, 25582, 25519, 25456, 25392, 25329, 25265, 25201, 25136,
      25072, 25007, 24942, 24877, 24811, 24745, 24679, 24613, 24546, 24480, 24413, 24346,
      24278, 24211, 24143, 24075, 24006, 23938, 23869, 23800, 23731, 23661, 23592, 23522,
      23452, 23382, 23311, 23240, 23169, 23098, 23027, 22955, 22883, 22811, 22739, 22666,
      22594, 22521, 22448, 22374, 22301, 22227, 22153, 22079, 22004, 21930, 21855, 21780,
      21705, 21629, 21554, 21478, 21402, 21326, 21249, 21173, 21096, 21019, 20942, 20864,
      20787, 20709, 20631, 20553, 20474, 20396, 20317, 20238, 20159, 20079, 20000, 19920,
      19840, 19760, 19680, 19599, 19519, 19438, 19357, 19276, 19194, 19113, 19031, 18949,
      18867, 18785, 18702, 18620, 18537, 18454, 18371, 18287, 18204, 18120, 18036, 17952,
      17868, 17784, 17699, 17615, 17530, 17445, 17360, 17274, 17189, 17103, 17017, 16931,
      16845, 16759, 16672, 16586, 16499, 16412, 16325, 16238, 16150, 16063, 15975, 15887,
      15799, 15711, 15623, 15534, 15446, 15357, 15268, 15179, 15090, 15001, 14911, 14822,
      14732, 14642, 14552, 14462, 14372, 14281, 14191, 14100, 14009, 13918, 13827, 13736,
      13645, 13553, 13462, 13370, 13278, 13186, 13094, 13002, 12909, 12817, 12724, 12632,
      12539, 12446, 12353, 12260, 12166, 12073, 11980, 11886, 11792, 11698, 11604, 11510,
      11416, 11322, 11227, 11133, 11038, 10944, 10849, 10754, 10659, 10564, 10469, 10373,
      10278, 10182, 10087, 9991, 9895, 9799, 9703, 9607, 9511, 9415, 9319, 9222,
      9126, 9029, 8932, 8836, 8739, 8642, 8545, 8448, 8351, 8253, 8156, 8059,
      7961, 7864, 7766, 7668, 7571, 7473, 7375, 7277, 7179, 7081, 6982, 6884,
      6786, 6688, 6589, 6491, 6392, 6293, 6195, 6096, 5997, 5898, 5799, 5700,
      5601, 5502, 5403, 5304, 5205, 5106, 5006, 4907, 4807, 4708, 4608, 4509,
      4409, 4310, 4210, 4110, 4011, 3911, 3811, 3711, 3611, 3511, 3411, 3311,
      3211, 3111, 3011, 2911, 2811, 2711, 2610, 2510, 2410, 2310, 2209, 2109,
      2009, 1908, 1808, 1708, 1607, 1507, 1406, 1306, 1206, 1105, 1005, 904,
      804, 703, 603, 502, 402, 301, 201, 100, 0>>
MCQuarterWave == [i \in 0 .. 512 |-> MCWave[i + 1]]

\* Phase advances of the oscillator that makes the tones: 2086 and 1564 Hz.
Mark == 356
Space == 267

\* The bits as a tone whose phase is continuous, 23.04 samples each.
Ones(bits, t) == Cardinality({u \in 0 .. t - 1 : bits[(25 * u) \div 576 + 1] = 1})
Tone(bits, divisor) ==
    [samples |->
        [k \in 1 .. (576 * Len(bits)) \div 25 |->
            oscLut[(Space * (k - 1) + (Mark - Space) * Ones(bits, k - 1)) % LUT_SIZE]
                \div divisor],
     bits |-> bits]
Steady(length) ==
    [samples |-> [k \in 1 .. length |-> oscLut[(Space * (k - 1)) % LUT_SIZE]],
     bits |-> << >>]

\* Full-scale samples with the signs that make every product of channel c's
\* filter positive when the last of them comes.
Hardest(c) ==
    [samples |->
        [k \in 1 .. N_FIR_TAPS |->
            IF Fir_Coeffs[N_FIR_TAPS - k] * oscLut[(FirstPhase[c] + INJ_FREQ * (k - 1)) % LUT_SIZE] >= 0
            THEN 32767 ELSE -32768],
     bits |-> << >>]

\* Half of a sync code and a byte with runs of equal bits.
MCBits == <<1, 1, 0, 1, 0, 1, 0, 1, 0, 0, 0, 0, 1, 1, 1, 0>>

MCSignals ==
    {Tone(MCBits, 1), Tone(MCBits, 64), Steady(8400), Hardest("I"), Hardest("Q")}
===============================================================================
