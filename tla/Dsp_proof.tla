------------------------------ MODULE Dsp_proof -------------------------------
(***************************************************************************)
(* Theorems about the two halves of the DSP thread's loop.                 *)
(*                                                                         *)
(* The demodulator front end, for every input and every table of the       *)
(* oscillator: the delay lines are where the chain's arithmetic needs      *)
(* them, the filter's output fits its 16 bits, and the slicer's level      *)
(* stays below its wrap.                                                   *)
(*                                                                         *)
(* The bit and byte decoder, for every message, every phase of the         *)
(* sampling, up to two inverted samples and any number of new syncs: the   *)
(* bit clock reads each bit once, and of a clean signal every byte after   *)
(* the sync code is decoded, also that of a message after one given up.    *)
(***************************************************************************)
EXTENDS FrontEnd, BitDecoder, WellFoundedInduction, TLAPS

\* The pointers stay in their rings, and the rings are arrays.
Indices ==
    /\ n \in Nat
    /\ Phase = [c \in Channels |-> Phase[c]]
    /\ wrptr \in [Channels -> 0 .. N_FIR_TAPS - 1]
    /\ firdata = [c \in Channels |-> [i \in 0 .. N_FIR_TAPS - 1 |-> firdata[c][i]]]
    /\ demod_dly = [c \in Channels |-> [i \in 0 .. DEMOD_DLY_LEN - 1 |-> demod_dly[c][i]]]
    /\ curr_index \in 0 .. DEMOD_DLY_LEN - 1

\* What the theorem on the delay lines rests on.
LinesInv == Indices /\ DelayLines

\* Stepping back from a pointer of the filter's ring.
LEMMA StepBack ==
    ASSUME NEW w \in 0 .. N_FIR_TAPS - 1, NEW i \in 0 .. N_FIR_TAPS - 1
    PROVE  /\ (w - i) % N_FIR_TAPS = IF i <= w THEN w - i ELSE w - i + N_FIR_TAPS
           /\ (w - 1 - i) % N_FIR_TAPS = IF i < w THEN w - 1 - i ELSE w - 1 - i + N_FIR_TAPS
           /\ (NextTap(w) - 1 - i) % N_FIR_TAPS = (w - i) % N_FIR_TAPS
           /\ NextTap(w) \in 0 .. N_FIR_TAPS - 1
BY DEF N_FIR_TAPS, NextTap

\* Older inputs are not in the slot that is written.
LEMMA OlderSlot ==
    ASSUME NEW w \in 0 .. N_FIR_TAPS - 1, NEW i \in 1 .. N_FIR_TAPS - 1
    PROVE  /\ (w - i) % N_FIR_TAPS \in 0 .. N_FIR_TAPS - 1
           /\ (w - i) % N_FIR_TAPS # w
           /\ w - 1 - (i - 1) = w - i
BY DEF N_FIR_TAPS

\* The pointer of the delay lines, a step forward and back.
LEMMA StepAround ==
    ASSUME NEW p \in 0 .. DEMOD_DLY_LEN - 1
    PROVE  /\ (p + 1) % DEMOD_DLY_LEN \in 0 .. DEMOD_DLY_LEN - 1
           /\ (((p + 1) % DEMOD_DLY_LEN) - 1) % DEMOD_DLY_LEN = p
BY DEF DEMOD_DLY_LEN

\* What should be computed depends on the input only.
LEMMA SameInput ==
    ASSUME signal' = signal
    PROVE  /\ \A c, k : PhaseAt(c, k)' = PhaseAt(c, k)
           /\ \A c, k : MixedAt(c, k)' = MixedAt(c, k)
           /\ \A c, k : FilteredAt(c, k)' = FilteredAt(c, k)
<1>1. \A c, k : PhaseAt(c, k)' = PhaseAt(c, k)
  BY DEF PhaseAt, FirstPhase
<1>2. \A c, k : MixedAt(c, k)' = MixedAt(c, k)
  BY DEF MixedAt, Mixed, PhaseAt, FirstPhase, oscLut, Samples
<1>3. ASSUME NEW c, NEW k PROVE FilteredAt(c, k)' = FilteredAt(c, k)
  <2>1. [i \in 0 .. N_FIR_TAPS - 1 |-> MixedAt(c, k - i)']
          = [i \in 0 .. N_FIR_TAPS - 1 |-> MixedAt(c, k - i)]
    BY <1>2
  <2> QED
    BY <2>1, Zenon DEF FilteredAt
<1> QED
  BY <1>1, <1>2, <1>3

\* A filter ring, with input number n + 1 stored over the oldest, holds the newest
\* inputs backwards from the write pointer.
LEMMA RingContents ==
    ASSUME LinesInv, NEW c \in Channels, NEW in, in = MixedAt(c, n + 1),
           NEW i \in 0 .. N_FIR_TAPS - 1
    PROVE  Stored(c, in)[(wrptr[c] - i) % N_FIR_TAPS] = MixedAt(c, n + 1 - i)
<1>1. wrptr[c] \in 0 .. N_FIR_TAPS - 1 /\ n \in Nat
  BY DEF LinesInv, Indices
<1>2. firdata[c] = [j \in 0 .. N_FIR_TAPS - 1 |-> firdata[c][j]]
  BY DEF LinesInv, Indices
<1>3. \A j \in 0 .. N_FIR_TAPS - 1 :
        Stored(c, in)[j] = IF j = wrptr[c] THEN in ELSE firdata[c][j]
  BY <1>1, <1>2 DEF Stored
<1>4. CASE i = 0
  <2>1. (wrptr[c] - i) % N_FIR_TAPS = wrptr[c] /\ n + 1 - i = n + 1
    BY <1>1, <1>4, StepBack
  <2> QED
    BY <1>1, <1>3, <2>1
<1>5. CASE i # 0
  <2>1. i - 1 \in 0 .. N_FIR_TAPS - 1 /\ n - (i - 1) = n + 1 - i
    BY <1>1, <1>5 DEF N_FIR_TAPS
  <2>2. /\ (wrptr[c] - i) % N_FIR_TAPS \in 0 .. N_FIR_TAPS - 1
        /\ (wrptr[c] - i) % N_FIR_TAPS # wrptr[c]
        /\ (wrptr[c] - i) % N_FIR_TAPS = (wrptr[c] - 1 - (i - 1)) % N_FIR_TAPS
    <3>1. i \in 1 .. N_FIR_TAPS - 1
      BY <1>5
    <3> QED
      BY <1>1, <3>1, OlderSlot
  <2>3. firdata[c][(wrptr[c] - 1 - (i - 1)) % N_FIR_TAPS] = MixedAt(c, n - (i - 1))
    BY <2>1 DEF LinesInv, DelayLines
  <2> QED
    BY <1>3, <2>1, <2>2, <2>3
<1> QED
  BY <1>4, <1>5

\* The filter computes from its ring what it should from the inputs.
LEMMA FilterOutput ==
    ASSUME LinesInv, NEW c \in Channels, NEW in, in = MixedAt(c, n + 1)
    PROVE  RunFIR(c, in) = FilteredAt(c, n + 1)
<1>1. [i \in 0 .. N_FIR_TAPS - 1 |-> Stored(c, in)[(wrptr[c] - i) % N_FIR_TAPS]]
        = [i \in 0 .. N_FIR_TAPS - 1 |-> MixedAt(c, (n + 1) - i)]
  <2>1. ASSUME NEW i \in 0 .. N_FIR_TAPS - 1
        PROVE  Stored(c, in)[(wrptr[c] - i) % N_FIR_TAPS] = MixedAt(c, (n + 1) - i)
    <3>1. Stored(c, in)[(wrptr[c] - i) % N_FIR_TAPS] = MixedAt(c, n + 1 - i)
      BY RingContents
    <3>2. n \in Nat /\ i \in Int
      BY DEF LinesInv, Indices
    <3>3. n + 1 - i = (n + 1) - i
      BY <3>2
    <3> QED
      BY <3>1, <3>3
  <2> QED
    BY <2>1, Zenon
<1>2. RunFIR(c, in)
        = Filter([i \in 0 .. N_FIR_TAPS - 1 |-> Stored(c, in)[(wrptr[c] - i) % N_FIR_TAPS]])
  BY Zenon DEF RunFIR
<1>3. FilteredAt(c, n + 1) = Filter([i \in 0 .. N_FIR_TAPS - 1 |-> MixedAt(c, (n + 1) - i)])
  BY Zenon DEF FilteredAt
<1> QED
  BY <1>1, <1>2, <1>3, Zenon

\* A step of the loop.
LEMMA StepLines == LinesInv /\ DspFrontEnd => LinesInv'
<1> SUFFICES ASSUME LinesInv, DspFrontEnd PROVE LinesInv'
  OBVIOUS
<1> DEFINE mix(c) == Mixed(Phase[c], Samples[n + 1])
<1>1. n \in Nat /\ n' = n + 1 /\ signal' = signal
  BY DEF LinesInv, Indices, DspFrontEnd
<1>2. \A c \in Channels : mix(c) = MixedAt(c, n + 1)
  BY <1>1 DEF LinesInv, DelayLines, MixedAt
<1>3. \A c, k : MixedAt(c, k)' = MixedAt(c, k)
  BY <1>1, SameInput
<1>4. \A c, k : FilteredAt(c, k)' = FilteredAt(c, k)
  BY <1>1, SameInput
<1>5. /\ firdata' = [c \in Channels |-> Stored(c, mix(c))]
      /\ wrptr' = [c \in Channels |-> NextTap(wrptr[c])]
  <2>1. \A c \in Channels : Pair(mix("I"), mix("Q"))[c] = mix(c)
    BY DEF Pair, Channels
  <2>2. /\ firdata' = [c \in Channels |-> Stored(c, Pair(mix("I"), mix("Q"))[c])]
        /\ wrptr' = [c \in Channels |-> NextTap(wrptr[c])]
    BY DEF DspFrontEnd, DspFilter
  <2> QED
    BY <2>1, <2>2
<1>6. /\ demod_dly' = [c \in Channels |->
              [demod_dly[c] EXCEPT ![curr_index] = Int16(FilteredAt(c, n + 1))]]
      /\ curr_index' = (curr_index + 1) % DEMOD_DLY_LEN
  <2>1. \A c \in Channels : RunFIR(c, mix(c)) = FilteredAt(c, n + 1)
    BY <1>2, FilterOutput
  <2>2. \A c \in Channels :
           Pair(RunFIR("I", mix("I")), RunFIR("Q", mix("Q")))[c] = FilteredAt(c, n + 1)
    BY <2>1 DEF Pair, Channels
  <2>3. /\ demod_dly' = [c \in Channels |-> [demod_dly[c] EXCEPT ![curr_index] =
                Int16(Pair(RunFIR("I", mix("I")), RunFIR("Q", mix("Q")))[c])]]
        /\ curr_index' = (curr_index + 1) % DEMOD_DLY_LEN
    BY DEF DspFrontEnd, DspFilter, DspDiscriminate
  <2> QED
    BY <2>2, <2>3
<1>7. Phase' = [c \in Channels |-> NextPhase(Phase[c])]
  BY DEF DspFrontEnd
<1>8. Indices'
  <2>1. wrptr' \in [Channels -> 0 .. N_FIR_TAPS - 1]
    <3>1. \A c \in Channels : NextTap(wrptr[c]) \in 0 .. N_FIR_TAPS - 1
      <4>1. wrptr \in [Channels -> 0 .. N_FIR_TAPS - 1]
        BY DEF LinesInv, Indices
      <4> QED
        BY <4>1 DEF NextTap, N_FIR_TAPS
    <3> QED
      BY <1>5, <3>1
  <2>2. firdata' = [c \in Channels |-> [i \in 0 .. N_FIR_TAPS - 1 |-> firdata'[c][i]]]
    <3>1. ASSUME NEW c \in Channels
          PROVE  firdata'[c] = [i \in 0 .. N_FIR_TAPS - 1 |-> firdata'[c][i]]
      <4>1. firdata[c] = [i \in 0 .. N_FIR_TAPS - 1 |-> firdata[c][i]]
        BY DEF LinesInv, Indices
      <4>2. firdata'[c] = [firdata[c] EXCEPT ![wrptr[c]] = mix(c)]
        BY <1>5 DEF Stored
      <4> QED
        BY <4>1, <4>2
    <3> QED
      BY <1>5, <3>1
  <2>3. demod_dly' = [c \in Channels |-> [i \in 0 .. DEMOD_DLY_LEN - 1 |-> demod_dly'[c][i]]]
    <3>1. ASSUME NEW c \in Channels
          PROVE  demod_dly'[c] = [i \in 0 .. DEMOD_DLY_LEN - 1 |-> demod_dly'[c][i]]
      <4>1. demod_dly[c] = [i \in 0 .. DEMOD_DLY_LEN - 1 |-> demod_dly[c][i]]
        BY DEF LinesInv, Indices
      <4>2. demod_dly'[c] = [demod_dly[c] EXCEPT ![curr_index] = Int16(FilteredAt(c, n + 1))]
        BY <1>6
      <4> QED
        BY <4>1, <4>2
    <3> QED
      BY <1>6, <3>1
  <2>4. curr_index' \in 0 .. DEMOD_DLY_LEN - 1
    BY <1>6, StepAround DEF LinesInv, Indices
  <2>5. Phase' = [c \in Channels |-> Phase'[c]]
    BY <1>7
  <2> QED
    BY <1>1, <2>1, <2>2, <2>3, <2>4, <2>5 DEF Indices
<1>9. ASSUME NEW c \in Channels PROVE Phase'[c] = PhaseAt(c, n' + 1)
  <2>1. Phase[c] = (FirstPhase[c] + INJ_FREQ * n) % LUT_SIZE
    BY <1>1 DEF LinesInv, DelayLines, PhaseAt
  <2>2. FirstPhase[c] \in Nat
    BY DEF FirstPhase, LUT_SIZE
  <2>3. Phase'[c] = (Phase[c] + INJ_FREQ) % LUT_SIZE
    BY <1>7 DEF NextPhase
  <2>4. ASSUME NEW f \in Nat, NEW m \in Nat
        PROVE  (((f + INJ_FREQ * m) % LUT_SIZE) + INJ_FREQ) % LUT_SIZE
                  = (f + INJ_FREQ * (m + 1)) % LUT_SIZE
    BY DEF INJ_FREQ, LUT_SIZE
  <2>5. PhaseAt(c, n' + 1) = (FirstPhase[c] + INJ_FREQ * (n + 1)) % LUT_SIZE
    BY <1>1 DEF PhaseAt
  <2> QED
    BY <1>1, <2>1, <2>2, <2>3, <2>4, <2>5
<1>10. ASSUME NEW c \in Channels, NEW k \in 0 .. N_FIR_TAPS - 1
       PROVE  firdata'[c][(wrptr'[c] - 1 - k) % N_FIR_TAPS] = MixedAt(c, n' - k)
  <2>1. wrptr[c] \in 0 .. N_FIR_TAPS - 1 /\ wrptr'[c] = NextTap(wrptr[c])
    BY <1>5 DEF LinesInv, Indices
  <2>2. (wrptr'[c] - 1 - k) % N_FIR_TAPS = (wrptr[c] - k) % N_FIR_TAPS
    BY <2>1, StepBack
  <2>3. firdata'[c] = Stored(c, mix(c))
    BY <1>5
  <2>4. Stored(c, mix(c))[(wrptr[c] - k) % N_FIR_TAPS] = MixedAt(c, n + 1 - k)
    BY <1>2, RingContents
  <2> QED
    BY <1>1, <2>2, <2>3, <2>4
<1>11. ASSUME NEW c \in Channels
       PROVE  demod_dly'[c][(curr_index' - 1) % DEMOD_DLY_LEN] = Int16(FilteredAt(c, n'))
  <2>1. (curr_index' - 1) % DEMOD_DLY_LEN = curr_index
    BY <1>6, StepAround DEF LinesInv, Indices
  <2>2. demod_dly[c] = [i \in 0 .. DEMOD_DLY_LEN - 1 |-> demod_dly[c][i]]
    BY DEF LinesInv, Indices
  <2>3. demod_dly'[c] = [demod_dly[c] EXCEPT ![curr_index] = Int16(FilteredAt(c, n + 1))]
    BY <1>6
  <2>4. curr_index \in 0 .. DEMOD_DLY_LEN - 1
    BY DEF LinesInv, Indices
  <2> QED
    BY <1>1, <2>1, <2>2, <2>3, <2>4
<1>12. DelayLines'
  <2>1. \A c, k : PhaseAt(c, k)' = PhaseAt(c, k)
    BY <1>1, SameInput
  <2> QED
    BY <1>3, <1>4, <1>9, <1>10, <1>11, <2>1 DEF DelayLines
<1> QED
  BY <1>8, <1>12 DEF LinesInv

\* The empty delay lines.
LEMMA InitLines == Init => LinesInv
<1> SUFFICES ASSUME Init PROVE LinesInv
  OBVIOUS
<1>1. Indices
  BY DEF Init, FIRInit, Indices, FirstPhase, N_FIR_TAPS, DEMOD_DLY_LEN
<1>2. ASSUME NEW c \in Channels PROVE Phase[c] = PhaseAt(c, n + 1)
  <2>1. PhaseAt(c, n + 1) = FirstPhase[c] % LUT_SIZE
    BY DEF Init, PhaseAt, INJ_FREQ, FirstPhase, LUT_SIZE
  <2>2. FirstPhase[c] \in {0, 1536}
    BY DEF FirstPhase, LUT_SIZE
  <2>3. FirstPhase[c] % LUT_SIZE = FirstPhase[c]
    BY <2>2 DEF LUT_SIZE
  <2> QED
    BY <2>1, <2>3 DEF Init
<1>3. ASSUME NEW c \in Channels, NEW k \in 0 .. N_FIR_TAPS - 1
      PROVE  firdata[c][(wrptr[c] - 1 - k) % N_FIR_TAPS] = MixedAt(c, n - k)
  <2>1. (wrptr[c] - 1 - k) % N_FIR_TAPS \in 0 .. N_FIR_TAPS - 1
    BY DEF Init, FIRInit, N_FIR_TAPS
  <2>2. firdata[c][(wrptr[c] - 1 - k) % N_FIR_TAPS] = 0
    BY <2>1 DEF Init, FIRInit
  <2>3. n - k <= 0
    BY DEF Init, FIRInit, N_FIR_TAPS
  <2> QED
    BY <2>2, <2>3 DEF MixedAt
<1>4. ~(n > 0)
  BY DEF Init
<1> QED
  BY <1>1, <1>2, <1>3, <1>4 DEF LinesInv, DelayLines

\* The oscillators, both filter rings and the newest slots of the delay lines hold
\* what the input so far makes them, for an input of any length.
THEOREM LinesCorrect == Spec => []DelayLines
<1>1. LinesInv /\ [DspFrontEnd]_vars => LinesInv'
  <2> SUFFICES ASSUME LinesInv, [DspFrontEnd]_vars PROVE LinesInv'
    OBVIOUS
  <2>1. CASE DspFrontEnd
    BY <2>1, StepLines
  <2>2. CASE UNCHANGED vars
    <3>1. Indices'
      BY <2>2 DEF vars, LinesInv, Indices
    <3>2. DelayLines'
      <4>1. /\ Phase' = Phase /\ wrptr' = wrptr /\ firdata' = firdata
            /\ demod_dly' = demod_dly /\ curr_index' = curr_index
            /\ n' = n /\ signal' = signal
        BY <2>2 DEF vars
      <4>2. /\ \A c, k : PhaseAt(c, k)' = PhaseAt(c, k)
            /\ \A c, k : MixedAt(c, k)' = MixedAt(c, k)
            /\ \A c, k : FilteredAt(c, k)' = FilteredAt(c, k)
        BY <4>1, SameInput
      <4>3. DelayLines
        BY DEF LinesInv
      <4> QED
        BY <4>1, <4>2, <4>3 DEF DelayLines
    <3> QED
      BY <3>1, <3>2 DEF LinesInv
  <2> QED
    BY <2>1, <2>2
<1>2. LinesInv => DelayLines
  BY DEF LinesInv
<1> QED
  BY <1>1, <1>2, InitLines, PTL DEF Spec

\* Division by the slicer's scale, rounding towards zero.
Scale == 100000
LEMMA DividedSmall ==
    ASSUME NEW y \in Nat, y < 6 * Scale
    PROVE  y \div Scale \in 0 .. 5
BY DEF Scale

LEMMA TruncatedSmall ==
    ASSUME NEW x \in Int, -(6 * Scale) < x, x < 6 * Scale
    PROVE  Toward0(x, Scale) \in -5 .. 5
<1>1. CASE x >= 0
  <2>1. Toward0(x, Scale) = x \div Scale
    BY <1>1, Zenon DEF Toward0
  <2>2. x \div Scale \in 0 .. 5
    BY <1>1, DividedSmall
  <2> QED
    BY <2>1, <2>2
<1>2. CASE x < 0
  <2>1. PICK y \in Nat : y = -x /\ y < 6 * Scale
    BY <1>2 DEF Scale
  <2>2. ~(x >= 0)
    BY <1>2
  <2>3. Toward0(x, Scale) = -(y \div Scale)
    BY <2>1, <2>2, Zenon DEF Toward0
  <2>4. y \div Scale \in 0 .. 5
    BY <2>1, DividedSmall
  <2> QED
    BY <2>3, <2>4
<1> QED
  BY <1>1, <1>2

\* What one discriminator output adds to the slicer's level, and what the level
\* keeps of itself.
LEMMA GainSmall ==
    ASSUME NEW phase \in Int, -40000 < phase, phase < 40000
    PROVE  Gain(phase) \in -5 .. 5
<1>1. PICK short \in {0, -1, 1} : Gain(phase) = Toward0(15 * phase + short, Scale)
  BY DEF Gain, Scale
<1>2. /\ 15 * phase + short \in Int
      /\ -(6 * Scale) < 15 * phase + short
      /\ 15 * phase + short < 6 * Scale
  BY DEF Scale
<1> QED
  BY <1>1, <1>2, TruncatedSmall

LEMMA LeakSmall ==
    ASSUME NEW level \in Int, -26667 <= level, level <= 26667
    PROVE  Leak(level) \in Int /\ -26662 <= Leak(level) /\ Leak(level) <= 26662
<1>1. CASE level >= 0
  BY <1>1 DEF Leak
<1>2. CASE level < 0
  BY <1>2 DEF Leak
<1> QED
  BY <1>1, <1>2

LEMMA Fits ==
    ASSUME NEW x \in Int, -26667 <= x, x <= 26667
    PROVE  Int16(x) = x
BY DEF Int16

LEMMA Settles ==
    ASSUME NEW phase \in Int, -40000 < phase, phase < 40000,
           NEW level \in Int, -26667 <= level, level <= 26667
    PROVE  LET next == Int16(Leak(level) + Gain(phase))
           IN  next \in Int /\ -26667 <= next /\ next <= 26667
<1>1. Gain(phase) \in Int /\ -5 <= Gain(phase) /\ Gain(phase) <= 5
  BY GainSmall
<1>2. Leak(level) \in Int /\ -26662 <= Leak(level) /\ Leak(level) <= 26662
  BY LeakSmall
<1>3. PICK x \in Int : x = Leak(level) + Gain(phase) /\ -26667 <= x /\ x <= 26667
  BY <1>1, <1>2
<1>4. Int16(x) = x
  BY <1>3, Fits
<1> QED
  BY <1>3, <1>4

LEMMA Symmetric ==
    ASSUME NEW b \in Int, NEW x
    PROVE  x \in -b .. b <=> x \in Int /\ -b <= x /\ x <= b
OBVIOUS

\* For an input of any length, as long as the discriminator has not been driven
\* beyond what an undistorted tone makes, the slicer's level does not wrap.
THEOREM LevelNeverWraps == Spec => []LevelSettles
<1>1. Init => LevelSettles
  BY DEF Init, LevelSettles, LevelBound
<1>2. LevelSettles /\ [DspFrontEnd]_vars => LevelSettles'
  <2> SUFFICES ASSUME LevelSettles, [DspFrontEnd]_vars, ~loud'
               PROVE  dcslice_level' \in -LevelBound .. LevelBound
    BY DEF LevelSettles
  <2> DEFINE level == dcslice_level
  <2>1. LevelBound = 26667 /\ LinearBound = 39999
    BY DEF LevelBound, LinearBound
  <2>4. LevelBound \in Int /\ LinearBound \in Int
    BY <2>1
  <2>2. CASE DspFrontEnd
    <3>1. PICK phase : DspSlice(phase, Level(phase))
      BY <2>2 DEF DspFrontEnd, DspFilter, DspDiscriminate
    <3>2. ~loud /\ phase \in Linear /\ level' = Int16(Leak(level) + Gain(phase))
      BY <3>1, Zenon DEF DspSlice, Level
    <3>3. level \in -LevelBound .. LevelBound /\ phase \in -LinearBound .. LinearBound
      BY <3>2, Zenon DEF LevelSettles, Linear
    <3>4. /\ level \in Int /\ -LevelBound <= level /\ level <= LevelBound
          /\ phase \in Int /\ -LinearBound <= phase /\ phase <= LinearBound
      BY <2>4, <3>3, Symmetric, Zenon
    <3>5. /\ -26667 <= level /\ level <= 26667 /\ -40000 < phase /\ phase < 40000
      <4> HIDE DEF level
      <4> QED
        BY <2>1, <3>4
    <3>6. level' \in Int /\ -26667 <= level' /\ level' <= 26667
      BY <3>2, <3>4, <3>5, Settles
    <3>7. level' \in Int /\ -LevelBound <= level' /\ level' <= LevelBound
      BY <2>1, <3>6
    <3> QED
      BY <2>4, <3>7, Symmetric, Zenon
  <2>3. CASE UNCHANGED vars
    BY <2>3, Zenon DEF vars, LevelSettles
  <2> QED
    BY <2>2, <2>3
<1> QED
  BY <1>1, <1>2, PTL DEF Spec
-------------------------------------------------------------------------------
\* The filter's sum, by induction over its taps.
LessThan == {p \in Nat \X Nat : p[1] < p[2]}

LEMMA LessThanWellFounded == IsWellFoundedOn(LessThan, Nat)
BY NatLessThanWellFounded DEF OpToRel, LessThan

LEMMA Induction ==
    ASSUME NEW T \in SUBSET Nat, 0 \in T, \A m \in T : m + 1 \in T
    PROVE  T = Nat
<1> SUFFICES ASSUME Nat \ T # {} PROVE FALSE
  OBVIOUS
<1>1. PICK x \in Nat \ T : \A y \in Nat \ T : ~ (<<y, x>> \in LessThan)
  BY LessThanWellFounded, WFMin, Zenon
<1>2. x # 0 /\ x - 1 \in Nat /\ x - 1 < x /\ x = (x - 1) + 1
  BY <1>1
<1>3. <<x - 1, x>> \in Nat \X Nat /\ <<x - 1, x>>[1] = x - 1 /\ <<x - 1, x>>[2] = x
  BY <1>1, <1>2
<1>4. <<x - 1, x>> \in LessThan
  BY <1>2, <1>3, Zenon DEF LessThan
<1>5. x - 1 \in T
  BY <1>1, <1>2, <1>4, Zenon
<1> QED
  BY <1>1, <1>2, <1>5

\* Partial sums of the filter: the first m taps are added up in f.
Taps == 0 .. N_FIR_TAPS - 1
Sums == -1 .. N_FIR_TAPS - 1
SummedTo(f, m, In) ==
    f[-1] = 0 /\ \A i \in Taps : i < m => f[i] = f[i - 1] + Fir_Coeffs[i] * In[i]

\* The magnitudes of the first coefficients, added up.
SumTo ==
    <<0, 24, 109, 260, 468, 704, 921, 1059, 1059, 1246, 1641, 2226, 2933, 3646, 4209, 4442,
      4718, 5658, 7364, 9864, 13103, 16943, 21175, 25543, 29775, 33615, 36854, 39354, 41060,
      42000, 42276, 42509, 43072, 43785, 44492, 45077, 45472, 45659, 45659, 45797, 46014,
      46250, 46458, 46609, 46694, 46718>>

LEMMA Coefficients ==
    ASSUME NEW i \in Taps
    PROVE  /\ Fir_Coeffs[i] \in Int /\ SumTo[i + 1] \in Nat /\ SumTo[i + 2] \in Nat
           /\ Fir_Coeffs[i] <= SumTo[i + 2] - SumTo[i + 1]
           /\ -Fir_Coeffs[i] <= SumTo[i + 2] - SumTo[i + 1]
BY DEF Taps, Fir_Coeffs, N_FIR_TAPS, SumTo, HalfCoeffs

\* The sums exist: the function that Filter defines by recursion is one of them.
LEMMA SumsExist ==
    ASSUME NEW In, \A i \in Taps : In[i] \in Int
    PROVE  \E f \in [Sums -> Int] : SummedTo(f, N_FIR_TAPS, In)
<1> DEFINE T == {m \in Nat : m <= N_FIR_TAPS => \E f \in [Sums -> Int] : SummedTo(f, m, In)}
<1>1. 0 \in T
  <2>1. [i \in Sums |-> 0] \in [Sums -> Int] /\ SummedTo([i \in Sums |-> 0], 0, In)
    BY DEF SummedTo, Sums, Taps, N_FIR_TAPS
  <2> QED
    BY <2>1
<1>2. ASSUME NEW m \in T PROVE m + 1 \in T
  <2> SUFFICES ASSUME m + 1 <= N_FIR_TAPS PROVE \E f \in [Sums -> Int] : SummedTo(f, m + 1, In)
    OBVIOUS
  <2>1. PICK f \in [Sums -> Int] : SummedTo(f, m, In)
    BY DEF N_FIR_TAPS
  <2>2. m \in Taps /\ m \in Sums /\ m - 1 \in Sums /\ m # -1
    BY DEF Taps, Sums, N_FIR_TAPS
  <2> DEFINE g == [f EXCEPT ![m] = f[m - 1] + Fir_Coeffs[m] * In[m]]
  <2>3. f[m - 1] + Fir_Coeffs[m] * In[m] \in Int
    BY <2>2, Coefficients
  <2>4. g \in [Sums -> Int]
    BY <2>3
  <2>5. g[m] = f[m - 1] + Fir_Coeffs[m] * In[m] /\ \A i \in Sums : i # m => g[i] = f[i]
    BY <2>2
  <2>6. ASSUME NEW i \in Taps, i < m + 1 PROVE g[i] = g[i - 1] + Fir_Coeffs[i] * In[i]
    <3>1. i \in Sums /\ i - 1 \in Sums /\ i - 1 # m /\ (i # m => i < m)
      BY <2>6 DEF Taps, Sums, N_FIR_TAPS
    <3> HIDE DEF g
    <3>2. CASE i = m
      BY <2>5, <3>1, <3>2
    <3>3. CASE i # m
      BY <2>1, <2>5, <3>1, <3>3 DEF SummedTo
    <3> QED
      BY <3>2, <3>3
  <2>7. g[-1] = 0
    <3>1. -1 \in Sums
      BY DEF Sums, N_FIR_TAPS
    <3> QED
      BY <2>1, <2>2, <2>5, <3>1 DEF SummedTo
  <2> HIDE DEF g
  <2>8. SummedTo(g, m + 1, In)
    BY <2>6, <2>7 DEF SummedTo
  <2> QED
    BY <2>4, <2>8
<1> HIDE DEF T
<1>3. T = Nat
  <2>1. T \in SUBSET Nat
    BY DEF T
  <2> QED
    BY <1>1, <1>2, <2>1, Induction
<1>4. N_FIR_TAPS \in Nat /\ N_FIR_TAPS <= N_FIR_TAPS
  BY DEF N_FIR_TAPS
<1> QED
  BY <1>3, <1>4 DEF T

LEMMA FilterSums ==
    ASSUME NEW In, \A i \in Taps : In[i] \in Int
    PROVE  \E f : /\ Filter(In) = f[N_FIR_TAPS - 1] \div 2^MAC_SHIFT
                  /\ SummedTo(f, N_FIR_TAPS, In)
<1> DEFINE mac[i \in -1 .. N_FIR_TAPS - 1] ==
               IF i = -1 THEN 0 ELSE mac[i - 1] + Fir_Coeffs[i] * In[i]
<1>1. Filter(In) = mac[N_FIR_TAPS - 1] \div 2^MAC_SHIFT
  BY Zenon DEF Filter
<1>2. PICK f \in [Sums -> Int] : SummedTo(f, N_FIR_TAPS, In)
  BY SumsExist
<1>3. ASSUME NEW i \in Sums
      PROVE  f[i] = IF i = -1 THEN 0 ELSE f[i - 1] + Fir_Coeffs[i] * In[i]
  <2>1. i # -1 => i \in Taps /\ i < N_FIR_TAPS
    BY DEF Sums, Taps, N_FIR_TAPS
  <2> QED
    BY <1>2, <2>1 DEF SummedTo
<1>4. f = [i \in -1 .. N_FIR_TAPS - 1 |-> IF i = -1 THEN 0 ELSE f[i - 1] + Fir_Coeffs[i] * In[i]]
  BY <1>2, <1>3 DEF Sums
<1>5. mac = [i \in -1 .. N_FIR_TAPS - 1 |-> IF i = -1 THEN 0 ELSE mac[i - 1] + Fir_Coeffs[i] * In[i]]
  BY <1>4, Zenon DEF mac
<1> HIDE DEF mac
<1>6. ASSUME NEW i \in Sums
      PROVE  mac[i] = IF i = -1 THEN 0 ELSE mac[i - 1] + Fir_Coeffs[i] * In[i]
  BY <1>5, Zenon DEF Sums
<1>7. SummedTo(mac, N_FIR_TAPS, In)
  <2>1. -1 \in Sums /\ \A i \in Taps : i \in Sums /\ i # -1
    BY DEF Sums, Taps, N_FIR_TAPS
  <2> QED
    BY <1>6, <2>1 DEF SummedTo
<1> QED
  BY <1>1, <1>7

LEMMA ProductBound ==
    ASSUME NEW c \in Int, NEW x \in Int, NEW M \in Nat, NEW a \in Nat,
           -a <= c, c <= a, -M <= x, x <= M
    PROVE  c * x \in Int /\ -(a * M) <= c * x /\ c * x <= a * M
OBVIOUS

\* Inputs within M make partial sums within the sum of the magnitudes times M.
LEMMA SumsBounded ==
    ASSUME NEW M \in Nat, NEW In, \A i \in Taps : In[i] \in Int /\ -M <= In[i] /\ In[i] <= M,
           NEW f, SummedTo(f, N_FIR_TAPS, In)
    PROVE  \A i \in Taps :
               f[i] \in Int /\ -(SumTo[i + 2] * M) <= f[i] /\ f[i] <= SumTo[i + 2] * M
<1> DEFINE Bounded(m) == f[m - 1] \in Int /\ -(SumTo[m + 1] * M) <= f[m - 1]
                            /\ f[m - 1] <= SumTo[m + 1] * M
<1> DEFINE T == {m \in Nat : m <= N_FIR_TAPS => Bounded(m)}
<1>1. 0 \in T
  <2>1. f[0 - 1] = 0 /\ SumTo[0 + 1] * M = 0
    BY DEF SummedTo, SumTo
  <2> QED
    BY <2>1
<1>2. ASSUME NEW m \in T PROVE m + 1 \in T
  <2> SUFFICES ASSUME m + 1 <= N_FIR_TAPS PROVE Bounded(m + 1)
    OBVIOUS
  <2>1. m \in Taps /\ m < N_FIR_TAPS /\ (m + 1) - 1 = m /\ (m + 1) + 1 = m + 2 /\ m <= N_FIR_TAPS
    BY DEF Taps, N_FIR_TAPS
  <2> DEFINE a == SumTo[m + 1]
  <2> DEFINE b == SumTo[m + 2] - SumTo[m + 1]
  <2>2. a \in Nat /\ b \in Nat /\ Fir_Coeffs[m] \in Int /\ -b <= Fir_Coeffs[m] /\ Fir_Coeffs[m] <= b
    BY <2>1, Coefficients
  <2>3. SumTo[m + 2] = a + b
    BY <2>1, Coefficients
  <2>4. f[m - 1] \in Int /\ -(a * M) <= f[m - 1] /\ f[m - 1] <= a * M
    BY <2>1
  <2>5. f[m] = f[m - 1] + Fir_Coeffs[m] * In[m]
    BY <2>1 DEF SummedTo
  <2> HIDE DEF a, b
  <2>6. /\ Fir_Coeffs[m] * In[m] \in Int /\ -(b * M) <= Fir_Coeffs[m] * In[m]
        /\ Fir_Coeffs[m] * In[m] <= b * M
    BY <2>1, <2>2, ProductBound
  <2>7. (a + b) * M = a * M + b * M /\ a * M \in Int /\ b * M \in Int
    BY <2>2
  <2>8. f[m] \in Int /\ -((a + b) * M) <= f[m] /\ f[m] <= (a + b) * M
    BY <2>4, <2>5, <2>6, <2>7
  <2> QED
    BY <2>1, <2>3, <2>8
<1> HIDE DEF T
<1>3. T = Nat
  <2>1. T \in SUBSET Nat
    BY DEF T
  <2> QED
    BY <1>1, <1>2, <2>1, Induction
<1>4. ASSUME NEW i \in Taps PROVE Bounded(i + 1)
  <2>1. i + 1 \in Nat /\ i + 1 <= N_FIR_TAPS
    BY DEF Taps, N_FIR_TAPS
  <2> QED
    BY <1>3, <2>1 DEF T
<1>5. ASSUME NEW i \in Taps PROVE (i + 1) - 1 = i /\ (i + 1) + 1 = i + 2
  BY DEF Taps, N_FIR_TAPS
<1> QED
  BY <1>4, <1>5

\* The largest sum that 45 samples can make fits 32 bits, and easily 16 after the shift.
LEMMA Shifted ==
    ASSUME NEW x \in Int, -(46718 * 32768) <= x, x <= 46718 * 32768
    PROVE  /\ -2147483648 <= x /\ x <= 2147483647
           /\ x \div 65536 \in Int /\ -23359 <= x \div 65536 /\ x \div 65536 <= 23359
OBVIOUS

LEMMA Powers == 2^15 = 32768 /\ 2^MAC_SHIFT = 65536
BY DEF MAC_SHIFT

LEMMA Interval ==
    ASSUME NEW a \in Int, NEW b \in Int
    PROVE  \A x : x \in a .. b <=> x \in Int /\ a <= x /\ x <= b
OBVIOUS

LEMMA SampleBounds == \A x : x \in RTL_SAMPLE <=> x \in Int /\ -32768 <= x /\ x <= 32767
<1> SUFFICES ASSUME NEW x, NEW a, NEW b, a = -32768, b = 32767
             PROVE  x \in RTL_SAMPLE <=> x \in Int /\ a <= x /\ x <= b
  OBVIOUS
<1>1. RTL_SAMPLE = a .. b
  BY DEF RTL_SAMPLE
<1>2. a \in Int /\ b \in Int
  OBVIOUS
<1> QED
  BY ONLY <1>1, <1>2, Interval

\* Whatever samples a filter is given, its output is well within a sample.
LEMMA FilterInRange ==
    ASSUME NEW In, \A i \in Taps : In[i] \in RTL_SAMPLE
    PROVE  Filter(In) \in Int /\ -23359 <= Filter(In) /\ Filter(In) <= 23359
<1>1. \A i \in Taps : In[i] \in Int /\ -32768 <= In[i] /\ In[i] <= 32768
  BY SampleBounds
<1>2. PICK f : Filter(In) = f[N_FIR_TAPS - 1] \div 2^MAC_SHIFT /\ SummedTo(f, N_FIR_TAPS, In)
  BY <1>1, FilterSums
<1>3. N_FIR_TAPS - 1 \in Taps /\ SumTo[(N_FIR_TAPS - 1) + 2] = 46718
  BY DEF Taps, N_FIR_TAPS, SumTo
<1>4. 32768 \in Nat
  OBVIOUS
<1>5. \A i \in Taps :
        f[i] \in Int /\ -(SumTo[i + 2] * 32768) <= f[i] /\ f[i] <= SumTo[i + 2] * 32768
  BY <1>1, <1>2, <1>4, SumsBounded
<1> DEFINE x == f[N_FIR_TAPS - 1]
<1>6. x \in Int /\ -(46718 * 32768) <= x /\ x <= 46718 * 32768
  BY <1>3, <1>5
<1> HIDE DEF x
<1>7. x \div 65536 \in Int /\ -23359 <= x \div 65536 /\ x \div 65536 <= 23359
  BY <1>6, Shifted
<1>8. Filter(In) = x \div 65536
  BY <1>2, Powers DEF x
<1> QED
  BY <1>7, <1>8

LEMMA Int16Range == ASSUME NEW x \in Int PROVE Int16(x) \in RTL_SAMPLE
<1>1. ((x + 32768) % 65536) - 32768 >= -32768
  OBVIOUS
<1>2. ((x + 32768) % 65536) - 32768 <= 32767
  OBVIOUS
<1>3. ((x + 32768) % 65536) - 32768 \in Int
  OBVIOUS
<1> QED
  BY <1>1, <1>2, <1>3, SampleBounds DEF Int16

LEMMA AmplitudeInt == \A x \in Amplitude : x \in Int /\ 0 <= x /\ x <= 32767
<1> SUFFICES ASSUME NEW b, b = 32767 PROVE \A x \in Amplitude : x \in Int /\ 0 <= x /\ x <= b
  OBVIOUS
<1>1. Amplitude = 0 .. b
  BY DEF Amplitude
<1>2. 0 \in Int /\ b \in Int
  OBVIOUS
<1> QED
  BY ONLY <1>1, <1>2, Interval

\* The oscillators' table is full of amplitudes, of either sign.
LEMMA QuarterValues ==
    ASSUME NEW i \in Int, 0 <= i, i <= 512
    PROVE  QuarterWave[i] \in Int /\ 0 <= QuarterWave[i] /\ QuarterWave[i] <= 32767
<1>1. i \in 0 .. 512
  OBVIOUS
<1>2. QuarterWave[i] \in Amplitude
  BY <1>1, QuarterAssumption, Zenon
<1> QED
  BY <1>2, AmplitudeInt

LEMMA TableValues ==
    ASSUME NEW p \in 0 .. LUT_SIZE - 1
    PROVE  oscLut[p] \in Int /\ -32767 <= oscLut[p] /\ oscLut[p] <= 32767
<1> DEFINE j == IF p <= 1024 THEN p ELSE LUT_SIZE - p
<1>1. j \in Int /\ 0 <= j /\ j <= 1024
  BY DEF LUT_SIZE
<1>2. oscLut[p] = IF j <= 512 THEN QuarterWave[j] ELSE -QuarterWave[1024 - j]
  BY DEF oscLut
<1> HIDE DEF j
<1>3. CASE j <= 512
  BY <1>1, <1>2, <1>3, QuarterValues
<1>4. CASE ~(j <= 512)
  <2>1. /\ QuarterWave[1024 - j] \in Int /\ 0 <= QuarterWave[1024 - j]
        /\ QuarterWave[1024 - j] <= 32767
    <3>1. 1024 - j \in Int /\ 0 <= 1024 - j /\ 1024 - j <= 512
      BY <1>1, <1>4
    <3> QED
      BY <3>1, QuarterValues
  <2> QED
    BY <1>2, <1>4, <2>1
<1> QED
  BY <1>3, <1>4

\* What there is of the input, and where the loop is in it.
InputInv == n \in Nat /\ n <= Len(Samples) /\ Samples \in Seq(RTL_SAMPLE)

LEMMA MixedInRange ==
    ASSUME InputInv, NEW c \in Channels, NEW k \in Int, k <= n
    PROVE  MixedAt(c, k) \in RTL_SAMPLE
<1>1. CASE k <= 0
  BY <1>1, SampleBounds DEF MixedAt
<1>2. CASE ~(k <= 0)
  <2>1. k \in 1 .. Len(Samples)
    BY <1>2 DEF InputInv
  <2>2. Samples[k] \in Int
    BY <2>1, SampleBounds DEF InputInv
  <2>3. PhaseAt(c, k) \in 0 .. LUT_SIZE - 1
    BY DEF PhaseAt, FirstPhase, LUT_SIZE, INJ_FREQ
  <2> DEFINE o == oscLut[PhaseAt(c, k)]
  <2>4. o \in Int
    BY <2>3, TableValues
  <2> HIDE DEF o
  <2>5. (o * Samples[k]) \div 2^15 \in Int
    BY <2>2, <2>4, Powers
  <2>6. MixedAt(c, k) = Int16((o * Samples[k]) \div 2^15)
    BY <1>2 DEF MixedAt, Mixed, o
  <2> QED
    BY <2>5, <2>6, Int16Range
<1> QED
  BY <1>1, <1>2

\* So is what a channel's filter makes of the input, at any place in it.
LEMMA FilteredInRange ==
    ASSUME InputInv, NEW c \in Channels, NEW k \in Int, k <= n
    PROVE  FilteredAt(c, k) \in Int /\ -23359 <= FilteredAt(c, k) /\ FilteredAt(c, k) <= 23359
<1> DEFINE In == [i \in 0 .. N_FIR_TAPS - 1 |-> MixedAt(c, k - i)]
<1>1. ASSUME NEW i \in Taps PROVE In[i] \in RTL_SAMPLE
  <2>1. i \in 0 .. N_FIR_TAPS - 1 /\ k - i \in Int /\ k - i <= n
    BY DEF InputInv, Taps, N_FIR_TAPS
  <2>2. In[i] = MixedAt(c, k - i)
    BY <2>1
  <2> QED
    BY <2>1, <2>2, MixedInRange
<1>2. FilteredAt(c, k) = Filter(In)
  BY Zenon DEF FilteredAt
<1> HIDE DEF In
<1> QED
  BY <1>1, <1>2, FilterInRange

\* The difference of two products of such outputs fits an int.
LEMMA CrossProduct ==
    ASSUME NEW a \in Int, NEW b \in Int, NEW c \in Int, NEW d \in Int,
           -23359 <= a, a <= 23359, -23359 <= b, b <= 23359,
           -23359 <= c, c <= 23359, -23359 <= d, d <= 23359
    PROVE  FitsInt32(a * b - c * d)
<1>1. a * b \in Int /\ -(23359 * 23359) <= a * b /\ a * b <= 23359 * 23359
  BY ProductBound
<1>2. c * d \in Int /\ -(23359 * 23359) <= c * d /\ c * d <= 23359 * 23359
  BY ProductBound
<1> DEFINE p == a * b
<1> DEFINE q == c * d
<1> HIDE DEF p, q
<1>3. /\ p \in Int /\ -545642881 <= p /\ p <= 545642881
      /\ q \in Int /\ -545642881 <= q /\ q <= 545642881
  BY <1>1, <1>2 DEF p, q
<1>4. FitsInt32(p - q)
  BY <1>3 DEF FitsInt32
<1> QED
  BY <1>4 DEF p, q

\* A 16-bit sample times a table value, before and after the shift.
LEMMA MixerProducts ==
    ASSUME NEW o \in Int, -32767 <= o, o <= 32767, NEW s \in RTL_SAMPLE
    PROVE  FitsInt32(o * s) /\ (o * s) \div 2^15 \in RTL_SAMPLE
<1>1. s \in Int /\ -32768 <= s /\ s <= 32768
  BY SampleBounds
<1>2. o * s \in Int /\ -(32767 * 32768) <= o * s /\ o * s <= 32767 * 32768
  BY <1>1, ProductBound
<1> DEFINE p == o * s
<1> HIDE DEF p
<1>3. p \in Int /\ -1073709056 <= p /\ p <= 1073709056
  BY <1>2 DEF p
<1>4. FitsInt32(p)
  BY <1>3 DEF FitsInt32
<1>5. p \div 32768 \in Int /\ -32768 <= p \div 32768 /\ p \div 32768 <= 32767
  BY <1>3
<1>6. p \div 2^15 \in RTL_SAMPLE
  BY <1>5, SampleBounds, Powers
<1> QED
  BY <1>4, <1>6 DEF p

\* Whatever the input and the oscillators' table, what the mixers, the filters and the
\* discriminator compute fits the bits it is kept in.  The slicer's level does as long as
\* the discriminator was not overdriven.
THEOREM NoBitsLost == Spec => []InWidth
<1>1. Init => InputInv
  <2> SUFFICES ASSUME Init PROVE InputInv
    OBVIOUS
  <2>1. signal \in [samples: Seq(RTL_SAMPLE), bits: Seq({0, 1})] /\ n = 0
    BY SignalsAssumption DEF Init
  <2> QED
    BY <2>1 DEF InputInv, Samples
<1>2. InputInv /\ [DspFrontEnd]_vars => InputInv'
  BY DEF InputInv, Samples, DspFrontEnd, vars
<1>3. InputInv => MixerFits
  <2> SUFFICES ASSUME InputInv, n > 0, NEW c \in Channels
               PROVE  FitsInt32(MixerProduct(c)) /\ MixerProduct(c) \div 2^15 \in RTL_SAMPLE
    BY DEF MixerFits
  <2>1. Samples[n] \in RTL_SAMPLE
    BY DEF InputInv
  <2>2. PhaseAt(c, n) \in 0 .. LUT_SIZE - 1
    BY DEF InputInv, PhaseAt, FirstPhase, LUT_SIZE, INJ_FREQ
  <2> DEFINE o == oscLut[PhaseAt(c, n)]
  <2>3. o \in Int /\ -32767 <= o /\ o <= 32767
    BY <2>2, TableValues
  <2> HIDE DEF o
  <2>4. FitsInt32(o * Samples[n]) /\ (o * Samples[n]) \div 2^15 \in RTL_SAMPLE
    BY <2>1, <2>3, MixerProducts
  <2> QED
    BY <2>4 DEF MixerProduct, o
<1>4. InputInv => FilterFits
  <2> SUFFICES ASSUME InputInv, NEW c \in Channels PROVE FilteredAt(c, n) \in RTL_SAMPLE
    BY DEF FilterFits
  <2>1. n \in Int /\ n <= n
    BY DEF InputInv
  <2>2. FilteredAt(c, n) \in Int /\ -23359 <= FilteredAt(c, n) /\ FilteredAt(c, n) <= 23359
    BY <2>1, FilteredInRange
  <2> QED
    BY <2>2, SampleBounds
<1>5. InputInv => CrossFits
  <2> SUFFICES ASSUME InputInv PROVE CrossFits
    OBVIOUS
  <2>1. n \in Int /\ n <= n /\ n - BIT_DELAY \in Int /\ n - BIT_DELAY <= n
    BY DEF InputInv, BIT_DELAY
  <2>2. "I" \in Channels /\ "Q" \in Channels
    BY DEF Channels
  <2>3. ASSUME NEW c \in Channels
        PROVE  /\ FilteredAt(c, n) \in Int
               /\ -23359 <= FilteredAt(c, n) /\ FilteredAt(c, n) <= 23359
               /\ FilteredAt(c, n - BIT_DELAY) \in Int
               /\ -23359 <= FilteredAt(c, n - BIT_DELAY)
               /\ FilteredAt(c, n - BIT_DELAY) <= 23359
    BY <2>1, FilteredInRange
  <2> QED
    BY <2>2, <2>3, CrossProduct DEF CrossFits
<1>6. MixerFits /\ FilterFits /\ CrossFits /\ LevelSettles => InWidth
  BY DEF InWidth
<1> QED
  BY <1>1, <1>2, <1>3, <1>4, <1>5, <1>6, LevelNeverWraps, PTL DEF Spec
-------------------------------------------------------------------------------
\* The decoder.  What its proofs know of the received signal.

\* Where in the transmission, in 576ths of a bit, the sample of a time falls.
Pos(time) == 25 * time + scenario.phase

\* The type invariant of the decoder.
DecoderType ==
    /\ scenario \in Scenarios /\ t \in Nat
    /\ glitches \in Nat /\ glitches <= scenario.inverted
    /\ correlator \in Seq({0, 1}) /\ Len(correlator) = CORR_LENGTH
    /\ insync \in BOOLEAN
    /\ current_sense \in {0, 1} /\ xingcnt \in 0 .. XING_MAX - 1
    /\ divisor \in 0 .. BIT_DIVISOR /\ swallow_ctr \in 0 .. SWALLOW_CTR
    /\ demod_byte \in 0 .. 255 /\ bitctr \in 0 .. BITSPERBYTE - 1
    /\ bytesync \in BOOLEAN
    /\ out \in Seq(0 .. 255)
    /\ bitno \in Int /\ cleared \in BOOLEAN
    /\ since \in 0 .. t

LEMMA ScenarioFacts ==
    ASSUME NEW s \in Scenarios
    PROVE  /\ s.sent \in Seq(0 .. 255)
           /\ s.phase \in 0 .. 575
           /\ s.inverted \in 0 .. 2
           /\ Preamble(s) /\ Bridged(s)
<1>1. s \in Scenario /\ Preamble(s) /\ Bridged(s)
  BY ScenariosAssumption, Zenon
<1> QED
  BY <1>1 DEF Scenario, XING_MAX

LEMMA Place ==
    ASSUME scenario \in Scenarios, NEW time \in Nat
    PROVE  /\ TxIndex(time) \in Nat /\ Pos(time) \in Nat
           /\ 576 * TxIndex(time) <= Pos(time)
           /\ Pos(time) < 576 * TxIndex(time) + 576
<1>1. PICK p \in 0 .. 575 : p = scenario.phase
  BY ScenarioFacts, ZenonT(40)
<1>2. PICK x \in Nat : x = 25 * time + p
  OBVIOUS
<1>3. TxIndex(time) = x \div 576 /\ Pos(time) = x
  BY <1>1, <1>2 DEF TxIndex, Pos
<1> QED
  BY <1>2, <1>3

LEMMA PlaceIs ==
    ASSUME scenario \in Scenarios, NEW time \in Nat, NEW k \in Nat,
           576 * k <= Pos(time), Pos(time) < 576 * k + 576
    PROVE  TxIndex(time) = k
<1>1. /\ TxIndex(time) \in Nat /\ Pos(time) \in Nat
      /\ 576 * TxIndex(time) <= Pos(time)
      /\ Pos(time) < 576 * TxIndex(time) + 576
  BY Place
<1>2. ASSUME NEW m \in Nat, NEW x \in Nat, 576 * m <= x, x < 576 * m + 576,
             576 * k <= x, x < 576 * k + 576
      PROVE  m = k
  BY <1>2
<1> QED
  BY <1>1, <1>2, ZenonT(40)

LEMMA ElementOfSeq ==
    ASSUME NEW S, NEW q \in Seq(S), NEW i \in 1 .. Len(q)
    PROVE  q[i] \in S
OBVIOUS

LEMMA BitOfByte ==
    ASSUME NEW d \in 0 .. 255, NEW p \in 0 .. 7
    PROVE  (d \div 2^p) % 2 \in {0, 1}
<1>0. CASE p = 0
  BY <1>0
<1>1. CASE p = 1
  BY <1>1
<1>2. CASE p = 2
  BY <1>2
<1>3. CASE p = 3
  BY <1>3
<1>4. CASE p = 4
  BY <1>4
<1>5. CASE p = 5
  BY <1>5
<1>6. CASE p = 6
  BY <1>6
<1>7. CASE p = 7
  BY <1>7
<1> QED
  BY <1>0, <1>1, <1>2, <1>3, <1>4, <1>5, <1>6, <1>7

LEMMA BitRange ==
    ASSUME NEW message \in Seq(0 .. 255), NEW k \in Nat, k < BitsOf(message)
    PROVE  BitOf(message, k) \in {0, 1}
<1>1. k \div 8 + 1 \in 1 .. Len(message)
  BY DEF BitsOf, BITSPERBYTE
<1>2. message[k \div 8 + 1] \in 0 .. 255
  BY <1>1, ElementOfSeq, Zenon
<1>3. PICK p \in 0 .. 7 : p = k % 8
  BY DEF BITSPERBYTE
<1>4. PICK d \in 0 .. 255 : d = message[k \div 8 + 1]
  BY <1>2
<1>5. BitOf(message, k) = (d \div 2^p) % 2
  BY <1>3, <1>4 DEF BitOf, BITSPERBYTE
<1> QED
  BY <1>3, <1>4, <1>5, BitOfByte

\* The bits of a sync byte.
SyncBit(p) == IF p \in {2, 4, 6} THEN 0 ELSE 1

LEMMA SyncBits ==
    ASSUME NEW p \in 0 .. 7
    PROVE  (171 \div 2^p) % 2 = SyncBit(p)
<1>1. CASE p = 0
  BY <1>1 DEF SyncBit
<1>2. CASE p = 1
  BY <1>2 DEF SyncBit
<1>3. CASE p = 2
  BY <1>3 DEF SyncBit
<1>4. CASE p = 3
  BY <1>4 DEF SyncBit
<1>5. CASE p = 4
  BY <1>5 DEF SyncBit
<1>6. CASE p = 5
  BY <1>6 DEF SyncBit
<1>7. CASE p = 6
  BY <1>7 DEF SyncBit
<1>8. CASE p = 7
  BY <1>8 DEF SyncBit
<1> QED
  BY <1>1, <1>2, <1>3, <1>4, <1>5, <1>6, <1>7, <1>8

LEMMA PreambleBits ==
    ASSUME scenario \in Scenarios, NEW k \in Nat, k < 8 * Eaten(scenario) + 8
    PROVE  /\ TxBit(k) = SyncBit(k % 8)
           /\ 8 * Eaten(scenario) + 8 <= TxBits
<1>1. Preamble(scenario) /\ sent \in Seq(0 .. 255) /\ Eaten(scenario) \in {2, 3}
  BY ScenarioFacts DEF sent, Eaten
<1>2. k \div 8 + 1 \in 1 .. Eaten(scenario) + 1 /\ k % 8 \in 0 .. 7
  BY <1>1
<1>3. sent[k \div 8 + 1] = 171
  BY <1>1, <1>2 DEF Preamble, SYNC_BYTE, sent
<1>4. TxBit(k) = (171 \div 2^(k % 8)) % 2
  BY <1>3 DEF TxBit, BitOf, BITSPERBYTE
<1>5. Len(sent) > Eaten(scenario) /\ Len(sent) \in Nat
  BY <1>1 DEF Preamble, sent
<1>6. 8 * Eaten(scenario) + 8 <= TxBits
  BY <1>1, <1>5 DEF TxBits, BitsOf, BITSPERBYTE
<1>7. TxBit(k) = SyncBit(k % 8)
  BY <1>2, <1>4, SyncBits
<1> QED
  BY <1>6, <1>7

\* No run of equal bits is longer than the scenario's bound.
LEMMA RunBound ==
    ASSUME scenario \in Scenarios, NEW r \in Nat, NEW q \in Nat, r <= q, q < TxBits,
           NEW v, \A k \in r .. q : TxBit(k) = v
    PROVE  q - r < LongestRun(scenario)
<1>1. Bridged(scenario) /\ LongestRun(scenario) \in 7 .. 9
  BY ScenarioFacts DEF LongestRun
<1>2. TxBits \in Nat /\ TxBits = BitsOf(scenario.sent)
  BY ScenarioFacts DEF TxBits, BitsOf, BITSPERBYTE, sent
<1> SUFFICES ASSUME q - r >= LongestRun(scenario) PROVE FALSE
  BY <1>1
<1>3. r \in 0 .. BitsOf(scenario.sent) - 1 - LongestRun(scenario)
  BY <1>1, <1>2
<1>4. PICK i \in 1 .. LongestRun(scenario) : TxBit(r + i) # TxBit(r)
  BY <1>1, <1>3 DEF Bridged, TxBit, sent
<1>5. r + i \in r .. q /\ r \in r .. q
  BY <1>1, <1>4
<1> QED
  BY <1>4, <1>5
-------------------------------------------------------------------------------
\* The search for the sync code.

\* The signal does not change.
LEMMA SameSignal ==
    ASSUME scenario' = scenario
    PROVE  /\ \A k : TxIndex(k)' = TxIndex(k) /\ Pos(k)' = Pos(k)
           /\ \A k : TxBit(k)' = TxBit(k)
           /\ \A k : Received(k)' = Received(k)
           /\ TxBits' = TxBits
<1>1. \A k : TxIndex(k)' = TxIndex(k) /\ Pos(k)' = Pos(k)
  BY DEF TxIndex, Pos
<1>2. \A k : TxBit(k)' = TxBit(k)
  BY DEF TxBit, sent
<1>3. \A k : Received(k)' = Received(k)
  BY <1>1, <1>2 DEF Received
<1>4. TxBits' = TxBits
  BY DEF TxBits, sent
<1> QED
  BY <1>1, <1>2, <1>3, <1>4

LEMMA InFront ==
    ASSUME NEW S, NEW e \in S, NEW rest \in Seq(S)
    PROVE  /\ <<e>> \o rest \in Seq(S)
           /\ Len(<<e>> \o rest) = Len(rest) + 1
           /\ (<<e>> \o rest)[1] = e
           /\ \A k \in 1 .. Len(rest) : (<<e>> \o rest)[k + 1] = rest[k]
OBVIOUS

LEMMA Beginning ==
    ASSUME NEW S, NEW q \in Seq(S), NEW m \in 1 .. Len(q)
    PROVE  /\ SubSeq(q, 1, m) \in Seq(S)
           /\ Len(SubSeq(q, 1, m)) = m
           /\ \A k \in 1 .. m : SubSeq(q, 1, m)[k] = q[k]
OBVIOUS

LEMMA ShiftedElements ==
    ASSUME NEW bit \in {0, 1}, correlator \in Seq({0, 1}), Len(correlator) = 368
    PROVE  /\ ShiftedIn(bit) \in Seq({0, 1}) /\ Len(ShiftedIn(bit)) = 368
           /\ ShiftedIn(bit)[1] = bit
           /\ \A k \in 2 .. 368 : ShiftedIn(bit)[k] = correlator[k - 1]
<1> DEFINE S == {0, 1}
           m == CORR_LENGTH - 1
           rest == SubSeq(correlator, 1, m)
<1>1. m = 367
  BY DEF CORR_LENGTH, BIT_DIVISOR, N_CORR_BITS
<1>2. correlator \in Seq(S) /\ bit \in S
  OBVIOUS
<1>3. ShiftedIn(bit) = <<bit>> \o rest
  BY DEF ShiftedIn
<1> HIDE DEF m
<1>4. m \in 1 .. Len(correlator)
  BY <1>1
<1> HIDE DEF S
<1>5. /\ rest \in Seq(S) /\ Len(rest) = m
      /\ \A k \in 1 .. m : rest[k] = correlator[k]
  BY ONLY <1>2, <1>4, Beginning, Zenon
<1> HIDE DEF rest
<1>6. /\ <<bit>> \o rest \in Seq(S)
      /\ Len(<<bit>> \o rest) = Len(rest) + 1
      /\ (<<bit>> \o rest)[1] = bit
      /\ \A k \in 1 .. Len(rest) : (<<bit>> \o rest)[k + 1] = rest[k]
  <2>1. rest \in Seq(S) /\ bit \in S
    BY ONLY <1>2, <1>5, Zenon
  <2> QED
    BY ONLY <2>1, InFront
<1>7. /\ ShiftedIn(bit) \in Seq(S) /\ Len(ShiftedIn(bit)) = m + 1
      /\ ShiftedIn(bit)[1] = bit
      /\ \A k \in 1 .. m : ShiftedIn(bit)[k + 1] = rest[k]
  BY ONLY <1>3, <1>5, <1>6, Zenon
<1>8. ASSUME NEW k \in 2 .. 368
      PROVE  ShiftedIn(bit)[k] = correlator[k - 1]
  <2>1. k - 1 \in 1 .. m /\ k - 1 + 1 = k
    BY <1>1
  <2>2. ShiftedIn(bit)[k - 1 + 1] = correlator[k - 1]
    BY ONLY <1>5, <1>7, <2>1, Zenon
  <2> QED
    BY <2>1, <2>2
<1>9. ShiftedIn(bit) \in Seq({0, 1})
  BY ONLY <1>7, Zenon DEF S
<1>10. Len(ShiftedIn(bit)) = 368 /\ ShiftedIn(bit)[1] = bit
  BY ONLY <1>1, <1>7
<1> QED
  BY ONLY <1>8, <1>9, <1>10, Zenon

\* The register holds what was received, since the search began.
Register ==
    ~insync => \A k \in 1 .. CORR_LENGTH :
        /\ t - k >= since => correlator[k] = Received(t - k)
        /\ t < k /\ ~cleared => correlator[k] = 0

\* When the correlator first matches.
MatchTime == IF scenario.phase >= 15 THEN 345 ELSE 346
MatchPos == IF scenario.phase >= 15 THEN scenario.phase - 15 ELSE scenario.phase + 10

LEMMA MatchFacts ==
    ASSUME scenario \in Scenarios
    PROVE  /\ MatchTime \in {345, 346} /\ MatchPos \in 0 .. 560
           /\ Pos(MatchTime) = 8640 + MatchPos
           /\ \A k \in Nat : Pos(MatchTime + k) = 8640 + MatchPos + 25 * k
           /\ scenario.phase \in LateStart <=> MatchPos \in 228 .. 277
<1>1. PICK p \in 0 .. 575 : p = scenario.phase
  BY ScenarioFacts, ZenonT(40)
<1> QED
  BY <1>1, SMTT(40) DEF MatchTime, MatchPos, Pos, LateStart

\* A whole number of bit times ago, nearly.
LEMMA BitsAgo ==
    ASSUME scenario \in Scenarios, NEW i \in 0 .. 15
    PROVE  /\ MatchTime - 23 * i \in Nat
           /\ TxIndex(MatchTime - 23 * i) = 15 - i
<1>1. PICK p \in 0 .. 575 : p = scenario.phase
  BY ScenarioFacts
<1>2. PICK m \in {345, 346} : m = MatchTime /\ m = IF p >= 15 THEN 345 ELSE 346
  BY <1>1 DEF MatchTime
<1>3. /\ m - 23 * i \in Nat /\ 15 - i \in Nat
      /\ 576 * (15 - i) <= 25 * (m - 23 * i) + p
      /\ 25 * (m - 23 * i) + p < 576 * (15 - i) + 576
  BY <1>2
<1>4. Pos(m - 23 * i) = 25 * (m - 23 * i) + p
  BY <1>1 DEF Pos
<1>5. TxIndex(m - 23 * i) = 15 - i
  BY <1>3, <1>4, PlaceIs
<1> QED
  BY <1>2, <1>3, <1>5

\* The sync code is the preamble's first sixteen bits, the last one in front.
LEMMA SyncCode ==
    ASSUME NEW i \in 0 .. 15
    PROVE  sync_bits[i + 1] = SyncBit((15 - i) % 8)
BY DEF sync_bits, SyncBit

\* The slots the correlator compares, after the shift.
LEMMA Compared ==
    ASSUME NEW bit \in {0, 1}, DecoderType, NEW i \in 0 .. 15
    PROVE  ShiftedIn(bit)[i * BIT_DIVISOR + 1] = IF i = 0 THEN bit ELSE correlator[23 * i]
<1>1. CORR_LENGTH = 368 /\ BIT_DIVISOR = 23
  BY DEF CORR_LENGTH, BIT_DIVISOR, N_CORR_BITS
<1>2. /\ ShiftedIn(bit)[1] = bit
      /\ \A k \in 2 .. 368 : ShiftedIn(bit)[k] = correlator[k - 1]
  <2>1. correlator \in Seq({0, 1}) /\ Len(correlator) = 368
    BY <1>1 DEF DecoderType
  <2> QED
    BY <2>1, ShiftedElements, ZenonT(40)
<1>3. CASE i = 0
  BY <1>1, <1>2, <1>3
<1>4. CASE i # 0
  <2>1. i * 23 + 1 \in 2 .. 368 /\ i * 23 + 1 - 1 = 23 * i
    BY <1>4
  <2>2. ShiftedIn(bit)[i * 23 + 1] = correlator[i * 23 + 1 - 1]
    BY <1>2, <2>1
  <2> QED
    BY <1>1, <1>4, <2>1, <2>2
<1> QED
  BY <1>3, <1>4

\* The first match, at its time.
LEMMA MatchAtTime ==
    ASSUME DecoderType, Register, ~insync, ~cleared, since = 0, t = MatchTime
    PROVE  Matches(ShiftedIn(Received(t)))
<1>1. MatchTime \in {345, 346} /\ scenario \in Scenarios /\ Eaten(scenario) \in {2, 3}
  BY MatchFacts DEF DecoderType, Eaten
<1>2. ASSUME NEW i \in 0 .. 15
      PROVE  Received(t - 23 * i) = sync_bits[i + 1]
  <2>1. TxIndex(t - 23 * i) = 15 - i /\ 15 - i \in Nat /\ 15 - i < 24
    BY <1>1, BitsAgo
  <2>2. TxBit(15 - i) = SyncBit((15 - i) % 8)
    BY <1>1, <2>1, PreambleBits
  <2> QED
    BY <2>1, <2>2, SyncCode DEF Received
<1>3. Received(t) = sync_bits[0 + 1] /\ Received(t) \in {0, 1}
  <2>1. Received(t - 23 * 0) = sync_bits[0 + 1] /\ t - 23 * 0 = t
    BY <1>1, <1>2
  <2> QED
    BY <2>1 DEF sync_bits
<1>4. ASSUME NEW i \in 0 .. 15
      PROVE  ShiftedIn(Received(t))[i * BIT_DIVISOR + 1] = sync_bits[i + 1]
  <2>1. CASE i = 0
    BY <1>3, <2>1, Compared
  <2>2. CASE i # 0
    <3>1. 23 * i \in 1 .. CORR_LENGTH /\ t - 23 * i >= 0
      BY <1>1, <2>2 DEF CORR_LENGTH, BIT_DIVISOR, N_CORR_BITS
    <3>2. correlator[23 * i] = Received(t - 23 * i)
      BY <3>1 DEF Register
    <3> QED
      BY <1>2, <1>3, <2>2, <3>2, Compared
  <2> QED
    BY <2>1, <2>2
<1> QED
  BY <1>4 DEF Matches, N_CORR_BITS

\* No match before.
LEMMA NoMatchBefore ==
    ASSUME DecoderType, Register, ~insync, ~cleared, t < MatchTime,
           NEW bit \in {0, 1}, bit = Received(t)
    PROVE  ~Matches(ShiftedIn(bit))
<1>1. PICK p \in 0 .. 575 : p = scenario.phase
  BY ScenarioFacts, ZenonT(40) DEF DecoderType
<1>2. scenario \in Scenarios /\ t \in Nat /\ Eaten(scenario) \in {2, 3}
  BY DEF DecoderType, Eaten
<1>3. CASE t < 345
  <2>1. correlator[345] = 0
    BY <1>2, <1>3 DEF Register, CORR_LENGTH, BIT_DIVISOR, N_CORR_BITS
  <2>2. ShiftedIn(bit)[15 * BIT_DIVISOR + 1] = 0
    <3>1. ShiftedIn(bit)[15 * BIT_DIVISOR + 1] = correlator[23 * 15]
      BY Compared
    <3> QED
      BY <2>1, <3>1
  <2> QED
    BY <2>2 DEF Matches, N_CORR_BITS, sync_bits
<1>4. CASE t >= 345
  <2>1. t = 345 /\ p < 15
    BY <1>1, <1>2, <1>4 DEF MatchTime
  <2>2. Pos(t) = 8625 + p
    BY <1>1, <2>1 DEF Pos
  <2>3. TxIndex(t) = 14
    BY <1>2, <2>1, <2>2, PlaceIs
  <2>4. TxBit(14) = SyncBit(14 % 8)
    BY <1>2, PreambleBits
  <2>5. bit = 0
    BY <2>3, <2>4 DEF Received, SyncBit
  <2>6. ShiftedIn(bit)[0 * BIT_DIVISOR + 1] = 0
    BY <2>5, Compared
  <2> QED
    BY <2>6 DEF Matches, N_CORR_BITS, sync_bits
<1> QED
  BY <1>2, <1>3, <1>4
-------------------------------------------------------------------------------
\* What holds of every behaviour, with or without new syncs.

LEMMA TypeInit == DecoderInit => DecoderType /\ Register
<1> SUFFICES ASSUME DecoderInit PROVE DecoderType /\ Register
  OBVIOUS
<1>1. CORR_LENGTH \in Nat
  BY DEF CORR_LENGTH, BIT_DIVISOR, N_CORR_BITS
<1>2. scenario.inverted \in 0 .. 2
  BY ScenarioFacts DEF DecoderInit
<1>3. correlator \in Seq({0, 1}) /\ Len(correlator) = CORR_LENGTH
  <2>1. correlator = [i \in 1 .. CORR_LENGTH |-> 0]
    BY DEF DecoderInit
  <2> QED
    BY <1>1, <2>1
<1>4. DecoderType
  <2>1. /\ scenario \in Scenarios /\ t \in Nat /\ since \in 0 .. t
        /\ glitches \in Nat /\ glitches <= scenario.inverted
    BY <1>2 DEF DecoderInit
  <2>2. /\ xingcnt \in 0 .. XING_MAX - 1
        /\ divisor \in 0 .. BIT_DIVISOR /\ swallow_ctr \in 0 .. SWALLOW_CTR
        /\ demod_byte \in 0 .. 255 /\ bitctr \in 0 .. BITSPERBYTE - 1
        /\ bitno \in Int /\ current_sense \in {0, 1}
    BY DEF DecoderInit, XING_MAX, BIT_DIVISOR, SWALLOW_CTR, BITSPERBYTE
  <2>3. insync \in BOOLEAN /\ bytesync \in BOOLEAN /\ cleared \in BOOLEAN
    BY Zenon DEF DecoderInit
  <2>4. out \in Seq(0 .. 255)
    BY DEF DecoderInit
  <2> QED
    BY <1>3, <2>1, <2>2, <2>3, <2>4, Zenon DEF DecoderType
<1>5. Register
  <2>1. correlator = [i \in 1 .. CORR_LENGTH |-> 0] /\ t = 0 /\ since = 0
    BY DEF DecoderInit
  <2> QED
    BY <1>1, <2>1 DEF Register
<1> QED
  BY <1>4, <1>5

LEMMA SampleType ==
    ASSUME DecoderType, NEW bit \in {0, 1}, Sample(bit)
    PROVE  /\ scenario' = scenario /\ scenario' \in Scenarios
           /\ t' = t + 1 /\ t' \in Nat
           /\ glitches' \in Nat /\ glitches' <= scenario.inverted
           /\ cleared' = cleared /\ since' = since /\ since \in 0 .. t'
           /\ TxIndex(t) \in Nat
<1>1. scenario.inverted \in 0 .. 2 /\ TxIndex(t) \in Nat
  <2>1. scenario \in Scenarios /\ t \in Nat
    BY DEF DecoderType
  <2> QED
    <3>1. scenario.inverted \in 0 .. 2
      BY <2>1, ScenarioFacts
    <3> QED
      BY <2>1, <3>1, Place, Zenon
<1> QED
  BY <1>1 DEF DecoderType, Sample

LEMMA Appended ==
    ASSUME NEW S, NEW q \in Seq(S), NEW e \in S
    PROVE  /\ Append(q, e) \in Seq(S)
           /\ Len(Append(q, e)) = Len(q) + 1
           /\ Append(q, e)[Len(q) + 1] = e
           /\ \A k \in 1 .. Len(q) : Append(q, e)[k] = q[k]
OBVIOUS

LEMMA ShiftInType ==
    ASSUME NEW bit \in {0, 1}, demod_byte \in 0 .. 255
    PROVE  ShiftIn(bit) \in 0 .. 255
BY DEF ShiftIn

LEMMA SearchType ==
    ASSUME DecoderType, NEW bit \in {0, 1}, Sample(bit), Search(bit)
    PROVE  DecoderType'
<1>1. CORR_LENGTH = 368
  BY DEF CORR_LENGTH, BIT_DIVISOR, N_CORR_BITS
<1>2. correlator' \in Seq({0, 1}) /\ Len(correlator') = 368
  <2>1. correlator \in Seq({0, 1}) /\ Len(correlator) = 368
    BY <1>1 DEF DecoderType
  <2>2. correlator' = ShiftedIn(bit)
    BY DEF Search
  <2> QED
    BY <2>1, <2>2, ShiftedElements
<1>3. insync' \in BOOLEAN
  BY DEF Search, Matches
<1>4. /\ current_sense' \in {0, 1} /\ xingcnt' \in 0 .. XING_MAX - 1
      /\ divisor' \in 0 .. BIT_DIVISOR /\ swallow_ctr' \in 0 .. SWALLOW_CTR
      /\ demod_byte' \in 0 .. 255 /\ bitctr' \in 0 .. BITSPERBYTE - 1
  <2>1. CASE insync'
    BY <2>1 DEF Search, ResetBitClock, XING_MAX, BIT_DIVISOR, SWALLOW_CTR, BITSPERBYTE
  <2>2. CASE ~insync'
    BY <2>2 DEF Search, edge, clock, DecoderType
  <2> QED
    BY <2>1, <2>2
<1>5. bytesync' = FALSE /\ out' = out /\ bitno' = bitno
  BY DEF Search, ForgetBytes
<1>6. out \in Seq(0 .. 255) /\ bitno \in Int /\ cleared \in BOOLEAN
  BY DEF DecoderType
<1>7. /\ scenario' \in Scenarios /\ t' \in Nat /\ since' \in 0 .. t'
      /\ glitches' \in Nat /\ glitches' <= scenario'.inverted /\ cleared' = cleared
  BY SampleType
<1> QED
  BY <1>1, <1>2, <1>3, <1>4, <1>5, <1>6, <1>7, Zenon DEF DecoderType

LEMMA GatherType ==
    ASSUME DecoderType, NEW bit \in {0, 1}, Sample(bit), Gather(bit)
    PROVE  DecoderType'
<1>1. current_sense' \in {0, 1} /\ xingcnt' \in 0 .. XING_MAX - 1
  BY DEF Gather, EdgeDetect, Edge, XING_MAX, DecoderType
<1>2. divisor' \in 0 .. BIT_DIVISOR /\ swallow_ctr' \in 0 .. SWALLOW_CTR
  <2>1. CASE Edge(bit)
    BY <2>1 DEF Gather, ResetBitClock, BIT_DIVISOR, SWALLOW_CTR
  <2>2. CASE ~Edge(bit)
    <3>1. RunBitClock
      BY <2>2 DEF Gather
    <3>2. divisor \in 0 .. BIT_DIVISOR /\ swallow_ctr \in 0 .. SWALLOW_CTR
      BY DEF DecoderType
    <3> QED
      BY <3>1, <3>2 DEF RunBitClock, BIT_DIVISOR, SWALLOW_CTR
  <2> QED
    BY <2>1, <2>2
<1>3. /\ demod_byte' \in 0 .. 255 /\ bitctr' \in 0 .. BITSPERBYTE - 1
      /\ bytesync' \in BOOLEAN /\ out' \in Seq(0 .. 255)
  <2>1. CASE bit_time(bit)
    <3>1. ReceiveBit(bit)
      BY <2>1 DEF Gather
    <3>2. ShiftIn(bit) \in 0 .. 255 /\ SYNC_BYTE \in 0 .. 255
      <4>1. demod_byte \in 0 .. 255
        BY DEF DecoderType
      <4> QED
        BY <4>1, ShiftInType DEF SYNC_BYTE
    <3>3. demod_byte' \in 0 .. 255
      BY <3>1, <3>2 DEF ReceiveBit
    <3>4. bitctr' \in 0 .. BITSPERBYTE - 1
      BY <3>1, SMTT(40) DEF ReceiveBit, DecoderType, BITSPERBYTE
    <3>5. bytesync' \in BOOLEAN
      BY <3>1 DEF ReceiveBit, DecoderType
    <3>6. out' \in Seq(0 .. 255)
      <4>1. \/ out' = out
            \/ out' = Append(out, SYNC_BYTE)
            \/ out' = Append(out, ShiftIn(bit))
        BY <3>1 DEF ReceiveBit
      <4>2. out \in Seq(0 .. 255)
        BY DEF DecoderType
      <4> QED
        <5> DEFINE S == 0 .. 255
        <5>1. out \in Seq(S) /\ SYNC_BYTE \in S /\ ShiftIn(bit) \in S
          BY <3>2, <4>2, Zenon
        <5> HIDE DEF S
        <5>2. Append(out, SYNC_BYTE) \in Seq(S) /\ Append(out, ShiftIn(bit)) \in Seq(S)
          BY ONLY <5>1, Appended
        <5>3. out' \in Seq(S)
          BY ONLY <4>1, <5>1, <5>2, Zenon
        <5> QED
          BY ONLY <5>3 DEF S
    <3> QED
      BY <3>3, <3>4, <3>5, <3>6
  <2>2. CASE ~bit_time(bit)
    BY <2>2 DEF Gather, bytes, DecoderType
  <2> QED
    BY <2>1, <2>2
<1>4. bitno' \in Int
  BY SampleType DEF Gather, DecoderType
<1>5. correlator' = correlator /\ insync' = insync
  BY DEF Gather
<1> QED
  BY <1>1, <1>2, <1>3, <1>4, <1>5, SampleType, ZenonT(40) DEF DecoderType

LEMMA ClearType ==
    ASSUME DecoderType, DSPClearSync
    PROVE  DecoderType'
<1>1. since' \in 0 .. t'
  BY DEF DSPClearSync, received, DecoderType
<1> QED
  BY <1>1 DEF DSPClearSync, received, edge, clock, bytes, DecoderType

LEMMA TypeStep ==
    ASSUME DecoderType, [DecoderNext]_decoder
    PROVE  DecoderType'
<1>1. CASE DspSample
  BY <1>1, SearchType, GatherType DEF DspSample
<1>2. CASE DSPClearSync
  BY <1>2, ClearType
<1>3. CASE UNCHANGED decoder
  BY <1>3 DEF decoder, DecoderType
<1> QED
  BY <1>1, <1>2, <1>3 DEF DecoderNext

LEMMA RegisterStep ==
    ASSUME DecoderType, Register, [DecoderNext]_decoder
    PROVE  Register'
<1>1. CORR_LENGTH = 368
  BY DEF CORR_LENGTH, BIT_DIVISOR, N_CORR_BITS
<1>2. ASSUME NEW bit \in {0, 1}, Sample(bit), Search(bit)
      PROVE  Register'
  <2>1. bit = Received(t) /\ correlator' = ShiftedIn(bit) /\ ~insync
    BY <1>2 DEF Sample, Search
  <2>2. /\ ShiftedIn(bit)[1] = bit
        /\ \A k \in 2 .. 368 : ShiftedIn(bit)[k] = correlator[k - 1]
    <3>1. correlator \in Seq({0, 1}) /\ Len(correlator) = 368
      BY <1>1 DEF DecoderType
    <3> QED
      BY <3>1, ShiftedElements, ZenonT(40)
  <2>3. /\ scenario' = scenario /\ t \in Nat /\ t' = t + 1 /\ since' = since
        /\ cleared' = cleared /\ since \in 0 .. t
    BY <1>2, SampleType DEF DecoderType
  <2>4. \A k : Received(k)' = Received(k)
    BY <2>3, SameSignal
  <2>5. ASSUME NEW k \in 1 .. 368
        PROVE  /\ t' - k >= since => correlator'[k] = Received(t' - k)
               /\ t' < k /\ ~cleared => correlator'[k] = 0
    <3>1. CASE k = 1
      <4>1. t' - k = t /\ ~(t' < k)
        BY <2>3, <3>1
      <4> QED
        BY <2>1, <2>2, <3>1, <4>1
    <3>2. CASE k # 1
      <4>1. /\ k \in 2 .. 368 /\ k - 1 \in 1 .. 368 /\ t' - k = t - (k - 1)
            /\ t' < k => t < k - 1
        BY <2>3, <3>2
      <4>2. correlator'[k] = correlator[k - 1]
        BY <2>1, <2>2, <4>1
      <4>3. /\ t - (k - 1) >= since => correlator[k - 1] = Received(t - (k - 1))
            /\ t < k - 1 /\ ~cleared => correlator[k - 1] = 0
        BY <1>1, <2>1, <4>1 DEF Register
      <4> QED
        BY <4>1, <4>2, <4>3
    <3> QED
      BY <3>1, <3>2
  <2> QED
    BY <1>1, <2>3, <2>4, <2>5 DEF Register
<1>3. ASSUME NEW bit \in {0, 1}, Sample(bit), Gather(bit)
      PROVE  Register'
  BY <1>3 DEF Gather, Register
<1>4. CASE DSPClearSync
  <2>1. /\ since' = t /\ t' = t /\ cleared' = TRUE /\ t \in Nat
    BY <1>4 DEF DSPClearSync, received, DecoderType
  <2> QED
    BY <1>1, <2>1 DEF Register
<1>5. CASE UNCHANGED decoder
  <2>1. \A k : Received(k)' = Received(k)
    BY <1>5, SameSignal DEF decoder
  <2> QED
    BY <1>5, <2>1 DEF decoder, Register
<1> QED
  BY <1>2, <1>3, <1>4, <1>5 DEF DecoderNext, DspSample

\* Sync is found only in samples received since the search began, as long as
\* there are enough of them, however often the application asks for a new sync.
THEOREM SyncIsFresh == DecoderSpec => FreshSync
<1> DEFINE Fresh ==
        insync' /\ ~insync /\ t - (N_CORR_BITS - 1) * BIT_DIVISOR >= since =>
            \A i \in 0 .. N_CORR_BITS - 1 : Received(t - i * BIT_DIVISOR) = sync_bits[i + 1]
<1>1. DecoderInit => DecoderType /\ Register
  BY TypeInit
<1>2. DecoderType /\ Register /\ [DecoderNext]_decoder => (DecoderType /\ Register)'
  BY TypeStep, RegisterStep
<1>3. ASSUME DecoderType, Register, [DecoderNext]_decoder
      PROVE  [Fresh]_decoder
  <2> SUFFICES ASSUME insync', ~insync, t - 15 * 23 >= since,
                      NEW i \in 0 .. 15
               PROVE  Received(t - i * 23) = sync_bits[i + 1]
    BY DEF N_CORR_BITS, BIT_DIVISOR
  <2>1. PICK bit \in {0, 1} : Sample(bit) /\ Search(bit)
    BY <1>3 DEF DecoderNext, DspSample, DSPClearSync, Gather, decoder
  <2>2. bit = Received(t) /\ ShiftedIn(bit)[i * BIT_DIVISOR + 1] = sync_bits[i + 1]
    <3>1. bit = Received(t)
      BY <2>1 DEF Sample
    <3>2. Matches(ShiftedIn(bit))
      BY <2>1 DEF Search
    <3> QED
      BY <3>1, <3>2 DEF Matches, N_CORR_BITS
  <2>3. t \in Nat /\ since \in Nat
    BY <1>3 DEF DecoderType
  <2>4. CASE i = 0
    <3>1. t - i * 23 = t
      BY <2>3, <2>4
    <3> QED
      BY <1>3, <2>2, <2>4, <3>1, Compared
  <2>5. CASE i # 0
    <3>1. 23 * i \in 1 .. CORR_LENGTH /\ t - 23 * i >= since /\ 23 * i = i * 23
      BY <2>3, <2>5 DEF CORR_LENGTH, BIT_DIVISOR, N_CORR_BITS
    <3>2. correlator[23 * i] = Received(t - 23 * i)
      BY <1>3, <3>1 DEF Register
    <3> QED
      BY <1>3, <2>2, <2>5, <3>1, <3>2, Compared
  <2> QED
    BY <2>4, <2>5
<1> QED
  BY <1>1, <1>2, <1>3, PTL DEF DecoderSpec, FreshSync
-------------------------------------------------------------------------------
\* The bit clock.

\* Bits clocked in since the clock was reset.
Reads == SWALLOW_CTR - swallow_ctr

\* The edge detector agrees with the signal, which has not changed since the clock
\* was reset in bit q - Reads; every difference it has counted was a glitch.
Steady(q) ==
    /\ q - Reads <= TxIndex(t - 1)
    /\ \A k \in q - Reads .. TxIndex(t - 1) : TxBit(k) = current_sense
    /\ xingcnt <= glitches

\* Bit q, which differs, has begun, and its edge is not detected yet: every sample
\* of it was counted or is a glitch.
Pending(q) ==
    /\ TxIndex(t - 1) = q /\ TxBit(q) # current_sense
    /\ \A k \in q - Reads .. q - 1 : TxBit(k) = current_sense
    /\ Pos(t - 1) < 576 * q + 25 * (xingcnt + glitches)

\* The clock is due to read bit q, unless an edge comes first: since it was reset
\* it has drifted by 24 of 576ths per bit.
Locked(q) ==
    /\ q \in Nat /\ t > 0 /\ Reads <= q
    /\ bytesync => bitno = q - 1
    /\ 300 <= Pos(t + divisor) - 576 * q - 24 * Reads
    /\ Pos(t + divisor) - 576 * q - 24 * Reads < 375 + 25 * glitches
    /\ TxIndex(t - 1) < TxBits
    /\ Steady(q) \/ Pending(q)

LEMMA PosSum ==
    ASSUME scenario \in Scenarios, NEW a \in Int, NEW b \in Int
    PROVE  Pos(a + b) = Pos(a) + 25 * b /\ Pos(a) \in Int
<1>1. PICK p \in 0 .. 575 : p = scenario.phase
  BY ScenarioFacts, ZenonT(40)
<1> QED
  BY <1>1 DEF Pos

\* The types and the next sample, in numbers.
LEMMA SampleFacts ==
    ASSUME DecoderType, t > 0
    PROVE  /\ scenario \in Scenarios /\ t \in Nat /\ t - 1 \in Nat
           /\ Reads \in 0 .. 23 /\ divisor \in 0 .. 23
           /\ xingcnt \in 0 .. 2 /\ glitches \in 0 .. 2
           /\ glitches <= 9 - LongestRun(scenario) /\ LongestRun(scenario) \in 7 .. 9
           /\ TxIndex(t - 1) \in Nat /\ TxIndex(t) \in {TxIndex(t - 1), TxIndex(t - 1) + 1}
           /\ Pos(t - 1) \in Nat /\ Pos(t) = Pos(t - 1) + 25
           /\ Pos(t + divisor) = Pos(t) + 25 * divisor
           /\ 576 * TxIndex(t - 1) <= Pos(t - 1) /\ Pos(t - 1) < 576 * TxIndex(t - 1) + 576
           /\ 576 * TxIndex(t) <= Pos(t) /\ Pos(t) < 576 * TxIndex(t) + 576
<1>1. /\ scenario \in Scenarios /\ t \in Nat /\ t > 0
      /\ xingcnt \in 0 .. 2 /\ glitches \in Nat /\ glitches <= scenario.inverted
      /\ divisor \in 0 .. 23 /\ swallow_ctr \in 0 .. 23
  BY DEF DecoderType, XING_MAX, BIT_DIVISOR, SWALLOW_CTR
<1>2. Reads \in 0 .. 23
  BY <1>1 DEF Reads, SWALLOW_CTR
<1>3. scenario.inverted \in 0 .. 2
  BY <1>1, ScenarioFacts
<1>4. /\ glitches \in 0 .. 2 /\ LongestRun(scenario) \in 7 .. 9
      /\ glitches <= 9 - LongestRun(scenario)
  BY <1>1, <1>3 DEF LongestRun
<1>5. t - 1 \in Nat
  BY <1>1
<1>6. /\ TxIndex(t - 1) \in Nat /\ Pos(t - 1) \in Nat
      /\ 576 * TxIndex(t - 1) <= Pos(t - 1) /\ Pos(t - 1) < 576 * TxIndex(t - 1) + 576
  BY <1>1, <1>5, Place
<1>7. /\ TxIndex(t) \in Nat /\ Pos(t) \in Nat
      /\ 576 * TxIndex(t) <= Pos(t) /\ Pos(t) < 576 * TxIndex(t) + 576
  BY <1>1, Place
<1>8. Pos(t) = Pos(t - 1) + 25
  <2>1. Pos((t - 1) + 1) = Pos(t - 1) + 25 * 1 /\ (t - 1) + 1 = t
    BY <1>1, <1>5, PosSum
  <2> QED
    BY <1>6, <2>1
<1>9. Pos(t + divisor) = Pos(t) + 25 * divisor
  BY <1>1, PosSum
<1>10. TxIndex(t) \in {TxIndex(t - 1), TxIndex(t - 1) + 1}
  <2>1. \A a, b, x \in Nat :
            /\ 576 * a <= x /\ x < 576 * a + 576
            /\ 576 * b <= x + 25 /\ x + 25 < 576 * b + 576
            => b = a \/ b = a + 1
    OBVIOUS
  <2>2. PICK a \in Nat : a = TxIndex(t - 1)
    BY <1>6
  <2>3. PICK b \in Nat : b = TxIndex(t)
    BY <1>7
  <2>4. PICK x \in Nat : x = Pos(t - 1)
    BY <1>6
  <2>5. /\ 576 * a <= x /\ x < 576 * a + 576
        /\ 576 * b <= x + 25 /\ x + 25 < 576 * b + 576
    BY <1>6, <1>7, <1>8, <2>2, <2>3, <2>4
  <2>6. b = a \/ b = a + 1
    BY <2>1, <2>5
  <2> QED
    BY <2>2, <2>3, <2>6
<1> QED
  BY <1>1, <1>2, <1>4, <1>5, <1>6, <1>7, <1>8, <1>9, <1>10

\* What the proofs about the clock use of a locked decoder.
LEMMA ClockFacts ==
    ASSUME DecoderType, NEW q, Locked(q)
    PROVE  /\ scenario \in Scenarios /\ q \in Nat /\ t \in Nat /\ t - 1 \in Nat
           /\ Reads \in 0 .. 23 /\ Reads <= q /\ divisor \in 0 .. 23
           /\ xingcnt \in 0 .. 2 /\ glitches \in 0 .. 2
           /\ glitches <= 9 - LongestRun(scenario) /\ LongestRun(scenario) \in 7 .. 9
           /\ TxIndex(t - 1) \in Nat /\ TxIndex(t) \in {TxIndex(t - 1), TxIndex(t - 1) + 1}
           /\ Pos(t - 1) \in Nat /\ Pos(t) = Pos(t - 1) + 25
           /\ Pos(t + divisor) = Pos(t) + 25 * divisor
           /\ 576 * TxIndex(t - 1) <= Pos(t - 1) /\ Pos(t - 1) < 576 * TxIndex(t - 1) + 576
           /\ 576 * TxIndex(t) <= Pos(t) /\ Pos(t) < 576 * TxIndex(t) + 576
<1>1. q \in Nat /\ t > 0 /\ Reads <= q
  BY DEF Locked
<1> QED
  BY <1>1, SampleFacts

\* While an edge is pending no bit is read.
LEMMA NoReadPending ==
    ASSUME DecoderType, NEW q, Locked(q), Pending(q)
    PROVE  divisor > 0 /\ TxIndex(t) = q
<1>1. /\ Pos(t - 1) < 576 * q + 25 * (xingcnt + glitches) /\ TxIndex(t - 1) = q
      /\ 300 <= Pos(t + divisor) - 576 * q - 24 * Reads
  BY DEF Pending, Locked
<1> QED
  BY <1>1, ClockFacts

\* A bit that is under way and equal to those before it is read before its end.
LEMMA InTime ==
    ASSUME DecoderType, NEW q, Locked(q), Steady(q), q <= TxIndex(t - 1)
    PROVE  Reads <= 8 /\ Pos(t + divisor) < 576 * q + 576
<1>1. /\ q - Reads <= TxIndex(t - 1) /\ TxIndex(t - 1) < TxBits
      /\ \A k \in q - Reads .. TxIndex(t - 1) : TxBit(k) = current_sense
      /\ Pos(t + divisor) - 576 * q - 24 * Reads < 375 + 25 * glitches
  BY DEF Steady, Locked
<1>2. /\ scenario \in Scenarios /\ q \in Nat /\ Reads \in 0 .. 23 /\ Reads <= q
      /\ glitches \in 0 .. 2 /\ glitches <= 9 - LongestRun(scenario)
      /\ LongestRun(scenario) \in 7 .. 9 /\ TxIndex(t - 1) \in Nat
      /\ Pos(t + divisor) = Pos(t) + 25 * divisor /\ Pos(t) = Pos(t - 1) + 25
      /\ Pos(t - 1) \in Nat /\ divisor \in 0 .. 23
  BY ClockFacts
<1>3. TxBits \in Nat
  BY <1>2, ScenarioFacts DEF TxBits, BitsOf, BITSPERBYTE, sent
<1>4. PICK r \in Nat : r = q - Reads
  BY <1>2
<1>5. /\ r <= q /\ q < TxBits
      /\ \A k \in r .. q : TxBit(k) = current_sense
  BY <1>1, <1>2, <1>3, <1>4
<1>6. q - r < LongestRun(scenario)
  BY <1>2, <1>4, <1>5, RunBound
<1>7. Reads < LongestRun(scenario)
  BY <1>2, <1>4, <1>6
<1> QED
  BY <1>1, <1>2, <1>7

\* When the divisor has run out, bit q is under way.
LEMMA ReadInBit ==
    ASSUME DecoderType, NEW q, Locked(q), Steady(q), divisor = 0
    PROVE  TxIndex(t) = q /\ TxIndex(t - 1) = q /\ Reads <= 8
<1>1. 300 <= Pos(t + divisor) - 576 * q - 24 * Reads
  BY DEF Locked
<1>2. q <= TxIndex(t - 1)
  BY <1>1, ClockFacts
<1>3. Reads <= 8 /\ Pos(t + divisor) < 576 * q + 576
  BY <1>2, InTime
<1> QED
  BY <1>1, <1>2, <1>3, ClockFacts

\* When a bit begins, the one before it has been read.
LEMMA ReadBefore ==
    ASSUME DecoderType, NEW q, Locked(q), Steady(q), TxIndex(t) = TxIndex(t - 1) + 1
    PROVE  TxIndex(t) = q
<1>1. 300 <= Pos(t + divisor) - 576 * q - 24 * Reads
  BY DEF Locked
<1>2. q <= TxIndex(t)
  <2>1. /\ Pos(t) < 576 * TxIndex(t) + 25
        /\ Pos(t + divisor) <= Pos(t) + 575
    BY ClockFacts
  <2> QED
    BY <1>1, <2>1, ClockFacts
<1>3. CASE q <= TxIndex(t - 1)
  <2>1. Pos(t + divisor) < 576 * q + 576
    BY <1>3, InTime
  <2> QED
    BY <1>3, <2>1, ClockFacts
<1> QED
  BY <1>2, <1>3, ClockFacts

\* What a sample does to the history of the signal.
LEMMA AfterSample ==
    ASSUME DecoderType, NEW bit \in {0, 1}, Sample(bit), TxIndex(t) < TxBits
    PROVE  /\ scenario' = scenario /\ t' = t + 1 /\ t' > 0
           /\ TxIndex(t - 1)' = TxIndex(t) /\ Pos(t - 1)' = Pos(t)
           /\ \A d \in Int : divisor' = d => Pos(t + divisor)' = Pos(t) + 25 + 25 * d
           /\ \A k : TxBit(k)' = TxBit(k)
           /\ TxBits' = TxBits
           /\ TxBit(TxIndex(t)) \in {0, 1}
           /\ \/ bit = TxBit(TxIndex(t)) /\ glitches' = glitches
              \/ /\ bit # TxBit(TxIndex(t)) /\ glitches' = glitches + 1
                 /\ glitches' <= 2
<1>1. scenario' = scenario /\ t' = t + 1 /\ t \in Nat /\ scenario \in Scenarios
  BY SampleType DEF DecoderType
<1>2. PICK p \in 0 .. 575 : p = scenario.phase
  BY <1>1, ScenarioFacts, ZenonT(40)
<1>3. TxIndex(t - 1)' = TxIndex(t) /\ Pos(t - 1)' = Pos(t)
  BY <1>1, <1>2 DEF TxIndex, Pos
<1>4. \A d \in Int : divisor' = d => Pos(t + divisor)' = Pos(t) + 25 + 25 * d
  BY <1>1, <1>2 DEF Pos
<1>5. (\A k : TxBit(k)' = TxBit(k)) /\ TxBits' = TxBits
  BY <1>1, SameSignal
<1>6. TxBit(TxIndex(t)) \in {0, 1}
  <2>1. sent \in Seq(0 .. 255) /\ TxIndex(t) \in Nat /\ TxIndex(t) < BitsOf(sent)
    BY <1>1, ScenarioFacts, Place, ZenonT(40) DEF TxBits, sent
  <2> QED
    BY <2>1, BitRange DEF TxBit
<1>7. \/ bit = TxBit(TxIndex(t)) /\ glitches' = glitches
      \/ /\ bit # TxBit(TxIndex(t)) /\ glitches' = glitches + 1
         /\ glitches' <= 2
  <2>1. scenario.inverted \in 0 .. 2 /\ glitches \in Nat
    BY <1>1, ScenarioFacts DEF DecoderType
  <2>2. \/ bit = Received(t) /\ glitches' = glitches
        \/ /\ bit # Received(t) /\ glitches' = glitches + 1
           /\ glitches < scenario.inverted
    BY DEF Sample
  <2> QED
    BY <2>1, <2>2 DEF Received
<1>8. t' > 0
  BY <1>1
<1> QED
  BY <1>1, <1>3, <1>4, <1>5, <1>6, <1>7, <1>8

\* A sample without an edge: the detector stays in agreement, or an edge is pending.
LEMMA DetectorStep ==
    ASSUME DecoderType, NEW bit \in {0, 1}, Sample(bit), TxIndex(t) < TxBits,
           EdgeDetect(bit), ~Edge(bit), NEW q, Locked(q),
           NEW nq \in Nat, nq - Reads' = q - Reads
    PROVE  \/ Steady(nq)'
           \/ divisor > 0 /\ (nq = q => Pending(nq)')
<1>1. /\ scenario' = scenario /\ TxIndex(t - 1)' = TxIndex(t) /\ Pos(t - 1)' = Pos(t)
      /\ \A k : TxBit(k)' = TxBit(k)
      /\ TxBit(TxIndex(t)) \in {0, 1}
      /\ \/ bit = TxBit(TxIndex(t)) /\ glitches' = glitches
         \/ bit # TxBit(TxIndex(t)) /\ glitches' = glitches + 1
  BY AfterSample
<1>2. /\ current_sense' = current_sense /\ current_sense \in {0, 1}
      /\ xingcnt' = IF bit # current_sense THEN xingcnt + 1 ELSE xingcnt
      /\ xingcnt \in 0 .. 2 /\ glitches \in 0 .. 2
  BY ClockFacts DEF EdgeDetect, DecoderType
<1>3. CASE Pending(q)
  <2>1. divisor > 0 /\ TxIndex(t) = q
    BY <1>3, NoReadPending
  <2>2. ASSUME nq = q PROVE Pending(nq)'
    <3>1. TxBit(q) # current_sense /\ \A k \in q - Reads .. q - 1 : TxBit(k) = current_sense
      BY <1>3 DEF Pending
    <3>2. xingcnt' + glitches' = xingcnt + glitches + 1
      BY <1>1, <1>2, <2>1, <3>1
    <3>3. Pos(t) < 576 * q + 25 * (xingcnt' + glitches')
      BY <1>3, <3>2, ClockFacts DEF Pending
    <3>4. /\ TxIndex(t - 1)' = nq
          /\ TxBit(nq)' # current_sense'
      BY <1>1, <1>2, <2>1, <2>2, <3>1
    <3>5. \A k \in nq - Reads' .. nq - 1 : TxBit(k)' = current_sense'
      BY <1>1, <1>2, <2>2, <3>1
    <3>6. Pos(t - 1)' < 576 * nq + 25 * (xingcnt' + glitches')
      BY <1>1, <2>2, <3>3
    <3> QED
      BY <3>4, <3>5, <3>6 DEF Pending
  <2> QED
    BY <2>1, <2>2
<1>4. CASE Steady(q) /\ TxBit(TxIndex(t)) = current_sense
  <2>1. /\ q - Reads <= TxIndex(t - 1) /\ xingcnt <= glitches
        /\ \A k \in q - Reads .. TxIndex(t - 1) : TxBit(k) = current_sense
    BY <1>4 DEF Steady
  <2>2. xingcnt' <= glitches'
    BY <1>1, <1>2, <1>4, <2>1
  <2>3. /\ q \in Nat /\ Reads \in 0 .. 23 /\ TxIndex(t - 1) \in Nat
        /\ TxIndex(t) \in {TxIndex(t - 1), TxIndex(t - 1) + 1}
    BY ClockFacts
  <2>4. \A k \in q - Reads .. TxIndex(t) : TxBit(k) = current_sense
    BY <1>4, <2>1, <2>3
  <2>5. q - Reads <= TxIndex(t)
    BY <2>1, <2>3
  <2>6. /\ nq - Reads' <= TxIndex(t - 1)'
        /\ \A k \in nq - Reads' .. TxIndex(t - 1)' : TxBit(k)' = current_sense'
    BY <1>1, <1>2, <2>4, <2>5
  <2> QED
    BY <2>2, <2>6 DEF Steady
<1>5. CASE Steady(q) /\ TxBit(TxIndex(t)) # current_sense
  <2>1. /\ q - Reads <= TxIndex(t - 1)
        /\ \A k \in q - Reads .. TxIndex(t - 1) : TxBit(k) = current_sense
    BY <1>5 DEF Steady
  <2>2. /\ q \in Nat /\ Reads \in 0 .. 23 /\ TxIndex(t - 1) \in Nat
        /\ TxIndex(t) \in {TxIndex(t - 1), TxIndex(t - 1) + 1}
    BY ClockFacts
  <2>3. TxBit(TxIndex(t - 1)) = current_sense
    BY <2>1, <2>2
  <2>4. TxIndex(t) = TxIndex(t - 1) + 1
    BY <1>5, <2>2, <2>3
  <2>5. TxIndex(t) = q
    BY <1>5, <2>4, ReadBefore
  <2>6. divisor > 0
    <3>1. ASSUME divisor = 0 PROVE FALSE
      BY <1>5, <2>2, <2>4, <2>5, <3>1, ReadInBit
    <3> QED
      BY <3>1, ClockFacts
  <2>7. ASSUME nq = q PROVE Pending(nq)'
    <3>1. xingcnt' + glitches' >= 1
      BY <1>1, <1>2, <1>5
    <3>2. Pos(t) < 576 * q + 25
      BY <2>4, <2>5, ClockFacts
    <3>3. xingcnt' \in Int /\ glitches' \in Int
      BY <1>1, <1>2
    <3>4. Pos(t) < 576 * q + 25 * (xingcnt' + glitches')
      <4>1. \A x, g \in Int : x + g >= 1 => 25 * (x + g) >= 25
        OBVIOUS
      <4>2. 25 * (xingcnt' + glitches') >= 25
        BY <3>1, <3>3, <4>1
      <4>3. 25 * (xingcnt' + glitches') \in Int
        BY <3>3
      <4> QED
        BY <3>2, <4>2, <4>3, ClockFacts
    <3>5. /\ TxIndex(t - 1)' = nq
          /\ TxBit(nq)' # current_sense'
          /\ Pos(t - 1)' < 576 * nq + 25 * (xingcnt' + glitches')
      BY <1>1, <1>2, <1>5, <2>5, <2>7, <3>4
    <3>6. \A k \in nq - Reads' .. nq - 1 : TxBit(k)' = current_sense'
      BY <1>1, <1>2, <2>1, <2>2, <2>4, <2>5, <2>7
    <3> QED
      BY <3>5, <3>6 DEF Pending
  <2> QED
    BY <2>6, <2>7
<1> QED
  BY <1>3, <1>4, <1>5 DEF Locked

\* An edge of the signal starts the clock again, in the bit that begins with it.
LEMMA LockedEdge ==
    ASSUME DecoderType, NEW bit \in {0, 1}, Sample(bit), Gather(bit), TxIndex(t) < TxBits,
           Edge(bit), NEW q, Locked(q)
    PROVE  Locked(q)' /\ TxIndex(t) = q
<1>1. /\ scenario' = scenario /\ t' = t + 1 /\ t' > 0
      /\ TxIndex(t - 1)' = TxIndex(t) /\ Pos(t - 1)' = Pos(t)
      /\ \A d \in Int : divisor' = d => Pos(t + divisor)' = Pos(t) + 25 + 25 * d
      /\ \A k : TxBit(k)' = TxBit(k)
      /\ TxBits' = TxBits
      /\ TxBit(TxIndex(t)) \in {0, 1}
      /\ \/ bit = TxBit(TxIndex(t)) /\ glitches' = glitches
         \/ /\ bit # TxBit(TxIndex(t)) /\ glitches' = glitches + 1
            /\ glitches' <= 2
  BY AfterSample
<1>2. /\ bit # current_sense /\ xingcnt = 2 /\ current_sense \in {0, 1}
      /\ current_sense' = bit /\ xingcnt' = 0
  BY DEF Gather, EdgeDetect, Edge, XING_MAX, DecoderType
<1>3. divisor' = 11 /\ Reads' = 0 /\ bitno' = bitno /\ bytesync' = bytesync
  BY DEF Gather, bit_time, bytes, ResetBitClock, Reads, BIT_DIVISOR, SWALLOW_CTR
<1>4. /\ TxIndex(t) = q /\ bit = TxBit(q) /\ glitches' = glitches
      /\ Pos(t) < 576 * q + 75 + 25 * glitches
  <2>1. CASE Pending(q)
    <3>1. TxIndex(t) = q
      BY <2>1, NoReadPending
    <3>2. bit = TxBit(q) /\ glitches' = glitches
      BY <1>1, <1>2, <2>1, <3>1 DEF Pending
    <3>3. Pos(t) < 576 * q + 75 + 25 * glitches
      BY <1>2, <2>1, ClockFacts DEF Pending
    <3> QED
      BY <3>1, <3>2, <3>3
  <2>2. CASE Steady(q)
    <3>1. /\ q - Reads <= TxIndex(t - 1) /\ glitches = 2
          /\ \A k \in q - Reads .. TxIndex(t - 1) : TxBit(k) = current_sense
      BY <1>2, <2>2, ClockFacts DEF Steady
    <3>2. bit = TxBit(TxIndex(t)) /\ glitches' = glitches
      BY <1>1, <3>1
    <3>3. TxBit(TxIndex(t - 1)) = current_sense
      BY <3>1, ClockFacts
    <3>4. TxIndex(t) = TxIndex(t - 1) + 1
      BY <1>2, <3>2, <3>3, ClockFacts
    <3>5. TxIndex(t) = q
      BY <2>2, <3>4, ReadBefore
    <3>6. Pos(t) < 576 * q + 25
      BY <3>4, <3>5, ClockFacts
    <3> QED
      BY <3>2, <3>5, <3>6, ClockFacts
  <2> QED
    BY <2>1, <2>2 DEF Locked
<1>5. Steady(q)'
  <2>1. q - Reads' <= TxIndex(t - 1)' /\ xingcnt' <= glitches'
    BY <1>1, <1>2, <1>3, <1>4, ClockFacts
  <2>2. \A k \in q - Reads' .. TxIndex(t - 1)' : TxBit(k)' = current_sense'
    <3>1. q - Reads' = q /\ TxIndex(t - 1)' = q /\ q \in Nat
      BY <1>1, <1>3, <1>4, ClockFacts
    <3> QED
      BY <1>1, <1>2, <1>4, <3>1
  <2> QED
    BY <2>1, <2>2 DEF Steady
<1>6. Pos(t + divisor)' = Pos(t) + 300
  BY <1>1, <1>3, ClockFacts
<1>7. /\ 300 <= Pos(t + divisor)' - 576 * q - 24 * Reads'
      /\ Pos(t + divisor)' - 576 * q - 24 * Reads' < 375 + 25 * glitches'
  BY <1>3, <1>4, <1>6, ClockFacts
<1>8. TxIndex(t - 1)' < TxBits' /\ Reads' <= q /\ q \in Nat
  BY <1>1, <1>3, ClockFacts
<1>9. (bytesync => bitno = q - 1)'
  BY <1>3 DEF Locked
<1> QED
  BY <1>1, <1>4, <1>5, <1>7, <1>8, <1>9 DEF Locked

\* The clock goes on.
LEMMA LockedRun ==
    ASSUME DecoderType, NEW bit \in {0, 1}, Sample(bit), Gather(bit), TxIndex(t) < TxBits,
           ~Edge(bit), divisor > 0, NEW q, Locked(q)
    PROVE  Locked(q)'
<1>1. /\ t' > 0 /\ TxIndex(t - 1)' = TxIndex(t) /\ TxBits' = TxBits
      /\ \A d \in Int : divisor' = d => Pos(t + divisor)' = Pos(t) + 25 + 25 * d
      /\ glitches' \in {glitches, glitches + 1}
  BY AfterSample
<1>2. /\ divisor' = divisor - 1 /\ Reads' = Reads
      /\ bitno' = bitno /\ bytesync' = bytesync
  BY ClockFacts DEF Gather, bit_time, bytes, RunBitClock, Reads
<1>3. Steady(q)' \/ Pending(q)'
  <2>1. EdgeDetect(bit) /\ q \in Nat /\ q - Reads' = q - Reads
    BY <1>2, ClockFacts DEF Gather
  <2> QED
    BY <2>1, DetectorStep
<1>4. Pos(t + divisor)' = Pos(t + divisor)
  BY <1>1, <1>2, ClockFacts
<1>5. /\ 300 <= Pos(t + divisor)' - 576 * q - 24 * Reads'
      /\ Pos(t + divisor)' - 576 * q - 24 * Reads' < 375 + 25 * glitches'
  BY <1>1, <1>2, <1>4, ClockFacts DEF Locked
<1>6. /\ TxIndex(t - 1)' < TxBits' /\ Reads' <= q /\ q \in Nat
      /\ (bytesync => bitno = q - 1)'
  BY <1>1, <1>2, ClockFacts DEF Locked
<1> QED
  BY <1>1, <1>3, <1>5, <1>6 DEF Locked

\* The clock reads the bit that is due.
LEMMA LockedRead ==
    ASSUME DecoderType, NEW bit \in {0, 1}, Sample(bit), Gather(bit), TxIndex(t) < TxBits,
           ~Edge(bit), divisor = 0, NEW q, Locked(q)
    PROVE  Locked(q + 1)' /\ TxIndex(t) = q
<1>1. /\ t' > 0 /\ TxIndex(t - 1)' = TxIndex(t) /\ TxBits' = TxBits
      /\ \A d \in Int : divisor' = d => Pos(t + divisor)' = Pos(t) + 25 + 25 * d
      /\ glitches' \in {glitches, glitches + 1}
  BY AfterSample
<1>2. Steady(q)
  BY NoReadPending DEF Locked
<1>3. TxIndex(t) = q /\ Reads <= 8
  BY <1>2, ReadInBit
<1>4. swallow_ctr > 0 /\ swallow_ctr \in Nat
  BY <1>3, ClockFacts DEF Reads, SWALLOW_CTR, DecoderType
<1>5. divisor' = 23 /\ Reads' = Reads + 1
  BY <1>4 DEF Gather, RunBitClock, Reads, BIT_DIVISOR, SWALLOW_CTR
<1>6. bytesync' => bitno' = q
  BY <1>3, ClockFacts DEF Gather, bit_time, Locked
<1>7. Steady(q + 1)'
  <2>1. /\ EdgeDetect(bit) /\ q \in Nat /\ q + 1 \in Nat
        /\ (q + 1) - Reads' = q - Reads
    BY <1>5, ClockFacts DEF Gather
  <2> QED
    BY <2>1, DetectorStep
<1>8. Pos(t + divisor)' = Pos(t + divisor) + 600
  BY <1>1, <1>5, ClockFacts
<1>9. /\ 300 <= Pos(t + divisor)' - 576 * (q + 1) - 24 * Reads'
      /\ Pos(t + divisor)' - 576 * (q + 1) - 24 * Reads' < 375 + 25 * glitches'
  BY <1>1, <1>5, <1>8, ClockFacts DEF Locked
<1>10. /\ TxIndex(t - 1)' < TxBits' /\ Reads' <= q + 1 /\ q + 1 \in Nat
       /\ (bytesync => bitno = (q + 1) - 1)'
  BY <1>1, <1>5, <1>6, ClockFacts
<1> QED
  BY <1>1, <1>3, <1>7, <1>9, <1>10 DEF Locked

LEMMA LockedStep ==
    ASSUME DecoderType, NEW bit \in {0, 1}, Sample(bit), Gather(bit), TxIndex(t) < TxBits,
           NEW q, Locked(q)
    PROVE  IF bit_time(bit) THEN Locked(q + 1)' /\ TxIndex(t) = q ELSE Locked(q)'
<1>1. divisor \in 0 .. 23
  BY ClockFacts
<1> QED
  BY <1>1, LockedEdge, LockedRun, LockedRead DEF bit_time
-------------------------------------------------------------------------------
\* From the first match to the first edge.

\* What the first bits, all ones, make of the byte; after a late start the third
\* one read is bit 18, a zero, before its edge is detected.
FirstByte ==
    IF Reads = 0 THEN 0
    ELSE IF Reads = 1 THEN 128
    ELSE IF Reads = 2 THEN 192
    ELSE IF scenario.phase \in LateStart THEN 96 ELSE 224

\* Bit 18 begins at 10368 and is the first to differ from the sense the match set.
Entering ==
    /\ t > MatchTime /\ t + divisor = MatchTime + 12 + 24 * Reads /\ Reads <= 3
    /\ current_sense = 1 /\ bytesync = FALSE /\ out = << >>
    /\ Reads = 0 => demod_byte = 0
    /\ Reads = 1 => demod_byte % 128 = 0
    /\ Reads = 2 => demod_byte % 64 = 0
    /\ \/ Pos(t - 1) < 10368 /\ xingcnt <= glitches
       \/ /\ Pos(t - 1) >= 10368
          /\ Pos(t - 1) < 10368 + 25 * (xingcnt + glitches)
          /\ glitches = 0 => 10368 + 25 * (xingcnt - 1) <= Pos(t - 1)
    /\ glitches = 0 => demod_byte = FirstByte

LEMMA EnteringFacts ==
    ASSUME DecoderType, Entering
    PROVE  /\ scenario \in Scenarios /\ t \in Nat /\ t - 1 \in Nat /\ t > 0
           /\ divisor \in 0 .. 23 /\ Reads \in 0 .. 3
           /\ xingcnt \in 0 .. 2 /\ glitches \in 0 .. 2
           /\ Pos(t - 1) \in Nat /\ Pos(t) = Pos(t - 1) + 25
           /\ Pos(t) \in 8640 .. 10492
           /\ Pos(t) < 10368 => TxBit(TxIndex(t)) = 1
           /\ Pos(t) >= 10368 => TxIndex(t) = 18 /\ TxBit(18) = 0
           /\ Pos(t) + 25 * divisor = 8940 + MatchPos + 600 * Reads
           /\ MatchPos \in 0 .. 560
           /\ scenario.phase \in LateStart <=> MatchPos \in 228 .. 277
<1>1. /\ scenario \in Scenarios /\ t \in Nat
      /\ xingcnt \in 0 .. 2 /\ glitches \in Nat /\ glitches <= scenario.inverted
      /\ divisor \in 0 .. 23 /\ swallow_ctr \in 0 .. 23
  BY DEF DecoderType, XING_MAX, BIT_DIVISOR, SWALLOW_CTR
<1>2. scenario.inverted \in 0 .. 2
  BY <1>1, ScenarioFacts
<1>3. /\ MatchTime \in {345, 346} /\ MatchPos \in 0 .. 560
      /\ \A k \in Nat : Pos(MatchTime + k) = 8640 + MatchPos + 25 * k
      /\ scenario.phase \in LateStart <=> MatchPos \in 228 .. 277
  BY <1>1, MatchFacts
<1>4. /\ t > MatchTime /\ t + divisor = MatchTime + 12 + 24 * Reads
      /\ Reads \in 0 .. 3 /\ t - 1 \in Nat /\ t > 0
  BY <1>1, <1>3 DEF Entering, Reads, SWALLOW_CTR
<1>5. PICK k \in Nat : t = MatchTime + (k + 1)
  <2>1. t - MatchTime - 1 \in Nat /\ t = MatchTime + ((t - MatchTime - 1) + 1)
    BY <1>1, <1>3, <1>4
  <2> QED
    BY <2>1
<1>6. Pos(t) = 8640 + MatchPos + 25 * (k + 1)
  BY <1>3, <1>5
<1>7. t - 1 = MatchTime + k
  BY <1>3, <1>5
<1>8. Pos(t - 1) = 8640 + MatchPos + 25 * k
  BY <1>3, <1>7
<1>9. Pos(t - 1) \in Nat /\ Pos(t) = Pos(t - 1) + 25 /\ Pos(t) >= 8640
  BY <1>3, <1>6, <1>8
<1>10. Pos(t) <= 10492
  <2>1. Pos(t - 1) < 10368 + 25 * (2 + 2)
    BY <1>1, <1>2, <1>9 DEF Entering
  <2> QED
    BY <1>9, <2>1
<1>11. Pos(t) + 25 * divisor = 8940 + MatchPos + 600 * Reads
  BY <1>1, <1>3, <1>4, <1>5, <1>6
<1>12. Eaten(scenario) \in {2, 3}
  BY DEF Eaten
<1>13. Pos(t) < 10368 => TxBit(TxIndex(t)) = 1
  <2> SUFFICES ASSUME Pos(t) < 10368 PROVE TxBit(TxIndex(t)) = 1
    OBVIOUS
  <2>1. \A m \in Nat, x \in Nat :
            8640 <= x /\ x < 10368 /\ 576 * m <= x /\ x < 576 * m + 576 => m \in {15, 16, 17}
    OBVIOUS
  <2>2. /\ TxIndex(t) \in Nat /\ Pos(t) \in Nat
        /\ 576 * TxIndex(t) <= Pos(t) /\ Pos(t) < 576 * TxIndex(t) + 576
    BY <1>1, Place
  <2>3. TxIndex(t) \in {15, 16, 17}
    BY <1>9, <2>1, <2>2
  <2>4. TxIndex(t) \in Nat /\ TxIndex(t) < 8 * Eaten(scenario) + 8
    BY <1>12, <2>3
  <2>5. TxBit(TxIndex(t)) = SyncBit(TxIndex(t) % 8)
    BY <1>1, <2>4, PreambleBits
  <2> QED
    BY <2>3, <2>5 DEF SyncBit
<1>14. Pos(t) >= 10368 => TxIndex(t) = 18 /\ TxBit(18) = 0
  <2> SUFFICES ASSUME Pos(t) >= 10368 PROVE TxIndex(t) = 18 /\ TxBit(18) = 0
    OBVIOUS
  <2>1. TxIndex(t) = 18
    BY <1>1, <1>9, <1>10, PlaceIs
  <2>2. TxBit(18) = SyncBit(18 % 8)
    BY <1>1, <1>12, PreambleBits
  <2>3. TxBit(18) = 0
    BY <2>2 DEF SyncBit
  <2> QED
    BY <2>1, <2>3
<1>15. glitches \in 0 .. 2 /\ Pos(t) \in 8640 .. 10492
  BY <1>1, <1>2, <1>9, <1>10, SMTT(40)
<1> QED
  BY ONLY <1>1, <1>3, <1>4, <1>9, <1>11, <1>13, <1>14, <1>15

\* The first edge starts the clock in bit 18.
LEMMA EnteringEdge ==
    ASSUME DecoderType, NEW bit \in {0, 1}, Sample(bit), Gather(bit), TxIndex(t) < TxBits,
           Edge(bit), Entering
    PROVE  /\ Locked(18)' /\ ~bit_time(bit)
           /\ glitches' = 0 =>
                IF scenario.phase \in LateStart THEN demod_byte' = 96
                                                ELSE demod_byte' \in {192, 224}
<1>1. /\ scenario' = scenario /\ t' > 0
      /\ TxIndex(t - 1)' = TxIndex(t) /\ Pos(t - 1)' = Pos(t)
      /\ \A d \in Int : divisor' = d => Pos(t + divisor)' = Pos(t) + 25 + 25 * d
      /\ \A k : TxBit(k)' = TxBit(k)
      /\ TxBits' = TxBits
      /\ \/ bit = TxBit(TxIndex(t)) /\ glitches' = glitches
         \/ /\ bit # TxBit(TxIndex(t)) /\ glitches' = glitches + 1
            /\ glitches' <= 2
  BY AfterSample
<1>2. /\ bit = 0 /\ xingcnt = 2 /\ current_sense' = bit /\ xingcnt' = 0
  <2>1. current_sense = 1 /\ xingcnt \in 0 .. 2
    <3>1. current_sense = 1
      BY DEF Entering
    <3> QED
      BY <3>1, EnteringFacts
  <2> QED
    BY <2>1 DEF Gather, EdgeDetect, Edge, XING_MAX
<1>3. /\ divisor' = 11 /\ Reads' = 0 /\ bytesync' = bytesync /\ demod_byte' = demod_byte
      /\ ~bit_time(bit)
  BY DEF Gather, bit_time, bytes, ResetBitClock, Reads, BIT_DIVISOR, SWALLOW_CTR
<1>4. Pos(t) >= 10368
  <2>1. ASSUME Pos(t) < 10368 PROVE FALSE
    <3>1. TxBit(TxIndex(t)) = 1 /\ Pos(t - 1) < 10368 /\ glitches \in 0 .. 2
      BY <2>1, EnteringFacts
    <3>2. xingcnt <= glitches
      <4>1. \/ Pos(t - 1) < 10368 /\ xingcnt <= glitches
            \/ Pos(t - 1) >= 10368
        BY DEF Entering
      <4>2. Pos(t - 1) \in Nat
        BY EnteringFacts
      <4> QED
        BY <3>1, <4>1, <4>2
    <3> QED
      BY <1>1, <1>2, <3>1, <3>2
  <2> QED
    BY <2>1, EnteringFacts
<1>5. glitches' = glitches /\ TxIndex(t) = 18 /\ TxBit(18) = 0
  BY <1>1, <1>2, <1>4, EnteringFacts
<1>6. /\ Pos(t) < 10368 + 75 + 25 * glitches
      /\ glitches = 0 => Pos(t) >= 10418
  <2>1. \/ Pos(t - 1) < 10368 /\ 2 <= glitches
        \/ /\ Pos(t - 1) < 10368 + 25 * (2 + glitches)
           /\ glitches = 0 => 10368 + 25 * (2 - 1) <= Pos(t - 1)
    BY <1>2 DEF Entering
  <2>2. /\ Pos(t - 1) \in Nat /\ Pos(t) = Pos(t - 1) + 25 /\ glitches \in 0 .. 2
    BY EnteringFacts
  <2> QED
    BY <2>1, <2>2
<1>7. Steady(18)'
  <2>1. 18 - Reads' <= TxIndex(t - 1)' /\ xingcnt' <= glitches'
    BY <1>1, <1>2, <1>3, <1>5, EnteringFacts
  <2>2. \A k \in 18 - Reads' .. TxIndex(t - 1)' : TxBit(k)' = current_sense'
    BY <1>1, <1>2, <1>3, <1>5
  <2> QED
    BY <2>1, <2>2 DEF Steady
<1>8. /\ 300 <= Pos(t + divisor)' - 576 * 18 - 24 * Reads'
      /\ Pos(t + divisor)' - 576 * 18 - 24 * Reads' < 375 + 25 * glitches'
  <2>1. Pos(t + divisor)' = Pos(t) + 300
    BY <1>1, <1>3, EnteringFacts
  <2> QED
    BY <1>3, <1>4, <1>5, <1>6, <2>1, EnteringFacts
<1>9. TxIndex(t - 1)' < TxBits' /\ Reads' <= 18 /\ ~bytesync'
  BY <1>1, <1>3 DEF Entering
<1>10. Locked(18)'
  BY <1>1, <1>7, <1>8, <1>9 DEF Locked
<1>11. ASSUME glitches' = 0
       PROVE  IF scenario.phase \in LateStart THEN demod_byte' = 96
                                               ELSE demod_byte' \in {192, 224}
  <2>1. glitches = 0 /\ demod_byte = FirstByte /\ Pos(t) >= 10418
    BY <1>5, <1>6, <1>11 DEF Entering
  <2>2. Reads >= 2 /\ (MatchPos \in 228 .. 277 => Reads = 3)
    <3>1. /\ Pos(t) + 25 * divisor = 8940 + MatchPos + 600 * Reads
          /\ MatchPos \in 0 .. 560 /\ divisor \in 0 .. 23 /\ Reads \in 0 .. 3
          /\ Pos(t) \in Int
      BY EnteringFacts
    <3> QED
      BY <2>1, <3>1
  <2>3. /\ Reads \in {2, 3}
        /\ scenario.phase \in LateStart => Reads = 3
    <3>1. /\ Reads \in 0 .. 3
          /\ scenario.phase \in LateStart <=> MatchPos \in 228 .. 277
      BY EnteringFacts
    <3> QED
      BY <2>2, <3>1
  <2> QED
    <3>1. demod_byte' = FirstByte
      BY <1>3, <2>1
    <3>2. CASE scenario.phase \in LateStart
      BY <2>3, <3>1, <3>2 DEF FirstByte
    <3>3. CASE scenario.phase \notin LateStart
      BY <2>3, <3>1, <3>3 DEF FirstByte
    <3> QED
      BY <3>2, <3>3
<1> QED
  BY <1>3, <1>10, <1>11

\* A sample without an edge, before the first one: the detector's part of Entering.
LEMMA EnteringDetector ==
    ASSUME DecoderType, NEW bit \in {0, 1}, Sample(bit), TxIndex(t) < TxBits,
           EdgeDetect(bit), ~Edge(bit), Entering
    PROVE  /\ current_sense' = 1
           /\ xingcnt' \in 0 .. 2 /\ glitches' \in 0 .. 2
           /\ \/ Pos(t) < 10368 /\ xingcnt' <= glitches'
              \/ /\ Pos(t) >= 10368
                 /\ Pos(t) < 10368 + 25 * (xingcnt' + glitches')
                 /\ glitches' = 0 => 10368 + 25 * (xingcnt' - 1) <= Pos(t)
           /\ glitches' = 0 => glitches = 0 /\ bit = IF Pos(t) < 10368 THEN 1 ELSE 0
<1>1. \/ bit = TxBit(TxIndex(t)) /\ glitches' = glitches
      \/ /\ bit # TxBit(TxIndex(t)) /\ glitches' = glitches + 1
         /\ glitches' <= 2
  BY AfterSample
<1>2. /\ current_sense = 1
      /\ \/ Pos(t - 1) < 10368 /\ xingcnt <= glitches
         \/ /\ Pos(t - 1) >= 10368
            /\ Pos(t - 1) < 10368 + 25 * (xingcnt + glitches)
            /\ glitches = 0 => 10368 + 25 * (xingcnt - 1) <= Pos(t - 1)
  BY DEF Entering
<1>3. /\ xingcnt \in 0 .. 2 /\ glitches \in 0 .. 2
      /\ Pos(t - 1) \in Nat /\ Pos(t) = Pos(t - 1) + 25
      /\ Pos(t) < 10368 => TxBit(TxIndex(t)) = 1
      /\ Pos(t) >= 10368 => TxIndex(t) = 18 /\ TxBit(18) = 0
  BY EnteringFacts
<1>4. /\ current_sense' = 1
      /\ xingcnt' = IF bit # 1 THEN xingcnt + 1 ELSE xingcnt
      /\ bit # 1 => xingcnt # 2
  BY <1>2, <1>3 DEF EdgeDetect, Edge, XING_MAX
<1>5. PICK v \in {0, 1} : v = TxBit(TxIndex(t)) /\ v = IF Pos(t) < 10368 THEN 1 ELSE 0
  BY <1>3
<1>6. /\ xingcnt' \in 0 .. 2 /\ glitches' \in 0 .. 2
      /\ glitches' = 0 => glitches = 0 /\ bit = v
  BY <1>1, <1>3, <1>4, <1>5
<1>7. CASE v = 1
  <2>1. Pos(t) < 10368 /\ Pos(t - 1) < 10368
    BY <1>3, <1>5, <1>7
  <2>2. xingcnt <= glitches
    BY <1>2, <1>3, <2>1
  <2>3. xingcnt' <= glitches'
    BY <1>1, <1>3, <1>4, <1>5, <1>7, <2>2
  <2> QED
    BY <1>4, <1>5, <1>6, <1>7, <2>1, <2>3
<1>8. CASE v = 0
  <2>1. Pos(t) >= 10368
    BY <1>3, <1>5, <1>8
  <2>2. /\ xingcnt' + glitches' = xingcnt + glitches + 1
        /\ glitches' = 0 => xingcnt' = xingcnt + 1
    BY <1>1, <1>3, <1>4, <1>5, <1>8
  <2>3. 25 * (xingcnt' + glitches') = 25 * (xingcnt + glitches) + 25
    BY <1>3, <2>2
  <2>4. Pos(t) < 10368 + 25 * (xingcnt' + glitches')
    BY <1>2, <1>3, <2>3
  <2>5. ASSUME glitches' = 0 PROVE 10368 + 25 * (xingcnt' - 1) <= Pos(t)
    <3>1. glitches = 0 /\ xingcnt' = xingcnt + 1
      BY <1>6, <2>2, <2>5
    <3> QED
      BY <1>2, <1>3, <2>1, <3>1
  <2> QED
    BY <1>4, <1>5, <1>6, <1>8, <2>1, <2>4, <2>5
<1> QED
  BY <1>5, <1>7, <1>8

LEMMA EnteringRun ==
    ASSUME DecoderType, NEW bit \in {0, 1}, Sample(bit), Gather(bit), TxIndex(t) < TxBits,
           ~Edge(bit), divisor > 0, Entering
    PROVE  Entering'
<1>1. /\ scenario' = scenario /\ t' = t + 1 /\ Pos(t - 1)' = Pos(t)
  BY AfterSample
<1>2. /\ current_sense' = 1
      /\ \/ Pos(t) < 10368 /\ xingcnt' <= glitches'
         \/ /\ Pos(t) >= 10368
            /\ Pos(t) < 10368 + 25 * (xingcnt' + glitches')
            /\ glitches' = 0 => 10368 + 25 * (xingcnt' - 1) <= Pos(t)
      /\ glitches' = 0 => glitches = 0
  BY EnteringDetector DEF Gather
<1>3. divisor \in 0 .. 23 /\ t \in Nat /\ Reads \in 0 .. 3 /\ scenario \in Scenarios
  BY EnteringFacts
<1>4. /\ divisor' = divisor - 1 /\ Reads' = Reads
      /\ demod_byte' = demod_byte /\ bytesync' = bytesync /\ out' = out
  BY <1>3 DEF Gather, bit_time, bytes, RunBitClock, Reads
<1>5. MatchTime' = MatchTime /\ FirstByte' = FirstByte /\ MatchTime \in {345, 346}
  BY <1>1, <1>3, <1>4, MatchFacts DEF MatchTime, FirstByte
<1>6. /\ t > MatchTime /\ t + divisor = MatchTime + 12 + 24 * Reads /\ Reads <= 3
      /\ bytesync = FALSE /\ out = << >>
      /\ Reads = 0 => demod_byte = 0
      /\ Reads = 1 => demod_byte % 128 = 0
      /\ Reads = 2 => demod_byte % 64 = 0
      /\ glitches = 0 => demod_byte = FirstByte
  BY DEF Entering
<1>7. t' > MatchTime' /\ t' + divisor' = MatchTime' + 12 + 24 * Reads' /\ Reads' <= 3
  BY <1>1, <1>3, <1>4, <1>5, <1>6
<1>8. /\ current_sense' = 1 /\ bytesync' = FALSE /\ out' = << >>
      /\ Reads' = 0 => demod_byte' = 0
      /\ Reads' = 1 => demod_byte' % 128 = 0
      /\ Reads' = 2 => demod_byte' % 64 = 0
      /\ glitches' = 0 => demod_byte' = FirstByte'
  BY <1>2, <1>4, <1>5, <1>6
<1>9. \/ Pos(t - 1)' < 10368 /\ xingcnt' <= glitches'
      \/ /\ Pos(t - 1)' >= 10368
         /\ Pos(t - 1)' < 10368 + 25 * (xingcnt' + glitches')
         /\ glitches' = 0 => 10368 + 25 * (xingcnt' - 1) <= Pos(t - 1)'
  BY <1>1, <1>2
<1> QED
  BY ONLY <1>7, <1>8, <1>9 DEF Entering

\* The bits read before the first edge do not make a sync byte.
LEMMA EnteringRead ==
    ASSUME DecoderType, NEW bit \in {0, 1}, Sample(bit), Gather(bit), TxIndex(t) < TxBits,
           ~Edge(bit), divisor = 0, Entering
    PROVE  Entering'
<1>1. /\ scenario' = scenario /\ t' = t + 1 /\ Pos(t - 1)' = Pos(t)
  BY AfterSample
<1>2. /\ current_sense' = 1 /\ xingcnt' \in 0 .. 2 /\ glitches' \in 0 .. 2
      /\ \/ Pos(t) < 10368 /\ xingcnt' <= glitches'
         \/ /\ Pos(t) >= 10368
            /\ Pos(t) < 10368 + 25 * (xingcnt' + glitches')
            /\ glitches' = 0 => 10368 + 25 * (xingcnt' - 1) <= Pos(t)
      /\ glitches' = 0 => glitches = 0 /\ bit = IF Pos(t) < 10368 THEN 1 ELSE 0
  BY EnteringDetector DEF Gather
<1>3. /\ t \in Nat /\ Reads \in 0 .. 3 /\ scenario \in Scenarios
      /\ Pos(t) \in 8640 .. 10492 /\ MatchPos \in 0 .. 560
      /\ scenario.phase \in LateStart <=> MatchPos \in 228 .. 277
      /\ Pos(t) + 25 * divisor = 8940 + MatchPos + 600 * Reads
  BY EnteringFacts
<1>4. Pos(t) = 8940 + MatchPos + 600 * Reads /\ Reads \in 0 .. 2
  <2>1. 25 * divisor = 0
    OBVIOUS
  <2>2. Pos(t) = 8940 + MatchPos + 600 * Reads
    BY <1>3, <2>1, SMTT(40)
  <2>3. Reads # 3
    BY <1>3, <2>2, SMTT(40)
  <2> QED
    BY <1>3, <2>2, <2>3
<1>5. /\ divisor' = 23 /\ Reads' = Reads + 1
  <2>1. swallow_ctr \in Nat /\ swallow_ctr > 0
    BY <1>4 DEF Reads, SWALLOW_CTR, DecoderType
  <2> QED
    BY <2>1 DEF Gather, RunBitClock, Reads, SWALLOW_CTR, BIT_DIVISOR
<1>6. MatchTime' = MatchTime /\ MatchTime \in {345, 346}
  BY <1>1, <1>3, MatchFacts DEF MatchTime
<1>7. /\ t > MatchTime /\ t + divisor = MatchTime + 12 + 24 * Reads
      /\ bytesync = FALSE /\ out = << >>
      /\ Reads = 0 => demod_byte = 0
      /\ Reads = 1 => demod_byte % 128 = 0
      /\ Reads = 2 => demod_byte % 64 = 0
      /\ glitches = 0 => demod_byte = FirstByte
  BY DEF Entering
<1>8. demod_byte \in 0 .. 255
  BY DEF DecoderType
<1>9. /\ ShiftIn(bit) # 171
      /\ Reads = 0 => ShiftIn(bit) % 128 = 0
      /\ Reads = 1 => ShiftIn(bit) % 64 = 0
  <2>1. \A d \in 0 .. 255, b \in {0, 1} :
            /\ d % 64 = 0 => d \div 2 + 128 * b # 171
            /\ d % 128 = 0 => d \div 2 + 128 * b # 171 /\ (d \div 2 + 128 * b) % 64 = 0
            /\ d = 0 => d \div 2 + 128 * b # 171 /\ (d \div 2 + 128 * b) % 128 = 0
    OBVIOUS
  <2>2. ShiftIn(bit) = demod_byte \div 2 + 128 * bit
    BY DEF ShiftIn
  <2> QED
    BY <1>4, <1>7, <1>8, <2>1, <2>2
<1>10. demod_byte' = ShiftIn(bit) /\ bytesync' = FALSE /\ out' = << >>
  BY <1>7, <1>9 DEF Gather, bit_time, ReceiveBit, SYNC_BYTE
<1>11. ASSUME glitches' = 0 PROVE demod_byte' = FirstByte'
  <2>1. /\ glitches = 0 /\ bit = IF Pos(t) < 10368 THEN 1 ELSE 0
        /\ demod_byte = FirstByte
        /\ demod_byte' = demod_byte \div 2 + 128 * bit
    BY <1>2, <1>7, <1>10, <1>11 DEF ShiftIn
  <2>2. CASE Reads = 0
    <3>1. bit = 1 /\ demod_byte = 0
      BY <1>3, <1>4, <2>1, <2>2 DEF FirstByte
    <3> QED
      BY <1>5, <2>1, <2>2, <3>1 DEF FirstByte
  <2>3. CASE Reads = 1
    <3>1. bit = 1 /\ demod_byte = 128
      BY <1>3, <1>4, <2>1, <2>3 DEF FirstByte
    <3> QED
      BY <1>5, <2>1, <2>3, <3>1 DEF FirstByte
  <2>4. CASE Reads = 2
    <3>1. demod_byte = 192 /\ Reads' = 3
      BY <1>5, <2>1, <2>4 DEF FirstByte
    <3>2. Pos(t) = 10140 + MatchPos
      BY <1>3, <1>4, <2>4
    <3>3. CASE Pos(t) < 10368
      <4>1. bit = 1 /\ scenario.phase \notin LateStart
        BY <1>3, <2>1, <3>2, <3>3
      <4> QED
        BY <1>1, <2>1, <3>1, <4>1 DEF FirstByte
    <3>4. CASE Pos(t) >= 10368
      <4>1. Pos(t) < 10368 + 50
        BY <1>2, <1>3, <1>11, <3>4
      <4>2. bit = 0 /\ scenario.phase \in LateStart
        BY <1>3, <2>1, <3>2, <3>4, <4>1
      <4> QED
        BY <1>1, <2>1, <3>1, <4>2 DEF FirstByte
    <3> QED
      BY <1>3, <3>3, <3>4
  <2> QED
    BY <1>4, <2>2, <2>3, <2>4
<1>12. t' > MatchTime' /\ t' + divisor' = MatchTime' + 12 + 24 * Reads' /\ Reads' <= 3
  BY <1>1, <1>3, <1>4, <1>5, <1>6, <1>7
<1>13. /\ current_sense' = 1 /\ bytesync' = FALSE /\ out' = << >>
       /\ Reads' = 0 => demod_byte' = 0
       /\ Reads' = 1 => demod_byte' % 128 = 0
       /\ Reads' = 2 => demod_byte' % 64 = 0
  BY <1>2, <1>4, <1>5, <1>9, <1>10
<1>14. \/ Pos(t - 1)' < 10368 /\ xingcnt' <= glitches'
       \/ /\ Pos(t - 1)' >= 10368
          /\ Pos(t - 1)' < 10368 + 25 * (xingcnt' + glitches')
          /\ glitches' = 0 => 10368 + 25 * (xingcnt' - 1) <= Pos(t - 1)'
  BY <1>1, <1>2
<1> QED
  BY ONLY <1>11, <1>12, <1>13, <1>14 DEF Entering
-------------------------------------------------------------------------------
\* The bytes of a clean signal.

\* The byte before bit q is read, q = 18, 19, ..., until the sync byte is found:
\* after a late start, and after others with two or three ones read.
LateBytes == <<96, 48, 152, 76, 166, 83, 169, 212, 234, 117, 186, 93, 174, 87>>
BytesOfTwo == <<192, 96, 176, 88, 172, 86>>
BytesOfThree == <<224, 112, 184, 92, 174, 87>>

SyncAt(q) ==
    IF scenario.phase \in LateStart
    THEN q \in 18 .. 31 /\ demod_byte = LateBytes[q - 17]
    ELSE q \in 18 .. 23 /\ demod_byte \in {BytesOfTwo[q - 17], BytesOfThree[q - 17]}

\* The first c bits of a byte are on top of d.
Partial(d, byte, c) == d \div 2^(8 - c) = byte % 2^c

\* Bit q is due; the bytes in out but the first f, and the bits in demod_byte, are
\* those of the message, which has e bytes more.
Whole(q, f, e) ==
    /\ f \in Nat /\ e \in Int /\ f + e >= 0 /\ f < Len(out)
    /\ q = 8 * (Len(out) + e) + bitctr /\ q <= TxBits
    /\ \A i \in f + 1 .. Len(out) : out[i] = sent[i + e]
    /\ bitctr > 0 => Partial(demod_byte, sent[Len(out) + e + 1], bitctr)

\* Of the first message: the sync byte is to be found, or all that follows those
\* the decoder loses is kept.
Gathering(q) ==
    \/ bytesync = FALSE /\ out = << >> /\ SyncAt(q)
    \/ bytesync = TRUE /\ Whole(q, 0, Eaten(scenario))

\* What the next bit of the byte makes of them.
PartialGrows(d, byte, c, b) ==
    (c > 0 => Partial(d, byte, c)) /\ b = (byte \div 2^c) % 2 =>
        /\ c < 7 => Partial(d \div 2 + 128 * b, byte, c + 1)
        /\ c = 7 => d \div 2 + 128 * b = byte

LEMMA PartialStep ==
    ASSUME NEW d \in 0 .. 255, NEW byte \in 0 .. 255, NEW c \in 0 .. 7, NEW b
    PROVE  PartialGrows(d, byte, c, b)
<1> SUFFICES ASSUME c > 0 => Partial(d, byte, c), b = (byte \div 2^c) % 2
             PROVE  /\ c < 7 => Partial(d \div 2 + 128 * b, byte, c + 1)
                    /\ c = 7 => d \div 2 + 128 * b = byte
  BY DEF PartialGrows
<1>0. CASE c = 0
  BY <1>0 DEF Partial
<1>1. CASE c = 1
  <2>1. b \in {0, 1} /\ byte % 4 = (byte % 2) + 2 * b
    BY <1>1
  <2>2. (d \div 2 + 128 * b) \div 64 = d \div 128 + 2 * b
    BY <2>1
  <2>3. d \div 128 = byte % 2
    BY <1>1 DEF Partial
  <2> QED
    BY <1>1, <2>1, <2>2, <2>3 DEF Partial
<1>2. CASE c = 2
  <2>1. b \in {0, 1} /\ byte % 8 = (byte % 4) + 4 * b
    BY <1>2
  <2>2. (d \div 2 + 128 * b) \div 32 = d \div 64 + 4 * b
    BY <2>1
  <2>3. d \div 64 = byte % 4
    BY <1>2 DEF Partial
  <2> QED
    BY <1>2, <2>1, <2>2, <2>3 DEF Partial
<1>3. CASE c = 3
  <2>1. b \in {0, 1} /\ byte % 16 = (byte % 8) + 8 * b
    BY <1>3
  <2>2. (d \div 2 + 128 * b) \div 16 = d \div 32 + 8 * b
    BY <2>1
  <2>3. d \div 32 = byte % 8
    BY <1>3 DEF Partial
  <2> QED
    BY <1>3, <2>1, <2>2, <2>3 DEF Partial
<1>4. CASE c = 4
  <2>1. b \in {0, 1} /\ byte % 32 = (byte % 16) + 16 * b
    BY <1>4
  <2>2. (d \div 2 + 128 * b) \div 8 = d \div 16 + 16 * b
    BY <2>1
  <2>3. d \div 16 = byte % 16
    BY <1>4 DEF Partial
  <2> QED
    BY <1>4, <2>1, <2>2, <2>3 DEF Partial
<1>5. CASE c = 5
  <2>1. b \in {0, 1} /\ byte % 64 = (byte % 32) + 32 * b
    BY <1>5
  <2>2. (d \div 2 + 128 * b) \div 4 = d \div 8 + 32 * b
    BY <2>1
  <2>3. d \div 8 = byte % 32
    BY <1>5 DEF Partial
  <2> QED
    BY <1>5, <2>1, <2>2, <2>3 DEF Partial
<1>6. CASE c = 6
  <2>1. b \in {0, 1} /\ byte % 128 = (byte % 64) + 64 * b
    BY <1>6
  <2>2. (d \div 2 + 128 * b) \div 2 = d \div 4 + 64 * b
    BY <2>1
  <2>3. d \div 4 = byte % 64
    BY <1>6 DEF Partial
  <2> QED
    BY <1>6, <2>1, <2>2, <2>3 DEF Partial
<1>7. CASE c = 7
  BY <1>7 DEF Partial
<1> QED
  BY <1>0, <1>1, <1>2, <1>3, <1>4, <1>5, <1>6, <1>7

LEMMA LateSteps ==
    ASSUME NEW q \in 18 .. 31, NEW x, x = LateBytes[q - 17] \div 2 + 128 * SyncBit(q % 8)
    PROVE  IF q = 31 THEN x = 171 ELSE x # 171 /\ x = LateBytes[q + 1 - 17]
BY DEF LateBytes, SyncBit

LEMMA TwoSteps ==
    ASSUME NEW q \in 18 .. 23, NEW x, x = BytesOfTwo[q - 17] \div 2 + 128 * SyncBit(q % 8)
    PROVE  IF q = 23 THEN x = 171 ELSE x # 171 /\ x = BytesOfTwo[q + 1 - 17]
BY DEF BytesOfTwo, SyncBit

LEMMA ThreeSteps ==
    ASSUME NEW q \in 18 .. 23, NEW x, x = BytesOfThree[q - 17] \div 2 + 128 * SyncBit(q % 8)
    PROVE  IF q = 23 THEN x = 171 ELSE x # 171 /\ x = BytesOfThree[q + 1 - 17]
BY DEF BytesOfThree, SyncBit

\* A bit is read in search of the sync byte.
LEMMA SyncRead ==
    ASSUME DecoderType, NEW q \in Nat, NEW bit \in {0, 1}, ReceiveBit(bit),
           scenario' = scenario, bit = TxBit(q),
           bytesync = FALSE, out = << >>, SyncAt(q)
    PROVE  Gathering(q + 1)'
<1>1. scenario \in Scenarios /\ Eaten(scenario) = IF scenario.phase \in LateStart THEN 3 ELSE 2
  BY DEF DecoderType, Eaten
<1>2. q < 8 * Eaten(scenario) + 8
  BY <1>1 DEF SyncAt
<1>3. bit = SyncBit(q % 8) /\ 8 * Eaten(scenario) + 8 <= TxBits
  BY <1>1, <1>2, PreambleBits
<1>4. ShiftIn(bit) = demod_byte \div 2 + 128 * SyncBit(q % 8)
  BY <1>3 DEF ShiftIn
<1>5. /\ scenario.phase \in LateStart =>
            IF q = 31 THEN ShiftIn(bit) = 171
            ELSE ShiftIn(bit) # 171 /\ ShiftIn(bit) = LateBytes[q + 1 - 17]
      /\ scenario.phase \notin LateStart =>
            IF q = 23 THEN ShiftIn(bit) = 171
            ELSE /\ ShiftIn(bit) # 171
                 /\ ShiftIn(bit) \in {BytesOfTwo[q + 1 - 17], BytesOfThree[q + 1 - 17]}
  <2>1. ASSUME scenario.phase \in LateStart
        PROVE  IF q = 31 THEN ShiftIn(bit) = 171
               ELSE ShiftIn(bit) # 171 /\ ShiftIn(bit) = LateBytes[q + 1 - 17]
    <3>1. q \in 18 .. 31 /\ demod_byte = LateBytes[q - 17]
      BY <2>1 DEF SyncAt
    <3> QED
      BY ONLY <1>4, <3>1, LateSteps
  <2>2. ASSUME scenario.phase \notin LateStart
        PROVE  IF q = 23 THEN ShiftIn(bit) = 171
               ELSE /\ ShiftIn(bit) # 171
                    /\ ShiftIn(bit) \in {BytesOfTwo[q + 1 - 17], BytesOfThree[q + 1 - 17]}
    <3>1. q \in 18 .. 23 /\ demod_byte \in {BytesOfTwo[q - 17], BytesOfThree[q - 17]}
      BY <2>2 DEF SyncAt
    <3> QED
      BY ONLY <1>4, <3>1, TwoSteps, ThreeSteps
  <2> QED
    BY <2>1, <2>2
<1>6. CASE ShiftIn(bit) = 171
  <2>1. bytesync' = TRUE /\ bitctr' = 0 /\ out' = Append(out, 171)
    BY <1>6 DEF ReceiveBit, SYNC_BYTE
  <2>2. q + 1 = 8 * (Eaten(scenario) + 1)
    BY <1>1, <1>5, <1>6 DEF SyncAt
  <2>3. out' = <<171>> /\ Len(out') = 1 /\ out'[1] = 171
    BY <2>1
  <2>4. sent[Eaten(scenario) + 1] = 171
    BY <1>1, ScenarioFacts DEF Preamble, SYNC_BYTE, sent
  <2>5. TxBits' = TxBits /\ sent' = sent /\ Eaten(scenario)' = Eaten(scenario)
    BY SameSignal DEF sent
  <2>6. q + 1 = 8 * (Len(out') + Eaten(scenario)') + bitctr' /\ q + 1 <= TxBits'
    BY <1>1, <1>3, <2>1, <2>2, <2>3, <2>5
  <2>7. /\ Eaten(scenario)' \in Int /\ 0 + Eaten(scenario)' >= 0 /\ 0 < Len(out')
        /\ \A i \in 0 + 1 .. Len(out') : out'[i] = sent'[i + Eaten(scenario)']
    <3>1. \A i \in 0 + 1 .. Len(out') : i = 1
      BY <2>3
    <3>2. 1 + Eaten(scenario) = Eaten(scenario) + 1 /\ Eaten(scenario) \in {2, 3}
      BY <1>1
    <3> QED
      BY <2>3, <2>4, <2>5, <3>1, <3>2
  <2>8. Whole(q + 1, 0, Eaten(scenario))'
    BY <2>1, <2>6, <2>7 DEF Whole
  <2> QED
    BY <2>1, <2>8 DEF Gathering
<1>7. CASE ShiftIn(bit) # 171
  <2>1. demod_byte' = ShiftIn(bit) /\ bytesync' = FALSE /\ out' = << >>
    BY <1>7 DEF ReceiveBit, SYNC_BYTE
  <2>2. SyncAt(q + 1)'
    BY <1>5, <1>7, <2>1 DEF SyncAt
  <2> QED
    BY <2>1, <2>2 DEF Gathering
<1> QED
  BY <1>6, <1>7

\* A bit of a byte is read.
LEMMA ByteRead ==
    ASSUME DecoderType, NEW q \in Nat, NEW bit \in {0, 1}, ReceiveBit(bit),
           scenario' = scenario, bit = TxBit(q), q < TxBits,
           bytesync = TRUE, NEW f, NEW e, Whole(q, f, e)
    PROVE  /\ bytesync' = TRUE /\ Whole(q + 1, f, e)'
           /\ q \div 8 + 1 \in 1 .. Len(sent)
           /\ \/ out' = out
              \/ (q % 8 = 7) /\ out' = Append(out, sent[q \div 8 + 1])
<1>1. /\ f \in Nat /\ e \in Int /\ f + e >= 0 /\ f < Len(out)
      /\ \A i \in f + 1 .. Len(out) : out[i] = sent[i + e]
      /\ bitctr > 0 => Partial(demod_byte, sent[Len(out) + e + 1], bitctr)
  BY DEF Whole
<1>2. bitctr \in 0 .. 7 /\ demod_byte \in 0 .. 255 /\ scenario \in Scenarios
  BY DEF DecoderType, BITSPERBYTE
<1>3. Len(out) \in Nat
  BY DEF DecoderType
<1>4. sent \in Seq(0 .. 255) /\ TxBits = 8 * Len(sent) /\ Len(sent) \in Nat
  BY <1>2, ScenarioFacts DEF sent, TxBits, BitsOf, BITSPERBYTE
<1>0. q = 8 * (Len(out) + e) + bitctr
  BY DEF Whole
<1>5. PICK m \in Nat : m = Len(out) + e
  BY <1>1, <1>3
<1>6. q \div 8 = m /\ q % 8 = bitctr /\ m + 1 \in 1 .. Len(sent)
  <2>1. q = 8 * m + bitctr
    BY <1>0, <1>5
  <2>2. \A c \in 0 .. 7 : (8 * m + c) \div 8 = m /\ (8 * m + c) % 8 = c
    BY <1>5, SMTT(40)
  <2>3. 8 * m + bitctr < 8 * Len(sent)
    BY <1>4, <2>1
  <2> QED
    BY <1>2, <1>4, <2>1, <2>2, <2>3
<1>7. PICK byte \in 0 .. 255 : byte = sent[m + 1]
  BY <1>4, <1>6, ElementOfSeq
<1>8. bit = (byte \div 2^bitctr) % 2
  BY <1>6, <1>7 DEF TxBit, BitOf, BITSPERBYTE
<1>9. bitctr > 0 => Partial(demod_byte, byte, bitctr)
  BY <1>1, <1>5, <1>7
<1>10. /\ bitctr < 7 => Partial(ShiftIn(bit), byte, bitctr + 1)
       /\ bitctr = 7 => ShiftIn(bit) = byte
  <2>1. ShiftIn(bit) = demod_byte \div 2 + 128 * bit
    BY DEF ShiftIn
  <2> QED
    <3>1. PartialGrows(demod_byte, byte, bitctr, bit)
      BY ONLY <1>2, <1>7, PartialStep, Zenon
    <3> QED
      BY ONLY <1>8, <1>9, <2>1, <3>1, Zenon DEF PartialGrows
<1>11. TxBits' = TxBits /\ sent' = sent
  BY SameSignal DEF sent
<1>12. demod_byte' = ShiftIn(bit) /\ bytesync' = TRUE
  BY DEF ReceiveBit
<1>13. q + 1 <= TxBits
  BY <1>4
<1>14. CASE bitctr < 7
  <2>1. bitctr' = bitctr + 1 /\ out' = out
    <3>1. bytesync = TRUE /\ ReceiveBit(bit) /\ bitctr < BITSPERBYTE - 1 /\ bitctr \in Int
      BY <1>2, <1>14 DEF BITSPERBYTE
    <3>2. bitctr # BITSPERBYTE - 1
      BY ONLY <3>1 DEF BITSPERBYTE
    <3> QED
      BY ONLY <3>1, <3>2, Zenon DEF ReceiveBit
  <2>2. q + 1 = 8 * (Len(out') + e) + bitctr' /\ q + 1 <= TxBits'
    <3>1. q + 1 = 8 * (Len(out) + e) + (bitctr + 1)
      BY ONLY <1>0, <1>1, <1>2, <1>3
    <3> QED
      BY <1>11, <1>13, <2>1, <3>1
  <2>3. /\ f \in Nat /\ e \in Int /\ f + e >= 0 /\ f < Len(out')
        /\ \A i \in f + 1 .. Len(out') : out'[i] = sent'[i + e]
    BY <1>1, <1>11, <2>1
  <2>4. Partial(demod_byte', sent'[Len(out') + e + 1], bitctr')
    BY <1>5, <1>7, <1>10, <1>11, <1>12, <1>14, <2>1
  <2>5. Whole(q + 1, f, e)'
    BY <2>2, <2>3, <2>4 DEF Whole
  <2> QED
    BY <1>6, <1>12, <2>1, <2>5
<1>15. CASE bitctr = 7
  <2>1. bitctr' = 0 /\ out' = Append(out, ShiftIn(bit))
    BY <1>15 DEF ReceiveBit, BITSPERBYTE
  <2>2. out' = Append(out, byte)
    BY <1>10, <1>15, <2>1
  <2>3. out \in Seq(0 .. 255)
    BY DEF DecoderType
  <2>4. /\ Len(out') = Len(out) + 1 /\ out'[Len(out) + 1] = byte
        /\ \A i \in 1 .. Len(out) : out'[i] = out[i]
    BY <2>2, <2>3, Appended
  <2>5. q + 1 = 8 * (Len(out') + e) + bitctr' /\ q + 1 <= TxBits'
    <3>1. q + 1 = 8 * ((Len(out) + 1) + e) + 0
      BY ONLY <1>0, <1>1, <1>2, <1>3, <1>15
    <3> QED
      BY <1>11, <1>13, <2>1, <2>4, <3>1
  <2>6. ASSUME NEW i \in f + 1 .. Len(out')
        PROVE  out'[i] = sent'[i + e]
    <3>1. CASE i = Len(out) + 1
      <4>1. i + e = m + 1
        BY <1>1, <1>3, <1>5, <3>1
      <4> QED
        BY <1>7, <1>11, <2>4, <3>1, <4>1
    <3>2. CASE i # Len(out) + 1
      <4>1. i \in f + 1 .. Len(out) /\ i \in 1 .. Len(out)
        <5>1. /\ f \in Nat /\ Len(out) \in Nat /\ i \in f + 1 .. Len(out) + 1
              /\ i # Len(out) + 1
          BY <1>1, <1>3, <2>4, <3>2
        <5> QED
          BY ONLY <5>1
      <4> QED
        BY <1>1, <1>11, <2>4, <4>1
    <3> QED
      BY <3>1, <3>2
  <2>7. f \in Nat /\ e \in Int /\ f + e >= 0 /\ f < Len(out')
    BY <1>1, <1>3, <2>4
  <2>8. Whole(q + 1, f, e)'
    <3>1. ~(bitctr' > 0)
      BY <2>1
    <3> QED
      BY ONLY <2>5, <2>6, <2>7, <3>1 DEF Whole
  <2> QED
    BY <1>6, <1>7, <1>12, <1>15, <2>2, <2>8
<1>16. bitctr < 7 \/ bitctr = 7
  BY <1>2
<1> QED
  BY ONLY <1>14, <1>15, <1>16, Zenon

\* Between two reads nothing happens to the bytes.
LEMMA BytesKept ==
    ASSUME NEW q, Gathering(q), scenario' = scenario, UNCHANGED bytes
    PROVE  Gathering(q)'
<1>1. TxBits' = TxBits /\ sent' = sent /\ Eaten(scenario)' = Eaten(scenario)
  BY SameSignal DEF sent
<1> QED
  BY <1>1 DEF Gathering, SyncAt, Whole, bytes
-------------------------------------------------------------------------------
\* The inductive invariant, until the application asks for a new sync.

Searching ==
    glitches = 0 /\ bytesync = FALSE /\ out = << >> /\ t <= MatchTime

Tracking(q) == Locked(q) /\ (glitches = 0 => Gathering(q))

Synced == Entering \/ \E q \in Nat : Tracking(q)

FirstMessage ==
    ~cleared => /\ since = 0
                /\ ~insync => Searching
                /\ insync => Synced

DecoderInv == DecoderType /\ Register /\ FirstMessage

LEMMA SearchStep ==
    ASSUME DecoderType, Register, ~cleared, since = 0, ~insync, Searching,
           NEW bit \in {0, 1}, Sample(bit), Search(bit), TxIndex(t) < TxBits
    PROVE  FirstMessage'
<1>1. /\ scenario' = scenario /\ t' = t + 1 /\ t \in Nat /\ scenario \in Scenarios
      /\ cleared' = cleared /\ since' = since
  BY SampleType DEF DecoderType
<1>2. bit = Received(t) /\ glitches' = glitches
  BY DEF Sample
<1>3. /\ MatchTime' = MatchTime /\ MatchTime \in {345, 346} /\ t <= MatchTime
      /\ glitches = 0 /\ out = << >>
  BY <1>1, MatchFacts DEF MatchTime, Searching
<1>4. bytesync' = FALSE /\ out' = << >> /\ insync' = Matches(ShiftedIn(bit))
  BY <1>3 DEF Search, ForgetBytes
<1>5. CASE t < MatchTime
  <2>1. insync' = FALSE
    BY <1>2, <1>4, <1>5, NoMatchBefore, Zenon DEF Matches
  <2>2. Searching'
    BY <1>1, <1>2, <1>3, <1>4, <1>5 DEF Searching
  <2> QED
    BY <1>1, <2>1, <2>2 DEF FirstMessage
<1>6. CASE t = MatchTime
  <2>1. insync'
    BY <1>2, <1>4, <1>6, MatchAtTime
  <2>2. /\ divisor' = 11 /\ Reads' = 0 /\ xingcnt' = 0 /\ demod_byte' = 0
        /\ current_sense' = bit
    BY <2>1 DEF Search, ResetBitClock, Reads, BIT_DIVISOR, SWALLOW_CTR
  <2>3. bit = 1
    <3>1. t - 23 * 0 = t /\ 15 - 0 = 15 /\ Eaten(scenario) \in {2, 3}
      BY <1>1 DEF Eaten
    <3>2. TxIndex(t) = 15
      BY <1>1, <1>6, <3>1, BitsAgo
    <3>3. TxBit(15) = SyncBit(15 % 8)
      BY <1>1, <3>1, PreambleBits
    <3> QED
      BY <1>2, <3>2, <3>3 DEF Received, SyncBit
  <2>4. Pos(t - 1)' = Pos(t) /\ Pos(t) < 10368
    <3>1. Pos(MatchTime) = 8640 + MatchPos /\ MatchPos \in 0 .. 560
      BY <1>1, MatchFacts
    <3> QED
      BY <1>6, <3>1, AfterSample
  <2>5. FirstByte' = 0
    BY <2>2 DEF FirstByte
  <2>6. t' > MatchTime' /\ t' + divisor' = MatchTime' + 12 + 24 * Reads' /\ Reads' <= 3
    BY <1>1, <1>3, <1>6, <2>2
  <2>7. Pos(t - 1)' < 10368 /\ xingcnt' <= glitches'
    BY <1>2, <1>3, <2>2, <2>4
  <2>8. Entering'
    BY <1>4, <2>2, <2>3, <2>5, <2>6, <2>7 DEF Entering
  <2> QED
    BY <1>1, <2>1, <2>8 DEF FirstMessage, Synced
<1> QED
  BY <1>1, <1>3, <1>5, <1>6

LEMMA EnteringStep ==
    ASSUME DecoderType, Entering,
           NEW bit \in {0, 1}, Sample(bit), Gather(bit), TxIndex(t) < TxBits
    PROVE  Synced'
<1>1. CASE Edge(bit)
  <2>1. /\ Locked(18)' /\ ~bit_time(bit)
        /\ glitches' = 0 =>
             IF scenario.phase \in LateStart THEN demod_byte' = 96
                                             ELSE demod_byte' \in {192, 224}
    BY <1>1, EnteringEdge
  <2>2. bytesync' = FALSE /\ out' = << >> /\ scenario' = scenario
    BY <2>1, SampleType DEF Gather, bytes, Entering
  <2>3. ASSUME glitches' = 0 PROVE Gathering(18)'
    <3>1. SyncAt(18)'
      BY <2>1, <2>2, <2>3 DEF SyncAt, LateBytes, BytesOfTwo, BytesOfThree
    <3> QED
      BY <2>2, <3>1 DEF Gathering
  <2>4. Tracking(18)' /\ 18 \in Nat
    BY <2>1, <2>3 DEF Tracking
  <2> QED
    BY <2>4 DEF Synced
<1>2. CASE ~Edge(bit)
  <2>1. divisor \in 0 .. 23
    BY EnteringFacts
  <2>2. Entering'
    BY <1>2, <2>1, EnteringRun, EnteringRead
  <2> QED
    BY <2>2 DEF Synced
<1> QED
  BY <1>1, <1>2

LEMMA TrackingStep ==
    ASSUME DecoderType, NEW q \in Nat, Tracking(q),
           NEW bit \in {0, 1}, Sample(bit), Gather(bit), TxIndex(t) < TxBits
    PROVE  Synced'
<1>1. Locked(q) /\ (glitches = 0 => Gathering(q))
  BY DEF Tracking
<1>2. /\ scenario' = scenario
      /\ glitches' = 0 => glitches = 0 /\ bit = TxBit(TxIndex(t))
  <2>1. glitches \in 0 .. 2
    BY <1>1, ClockFacts
  <2> QED
    BY <2>1, AfterSample
<1>3. CASE bit_time(bit)
  <2>1. Locked(q + 1)' /\ TxIndex(t) = q
    BY <1>1, <1>3, LockedStep
  <2>2. ReceiveBit(bit)
    BY <1>3 DEF Gather
  <2>3. ASSUME glitches' = 0 PROVE Gathering(q + 1)'
    <3>1. bit = TxBit(q) /\ q < TxBits /\ Gathering(q)
      BY <1>1, <1>2, <2>1, <2>3
    <3>2. CASE bytesync = TRUE
      <4>1. PICK e \in {2, 3} : e = Eaten(scenario)
        BY DEF Eaten
      <4>2. Whole(q, 0, e)
        BY <3>1, <3>2, <4>1 DEF Gathering
      <4>3. bytesync' = TRUE /\ Whole(q + 1, 0, e)'
        BY <1>2, <2>2, <3>1, <3>2, <4>2, ByteRead
      <4>4. Eaten(scenario)' = e
        BY <1>2, <4>1 DEF Eaten
      <4> QED
        BY <4>3, <4>4 DEF Gathering
    <3>3. CASE bytesync = FALSE
      BY <1>2, <2>2, <3>1, <3>3, SyncRead DEF Gathering
    <3> QED
      BY <3>1, <3>2, <3>3 DEF Gathering
  <2>4. Tracking(q + 1)' /\ q + 1 \in Nat
    BY <2>1, <2>3 DEF Tracking
  <2> QED
    BY <2>4 DEF Synced
<1>4. CASE ~bit_time(bit)
  <2>1. Locked(q)'
    BY <1>1, <1>4, LockedStep
  <2>2. UNCHANGED bytes
    BY <1>4 DEF Gather
  <2>3. ASSUME glitches' = 0 PROVE Gathering(q)'
    BY <1>1, <1>2, <2>2, <2>3, BytesKept
  <2>4. Tracking(q)'
    BY <2>1, <2>3 DEF Tracking
  <2> QED
    BY <2>4 DEF Synced
<1> QED
  BY <1>3, <1>4

LEMMA InvInit == DecoderInit => DecoderInv
<1> SUFFICES ASSUME DecoderInit PROVE DecoderInv
  OBVIOUS
<1>1. DecoderType /\ Register
  BY TypeInit
<1>2. /\ scenario \in Scenarios /\ t = 0 /\ glitches = 0 /\ insync = FALSE
      /\ bytesync = FALSE /\ out = << >> /\ since = 0
  BY DEF DecoderInit
<1>3. MatchTime \in {345, 346}
  BY <1>2, MatchFacts
<1>4. FirstMessage
  BY <1>2, <1>3 DEF FirstMessage, Searching
<1> QED
  BY <1>1, <1>4 DEF DecoderInv

LEMMA InvStep ==
    ASSUME DecoderInv, [DecoderNext]_decoder
    PROVE  DecoderInv'
<1>1. DecoderType /\ Register /\ FirstMessage
  BY DEF DecoderInv
<1>2. DecoderType' /\ Register'
  BY <1>1, TypeStep, RegisterStep
<1>3. FirstMessage'
  <2>1. ASSUME NEW bit \in {0, 1}, Sample(bit), Search(bit), TxIndex(t) < TxBits
        PROVE  FirstMessage'
    <3>1. CASE ~cleared
      <4>1. since = 0 /\ ~insync /\ Searching
        BY <1>1, <2>1, <3>1 DEF FirstMessage, Search
      <4> QED
        BY <1>1, <2>1, <3>1, <4>1, SearchStep
    <3>2. CASE cleared
      BY <1>1, <2>1, <3>2, SampleType DEF FirstMessage
    <3> QED
      BY <3>1, <3>2
  <2>2. ASSUME NEW bit \in {0, 1}, Sample(bit), Gather(bit), TxIndex(t) < TxBits
        PROVE  FirstMessage'
    <3>1. cleared' = cleared /\ since' = since /\ insync /\ insync' = insync
      BY <1>1, <2>2, SampleType DEF Gather
    <3>2. CASE ~cleared
      <4>1. since = 0 /\ Synced
        BY <1>1, <3>1, <3>2 DEF FirstMessage
      <4>2. Synced'
        BY <1>1, <2>2, <4>1, EnteringStep, TrackingStep DEF Synced
      <4> QED
        BY <3>1, <4>1, <4>2 DEF FirstMessage
    <3>3. CASE cleared
      BY <3>1, <3>3 DEF FirstMessage
    <3> QED
      BY <3>2, <3>3
  <2>3. CASE DSPClearSync
    BY <2>3 DEF DSPClearSync, FirstMessage
  <2>4. CASE UNCHANGED decoder
    <3>1. Searching' = Searching /\ Synced' = Synced
      BY <2>4 DEF decoder, Searching, Synced, Entering, Tracking, Locked, Steady, Pending,
                  Gathering, SyncAt, Whole, Partial, MatchTime, FirstByte, Reads, Pos, TxIndex,
                  TxBits, TxBit, sent
    <3> QED
      BY <1>1, <2>4, <3>1 DEF decoder, FirstMessage
  <2> QED
    BY <2>1, <2>2, <2>3, <2>4 DEF DecoderNext, DspSample
<1> QED
  BY <1>2, <1>3 DEF DecoderInv

\* When the signal has ended every bit of it has been read.
LEMMA AllRead ==
    ASSUME DecoderType, NEW q, Locked(q), TxIndex(t) = TxBits
    PROVE  q >= TxBits
<1>1. /\ q \in Nat /\ TxIndex(t - 1) < TxBits /\ TxIndex(t) = TxIndex(t - 1) + 1
      /\ TxIndex(t) \in Nat
  BY ClockFacts DEF Locked
<1>2. CASE Steady(q)
  BY <1>1, <1>2, ReadBefore
<1>3. CASE Pending(q)
  BY <1>1, <1>3, NoReadPending
<1> QED
  BY <1>2, <1>3 DEF Locked

LEMMA Ending ==
    ASSUME NEW q \in Seq(0 .. 255), NEW e \in Nat, e + 1 \in 1 .. Len(q)
    PROVE  /\ SubSeq(q, e + 1, Len(q)) \in Seq(0 .. 255)
           /\ Len(SubSeq(q, e + 1, Len(q))) = Len(q) - e
           /\ \A i \in 1 .. Len(q) - e : SubSeq(q, e + 1, Len(q))[i] = q[e + i]
<1> DEFINE s == SubSeq(q, e + 1, Len(q))
<1>1. s = [i \in 1 .. Len(q) - e |-> q[e + i]]
  OBVIOUS
<1>2. ASSUME NEW i \in 1 .. Len(q) - e PROVE q[e + i] \in 0 .. 255
  <2>1. e + i \in 1 .. Len(q)
    OBVIOUS
  <2> QED
    BY <2>1, ElementOfSeq
<1>3. Len(q) - e \in Nat
  OBVIOUS
<1> HIDE DEF s
<1>4. s \in Seq(0 .. 255)
  BY <1>1, <1>2, <1>3
<1>5. Len(s) = Len(q) - e
  BY <1>1, <1>3
<1>6. \A i \in 1 .. Len(q) - e : s[i] = q[e + i]
  BY <1>1
<1> QED
  BY <1>4, <1>5, <1>6 DEF s

LEMMA InvDecoded ==
    ASSUME DecoderInv, glitches = 0, ~cleared
    PROVE  /\ out = SubSeq(Decodable, 1, Len(out))
           /\ TxIndex(t) = TxBits => out = Decodable
<1>1. /\ DecoderType /\ FirstMessage /\ scenario \in Scenarios /\ t \in Nat
      /\ out \in Seq(0 .. 255) /\ bitctr \in 0 .. 7 /\ Eaten(scenario) \in {2, 3}
  BY DEF DecoderInv, DecoderType, BITSPERBYTE, Eaten
<1>2. /\ sent \in Seq(0 .. 255) /\ Len(sent) \in Nat /\ Len(sent) > Eaten(scenario)
      /\ TxBits = 8 * Len(sent)
  BY <1>1, ScenarioFacts DEF sent, TxBits, BitsOf, BITSPERBYTE, Preamble
<1>3. PICK e \in {2, 3} : e = Eaten(scenario)
  BY <1>1
<1>4. /\ Decodable \in Seq(0 .. 255) /\ Len(Decodable) = Len(sent) - e
      /\ \A i \in 1 .. Len(sent) - e : Decodable[i] = sent[e + i]
  <2>1. Decodable = SubSeq(sent, e + 1, Len(sent))
    BY <1>3 DEF Decodable
  <2>2. e + 1 \in 1 .. Len(sent)
    BY <1>1, <1>2, <1>3
  <2> QED
    BY <1>2, <1>3, <2>1, <2>2, Ending
<1>5. CASE out = << >> /\ bytesync = FALSE
  <2>1. out = SubSeq(Decodable, 1, Len(out))
    BY <1>4, <1>5
  <2>2. ASSUME TxIndex(t) = TxBits PROVE FALSE
    <3>1. TxBits >= 8 * e + 8
      BY <1>2, <1>3
    <3>5. Pos(t) \in Nat /\ Pos(t) >= 13824
      <4>1. TxBits \in Nat /\ TxBits >= 24
        BY <1>2, <1>3, <3>1
      <4>2. 576 * TxBits <= Pos(t) /\ Pos(t) \in Nat
        BY <1>1, <2>2, Place
      <4> QED
        BY <4>1, <4>2
    <3>2. CASE Searching /\ ~insync
      <4>1. t <= MatchTime /\ MatchTime \in {345, 346}
        BY <1>1, <3>2, MatchFacts DEF Searching
      <4>2. PICK p \in 0 .. 575 : p = scenario.phase
        BY <1>1, ScenarioFacts, ZenonT(40)
      <4>3. Pos(t) <= 25 * 346 + 575
        <5>1. Pos(t) = 25 * t + p /\ t <= 346
          BY <1>1, <4>1, <4>2 DEF Pos
        <5> QED
          BY <1>1, <5>1
      <4> QED
        BY <3>5, <4>3
    <3>3. CASE Entering
      <4>1. Pos(t) \in 8640 .. 10492
        BY <1>1, <3>3, EnteringFacts
      <4> QED
        BY <3>5, <4>1
    <3>4. CASE \E q \in Nat : Tracking(q)
      <4>1. PICK q \in Nat : Locked(q) /\ Gathering(q)
        BY <3>4 DEF Tracking
      <4>2. q >= TxBits
        BY <1>1, <2>2, <4>1, AllRead
      <4>3. SyncAt(q)
        BY <1>5, <4>1 DEF Gathering
      <4>4. q < 8 * e + 8
        BY <1>3, <4>3 DEF SyncAt, Eaten
      <4> QED
        BY <1>2, <1>3, <3>1, <4>2, <4>4
    <3> QED
      BY <1>1, <3>2, <3>3, <3>4 DEF FirstMessage, Synced, DecoderType
  <2> QED
    BY <2>1, <2>2
<1>6. CASE bytesync = TRUE
  <2>1. PICK q \in Nat : Locked(q) /\ Gathering(q)
    BY <1>1, <1>6 DEF FirstMessage, Synced, Searching, Entering, Tracking, DecoderType
  <2>2. /\ q = 8 * (e + Len(out)) + bitctr /\ q <= TxBits
        /\ \A i \in 1 .. Len(out) : out[i] = sent[e + i]
    <3>1. Whole(q, 0, e)
      BY <1>3, <1>6, <2>1 DEF Gathering
    <3>2. Len(out) \in Nat /\ 8 * (Len(out) + e) + bitctr = 8 * (e + Len(out)) + bitctr
      BY <1>1, <1>3
    <3>3. \A i \in 1 .. Len(out) : out[i] = sent[i + e] /\ i + e = e + i
      BY <1>3, <3>1 DEF Whole
    <3> QED
      BY <3>1, <3>2, <3>3 DEF Whole
  <2>3. Len(out) <= Len(sent) - e /\ Len(out) \in Nat
    <3>1. Len(out) \in Nat /\ 8 * (e + Len(out)) + bitctr <= 8 * Len(sent)
      BY <1>1, <1>2, <2>2
    <3> QED
      BY ONLY <1>1, <1>2, <1>3, <3>1, SMTT(40)
  <2>4. out = SubSeq(Decodable, 1, Len(out))
    <3>1. \A i \in 1 .. Len(out) : out[i] = Decodable[i]
      BY <1>4, <2>2, <2>3
    <3> QED
      BY <1>1, <1>4, <2>3, <3>1
  <2>5. ASSUME TxIndex(t) = TxBits PROVE out = Decodable
    <3>1. q = TxBits
      BY <1>1, <1>2, <2>1, <2>2, <2>5, AllRead
    <3>2. Len(out) = Len(sent) - e
      <4>1. 8 * (e + Len(out)) + bitctr = 8 * Len(sent)
        BY <1>2, <2>2, <3>1
      <4> QED
        <5>1. \A x, l, b \in Int :
                 b \in 0 .. 7 /\ 8 * (x + l) + b = 8 * Len(sent) => l = Len(sent) - x
          BY <1>2
        <5> QED
          BY <1>1, <2>3, <4>1, <5>1
    <3>3. \A i \in 1 .. Len(out) : out[i] = Decodable[i]
      BY <1>4, <2>2, <2>3
    <3> QED
      BY <1>1, <1>4, <3>2, <3>3
  <2> QED
    BY <2>4, <2>5
<1> QED
  <2>1. CASE insync
    <3>1. Entering \/ \E q \in Nat : Tracking(q)
      BY <1>1, <2>1 DEF FirstMessage, Synced
    <3>2. Entering => bytesync = FALSE /\ out = << >>
      BY DEF Entering
    <3>3. (\E q \in Nat : Tracking(q)) =>
            (bytesync = FALSE /\ out = << >>) \/ bytesync = TRUE
      BY DEF Tracking, Gathering
    <3> QED
      BY <1>5, <1>6, <3>1, <3>2, <3>3
  <2>2. CASE ~insync
    BY <1>1, <1>5, <2>2 DEF FirstMessage, Searching
  <2> QED
    BY <2>1, <2>2

\* Of a clean message every byte after the sync code is given to the application,
\* each once, in order, and in the end all.
THEOREM CleanIsDecoded == DecoderSpec => []Decoded
<1>1. DecoderInv => Decoded
  BY InvDecoded DEF Decoded
<1> QED
  BY <1>1, InvInit, InvStep, PTL DEF DecoderSpec
-------------------------------------------------------------------------------
\* The bits of a byte.

BitAt(d, i) == (d \div 2^i) % 2

Weight(d) ==
    ((((((BitAt(d, 0) + BitAt(d, 1)) + BitAt(d, 2)) + BitAt(d, 3)) + BitAt(d, 4))
        + BitAt(d, 5)) + BitAt(d, 6)) + BitAt(d, 7)

LEMMA BitPlaces ==
    /\ 2^0 = 1 /\ 2^1 = 2 /\ 2^2 = 4 /\ 2^3 = 8
    /\ 2^4 = 16 /\ 2^5 = 32 /\ 2^6 = 64 /\ 2^7 = 128
OBVIOUS

LEMMA BitsOfByte ==
    ASSUME NEW d \in 0 .. 255
    PROVE  \A i \in 0 .. 7 : BitAt(d, i) \in {0, 1}
BY BitOfByte DEF BitAt

\* A bit shifted in on top of a byte.
Shifts(x, d, b) ==
    /\ BitAt(x, 7) = b
    /\ \A i \in 0 .. 6 : BitAt(x, i) = BitAt(d, i + 1)
    /\ Weight(x) = (Weight(d) - BitAt(d, 0)) + b
    /\ x \in 0 .. 255

LEMMA ShiftedByte ==
    ASSUME NEW d \in 0 .. 255, NEW b \in {0, 1}, NEW x, x = d \div 2 + 128 * b
    PROVE  Shifts(x, d, b)
<1>1. x \in 0 .. 255
  OBVIOUS
<1>2. BitAt(x, 7) = b
  BY BitPlaces DEF BitAt
<1>3. BitAt(x, 0) = BitAt(d, 1)
  BY BitPlaces DEF BitAt
<1>4. BitAt(x, 1) = BitAt(d, 2)
  BY BitPlaces DEF BitAt
<1>5. BitAt(x, 2) = BitAt(d, 3)
  BY BitPlaces DEF BitAt
<1>6. BitAt(x, 3) = BitAt(d, 4)
  BY BitPlaces DEF BitAt
<1>7. BitAt(x, 4) = BitAt(d, 5)
  BY BitPlaces DEF BitAt
<1>8. BitAt(x, 5) = BitAt(d, 6)
  BY BitPlaces DEF BitAt
<1>9. BitAt(x, 6) = BitAt(d, 7)
  BY BitPlaces DEF BitAt
<1>10. \A i \in 0 .. 6 : BitAt(x, i) = BitAt(d, i + 1)
  BY ONLY <1>3, <1>4, <1>5, <1>6, <1>7, <1>8, <1>9
<1>11. Weight(x) = (Weight(d) - BitAt(d, 0)) + b
  <2>1. \A i \in 0 .. 7 : BitAt(d, i) \in {0, 1}
    BY BitsOfByte
  <2> QED
    BY ONLY <1>2, <1>3, <1>4, <1>5, <1>6, <1>7, <1>8, <1>9, <2>1 DEF Weight
<1> QED
  BY <1>1, <1>2, <1>10, <1>11 DEF Shifts

LEMMA ShiftedBits ==
    ASSUME NEW d \in 0 .. 255, NEW b \in {0, 1}, NEW x, x = d \div 2 + 128 * b
    PROVE  /\ BitAt(x, 7) = b
           /\ \A i \in 0 .. 6 : BitAt(x, i) = BitAt(d, i + 1)
           /\ x \in 0 .. 255
<1>1. Shifts(x, d, b)
  BY ShiftedByte, Zenon
<1> QED
  BY <1>1, Zenon DEF Shifts

\* The sync byte's bits, which no other byte has.
LEMMA SyncByteBits ==
    /\ BitAt(171, 0) = 1 /\ BitAt(171, 1) = 1 /\ BitAt(171, 2) = 0 /\ BitAt(171, 3) = 1
    /\ BitAt(171, 4) = 0 /\ BitAt(171, 5) = 1 /\ BitAt(171, 6) = 0 /\ BitAt(171, 7) = 1
    /\ Weight(171) = 5
    /\ Weight(0) = 0 /\ \A i \in 0 .. 7 : BitAt(0, i) = 0
<1>1. /\ BitAt(171, 0) = 1 /\ BitAt(171, 1) = 1 /\ BitAt(171, 2) = 0 /\ BitAt(171, 3) = 1
      /\ BitAt(171, 4) = 0 /\ BitAt(171, 5) = 1 /\ BitAt(171, 6) = 0 /\ BitAt(171, 7) = 1
  BY BitPlaces DEF BitAt
<1>2. /\ BitAt(0, 0) = 0 /\ BitAt(0, 1) = 0 /\ BitAt(0, 2) = 0 /\ BitAt(0, 3) = 0
      /\ BitAt(0, 4) = 0 /\ BitAt(0, 5) = 0 /\ BitAt(0, 6) = 0 /\ BitAt(0, 7) = 0
  BY BitPlaces DEF BitAt
<1> QED
  BY ONLY <1>1, <1>2 DEF Weight

LEMMA SyncByteFromBits ==
    ASSUME NEW d \in 0 .. 255, \A i \in 0 .. 7 : BitAt(d, i) = BitAt(171, i)
    PROVE  d = 171
<1>1. /\ d % 2 = 1 /\ (d \div 2) % 2 = 1 /\ (d \div 4) % 2 = 0 /\ (d \div 8) % 2 = 1
      /\ (d \div 16) % 2 = 0 /\ (d \div 32) % 2 = 1 /\ (d \div 64) % 2 = 0
      /\ (d \div 128) % 2 = 1
  BY SyncByteBits, BitPlaces DEF BitAt
<1> QED
  BY <1>1

LEMMA SyncBitAt ==
    ASSUME NEW j \in 0 .. 7
    PROVE  SyncBit(j) = BitAt(171, j)
BY SyncByteBits DEF SyncBit
-------------------------------------------------------------------------------
\* From any match, in a bit a, to the first edge: a match is in a one, so all bits
\* up to the first edge are ones.

\* Where in the transmission the sync code was found.
MatchPlace == Pos(t + divisor) - 300 - 600 * Reads

High(a) ==
    /\ a <= TxIndex(t - 1) /\ \A k \in a .. TxIndex(t - 1) : TxBit(k) = 1
    /\ xingcnt <= glitches

\* Bit b, the first zero, has begun.
Falling(a, b) ==
    /\ a < b /\ TxIndex(t - 1) = b /\ TxBit(b) = 0
    /\ \A k \in a .. b - 1 : TxBit(k) = 1
    /\ Pos(t - 1) < 576 * b + 25 * (xingcnt + glitches)

\* Too few bits are in, or too many of them ones, for the byte to look like sync.
NoSyncByte ==
    /\ \A i \in 0 .. 7 : i <= 7 - Reads => BitAt(demod_byte, i) = 0
    /\ Weight(demod_byte) >= (IF Reads <= 8 THEN Reads ELSE 8) - xingcnt

Opening(a) ==
    /\ a \in Nat /\ t > 0 /\ TxIndex(t - 1) < TxBits
    /\ bytesync = FALSE /\ current_sense = 1
    /\ 576 * a <= MatchPlace /\ MatchPlace < 576 * a + 576
    /\ NoSyncByte
    /\ High(a) \/ \E b \in Nat : Falling(a, b)

\* A match begins it.
LEMMA OpeningBegins ==
    ASSUME DecoderType, NEW bit \in {0, 1}, Sample(bit), Search(bit), TxIndex(t) < TxBits,
           insync', NEW a, a = TxIndex(t)
    PROVE  Opening(a)' /\ MatchPlace' = Pos(t)
<1>1. /\ scenario' = scenario /\ t' > 0 /\ TxIndex(t - 1)' = TxIndex(t)
      /\ \A d \in Int : divisor' = d => Pos(t + divisor)' = Pos(t) + 25 + 25 * d
      /\ \A k : TxBit(k)' = TxBit(k)
      /\ TxBits' = TxBits
  BY AfterSample
<1>2. scenario \in Scenarios /\ t \in Nat
  BY DEF DecoderType
<1>3. /\ TxIndex(t) \in Nat /\ Pos(t) \in Nat
      /\ 576 * TxIndex(t) <= Pos(t) /\ Pos(t) < 576 * TxIndex(t) + 576
  BY <1>2, Place
<1>4. /\ ~insync /\ Matches(ShiftedIn(bit)) /\ bytesync' = FALSE
      /\ current_sense' = bit /\ xingcnt' = 0 /\ divisor' = 11 /\ Reads' = 0
      /\ demod_byte' = 0
  BY DEF Search, ForgetBytes, ResetBitClock, Reads, BIT_DIVISOR, SWALLOW_CTR
<1>5. bit = TxBit(TxIndex(t)) /\ glitches' = glitches
  BY <1>4 DEF Sample, Received
<1>6. bit = 1
  <2>1. ShiftedIn(bit)[0 * BIT_DIVISOR + 1] = sync_bits[0 + 1]
    BY <1>4 DEF Matches, N_CORR_BITS
  <2>2. ShiftedIn(bit)[0 * BIT_DIVISOR + 1] = bit
    BY Compared
  <2> QED
    BY <2>1, <2>2 DEF sync_bits
<1>7. MatchPlace' = Pos(t)
  <2>1. Pos(t + divisor)' = Pos(t) + 300
    BY <1>1, <1>3, <1>4
  <2> QED
    BY <1>3, <1>4, <2>1 DEF MatchPlace
<1>8. NoSyncByte'
  BY <1>4, SyncByteBits DEF NoSyncByte
<1>9. glitches \in Nat
  BY DEF DecoderType
<1>10. a \in Nat /\ TxBit(a) = 1
  BY <1>3, <1>5, <1>6
<1>11. High(a)'
  <2>1. \A k \in a .. a : TxBit(k) = 1
    <3>1. \A k \in a .. a : k = a
      BY <1>10
    <3> QED
      BY <1>10, <3>1
  <2> QED
    BY <1>1, <1>4, <1>5, <1>9, <1>10, <2>1 DEF High
<1>12. 576 * a <= MatchPlace' /\ MatchPlace' < 576 * a + 576
  BY <1>3, <1>7, <1>10
<1>13. Opening(a)'
  BY <1>1, <1>4, <1>6, <1>8, <1>10, <1>11, <1>12 DEF Opening
<1> QED
  BY <1>7, <1>13

LEMMA OpeningFacts ==
    ASSUME DecoderType, NEW a, Opening(a)
    PROVE  /\ scenario \in Scenarios /\ a \in Nat /\ t \in Nat /\ t - 1 \in Nat
           /\ Reads \in 0 .. 23 /\ divisor \in 0 .. 23
           /\ xingcnt \in 0 .. 2 /\ glitches \in 0 .. 2
           /\ glitches <= 9 - LongestRun(scenario) /\ LongestRun(scenario) \in 7 .. 9
           /\ TxIndex(t - 1) \in Nat /\ TxIndex(t) \in {TxIndex(t - 1), TxIndex(t - 1) + 1}
           /\ Pos(t - 1) \in Nat /\ Pos(t) = Pos(t - 1) + 25
           /\ Pos(t + divisor) = Pos(t) + 25 * divisor
           /\ Pos(t) + 25 * divisor = (MatchPlace + 300) + 600 * Reads
           /\ MatchPlace \in Int /\ 576 * a <= MatchPlace /\ MatchPlace < 576 * a + 576
           /\ 576 * TxIndex(t - 1) <= Pos(t - 1) /\ Pos(t - 1) < 576 * TxIndex(t - 1) + 576
           /\ 576 * TxIndex(t) <= Pos(t) /\ Pos(t) < 576 * TxIndex(t) + 576
<1>1. a \in Nat /\ t > 0 /\ 576 * a <= MatchPlace /\ MatchPlace < 576 * a + 576
  BY DEF Opening
<1>2. /\ Reads \in 0 .. 23 /\ divisor \in 0 .. 23
      /\ Pos(t - 1) \in Nat /\ Pos(t) = Pos(t - 1) + 25
      /\ Pos(t + divisor) = Pos(t) + 25 * divisor
  BY <1>1, SampleFacts
<1>3. MatchPlace \in Int /\ Pos(t) + 25 * divisor = (MatchPlace + 300) + 600 * Reads
  BY <1>2 DEF MatchPlace
<1> QED
  BY <1>1, <1>3, SampleFacts

\* The signal stays one for no more bits than the scenario allows.
LEMMA OpeningRun ==
    ASSUME DecoderType, NEW a, Opening(a), divisor = 0
    PROVE  Reads <= 8
<1>1. /\ scenario \in Scenarios /\ a \in Nat
      /\ Reads \in 0 .. 23 /\ xingcnt \in 0 .. 2 /\ glitches \in 0 .. 2
      /\ glitches <= 9 - LongestRun(scenario) /\ LongestRun(scenario) \in 7 .. 9
      /\ TxIndex(t - 1) \in Nat /\ Pos(t - 1) \in Nat /\ Pos(t) = Pos(t - 1) + 25
      /\ Pos(t) = (MatchPlace + 300) + 600 * Reads
      /\ MatchPlace \in Int /\ 576 * a <= MatchPlace
      /\ Pos(t - 1) < 576 * TxIndex(t - 1) + 576
  BY OpeningFacts
<1>2. TxIndex(t - 1) < TxBits /\ (High(a) \/ \E b \in Nat : Falling(a, b))
  BY DEF Opening
<1>3. CASE High(a)
  <2>1. a <= TxIndex(t - 1) /\ \A k \in a .. TxIndex(t - 1) : TxBit(k) = 1
    BY <1>3 DEF High
  <2>2. TxIndex(t - 1) - a < LongestRun(scenario)
    BY <1>1, <1>2, <2>1, RunBound, ZenonT(40)
  <2> QED
    BY <1>1, <2>2
<1>4. CASE \E b \in Nat : Falling(a, b)
  <2>1. PICK b \in Nat : Falling(a, b)
    BY <1>4
  <2>2. /\ a < b /\ TxIndex(t - 1) = b
        /\ \A k \in a .. b - 1 : TxBit(k) = 1
        /\ Pos(t - 1) < 576 * b + 25 * (xingcnt + glitches)
    BY <2>1 DEF Falling
  <2>3. TxBits \in Nat
    BY <1>1, ScenarioFacts DEF TxBits, BitsOf, BITSPERBYTE, sent
  <2>4. b - 1 \in Nat /\ a <= b - 1 /\ b - 1 < TxBits
    BY <1>1, <1>2, <2>2, <2>3
  <2>5. (b - 1) - a < LongestRun(scenario)
    <3>1. scenario \in Scenarios /\ a \in Nat
      BY <1>1
    <3>2. \A k \in a .. b - 1 : TxBit(k) = 1
      BY <2>2
    <3> QED
      BY ONLY <2>4, <3>1, <3>2, RunBound
  <2> QED
    BY <1>1, <2>2, <2>5
<1> QED
  BY <1>2, <1>3, <1>4

\* A sample without an edge, for the detector.
LEMMA OpeningDetector ==
    ASSUME DecoderType, NEW bit \in {0, 1}, Sample(bit), Gather(bit), TxIndex(t) < TxBits,
           ~Edge(bit), NEW a, Opening(a)
    PROVE  /\ current_sense' = 1
           /\ \/ TxBit(TxIndex(t)) = 1 /\ High(a) /\ High(a)'
              \/ TxBit(TxIndex(t)) = 0 /\ Falling(a, TxIndex(t - 1))'
           /\ xingcnt' = IF bit = 1 THEN xingcnt ELSE xingcnt + 1
           /\ xingcnt' \in 0 .. 2
<1>1. /\ scenario' = scenario /\ TxIndex(t - 1)' = TxIndex(t) /\ Pos(t - 1)' = Pos(t)
      /\ \A k : TxBit(k)' = TxBit(k)
      /\ TxBit(TxIndex(t)) \in {0, 1}
      /\ \/ bit = TxBit(TxIndex(t)) /\ glitches' = glitches
         \/ bit # TxBit(TxIndex(t)) /\ glitches' = glitches + 1
  BY AfterSample
<1>2. /\ a \in Nat /\ xingcnt \in 0 .. 2 /\ glitches \in 0 .. 2
      /\ TxIndex(t - 1) \in Nat /\ TxIndex(t) \in {TxIndex(t - 1), TxIndex(t - 1) + 1}
      /\ Pos(t - 1) \in Nat /\ Pos(t) = Pos(t - 1) + 25
      /\ Pos(t - 1) < 576 * TxIndex(t - 1) + 576
      /\ 576 * TxIndex(t) <= Pos(t)
  BY OpeningFacts
<1>3. /\ current_sense' = 1
      /\ xingcnt' = IF bit = 1 THEN xingcnt ELSE xingcnt + 1
      /\ xingcnt' \in 0 .. 2
  <2>1. current_sense = 1 /\ EdgeDetect(bit)
    BY DEF Opening, Gather
  <2> QED
    BY <1>2, <2>1 DEF EdgeDetect, Edge, XING_MAX
<1>4. High(a) \/ \E b \in Nat : Falling(a, b)
  BY DEF Opening
<1>5. CASE \E b \in Nat : Falling(a, b)
  <2>1. PICK b \in Nat : Falling(a, b)
    BY <1>5
  <2>2. /\ a < b /\ TxIndex(t - 1) = b /\ TxBit(b) = 0
        /\ \A k \in a .. b - 1 : TxBit(k) = 1
        /\ Pos(t - 1) < 576 * b + 25 * (xingcnt + glitches)
    BY <2>1 DEF Falling
  <2>3. TxIndex(t) = b
    BY <1>2, <2>2
  <2>4. xingcnt' + glitches' = (xingcnt + glitches) + 1
    BY <1>1, <1>2, <1>3, <2>2, <2>3
  <2>5. Pos(t) < 576 * b + 25 * (xingcnt' + glitches')
    BY <1>2, <2>2, <2>4
  <2>6. Falling(a, b)'
    BY <1>1, <2>2, <2>3, <2>5 DEF Falling
  <2> QED
    BY <1>1, <1>3, <2>2, <2>3, <2>6
<1>6. CASE High(a) /\ TxBit(TxIndex(t)) = 1
  <2>1. /\ a <= TxIndex(t - 1) /\ \A k \in a .. TxIndex(t - 1) : TxBit(k) = 1
        /\ xingcnt <= glitches
    BY <1>6 DEF High
  <2>2. \A k \in a .. TxIndex(t) : TxBit(k) = 1
    BY <1>2, <1>6, <2>1
  <2>3. a <= TxIndex(t) /\ xingcnt' <= glitches'
    BY <1>1, <1>2, <1>3, <1>6, <2>1
  <2>4. High(a)'
    BY <1>1, <2>2, <2>3 DEF High
  <2> QED
    BY <1>3, <1>6, <2>4
<1>7. CASE High(a) /\ TxBit(TxIndex(t)) = 0
  <2>1. /\ a <= TxIndex(t - 1) /\ \A k \in a .. TxIndex(t - 1) : TxBit(k) = 1
        /\ xingcnt <= glitches
    BY <1>7 DEF High
  <2>2. PICK b \in Nat : b = TxIndex(t)
    BY <1>2
  <2>3. b = TxIndex(t - 1) + 1
    BY <1>2, <1>7, <2>1, <2>2
  <2>4. a < b /\ \A k \in a .. b - 1 : TxBit(k) = 1
    BY <1>2, <2>1, <2>3
  <2>5. PICK m \in Nat : m = xingcnt' + glitches' /\ m >= 1
    BY <1>1, <1>2, <1>3, <1>7
  <2>6. Pos(t) < 576 * b + 25 * (xingcnt' + glitches')
    <3>1. Pos(t) < 576 * b + 25
      BY <1>2, <2>3
    <3> QED
      BY ONLY <1>2, <2>5, <3>1
  <2>7. Falling(a, b)'
    BY <1>1, <1>7, <2>2, <2>4, <2>6 DEF Falling
  <2> QED
    BY <1>1, <1>3, <1>7, <2>2, <2>7
<1> QED
  BY <1>1, <1>4, <1>5, <1>6, <1>7

\* The bits read before the first edge do not make a sync byte.
LEMMA OpeningRead ==
    ASSUME DecoderType, NEW bit \in {0, 1}, Sample(bit), Gather(bit), TxIndex(t) < TxBits,
           ~Edge(bit), divisor = 0, NEW a, Opening(a)
    PROVE  /\ divisor' = 23 /\ Reads' = Reads + 1 /\ Reads <= 8
           /\ demod_byte' = ShiftIn(bit) /\ bytesync' = FALSE /\ out' = out
           /\ NoSyncByte'
<1>1. /\ xingcnt' = IF bit = 1 THEN xingcnt ELSE xingcnt + 1
      /\ xingcnt' \in 0 .. 2
  BY OpeningDetector
<1>2. Reads \in 0 .. 23 /\ xingcnt \in 0 .. 2 /\ demod_byte \in 0 .. 255
  BY OpeningFacts DEF DecoderType
<1>3. Reads <= 8
  BY OpeningRun
<1>4. divisor' = 23 /\ Reads' = Reads + 1
  <2>1. swallow_ctr \in Nat /\ swallow_ctr > 0
    BY <1>3 DEF Reads, SWALLOW_CTR, DecoderType
  <2> QED
    BY <2>1 DEF Gather, RunBitClock, Reads, SWALLOW_CTR, BIT_DIVISOR
<1>5. /\ \A i \in 0 .. 7 : i <= 7 - Reads => BitAt(demod_byte, i) = 0
      /\ Weight(demod_byte) >= (IF Reads <= 8 THEN Reads ELSE 8) - xingcnt
      /\ bytesync = FALSE
  BY DEF Opening, NoSyncByte
<1>6. PICK x \in 0 .. 255 : x = ShiftIn(bit)
  BY <1>2, ShiftInType
<1>7. /\ BitAt(x, 7) = bit
      /\ \A i \in 0 .. 6 : BitAt(x, i) = BitAt(demod_byte, i + 1)
      /\ Weight(x) = (Weight(demod_byte) - BitAt(demod_byte, 0)) + bit
  <2>1. x = demod_byte \div 2 + 128 * bit
    BY <1>6 DEF ShiftIn
  <2>2. demod_byte \in 0 .. 255
    BY <1>2
  <2> QED
    <3>1. Shifts(x, demod_byte, bit)
      BY ONLY <2>1, <2>2, bit \in {0, 1}, ShiftedByte, Zenon
    <3> QED
      BY <3>1, Zenon DEF Shifts
<1>8. \A i \in 0 .. 7 : i <= 7 - (Reads + 1) => BitAt(x, i) = 0
  <2> SUFFICES ASSUME NEW i \in 0 .. 7, i <= 7 - (Reads + 1) PROVE BitAt(x, i) = 0
    OBVIOUS
  <2>1. i \in 0 .. 6 /\ i + 1 \in 0 .. 7 /\ i + 1 <= 7 - Reads
    BY <1>2
  <2> QED
    BY <1>5, <1>7, <2>1
<1>9. Weight(demod_byte) \in Int /\ BitAt(demod_byte, 0) \in {0, 1}
  <2>1. \A i \in 0 .. 7 : BitAt(demod_byte, i) \in {0, 1}
    BY <1>2, BitsOfByte
  <2> QED
    BY <2>1 DEF Weight
<1>10. Weight(x) >= (IF Reads + 1 <= 8 THEN Reads + 1 ELSE 8) - xingcnt'
  <2>1. CASE Reads <= 7
    <3>1. BitAt(demod_byte, 0) = 0
      BY <1>2, <1>5, <2>1
    <3> QED
      BY <1>1, <1>2, <1>5, <1>7, <1>9, <2>1, <3>1
  <2>2. CASE Reads = 8
    BY <1>1, <1>2, <1>5, <1>7, <1>9, <2>2
  <2> QED
    BY <1>2, <1>3, <2>1, <2>2
<1>11. x # 171
  <2>1. CASE Reads + 1 <= 7
    <3>1. BitAt(x, 0) = 0
      BY <1>2, <1>8, <2>1
    <3> QED
      BY <3>1, SyncByteBits
  <2>2. CASE Reads + 1 > 7
    <3>1. Weight(x) >= 8 - xingcnt'
      BY <1>2, <1>3, <1>10, <2>2
    <3>2. Weight(x) # 5
      BY <1>1, <3>1
    <3> QED
      BY <3>2, SyncByteBits
  <2> QED
    BY <1>2, <2>1, <2>2
<1>12. demod_byte' = ShiftIn(bit) /\ bytesync' = FALSE /\ out' = out
  BY <1>5, <1>6, <1>11 DEF Gather, bit_time, ReceiveBit, SYNC_BYTE
<1>13. NoSyncByte'
  BY <1>4, <1>6, <1>8, <1>10, <1>12 DEF NoSyncByte
<1> QED
  BY <1>3, <1>4, <1>12, <1>13

LEMMA OpeningOn ==
    ASSUME DecoderType, NEW bit \in {0, 1}, Sample(bit), Gather(bit), TxIndex(t) < TxBits,
           ~Edge(bit), NEW a, Opening(a)
    PROVE  Opening(a)' /\ MatchPlace' = MatchPlace
<1>1. /\ t' > 0 /\ TxIndex(t - 1)' = TxIndex(t) /\ TxBits' = TxBits
      /\ \A d \in Int : divisor' = d => Pos(t + divisor)' = Pos(t) + 25 + 25 * d
  BY AfterSample
<1>2. /\ a \in Nat /\ Reads \in 0 .. 23 /\ divisor \in 0 .. 23 /\ xingcnt \in 0 .. 2
      /\ TxIndex(t - 1) \in Nat /\ TxIndex(t) \in {TxIndex(t - 1), TxIndex(t - 1) + 1}
      /\ Pos(t) \in Int
      /\ Pos(t) + 25 * divisor = (MatchPlace + 300) + 600 * Reads
      /\ MatchPlace \in Int /\ 576 * a <= MatchPlace /\ MatchPlace < 576 * a + 576
  BY OpeningFacts
<1>3. /\ current_sense' = 1 /\ xingcnt' \in {xingcnt, xingcnt + 1}
      /\ High(a)' \/ Falling(a, TxIndex(t - 1))'
  BY OpeningDetector
<1>4. High(a)' \/ \E b \in Nat : Falling(a, b)'
  <2>1. PICK b \in Nat : b = TxIndex(t)
    BY <1>2
  <2>2. Falling(a, TxIndex(t - 1))' => Falling(a, b)'
    BY <1>1, <2>1 DEF Falling
  <2> QED
    BY <1>3, <2>2
<1>5. bytesync' = FALSE /\ NoSyncByte' /\ MatchPlace' = MatchPlace
  <2>1. CASE divisor = 0
    <3>1. /\ divisor' = 23 /\ Reads' = Reads + 1 /\ bytesync' = FALSE /\ NoSyncByte'
      BY <2>1, OpeningRead
    <3>2. Pos(t + divisor)' = Pos(t) + 600
      BY <1>1, <1>2, <3>1
    <3> QED
      BY <1>2, <2>1, <3>1, <3>2 DEF MatchPlace
  <2>2. CASE divisor > 0
    <3>1. /\ divisor' = divisor - 1 /\ Reads' = Reads
          /\ bytesync' = bytesync /\ demod_byte' = demod_byte
      BY <1>2, <2>2 DEF Gather, bit_time, bytes, RunBitClock, Reads
    <3>2. Pos(t + divisor)' = Pos(t) + 25 * divisor
      BY <1>1, <1>2, <3>1
    <3>3. MatchPlace' = MatchPlace
      <4>1. MatchPlace' = Pos(t + divisor)' - 300 - 600 * Reads'
        BY DEF MatchPlace
      <4> QED
        BY <1>2, <3>1, <3>2, <4>1
    <3>4. bytesync = FALSE /\ NoSyncByte
      BY DEF Opening
    <3>5. NoSyncByte'
      <4>1. /\ \A i \in 0 .. 7 : i <= 7 - Reads => BitAt(demod_byte, i) = 0
            /\ Weight(demod_byte) >= (IF Reads <= 8 THEN Reads ELSE 8) - xingcnt
        BY <3>4 DEF NoSyncByte
      <4>2. PICK w \in Int : w = Weight(demod_byte)
        <5>1. demod_byte \in 0 .. 255
          BY DEF DecoderType
        <5>2. \A i \in 0 .. 7 : BitAt(demod_byte, i) \in {0, 1}
          BY <5>1, BitsOfByte
        <5> QED
          BY <5>2 DEF Weight
      <4>3. w >= (IF Reads <= 8 THEN Reads ELSE 8) - xingcnt'
        BY <1>2, <1>3, <4>1, <4>2
      <4> QED
        BY <3>1, <4>1, <4>2, <4>3 DEF NoSyncByte
    <3> QED
      BY <3>1, <3>3, <3>4, <3>5
  <2>3. divisor = 0 \/ divisor > 0
    BY <1>2
  <2> QED
    BY <2>1, <2>2, <2>3
<1>6. TxIndex(t - 1)' < TxBits'
  BY <1>1
<1>7. 576 * a <= MatchPlace' /\ MatchPlace' < 576 * a + 576
  BY <1>2, <1>5
<1>8. t' > 0 /\ a \in Nat /\ current_sense' = 1 /\ bytesync' = FALSE /\ NoSyncByte'
  BY <1>1, <1>2, <1>3, <1>5
<1>9. Opening(a)'
  BY ONLY <1>4, <1>6, <1>7, <1>8, Zenon DEF Opening
<1> QED
  BY <1>5, <1>9

\* The first edge locks the clock.
LEMMA OpeningEdge ==
    ASSUME DecoderType, NEW bit \in {0, 1}, Sample(bit), Gather(bit), TxIndex(t) < TxBits,
           Edge(bit), NEW a, Opening(a)
    PROVE  /\ \E q \in Nat :
                /\ TxIndex(t) = q /\ Locked(q)'
                /\ a < q /\ TxBit(q) = 0 /\ \A k \in a .. q - 1 : TxBit(k) = 1
           /\ bytes' = bytes
           /\ glitches' = glitches /\ xingcnt = 2
<1>1. /\ scenario' = scenario /\ t' > 0
      /\ TxIndex(t - 1)' = TxIndex(t) /\ Pos(t - 1)' = Pos(t)
      /\ \A d \in Int : divisor' = d => Pos(t + divisor)' = Pos(t) + 25 + 25 * d
      /\ \A k : TxBit(k)' = TxBit(k)
      /\ TxBits' = TxBits
      /\ \/ bit = TxBit(TxIndex(t)) /\ glitches' = glitches
         \/ /\ bit # TxBit(TxIndex(t)) /\ glitches' = glitches + 1
            /\ glitches' <= 2
  BY AfterSample
<1>2. /\ a \in Nat /\ xingcnt \in 0 .. 2 /\ glitches \in 0 .. 2
      /\ TxIndex(t - 1) \in Nat /\ TxIndex(t) \in {TxIndex(t - 1), TxIndex(t - 1) + 1}
      /\ Pos(t - 1) \in Nat /\ Pos(t) = Pos(t - 1) + 25
      /\ Pos(t - 1) < 576 * TxIndex(t - 1) + 576
      /\ 576 * TxIndex(t) <= Pos(t)
  BY OpeningFacts
<1>3. /\ bit = 0 /\ xingcnt = 2 /\ current_sense' = bit /\ xingcnt' = 0
  <2>1. current_sense = 1
    BY DEF Opening
  <2> QED
    BY <1>2, <2>1 DEF Gather, EdgeDetect, Edge, XING_MAX
<1>4. /\ divisor' = 11 /\ Reads' = 0 /\ bytes' = bytes /\ bytesync' = bytesync
      /\ bytesync = FALSE
  BY DEF Gather, bit_time, bytes, ResetBitClock, Reads, BIT_DIVISOR, SWALLOW_CTR, Opening
<1>5. PICK q \in Nat : q = TxIndex(t)
  BY <1>2
<1>6. /\ a < q /\ TxBit(q) = 0 /\ \A k \in a .. q - 1 : TxBit(k) = 1
      /\ glitches' = glitches /\ Pos(t) < 576 * q + 75 + 25 * glitches
  <2>1. CASE \E b \in Nat : Falling(a, b)
    <3>1. PICK b \in Nat : Falling(a, b)
      BY <2>1
    <3>2. /\ a < b /\ TxIndex(t - 1) = b /\ TxBit(b) = 0
          /\ \A k \in a .. b - 1 : TxBit(k) = 1
          /\ Pos(t - 1) < 576 * b + 25 * (xingcnt + glitches)
      BY <3>1 DEF Falling
    <3>3. q = b
      BY <1>2, <1>5, <3>2
    <3> QED
      BY <1>1, <1>2, <1>3, <1>5, <3>2, <3>3
  <2>2. CASE High(a)
    <3>1. /\ a <= TxIndex(t - 1) /\ \A k \in a .. TxIndex(t - 1) : TxBit(k) = 1
          /\ glitches = 2
      BY <1>2, <1>3, <2>2 DEF High
    <3>2. glitches' = glitches /\ TxBit(q) = 0
      BY <1>1, <1>3, <1>5, <3>1
    <3>3. q = TxIndex(t - 1) + 1
      BY <1>2, <1>5, <3>1, <3>2
    <3>4. a < q /\ \A k \in a .. q - 1 : TxBit(k) = 1
      BY <1>2, <3>1, <3>3
    <3> QED
      BY <1>2, <3>1, <3>2, <3>3, <3>4
  <2> QED
    BY <2>1, <2>2 DEF Opening
<1>7. Steady(q)'
  <2>1. q - Reads' <= TxIndex(t - 1)' /\ xingcnt' <= glitches'
    BY <1>1, <1>2, <1>3, <1>4, <1>5, <1>6
  <2>2. \A k \in q - Reads' .. TxIndex(t - 1)' : TxBit(k)' = current_sense'
    <3>1. q - Reads' = q /\ TxIndex(t - 1)' = q
      BY <1>1, <1>4, <1>5
    <3> QED
      BY <1>1, <1>3, <1>6, <3>1
  <2> QED
    BY <2>1, <2>2 DEF Steady
<1>8. /\ 300 <= Pos(t + divisor)' - 576 * q - 24 * Reads'
      /\ Pos(t + divisor)' - 576 * q - 24 * Reads' < 375 + 25 * glitches'
  <2>1. Pos(t + divisor)' = Pos(t) + 300
    BY <1>1, <1>2, <1>4
  <2> QED
    BY <1>2, <1>4, <1>5, <1>6, <2>1
<1>9. TxIndex(t - 1)' < TxBits' /\ Reads' <= q /\ ~bytesync'
  BY <1>1, <1>4
<1>10. Locked(q)'
  BY <1>1, <1>7, <1>8, <1>9 DEF Locked
<1> QED
  BY <1>3, <1>4, <1>5, <1>6, <1>10
-------------------------------------------------------------------------------
\* What a clean signal makes of the byte before the first edge.

OnesRead == \A i \in 1 .. 8 : i <= Reads => BitAt(demod_byte, 8 - i) = 1

\* Only ones were read, each once; or bit b was read before its edge was detected.
Preread(a) ==
    \/ High(a) /\ OnesRead
    \/ \E b \in Nat :
        /\ Falling(a, b)
        /\ \/ Reads <= b - a /\ OnesRead
           \/ BitAt(demod_byte, 7) = 0 /\ 576 * b <= Pos(t + divisor) - 600

LEMMA PrereadBegins ==
    ASSUME NEW a, Opening(a)', Reads' = 0, High(a)'
    PROVE  Preread(a)'
<1>1. OnesRead'
  BY DEF OnesRead
<1> QED
  BY <1>1 DEF Preread

\* The bits in the byte that shifting in another one leaves there.
LEMMA OnesGrow ==
    ASSUME NEW d \in 0 .. 255, NEW r \in Nat, NEW x, x = d \div 2 + 128 * 1,
           \A i \in 1 .. 8 : i <= r => BitAt(d, 8 - i) = 1
    PROVE  \A i \in 1 .. 8 : i <= r + 1 => BitAt(x, 8 - i) = 1
<1>1. BitAt(x, 7) = 1 /\ \A i \in 0 .. 6 : BitAt(x, i) = BitAt(d, i + 1)
  BY ShiftedBits, ZenonT(40)
<1> SUFFICES ASSUME NEW i \in 1 .. 8, i <= r + 1 PROVE BitAt(x, 8 - i) = 1
  OBVIOUS
<1>2. CASE i = 1
  BY <1>1, <1>2
<1>3. CASE i # 1
  <2>1. 8 - i \in 0 .. 6 /\ i - 1 \in 1 .. 8 /\ i - 1 <= r /\ (8 - i) + 1 = 8 - (i - 1)
    BY <1>3
  <2> QED
    BY <1>1, <2>1
<1> QED
  BY <1>2, <1>3, SMTT(40)

LEMMA PrereadOn ==
    ASSUME DecoderType, NEW bit \in {0, 1}, Sample(bit), Gather(bit), TxIndex(t) < TxBits,
           ~Edge(bit), NEW a, Opening(a), glitches' = 0, Preread(a)
    PROVE  Preread(a)'
<1>1. /\ scenario' = scenario /\ TxIndex(t - 1)' = TxIndex(t) /\ Pos(t - 1)' = Pos(t)
      /\ \A d \in Int : divisor' = d => Pos(t + divisor)' = Pos(t) + 25 + 25 * d
      /\ bit = TxBit(TxIndex(t))
  <2>1. glitches \in Nat
    BY DEF DecoderType
  <2> QED
    BY <2>1, AfterSample
<1>2. /\ a \in Nat /\ Reads \in 0 .. 23 /\ divisor \in 0 .. 23
      /\ TxIndex(t - 1) \in Nat /\ TxIndex(t) \in {TxIndex(t - 1), TxIndex(t - 1) + 1}
      /\ TxIndex(t) \in Nat
      /\ Pos(t) \in Int
      /\ Pos(t) + 25 * divisor = (MatchPlace + 300) + 600 * Reads
      /\ Pos(t + divisor) = Pos(t) + 25 * divisor
      /\ MatchPlace \in Int /\ 576 * a <= MatchPlace
      /\ 576 * TxIndex(t) <= Pos(t)
      /\ Pos(t) - 25 < 576 * TxIndex(t - 1) + 576
  <2>1. Pos(t) = Pos(t - 1) + 25 /\ Pos(t - 1) \in Nat
        /\ Pos(t - 1) < 576 * TxIndex(t - 1) + 576
    BY OpeningFacts
  <2> QED
    BY <2>1, OpeningFacts
<1>3. \/ TxBit(TxIndex(t)) = 1 /\ High(a) /\ High(a)'
      \/ TxBit(TxIndex(t)) = 0 /\ Falling(a, TxIndex(t - 1))'
  BY OpeningDetector
<1>4. ASSUME NEW b \in Nat, Falling(a, b) PROVE ~High(a) /\ TxIndex(t - 1) = b /\ TxBit(b) = 0
  <2>1. TxIndex(t - 1) = b /\ TxBit(b) = 0 /\ a < b
    BY <1>4 DEF Falling
  <2> QED
    BY <1>2, <2>1 DEF High
<1>5. PICK b \in Nat : b = TxIndex(t)
  BY <1>2
<1>6. CASE TxBit(TxIndex(t)) = 1
  <2>1. High(a) /\ High(a)' /\ OnesRead /\ bit = 1
    BY <1>1, <1>3, <1>4, <1>6 DEF Preread
  <2>2. CASE divisor = 0
    <3>1. Reads' = Reads + 1 /\ demod_byte' = ShiftIn(bit)
      BY <2>2, OpeningRead
    <3>2. demod_byte \in 0 .. 255 /\ Reads \in Nat
      <4>1. demod_byte \in 0 .. 255
        BY DEF DecoderType
      <4> QED
        BY <1>2, <4>1
    <3>3. demod_byte' = demod_byte \div 2 + 128 * 1
      BY <2>1, <3>1 DEF ShiftIn
    <3>4. OnesRead'
      BY <2>1, <3>1, <3>2, <3>3, OnesGrow DEF OnesRead
    <3> QED
      BY <2>1, <3>4 DEF Preread
  <2>3. CASE divisor > 0
    <3>1. Reads' = Reads /\ demod_byte' = demod_byte
      BY <1>2, <2>3 DEF Gather, bit_time, bytes, RunBitClock, Reads
    <3>2. OnesRead'
      BY <2>1, <3>1 DEF OnesRead
    <3> QED
      BY <2>1, <3>2 DEF Preread
  <2> QED
    BY <1>2, <2>2, <2>3
<1>7. CASE TxBit(TxIndex(t)) = 0
  <2>1. Falling(a, b)' /\ bit = 0
    BY <1>1, <1>3, <1>5, <1>7 DEF Falling
  <2>2. CASE divisor = 0
    <3>1. /\ divisor' = 23 /\ demod_byte' = ShiftIn(bit)
      BY <2>2, OpeningRead, Zenon
    <3>2. Pos(t + divisor)' - 600 = Pos(t)
      BY <1>1, <1>2, <3>1
    <3>3. demod_byte \in 0 .. 255 /\ demod_byte' = demod_byte \div 2 + 128 * 0
      BY <2>1, <3>1, SMTT(40) DEF ShiftIn, DecoderType
    <3>4. BitAt(demod_byte', 7) = 0
      BY ONLY <3>3, ShiftedBits
    <3>5. 576 * b <= Pos(t + divisor)' - 600
      BY <1>2, <1>5, <3>2
    <3> QED
      BY <2>1, <3>4, <3>5 DEF Preread
  <2>3. CASE divisor > 0
    <3>1. Reads' = Reads /\ demod_byte' = demod_byte /\ divisor' = divisor - 1
      BY <1>2, <2>3 DEF Gather, bit_time, bytes, RunBitClock, Reads
    <3>2. Pos(t + divisor)' = Pos(t + divisor)
      BY <1>1, <1>2, <3>1
    <3>3. CASE High(a)
      <4>1. OnesRead
        BY <1>4, <3>3 DEF Preread
      <4>2. TxIndex(t) = TxIndex(t - 1) + 1 /\ a <= TxIndex(t - 1)
        <5>1. a <= TxIndex(t - 1) /\ TxBit(TxIndex(t - 1)) = 1
          BY <1>2, <3>3 DEF High
        <5> QED
          BY <1>2, <1>7, <5>1
      <4>3. Pos(t) - 25 < 576 * b /\ a < b
        BY <1>2, <1>5, <4>2
      <4>4. Reads <= b - a
        BY ONLY <1>2, <4>3
      <4>5. OnesRead'
        BY <3>1, <4>1 DEF OnesRead
      <4> QED
        BY <2>1, <3>1, <4>4, <4>5 DEF Preread
    <3>4. CASE ~High(a)
      <4>1. PICK c \in Nat :
              /\ Falling(a, c)
              /\ \/ Reads <= c - a /\ OnesRead
                 \/ BitAt(demod_byte, 7) = 0 /\ 576 * c <= Pos(t + divisor) - 600
        BY <3>4 DEF Preread
      <4>2. c = b
        <5>1. TxIndex(t - 1) = c /\ Pos(t - 1) < 576 * c + 25 * (xingcnt + glitches)
          BY <4>1 DEF Falling
        <5>2. /\ xingcnt \in 0 .. 2 /\ glitches \in 0 .. 2
              /\ Pos(t - 1) \in Nat /\ Pos(t) = Pos(t - 1) + 25
          BY OpeningFacts
        <5> QED
          BY <1>2, <1>5, <5>1, <5>2
      <4>3. OnesRead => OnesRead'
        BY <3>1 DEF OnesRead
      <4> QED
        BY <2>1, <3>1, <3>2, <4>1, <4>2, <4>3 DEF Preread
    <3> QED
      BY <3>3, <3>4
  <2> QED
    BY <1>2, <2>2, <2>3
<1> QED
  BY <1>3, <1>6, <1>7
-------------------------------------------------------------------------------
\* A message that is still to come.

Coming(p) ==
    /\ cleared /\ p \in 1 .. Len(sent) - 3
    /\ \A i \in p .. p + 2 : sent[i] = SYNC_BYTE
    /\ Pos(since) <= 4608 * (p - 1)

\* Its first two sync bytes match here, if nothing did before.
MatchBy(p) == 576 * (8 * p + 7) + 25

LEMMA MessageFacts ==
    ASSUME scenario \in Scenarios
    PROVE  sent \in Seq(0 .. 255) /\ Len(sent) \in Nat /\ TxBits = 8 * Len(sent)
BY ScenarioFacts DEF sent, TxBits, BitsOf, BITSPERBYTE

LEMMA ByteBits ==
    ASSUME NEW k \in Nat, NEW j \in 0 .. 7
    PROVE  TxBit(8 * k + j) = BitAt(sent[k + 1], j)
<1>1. (8 * k + j) \div 8 = k /\ (8 * k + j) % 8 = j
  OBVIOUS
<1> QED
  BY <1>1 DEF TxBit, BitOf, BITSPERBYTE, BitAt

LEMMA ComingBits ==
    ASSUME NEW p \in Nat, Coming(p), NEW j \in 0 .. 23
    PROVE  p >= 1 /\ TxBit(8 * (p - 1) + j) = SyncBit(j % 8)
<1>1. p >= 1 /\ sent[p] = 171 /\ sent[p + 1] = 171 /\ sent[p + 2] = 171
  BY DEF Coming, SYNC_BYTE
<1>2. CASE j \in 0 .. 7
  <2>1. p - 1 \in Nat /\ (p - 1) + 1 = p /\ j % 8 = j
    BY <1>1, <1>2
  <2>2. TxBit(8 * (p - 1) + j) = BitAt(171, j)
    BY <1>1, <1>2, <2>1, ByteBits, SMTT(40)
  <2> QED
    BY <1>1, <1>2, <2>1, <2>2, SyncBitAt
<1>3. CASE j \in 8 .. 15
  <2>1. j - 8 \in 0 .. 7 /\ j % 8 = j - 8 /\ 8 * (p - 1) + j = 8 * p + (j - 8)
    BY <1>1, <1>3
  <2>2. TxBit(8 * p + (j - 8)) = BitAt(171, j - 8)
    BY <1>1, <2>1, ByteBits
  <2> QED
    BY <1>1, <2>1, <2>2, SyncBitAt
<1>4. CASE j \in 16 .. 23
  <2>1. /\ j - 16 \in 0 .. 7 /\ j % 8 = j - 16
        /\ 8 * (p - 1) + j = 8 * (p + 1) + (j - 16) /\ p + 1 \in Nat /\ (p + 1) + 1 = p + 2
    BY <1>1, <1>4
  <2>2. TxBit(8 * (p + 1) + (j - 16)) = BitAt(171, j - 16)
    <3>1. PICK k \in Nat : k = p + 1 /\ sent[k + 1] = 171
      BY <1>1, <2>1
    <3>2. TxBit(8 * k + (j - 16)) = BitAt(sent[k + 1], j - 16)
      BY <2>1, ByteBits
    <3> QED
      BY <3>1, <3>2
  <2> QED
    BY <1>1, <2>1, <2>2, SyncBitAt
<1> QED
  BY <1>2, <1>3, <1>4

LEMMA ComingKept ==
    ASSUME NEW p, scenario' = scenario, cleared' = cleared, since' = since
    PROVE  Coming(p)' = Coming(p)
BY DEF Coming, sent, Pos

\* A run of ones that began where a match in the message's sync bytes may.
LEMMA ComingRun ==
    ASSUME NEW p \in Nat, Coming(p), NEW a \in Nat, NEW b \in Nat, a < b, a <= 8 * p + 7,
           TxBit(b) = 0, \A k \in a .. b - 1 : TxBit(k) = 1
    PROVE  \/ b <= 8 * p + 6
           \/ a = 8 * p + 7 /\ b = 8 * p + 10
<1>1. /\ TxBit(8 * p + 6) = 0 /\ TxBit(8 * p + 8) = 1
      /\ TxBit(8 * p + 9) = 1 /\ TxBit(8 * p + 10) = 0
  <2>1. \A j \in 0 .. 23 : p >= 1 /\ TxBit(8 * (p - 1) + j) = SyncBit(j % 8)
    BY ComingBits
  <2>2. /\ 8 * (p - 1) + 14 = 8 * p + 6 /\ 8 * (p - 1) + 16 = 8 * p + 8
        /\ 8 * (p - 1) + 17 = 8 * p + 9 /\ 8 * (p - 1) + 18 = 8 * p + 10
    OBVIOUS
  <2>3. TxBit(8 * (p - 1) + 14) = SyncBit(6) /\ TxBit(8 * (p - 1) + 16) = SyncBit(0)
    BY <2>1
  <2>4. TxBit(8 * (p - 1) + 17) = SyncBit(1) /\ TxBit(8 * (p - 1) + 18) = SyncBit(2)
    BY <2>1
  <2> QED
    BY <2>2, <2>3, <2>4 DEF SyncBit
<1>2. CASE a <= 8 * p + 6
  <2>1. b > 8 * p + 6 => 8 * p + 6 \in a .. b - 1
    BY <1>2
  <2> QED
    BY <1>1, <2>1
<1>3. CASE a = 8 * p + 7
  <2>1. b > 8 * p + 10 => 8 * p + 10 \in a .. b - 1
    BY <1>3
  <2>2. b # 8 * p + 8 /\ b # 8 * p + 9 /\ b <= 8 * p + 10
    BY <1>1, <2>1
  <2>3. b = 8 * p + 10
    BY <1>3, <2>2
  <2> QED
    BY <1>3, <2>3
<1> QED
  BY <1>2, <1>3

\* Bit q is due, and no sync byte is found: the last m bits are in the byte, which
\* below them is blank, or has one zero twice.
Window(q, m) ==
    /\ m \in 0 .. 8 /\ m <= q
    /\ \A i \in 1 .. m : BitAt(demod_byte, 8 - i) = TxBit(q - i)
    /\ m < 8 => \/ \A i \in 0 .. 7 - m : BitAt(demod_byte, i) = 0
                \/ BitAt(demod_byte, 7 - m) = 0 /\ TxBit(q - m) = 0

\* They reach back to the last sync byte of the message to come.
Reaching(q, m, p) == q <= 8 * p + 15 /\ (m = 8 \/ q - m <= 8 * p + 8)

Hunting(q, m) == Window(q, m) /\ \A p \in Nat : Coming(p) => Reaching(q, m, p)

MatchInTime == \A p \in Nat : Coming(p) => MatchPlace < MatchBy(p)

\* At the first edge.
LEMMA HuntingBegins ==
    ASSUME DecoderType, NEW bit \in {0, 1}, Sample(bit), Gather(bit), TxIndex(t) < TxBits,
           Edge(bit), NEW a, Opening(a), Preread(a), MatchInTime, glitches' = 0,
           NEW q \in Nat, TxIndex(t) = q
    PROVE  \E m \in 0 .. 8 : Hunting(q, m)'
<1>1. /\ scenario' = scenario /\ (\A k : TxBit(k)' = TxBit(k))
      /\ cleared' = cleared /\ since' = since
  BY AfterSample, SampleType
<1>2. glitches = 0 /\ xingcnt = 2 /\ demod_byte' = demod_byte
  BY OpeningEdge DEF bytes
<1>3. /\ a \in Nat /\ Reads \in 0 .. 23 /\ divisor \in 0 .. 23
      /\ TxIndex(t) \in {TxIndex(t - 1), TxIndex(t - 1) + 1}
      /\ Pos(t) \in Int /\ Pos(t - 1) \in Int /\ Pos(t) = Pos(t - 1) + 25
      /\ Pos(t) + 25 * divisor = (MatchPlace + 300) + 600 * Reads
      /\ Pos(t + divisor) = Pos(t) + 25 * divisor
      /\ MatchPlace \in Int /\ 576 * a <= MatchPlace
      /\ 576 * q <= Pos(t)
  BY OpeningFacts
<1>4. PICK b \in Nat :
        /\ Falling(a, b)
        /\ \/ Reads <= b - a /\ OnesRead
           \/ BitAt(demod_byte, 7) = 0 /\ 576 * b <= Pos(t + divisor) - 600
  <2>1. ~High(a)
    BY <1>2 DEF High
  <2> QED
    BY <2>1 DEF Preread
<1>5. /\ a < b /\ TxIndex(t - 1) = b /\ TxBit(b) = 0
      /\ \A k \in a .. b - 1 : TxBit(k) = 1
      /\ Pos(t - 1) < 576 * b + 50
  BY <1>2, <1>4 DEF Falling
<1>6. q = b
  BY <1>3, <1>5
<1>7. ASSUME NEW p \in Nat, Coming(p)
      PROVE  \/ b <= 8 * p + 6
             \/ a = 8 * p + 7 /\ b = 8 * p + 10 /\ MatchPlace < 576 * a + 25
  <2>1. MatchPlace < 576 * (8 * p + 7) + 25
    BY <1>7 DEF MatchInTime, MatchBy
  <2>2. a <= 8 * p + 7
    BY <1>3, <2>1
  <2>3. b <= 8 * p + 6 \/ (a = 8 * p + 7 /\ b = 8 * p + 10)
    BY <1>3, <1>5, <1>7, <2>2, ComingRun
  <2> QED
    BY <2>1, <2>3
<1>8. CASE Reads <= b - a /\ OnesRead
  <2>1. PICK m \in 0 .. 8 : m = IF Reads <= 8 THEN Reads ELSE 8
    BY <1>3
  <2>2. m <= b /\ m <= Reads
    BY <1>3, <1>8, <2>1
  <2>3. ASSUME NEW i \in 1 .. m PROVE BitAt(demod_byte, 8 - i) = TxBit(b - i)
    <3>1. i \in 1 .. 8 /\ i <= Reads
      BY <1>3, <2>1, <2>2
    <3>2. b - i \in a .. b - 1
      BY <1>3, <1>8, <3>1
    <3> QED
      BY <1>5, <1>8, <3>1, <3>2 DEF OnesRead
  <2>4. m < 8 => \A i \in 0 .. 7 - m : BitAt(demod_byte, i) = 0
    <3>1. \A i \in 0 .. 7 : i <= 7 - Reads => BitAt(demod_byte, i) = 0
      BY DEF Opening, NoSyncByte
    <3>2. m < 8 => m = Reads
      BY <1>3, <2>1
    <3> QED
      BY <2>1, <3>1, <3>2
  <2>5. Window(q, m)'
    BY <1>1, <1>2, <1>6, <2>1, <2>2, <2>3, <2>4 DEF Window
  <2>6. ASSUME NEW p \in Nat, Coming(p) PROVE Reaching(q, m, p)
    <3>1. CASE b <= 8 * p + 6
      BY <1>6, <2>1, <3>1 DEF Reaching
    <3>2. CASE a = 8 * p + 7 /\ b = 8 * p + 10 /\ MatchPlace < 576 * a + 25
      <4>1. Reads >= 3
        BY <1>3, <1>6, <3>2
      <4>2. m >= 3
        BY <1>3, <2>1, <4>1
      <4> QED
        BY <1>6, <2>1, <3>2, <4>2 DEF Reaching
    <3> QED
      BY <1>7, <2>6, <3>1, <3>2
  <2>7. \A p \in Nat : Coming(p)' => Reaching(q, m, p)
    BY <1>1, <2>6, ComingKept
  <2> QED
    BY <2>1, <2>5, <2>7 DEF Hunting, Reaching
<1>9. CASE BitAt(demod_byte, 7) = 0 /\ 576 * b <= Pos(t + divisor) - 600
  <2>1. Window(q, 0)'
    <3>1. \A i \in 1 .. 0 : FALSE
      OBVIOUS
    <3>2. BitAt(demod_byte', 7 - 0) = 0 /\ TxBit(q - 0)' = 0
      <4>1. q - 0 = q /\ 7 - 0 = 7
        OBVIOUS
      <4> QED
        BY <1>1, <1>2, <1>5, <1>6, <1>9, <4>1
    <3> QED
      BY <3>1, <3>2 DEF Window
  <2>2. ASSUME NEW p \in Nat, Coming(p) PROVE Reaching(q, 0, p)
    <3>1. ~(a = 8 * p + 7 /\ b = 8 * p + 10 /\ MatchPlace < 576 * a + 25)
      <4>1. (Pos(t) + 25 * divisor) - 600 <= Pos(t) - 25
        BY <1>3
      <4> QED
        BY <1>3, <1>5, <1>9, <4>1
    <3>2. b <= 8 * p + 6
      BY <1>7, <2>2, <3>1
    <3> QED
      BY <1>6, <3>2 DEF Reaching
  <2>3. \A p \in Nat : Coming(p)' => Reaching(q, 0, p)
    BY <1>1, <2>2, ComingKept
  <2> QED
    BY <2>1, <2>3 DEF Hunting, Reaching
<1> QED
  BY <1>4, <1>8, <1>9

\* A bit that is read goes into the window.
LEMMA WindowGrows ==
    ASSUME DecoderType, NEW q \in Nat, NEW bit \in {0, 1}, bit = TxBit(q),
           NEW m, Window(q, m), NEW x, x = ShiftIn(bit),
           NEW w \in 0 .. 8, w = IF m < 8 THEN m + 1 ELSE 8
    PROVE  /\ w >= 1 /\ w <= q + 1
           /\ \A i \in 1 .. w : BitAt(x, 8 - i) = TxBit((q + 1) - i)
           /\ w < 8 => \/ \A i \in 0 .. 7 - w : BitAt(x, i) = 0
                       \/ BitAt(x, 7 - w) = 0 /\ TxBit((q + 1) - w) = 0
           /\ x \in 0 .. 255
<1>1. /\ m \in 0 .. 8 /\ m <= q
      /\ \A i \in 1 .. m : BitAt(demod_byte, 8 - i) = TxBit(q - i)
      /\ m < 8 => \/ \A i \in 0 .. 7 - m : BitAt(demod_byte, i) = 0
                  \/ BitAt(demod_byte, 7 - m) = 0 /\ TxBit(q - m) = 0
  BY DEF Window
<1>2. /\ BitAt(x, 7) = bit
      /\ \A i \in 0 .. 6 : BitAt(x, i) = BitAt(demod_byte, i + 1)
      /\ x \in 0 .. 255
  <2>1. demod_byte \in 0 .. 255 /\ x = demod_byte \div 2 + 128 * bit
    BY DEF DecoderType, ShiftIn
  <2> QED
    <3>1. Shifts(x, demod_byte, bit)
      BY ONLY <2>1, bit \in {0, 1}, ShiftedByte, Zenon
    <3> QED
      BY <3>1, Zenon DEF Shifts
<1>3. w >= 1 /\ w <= q + 1
  BY <1>1
<1>4. ASSUME NEW i \in 1 .. w PROVE BitAt(x, 8 - i) = TxBit((q + 1) - i)
  <2>1. CASE i = 1
    <3>1. 8 - i = 7 /\ (q + 1) - i = q
      BY <2>1
    <3> QED
      BY <1>2, <3>1
  <2>2. CASE i # 1
    <3>1. /\ 8 - i \in 0 .. 6 /\ i - 1 \in 1 .. m
          /\ (8 - i) + 1 = 8 - (i - 1) /\ (q + 1) - i = q - (i - 1)
      BY <1>1, <2>2
    <3> QED
      BY <1>1, <1>2, <3>1
  <2> QED
    BY <2>1, <2>2
<1>5. ASSUME w < 8
      PROVE  \/ \A i \in 0 .. 7 - w : BitAt(x, i) = 0
             \/ BitAt(x, 7 - w) = 0 /\ TxBit((q + 1) - w) = 0
  <2>1. m < 8 /\ w = m + 1 /\ m \in 0 .. 6
    BY <1>1, <1>5
  <2>2. CASE \A i \in 0 .. 7 - m : BitAt(demod_byte, i) = 0
    <3>1. ASSUME NEW i \in 0 .. 7 - w PROVE BitAt(x, i) = 0
      <4>1. i \in 0 .. 6 /\ i + 1 \in 0 .. 7 - m
        BY <2>1
      <4> QED
        BY <1>2, <2>2, <4>1
    <3> QED
      BY <3>1
  <2>3. CASE BitAt(demod_byte, 7 - m) = 0 /\ TxBit(q - m) = 0
    <3>1. 7 - w \in 0 .. 6 /\ (7 - w) + 1 = 7 - m /\ (q + 1) - w = q - m
      BY <2>1
    <3> QED
      BY <1>2, <2>3, <3>1
  <2> QED
    BY <1>1, <2>1, <2>2, <2>3
<1> QED
  BY <1>2, <1>3, <1>4, <1>5

\* When the byte looks like sync all its bits were received.
LEMMA WindowFull ==
    ASSUME NEW q \in Nat, NEW w \in 1 .. 8,
           \A i \in 1 .. w : BitAt(171, 8 - i) = TxBit((q + 1) - i),
           w < 8 => \/ \A i \in 0 .. 7 - w : BitAt(171, i) = 0
                    \/ BitAt(171, 7 - w) = 0 /\ TxBit((q + 1) - w) = 0
    PROVE  w = 8
<1> SUFFICES ASSUME w < 8 PROVE FALSE
  OBVIOUS
<1>1. ~(\A i \in 0 .. 7 - w : BitAt(171, i) = 0)
  <2>1. 0 \in 0 .. 7 - w
    OBVIOUS
  <2> QED
    BY <2>1, SyncByteBits
<1>2. BitAt(171, 7 - w) = 0 /\ BitAt(171, 8 - w) = 0
  BY <1>1
<1>3. w \in {1, 2, 3, 4, 5, 6, 7}
  OBVIOUS
<1>4. CASE w = 1
  BY <1>2, <1>4, SyncByteBits
<1>5. CASE w = 2
  BY <1>2, <1>5, SyncByteBits
<1>6. CASE w = 3
  BY <1>2, <1>6, SyncByteBits
<1>7. CASE w = 4
  BY <1>2, <1>7, SyncByteBits
<1>8. CASE w = 5
  BY <1>2, <1>8, SyncByteBits
<1>9. CASE w = 6
  BY <1>2, <1>9, SyncByteBits
<1>10. CASE w = 7
  BY <1>2, <1>10, SyncByteBits
<1> QED
  BY <1>3, <1>4, <1>5, <1>6, <1>7, <1>8, <1>9, <1>10

\* Bytes are cut where the transmitter cut them, and reach back to the last sync byte.
Bytewise(q, f, e) == Whole(q, f, e) /\ \A p \in Nat : Coming(p) => f + e <= p + 1

Reading(q) ==
    \/ bytesync = FALSE /\ \E m \in 0 .. 8 : Hunting(q, m)
    \/ bytesync = TRUE /\ (Unambiguous => \E f \in Nat, e \in Int : Bytewise(q, f, e))

\* What eight bits that make the sync byte are, in an unambiguous transmission.
LEMMA SyncByteSent ==
    ASSUME scenario \in Scenarios, Unambiguous, NEW q \in Nat, q < TxBits, q >= 7,
           \A i \in 1 .. 8 : BitAt(171, 8 - i) = TxBit((q + 1) - i)
    PROVE  \E k \in Nat : q = 8 * k + 7 /\ k + 1 \in 1 .. Len(sent) /\ sent[k + 1] = 171
<1>1. sent \in Seq(0 .. 255) /\ Len(sent) \in Nat /\ TxBits = 8 * Len(sent)
  BY MessageFacts
<1>2. q - 7 \in 0 .. TxBits - 8
  BY <1>1
<1>3. ASSUME NEW i \in 0 .. 7 PROVE TxBit((q - 7) + i) = BitAt(171, i)
  <2>1. 8 - i \in 1 .. 8 /\ 8 - (8 - i) = i /\ (q + 1) - (8 - i) = (q - 7) + i
    OBVIOUS
  <2> QED
    BY <2>1
<1>4. (q - 7) % 8 = 0
  BY <1>2, <1>3 DEF Unambiguous, BITSPERBYTE, SYNC_BYTE, BitAt
<1>5. PICK k \in Nat : q - 7 = 8 * k
  <2>1. \A x \in Nat : x % 8 = 0 => x \div 8 \in Nat /\ x = 8 * (x \div 8)
    OBVIOUS
  <2>2. PICK x \in Nat : x = q - 7
    OBVIOUS
  <2>3. x \div 8 \in Nat /\ x = 8 * (x \div 8)
    BY <1>4, <2>1, <2>2
  <2> QED
    BY <2>2, <2>3
<1>6. q = 8 * k + 7 /\ k + 1 \in 1 .. Len(sent)
  BY <1>1, <1>5
<1>7. PICK d \in 0 .. 255 : d = sent[k + 1]
  BY <1>1, <1>6, ElementOfSeq
<1>8. \A i \in 0 .. 7 : BitAt(d, i) = BitAt(171, i)
  BY <1>3, <1>5, <1>7, ByteBits
<1>9. d = 171
  BY <1>8, SyncByteFromBits
<1>10. q = 8 * k + 7 /\ k + 1 \in 1 .. Len(sent) /\ sent[k + 1] = 171
  BY ONLY <1>6, <1>7, <1>9
<1> QED
  BY <1>10, ZenonT(40)

\* A bit is read in search of a sync byte.
LEMMA HuntingRead ==
    ASSUME DecoderType, NEW q \in Nat, NEW bit \in {0, 1}, ReceiveBit(bit),
           scenario' = scenario, cleared' = cleared, since' = since,
           bit = TxBit(q), q < TxBits, bytesync = FALSE, NEW m \in 0 .. 8, Hunting(q, m)
    PROVE  /\ Reading(q + 1)'
           /\ out' # out /\ Unambiguous =>
                /\ q % 8 = 7 /\ q \div 8 + 1 \in 1 .. Len(sent)
                /\ out' = Append(out, sent[q \div 8 + 1])
<1>1. /\ scenario \in Scenarios /\ out \in Seq(0 .. 255) /\ Len(out) \in Nat
  BY DEF DecoderType
<1>2. sent \in Seq(0 .. 255) /\ Len(sent) \in Nat /\ TxBits = 8 * Len(sent)
  BY <1>1, MessageFacts
<1>3. /\ TxBits' = TxBits /\ sent' = sent /\ (\A k : TxBit(k)' = TxBit(k))
      /\ Unambiguous' = Unambiguous
  BY SameSignal DEF sent, Unambiguous, TxBits, TxBit
<1>4. PICK x \in 0 .. 255 : x = ShiftIn(bit)
  <2>1. demod_byte \in 0 .. 255
    BY DEF DecoderType
  <2> QED
    BY <2>1, ShiftInType
<1>5. PICK w \in 0 .. 8 : w = IF m < 8 THEN m + 1 ELSE 8
  OBVIOUS
<1>6. Window(q, m) /\ \A p \in Nat : Coming(p) => Reaching(q, m, p)
  BY DEF Hunting
<1>7. /\ w >= 1 /\ w <= q + 1
      /\ \A i \in 1 .. w : BitAt(x, 8 - i) = TxBit((q + 1) - i)
      /\ w < 8 => \/ \A i \in 0 .. 7 - w : BitAt(x, i) = 0
                  \/ BitAt(x, 7 - w) = 0 /\ TxBit((q + 1) - w) = 0
  BY <1>4, <1>5, <1>6, WindowGrows
<1>8. CASE x = 171
  <2>1. demod_byte' = x /\ bytesync' = TRUE /\ bitctr' = 0 /\ out' = Append(out, 171)
    BY <1>4, <1>8 DEF ReceiveBit, SYNC_BYTE
  <2>2. w = 8
    BY <1>7, <1>8, WindowFull
  <2>3. ASSUME Unambiguous
        PROVE  \E k \in Nat : q = 8 * k + 7 /\ k + 1 \in 1 .. Len(sent) /\ sent[k + 1] = 171
    <3>1. q >= 7 /\ \A i \in 1 .. 8 : BitAt(171, 8 - i) = TxBit((q + 1) - i)
      BY <1>7, <1>8, <2>2
    <3> QED
      BY <1>1, <2>3, <3>1, SyncByteSent
  <2>4. ASSUME Unambiguous
        PROVE  /\ q % 8 = 7 /\ q \div 8 + 1 \in 1 .. Len(sent)
               /\ out' = Append(out, sent[q \div 8 + 1])
    <3>1. PICK k \in Nat : q = 8 * k + 7 /\ k + 1 \in 1 .. Len(sent) /\ sent[k + 1] = 171
      BY <2>3, <2>4
    <3>2. q % 8 = 7 /\ q \div 8 = k
      BY <3>1
    <3> QED
      BY <2>1, <3>1, <3>2
  <2>5. ASSUME Unambiguous
        PROVE  \E f \in Nat, e \in Int : Bytewise(q + 1, f, e)'
    <3>1. PICK k \in Nat : q = 8 * k + 7 /\ k + 1 \in 1 .. Len(sent) /\ sent[k + 1] = 171
      BY <2>3, <2>5
    <3>2. PICK f \in Nat, e \in Int : f = Len(out) /\ e = k - Len(out)
      <4>1. Len(out) \in Nat /\ k - Len(out) \in Int
        BY <1>1
      <4> QED
        BY ONLY <4>1, Zenon
    <3>3. Len(out') = f + 1 /\ out'[f + 1] = 171
      <4>1. 171 \in 0 .. 255
        OBVIOUS
      <4> QED
        BY <1>1, <2>1, <3>2, <4>1, Appended
    <3>4. q + 1 = 8 * (Len(out') + e) + bitctr' /\ q + 1 <= TxBits'
      BY <1>1, <1>2, <1>3, <2>1, <3>1, <3>2, <3>3
    <3>5. \A i \in f + 1 .. Len(out') : out'[i] = sent'[i + e]
      <4>1. \A i \in f + 1 .. Len(out') : i = f + 1 /\ i + e = k + 1
        BY <1>1, <3>2, <3>3
      <4> QED
        BY <1>3, <3>1, <3>3, <4>1
    <3>6. f + e >= 0 /\ f < Len(out') /\ ~(bitctr' > 0)
      BY <1>1, <2>1, <3>2, <3>3
    <3>7. Whole(q + 1, f, e)'
      BY ONLY <3>2, <3>4, <3>5, <3>6 DEF Whole
    <3>8. ASSUME NEW p \in Nat, Coming(p)' PROVE f + e <= p + 1
      <4>1. q <= 8 * p + 15
        BY <1>6, <3>8, ComingKept DEF Reaching
      <4> QED
        BY <1>1, <3>1, <3>2, <4>1
    <3>9. Bytewise(q + 1, f, e)'
      BY <3>7, <3>8 DEF Bytewise
    <3> QED
      BY <3>9
  <2>6. Reading(q + 1)'
    BY <1>3, <2>1, <2>5 DEF Reading
  <2> QED
    BY <2>4, <2>6
<1>9. CASE x # 171
  <2>1. demod_byte' = x /\ bytesync' = FALSE /\ out' = out
    BY <1>4, <1>9 DEF ReceiveBit, SYNC_BYTE
  <2>2. Window(q + 1, w)'
    BY <1>3, <1>7, <2>1 DEF Window
  <2>3. ASSUME NEW p \in Nat, Coming(p) PROVE Reaching(q + 1, w, p)
    <3>1. q <= 8 * p + 15 /\ (m = 8 \/ q - m <= 8 * p + 8)
      BY <1>6, <2>3 DEF Reaching
    <3>2. w = 8 \/ (q + 1) - w <= 8 * p + 8
      BY <1>5, <3>1
    <3>3. q # 8 * p + 15
      <4> SUFFICES ASSUME q = 8 * p + 15 PROVE FALSE
        OBVIOUS
      <4>1. w = 8
        BY <3>2
      <4>2. ASSUME NEW i \in 0 .. 7 PROVE BitAt(x, i) = BitAt(171, i)
        <5>1. /\ 8 - i \in 1 .. 8 /\ 8 - (8 - i) = i
              /\ (q + 1) - (8 - i) = 8 * (p - 1) + (16 + i)
          OBVIOUS
        <5>2. BitAt(x, i) = TxBit(8 * (p - 1) + (16 + i))
          BY <1>7, <4>1, <5>1
        <5>3. 16 + i \in 0 .. 23 /\ (16 + i) % 8 = i
          OBVIOUS
        <5>4. TxBit(8 * (p - 1) + (16 + i)) = SyncBit(i)
          BY <2>3, <5>3, ComingBits
        <5> QED
          BY <5>2, <5>4, SyncBitAt
      <4> QED
        BY <1>9, <4>2, SyncByteFromBits
    <3> QED
      BY <3>1, <3>2, <3>3 DEF Reaching
  <2>4. \A p \in Nat : Coming(p)' => Reaching(q + 1, w, p)
    BY <2>3, ComingKept
  <2>5. Hunting(q + 1, w)'
    BY <2>2, <2>4 DEF Hunting, Reaching
  <2> QED
    BY <2>1, <2>5 DEF Reading
<1> QED
  BY <1>8, <1>9

\* A bit of a byte is read.
LEMMA ReadingRead ==
    ASSUME DecoderType, NEW q \in Nat, NEW bit \in {0, 1}, ReceiveBit(bit),
           scenario' = scenario, cleared' = cleared, since' = since,
           bit = TxBit(q), q < TxBits, Reading(q)
    PROVE  /\ Reading(q + 1)'
           /\ out' # out /\ Unambiguous =>
                /\ q % 8 = 7 /\ q \div 8 + 1 \in 1 .. Len(sent)
                /\ out' = Append(out, sent[q \div 8 + 1])
<1>1. CASE bytesync = FALSE
  <2>1. PICK m \in 0 .. 8 : Hunting(q, m)
    BY <1>1 DEF Reading
  <2> QED
    BY <1>1, <2>1, HuntingRead
<1>2. CASE bytesync = TRUE
  <2>1. Unambiguous' = Unambiguous
    BY DEF sent, Unambiguous, TxBits, TxBit
  <2>2. bytesync' = TRUE
    BY <1>2 DEF ReceiveBit
  <2>3. CASE ~Unambiguous
    BY <2>1, <2>2, <2>3 DEF Reading
  <2>4. CASE Unambiguous
    <3>1. PICK f \in Nat, e \in Int : Bytewise(q, f, e)
      BY <1>2, <2>4 DEF Reading
    <3>2. Whole(q, f, e) /\ \A p \in Nat : Coming(p) => f + e <= p + 1
      BY <3>1 DEF Bytewise
    <3>3. /\ Whole(q + 1, f, e)'
          /\ q \div 8 + 1 \in 1 .. Len(sent)
          /\ \/ out' = out
             \/ (q % 8 = 7) /\ out' = Append(out, sent[q \div 8 + 1])
      BY <1>2, <3>2, ByteRead
    <3>4. \A p \in Nat : Coming(p)' => f + e <= p + 1
      BY <3>2, ComingKept
    <3>5. Bytewise(q + 1, f, e)'
      BY <3>3, <3>4 DEF Bytewise
    <3> QED
      BY <2>2, <3>3, <3>5 DEF Reading
  <2> QED
    BY <2>3, <2>4
<1> QED
  BY <1>1, <1>2 DEF DecoderType

LEMMA ReadingKept ==
    ASSUME NEW q, Reading(q), UNCHANGED <<scenario, cleared, since, bytes>>
    PROVE  Reading(q)'
<1>1. /\ TxBits' = TxBits /\ sent' = sent /\ (\A k : TxBit(k)' = TxBit(k))
      /\ Unambiguous' = Unambiguous /\ (\A p : Coming(p)' = Coming(p))
  BY SameSignal, ComingKept DEF sent, Unambiguous, TxBits, TxBit
<1>2. /\ demod_byte' = demod_byte /\ bitctr' = bitctr /\ bytesync' = bytesync /\ out' = out
  BY DEF bytes
<1>3. \A m : Hunting(q, m)' = Hunting(q, m)
  BY <1>1, <1>2 DEF Hunting, Window, Reaching
<1>4. \A f, e : Bytewise(q, f, e)' = Bytewise(q, f, e)
  BY <1>1, <1>2 DEF Bytewise, Whole
<1> QED
  BY <1>1, <1>2, <1>3, <1>4 DEF Reading
-------------------------------------------------------------------------------
\* The inductive invariant, with or without new syncs.

Sought == ~insync => \A p \in Nat : Coming(p) => Pos(t) < MatchBy(p)

Opened(a) == Opening(a) /\ MatchInTime /\ (glitches = 0 => Preread(a))

Followed(q) == Locked(q) /\ (glitches = 0 => Reading(q))

InStep == insync => (\E a \in Nat : Opened(a)) \/ \E q \in Nat : Followed(q)

AnyInv == DecoderType /\ Register /\ Sought /\ InStep

\* A message that comes is matched, in its first two sync bytes, at the latest.
LEMMA ComingMatches ==
    ASSUME DecoderType, Register, ~insync, NEW bit \in {0, 1}, bit = Received(t),
           NEW p \in Nat, Coming(p), MatchBy(p) - 25 <= Pos(t), Pos(t) < MatchBy(p)
    PROVE  Matches(ShiftedIn(bit))
<1>1. scenario \in Scenarios /\ t \in Nat /\ since \in Nat
  BY DEF DecoderType
<1>2. PICK u \in Nat : u = 8 * p + 7
  OBVIOUS
<1>3. 576 * u <= Pos(t) /\ Pos(t) < 576 * u + 25 /\ Pos(t) \in Nat
  BY <1>1, <1>2, Place DEF MatchBy
<1>4. p >= 1 /\ Pos(since) <= 4608 * (p - 1) /\ Pos(since) \in Int
  BY <1>1, Place DEF Coming
<1>5. ASSUME NEW i \in 0 .. 15
      PROVE  /\ t - 23 * i >= since
             /\ Received(t - 23 * i) = sync_bits[i + 1]
  <2>1. Pos(t - 23 * i) = Pos(t) - 575 * i
    <3>1. Pos(t + (-(23 * i))) = Pos(t) + 25 * (-(23 * i)) /\ t + (-(23 * i)) = t - 23 * i
      BY <1>1, PosSum
    <3> QED
      BY <1>3, <3>1
  <2>2. t - 23 * i >= since
    <3>1. PICK ph \in 0 .. 575 : ph = scenario.phase
      BY <1>1, ScenarioFacts, ZenonT(40)
    <3>2. Pos(since) <= Pos(t - 23 * i)
      BY <1>2, <1>3, <1>4, <2>1
    <3>3. Pos(since) = 25 * since + ph /\ Pos(t - 23 * i) = 25 * (t - 23 * i) + ph
      BY <3>1 DEF Pos
    <3> QED
      BY <1>1, <3>2, <3>3
  <2>3. /\ t - 23 * i \in Nat /\ u - i \in Nat
        /\ 576 * (u - i) <= Pos(t - 23 * i) /\ Pos(t - 23 * i) < 576 * (u - i) + 576
    BY <1>1, <1>2, <1>3, <1>4, <2>1, <2>2
  <2>4. TxIndex(t - 23 * i) = u - i
    BY <1>1, <2>3, PlaceIs
  <2>5. 15 - i \in 0 .. 23 /\ 8 * (p - 1) + (15 - i) = u - i
    BY <1>2
  <2>6. TxBit(u - i) = SyncBit((15 - i) % 8)
    BY <2>5, ComingBits
  <2> QED
    BY <2>2, <2>4, <2>6, SyncCode DEF Received
<1>6. ASSUME NEW i \in 0 .. 15
      PROVE  ShiftedIn(bit)[i * BIT_DIVISOR + 1] = sync_bits[i + 1]
  <2>1. CASE i = 0
    <3>1. t - 23 * i = t
      BY <1>1, <2>1
    <3> QED
      BY <1>5, <2>1, <3>1, Compared
  <2>2. CASE i # 0
    <3>1. 23 * i \in 1 .. CORR_LENGTH
      BY <2>2 DEF CORR_LENGTH, BIT_DIVISOR, N_CORR_BITS
    <3>2. correlator[23 * i] = Received(t - 23 * i)
      BY <1>5, <3>1 DEF Register
    <3> QED
      BY <1>5, <2>2, <3>2, Compared
  <2> QED
    BY <2>1, <2>2
<1> QED
  BY <1>6 DEF Matches, N_CORR_BITS

LEMMA AnySearch ==
    ASSUME AnyInv, NEW bit \in {0, 1}, Sample(bit), Search(bit), TxIndex(t) < TxBits
    PROVE  Sought' /\ InStep'
<1>1. DecoderType /\ Register /\ ~insync /\ \A p \in Nat : Coming(p) => Pos(t) < MatchBy(p)
  BY DEF AnyInv, Sought, Search
<1>2. /\ scenario' = scenario /\ cleared' = cleared /\ since' = since /\ t' = t + 1
      /\ bit = Received(t) /\ glitches' = glitches
  BY <1>1, SampleType DEF Sample
<1>3. scenario \in Scenarios /\ t \in Nat /\ Pos(t) \in Int
  BY <1>1, Place DEF DecoderType
<1>4. \A p \in Nat : Coming(p)' = Coming(p)
  BY <1>2, ComingKept
<1>5. CASE ~insync'
  <2>1. ~Matches(ShiftedIn(bit))
    BY <1>5 DEF Search
  <2>2. Pos(t)' = Pos(t) + 25
    <3>1. Pos(t)' = Pos(t + 1)
      BY <1>2 DEF Pos
    <3>2. Pos(t + 1) = Pos(t) + 25 * 1
      BY <1>3, PosSum
    <3> QED
      BY <1>3, <3>1, <3>2
  <2>3. ASSUME NEW p \in Nat, Coming(p) PROVE Pos(t)' < MatchBy(p)
    <3>1. Pos(t) < MatchBy(p) - 25
      <4>1. MatchBy(p) \in Int
        BY DEF MatchBy
      <4>2. ~(MatchBy(p) - 25 <= Pos(t))
        BY <1>1, <1>2, <2>1, <2>3, ComingMatches
      <4> QED
        BY <1>3, <4>1, <4>2
    <3> QED
      BY <1>3, <2>2, <3>1 DEF MatchBy
  <2>4. Sought'
    BY <1>4, <2>3 DEF Sought, MatchBy
  <2> QED
    BY <1>5, <2>4 DEF InStep
<1>6. CASE insync'
  <2>1. PICK a \in Nat : a = TxIndex(t)
    BY <1>3, Place
  <2>2. Opening(a)' /\ MatchPlace' = Pos(t)
    BY <1>1, <1>6, <2>1, OpeningBegins
  <2>3. MatchInTime'
    BY <1>1, <1>4, <2>2 DEF MatchInTime, MatchBy
  <2>4. Preread(a)'
    <3>1. Reads' = 0
      BY <1>6 DEF Search, ResetBitClock, Reads, SWALLOW_CTR
    <3>2. High(a)'
      <4>1. TxIndex(t - 1)' = a
        BY <1>1, <2>1, AfterSample
      <4>2. High(a)' \/ \E b \in Nat : Falling(a, b)'
        BY <2>2 DEF Opening
      <4>3. \A b \in Nat : Falling(a, b)' => a < b /\ TxIndex(t - 1)' = b
        BY DEF Falling
      <4> QED
        BY <4>1, <4>2, <4>3
    <3> QED
      BY <2>2, <3>1, <3>2, PrereadBegins
  <2>5. Opened(a)'
    BY <2>2, <2>3, <2>4 DEF Opened
  <2> QED
    BY <1>6, <2>5 DEF InStep, Sought
<1> QED
  BY <1>5, <1>6

LEMMA OpenedStep ==
    ASSUME DecoderType, NEW bit \in {0, 1}, Sample(bit), Gather(bit), TxIndex(t) < TxBits,
           NEW a \in Nat, Opened(a)
    PROVE  /\ Opened(a)' \/ \E q \in Nat : Followed(q)'
           /\ bytesync = FALSE /\ out' = out
<1>1. /\ scenario' = scenario /\ cleared' = cleared /\ since' = since
      /\ glitches' = 0 => glitches = 0
  <2>1. glitches \in Nat
    BY DEF DecoderType
  <2> QED
    BY <2>1, SampleType, AfterSample
<1>2. /\ Opening(a) /\ MatchInTime /\ (glitches = 0 => Preread(a))
      /\ bytesync = FALSE
  BY DEF Opened, Opening
<1>3. CASE Edge(bit)
  <2>1. PICK q \in Nat : TxIndex(t) = q /\ Locked(q)'
    BY <1>2, <1>3, OpeningEdge
  <2>2. bytes' = bytes
    BY <1>2, <1>3, OpeningEdge
  <2>3. bytesync' = FALSE /\ out' = out
    BY <1>2, <2>2 DEF bytes
  <2>4. ASSUME glitches' = 0 PROVE Reading(q)'
    <3>1. \E m \in 0 .. 8 : Hunting(q, m)'
      BY <1>1, <1>2, <1>3, <2>1, <2>4, HuntingBegins
    <3> QED
      BY <2>3, <3>1 DEF Reading
  <2>5. Followed(q)'
    BY <2>1, <2>4 DEF Followed
  <2> QED
    BY <1>2, <2>3, <2>5
<1>4. CASE ~Edge(bit)
  <2>1. Opening(a)' /\ MatchPlace' = MatchPlace
    BY <1>2, <1>4, OpeningOn
  <2>2. MatchInTime'
    <3>1. \A p \in Nat : Coming(p)' = Coming(p)
      BY <1>1, ComingKept
    <3> QED
      BY <1>2, <2>1, <3>1 DEF MatchInTime, MatchBy
  <2>3. glitches' = 0 => Preread(a)'
    BY <1>1, <1>2, <1>4, PrereadOn
  <2>4. out' = out
    <3>1. CASE divisor = 0
      BY <1>2, <1>4, <3>1, OpeningRead
    <3>2. CASE divisor # 0
      BY <3>2 DEF Gather, bit_time, bytes
    <3> QED
      BY <3>1, <3>2
  <2>5. Opened(a)'
    BY <2>1, <2>2, <2>3 DEF Opened
  <2> QED
    BY <1>2, <2>4, <2>5
<1> QED
  BY <1>3, <1>4

LEMMA FollowedStep ==
    ASSUME DecoderType, NEW bit \in {0, 1}, Sample(bit), Gather(bit), TxIndex(t) < TxBits,
           NEW q \in Nat, Followed(q)
    PROVE  /\ \E r \in Nat : Followed(r)'
           /\ bit_time(bit) => TxIndex(t) = q
           /\ out' # out /\ glitches' = 0 /\ Unambiguous =>
                /\ TxIndex(t) = q /\ q % 8 = 7
                /\ out' = Append(out, sent[q \div 8 + 1])
<1>1. Locked(q) /\ (glitches = 0 => Reading(q))
  BY DEF Followed
<1>2. /\ scenario' = scenario /\ cleared' = cleared /\ since' = since
      /\ glitches' = 0 => glitches = 0 /\ bit = TxBit(TxIndex(t))
  <2>1. glitches \in Nat
    BY DEF DecoderType
  <2> QED
    BY <2>1, SampleType, AfterSample
<1>3. CASE bit_time(bit)
  <2>1. Locked(q + 1)' /\ TxIndex(t) = q
    BY <1>1, <1>3, LockedStep
  <2>2. ReceiveBit(bit)
    BY <1>3 DEF Gather
  <2>3. ASSUME glitches' = 0
        PROVE  /\ Reading(q + 1)'
               /\ out' # out /\ Unambiguous =>
                    q % 8 = 7 /\ out' = Append(out, sent[q \div 8 + 1])
    <3>1. bit = TxBit(q) /\ q < TxBits /\ Reading(q)
      BY <1>1, <1>2, <2>1, <2>3
    <3> QED
      BY <1>2, <2>2, <3>1, ReadingRead
  <2>4. Followed(q + 1)' /\ q + 1 \in Nat
    BY <2>1, <2>3 DEF Followed
  <2> QED
    BY <2>1, <2>3, <2>4
<1>4. CASE ~bit_time(bit)
  <2>1. Locked(q)'
    BY <1>1, <1>4, LockedStep
  <2>2. UNCHANGED bytes /\ out' = out
    BY <1>4 DEF Gather, bytes
  <2>3. glitches' = 0 => Reading(q)'
    BY <1>1, <1>2, <2>2, ReadingKept
  <2>4. Followed(q)'
    BY <2>1, <2>3 DEF Followed
  <2> QED
    BY <1>4, <2>2, <2>4
<1> QED
  BY <1>3, <1>4

LEMMA AnyGather ==
    ASSUME AnyInv, NEW bit \in {0, 1}, Sample(bit), Gather(bit), TxIndex(t) < TxBits
    PROVE  Sought' /\ InStep'
<1>1. DecoderType /\ insync' /\ ((\E a \in Nat : Opened(a)) \/ \E q \in Nat : Followed(q))
  BY DEF AnyInv, InStep, Gather
<1>2. (\E a \in Nat : Opened(a)') \/ \E q \in Nat : Followed(q)'
  <2>1. CASE \E a \in Nat : Opened(a)
    BY <1>1, <2>1, OpenedStep
  <2>2. CASE \E q \in Nat : Followed(q)
    BY <1>1, <2>2, FollowedStep
  <2> QED
    BY <1>1, <2>1, <2>2
<1> QED
  BY <1>1, <1>2 DEF Sought, InStep

LEMMA AnyClear ==
    ASSUME AnyInv, DSPClearSync
    PROVE  Sought' /\ InStep'
<1>1. scenario \in Scenarios /\ t \in Nat
  BY DEF AnyInv, DecoderType
<1>2. insync' = FALSE /\ since' = t /\ t' = t /\ scenario' = scenario
  BY DEF DSPClearSync, received
<1>3. Pos(since)' = Pos(t) /\ Pos(t)' = Pos(t) /\ Pos(t) \in Int
  <2>1. Pos(t) \in Int
    BY <1>1, Place
  <2>2. Pos(since)' = Pos(t) /\ Pos(t)' = Pos(t)
    BY <1>2, Zenon DEF Pos
  <2> QED
    BY <2>1, <2>2
<1>4. ASSUME NEW p \in Nat, Coming(p)' PROVE Pos(t)' < MatchBy(p)
  <2>1. Pos(t) <= 4608 * (p - 1)
    BY <1>3, <1>4 DEF Coming
  <2> QED
    BY <1>3, <2>1 DEF MatchBy
<1> QED
  BY <1>2, <1>4 DEF Sought, InStep, MatchBy

LEMMA AnyStutter ==
    ASSUME AnyInv, UNCHANGED decoder
    PROVE  Sought' /\ InStep'
<1>1. /\ UNCHANGED <<scenario, t, glitches, insync, current_sense, xingcnt, divisor,
                     swallow_ctr, bitno, cleared, since>>
      /\ UNCHANGED bytes
  BY DEF decoder, bytes
<1>2. /\ (\A k : TxBit(k)' = TxBit(k)) /\ TxBits' = TxBits /\ sent' = sent
      /\ (\A p : Coming(p)' = Coming(p))
      /\ Pos(t)' = Pos(t) /\ Pos(t - 1)' = Pos(t - 1) /\ TxIndex(t - 1)' = TxIndex(t - 1)
      /\ Pos(t + divisor)' = Pos(t + divisor) /\ Reads' = Reads
  BY <1>1, SameSignal, ComingKept DEF sent, Pos, TxIndex, Reads
<1>3. MatchPlace' = MatchPlace /\ demod_byte' = demod_byte /\ bytesync' = bytesync
  BY <1>1, <1>2 DEF MatchPlace, bytes
<1>4. \A a : High(a)' = High(a) /\ \A b : Falling(a, b)' = Falling(a, b)
  BY <1>1, <1>2 DEF High, Falling
<1>5. \A a : Opening(a)' = Opening(a)
  BY <1>1, <1>2, <1>3, <1>4 DEF Opening, NoSyncByte
<1>6. \A a : Preread(a)' = Preread(a)
  BY <1>2, <1>3, <1>4 DEF Preread, OnesRead
<1>7. \A a : Opened(a) => Opened(a)'
  BY <1>1, <1>2, <1>3, <1>5, <1>6 DEF Opened, MatchInTime, MatchBy
<1>8. \A q : Locked(q) => Locked(q)'
  BY <1>1, <1>2, <1>3 DEF Locked, Steady, Pending
<1>9. \A q : Followed(q) => Followed(q)'
  <2> TAKE q
  <2>1. Reading(q) => Reading(q)'
    BY <1>1, ReadingKept
  <2> QED
    BY <1>1, <1>8, <2>1 DEF Followed
<1>10. Sought /\ InStep
  BY DEF AnyInv
<1> QED
  BY <1>1, <1>2, <1>7, <1>9, <1>10 DEF Sought, InStep, MatchBy

LEMMA AnyInit == DecoderInit => AnyInv
<1> SUFFICES ASSUME DecoderInit PROVE AnyInv
  OBVIOUS
<1>1. DecoderType /\ Register
  BY TypeInit
<1>2. ~insync /\ ~cleared
  BY DEF DecoderInit
<1> QED
  BY <1>1, <1>2 DEF AnyInv, Sought, InStep, Coming

LEMMA AnyStep ==
    ASSUME AnyInv, [DecoderNext]_decoder
    PROVE  AnyInv'
<1>1. DecoderType' /\ Register'
  BY TypeStep, RegisterStep DEF AnyInv
<1>2. Sought' /\ InStep'
  BY AnySearch, AnyGather, AnyClear, AnyStutter DEF DecoderNext, DspSample
<1> QED
  BY <1>1, <1>2 DEF AnyInv

\* From a sync byte on the clock reads every bit once, whenever the application has
\* asked for new syncs, at any phase of the sampling and with any of the samples
\* allowed inverted.
THEOREM ClockKeepsTime == DecoderSpec => EachBitOnce
<1> DEFINE Once == bytesync /\ bitno' # bitno => bitno' = TxIndex(t)
<1>1. ASSUME AnyInv, [DecoderNext]_decoder PROVE [Once]_decoder
  <2> SUFFICES ASSUME bytesync, bitno' # bitno PROVE bitno' = TxIndex(t)
    OBVIOUS
  <2>1. PICK bit \in {0, 1} : Sample(bit) /\ Gather(bit) /\ TxIndex(t) < TxBits
    BY <1>1 DEF DecoderNext, DspSample, DSPClearSync, Search, decoder
  <2>2. bit_time(bit) /\ bitno' = bitno + 1 /\ insync
    BY <2>1 DEF Gather
  <2>3. DecoderType /\ \A a \in Nat : ~Opened(a)
    BY <1>1 DEF AnyInv, Opened, Opening
  <2>4. PICK q \in Nat : Followed(q)
    BY <1>1, <2>2, <2>3 DEF AnyInv, InStep
  <2>5. TxIndex(t) = q
    BY <2>1, <2>2, <2>3, <2>4, FollowedStep
  <2>6. bitno = q - 1
    BY <2>4 DEF Followed, Locked
  <2> QED
    BY <2>2, <2>4, <2>5, <2>6
<1> QED
  BY <1>1, AnyInit, AnyStep, PTL DEF DecoderSpec, EachBitOnce

\* However sync was found, the bytes of a clean signal that are given to the
\* application are bytes of the transmission, cut where the transmitter cut them.
THEOREM BytesKeepStep == DecoderSpec => BytesInStep
<1> DEFINE InPlace ==
        out' # out /\ glitches' = 0 /\ Unambiguous =>
            /\ TxIndex(t) % BITSPERBYTE = BITSPERBYTE - 1
            /\ out' = Append(out, sent[TxIndex(t) \div BITSPERBYTE + 1])
<1>1. ASSUME AnyInv, [DecoderNext]_decoder PROVE [InPlace]_decoder
  <2> SUFFICES ASSUME out' # out, glitches' = 0, Unambiguous
               PROVE  /\ TxIndex(t) % 8 = 7
                      /\ out' = Append(out, sent[TxIndex(t) \div 8 + 1])
    BY DEF BITSPERBYTE
  <2>1. PICK bit \in {0, 1} : Sample(bit) /\ Gather(bit) /\ TxIndex(t) < TxBits
    BY <1>1 DEF DecoderNext, DspSample, DSPClearSync, bytes, Search, decoder
  <2>2. DecoderType /\ insync
    BY <1>1, <2>1 DEF AnyInv, Gather
  <2>3. \A a \in Nat : ~Opened(a)
    BY <2>1, <2>2, OpenedStep
  <2>4. PICK q \in Nat : Followed(q)
    BY <1>1, <2>2, <2>3 DEF AnyInv, InStep
  <2> QED
    BY <2>1, <2>2, <2>4, FollowedStep
<1> QED
  BY <1>1, AnyInit, AnyStep, PTL DEF DecoderSpec, BytesInStep

LEMMA InvNext ==
    ASSUME AnyInv, cleared, TxIndex(t) = TxBits, glitches = 0, Unambiguous,
           NEW p \in 1 .. Len(sent) - 3, AnotherMessage(p)
    PROVE  /\ Len(out) >= Len(sent) - p - 1
           /\ \A i \in 0 .. Len(sent) - p - 2 : out[Len(out) - i] = sent[Len(sent) - i]
<1>1. /\ DecoderType /\ scenario \in Scenarios /\ t \in Nat /\ out \in Seq(0 .. 255)
      /\ Len(out) \in Nat /\ bitctr \in 0 .. 7
  BY DEF AnyInv, DecoderType, BITSPERBYTE
<1>2. sent \in Seq(0 .. 255) /\ Len(sent) \in Nat /\ TxBits = 8 * Len(sent)
  BY <1>1, MessageFacts
<1>3. p \in Nat /\ Coming(p) /\ p + 3 <= Len(sent)
  <2>1. 576 * BITSPERBYTE * (p - 1) = 4608 * (p - 1)
    BY <1>2 DEF BITSPERBYTE
  <2>2. Coming(p)
    BY <2>1 DEF AnotherMessage, Coming, Pos
  <2> QED
    BY <1>2, <2>2
<1>4. 576 * TxBits <= Pos(t) /\ Pos(t) \in Nat
  BY <1>1, Place
<1>5. insync
  <2>1. ~(Pos(t) < MatchBy(p))
    BY <1>2, <1>3, <1>4 DEF MatchBy
  <2> QED
    BY <1>3, <2>1 DEF AnyInv, Sought
<1>6. ASSUME NEW a \in Nat, Opened(a) PROVE FALSE
  <2>1. Opening(a) /\ MatchPlace < 576 * (8 * p + 7) + 25
    BY <1>3, <1>6 DEF Opened, MatchInTime, MatchBy
  <2>2. /\ TxIndex(t - 1) < TxBits /\ (High(a) \/ \E b \in Nat : Falling(a, b))
    BY <2>1 DEF Opening
  <2>3. /\ 576 * a <= MatchPlace /\ MatchPlace \in Int
        /\ TxIndex(t) \in {TxIndex(t - 1), TxIndex(t - 1) + 1} /\ TxIndex(t - 1) \in Nat
    BY <1>1, <2>1, OpeningFacts
  <2>4. a <= 8 * p + 7 /\ TxIndex(t - 1) = TxBits - 1 /\ TxBits >= 8 * p + 24
    BY <1>2, <1>3, <2>1, <2>2, <2>3
  <2>5. TxBit(8 * p + 10) = 0
    <3>1. TxBit(8 * (p - 1) + 18) = SyncBit(18 % 8) /\ 8 * (p - 1) + 18 = 8 * p + 10
      BY <1>3, ComingBits
    <3>2. 18 % 8 = 2
      OBVIOUS
    <3> QED
      BY <3>1, <3>2 DEF SyncBit
  <2>6. TxBit(8 * p + 10) = 1
    <3>1. 8 * p + 10 \in a .. TxIndex(t - 1) - 1 /\ 8 * p + 10 \in a .. TxIndex(t - 1)
      BY <1>2, <2>4
    <3>2. CASE High(a)
      BY <3>1, <3>2 DEF High
    <3>3. CASE \E b \in Nat : Falling(a, b)
      BY <3>1, <3>3 DEF Falling
    <3> QED
      BY <2>2, <3>2, <3>3
  <2> QED
    BY <2>5, <2>6
<1>7. PICK q \in Nat : Locked(q) /\ Reading(q)
  BY <1>5, <1>6 DEF AnyInv, InStep, Followed
<1>8. q >= TxBits
  BY <1>1, <1>7, AllRead
<1>9. bytesync = TRUE
  <2>1. ASSUME NEW m \in 0 .. 8, Hunting(q, m) PROVE FALSE
    <3>1. q <= 8 * p + 15
      BY <1>3, <2>1 DEF Hunting, Reaching
    <3> QED
      BY <1>2, <1>3, <1>8, <3>1
  <2> QED
    BY <1>7, <2>1 DEF Reading
<1>10. PICK f \in Nat, e \in Int : Whole(q, f, e) /\ f + e <= p + 1
  BY <1>3, <1>7, <1>9 DEF Reading, Bytewise
<1>11. PICK l \in Nat, k \in Nat : l = Len(out) /\ k = Len(sent)
  BY <1>1, <1>2, Zenon
<1>12. /\ q = 8 * (l + e) + bitctr /\ q <= 8 * k
       /\ \A i \in f + 1 .. l : out[i] = sent[i + e]
  BY <1>2, <1>10, <1>11 DEF Whole
<1>13. l + e = k /\ f + e <= p + 1
  <2>1. 8 * (l + e) + bitctr = 8 * k
    BY <1>2, <1>8, <1>11, <1>12
  <2>2. l + e = k
    BY ONLY <1>1, <2>1, l \in Nat, k \in Nat, e \in Int
  <2> QED
    BY <1>10, <2>2
<1>14. l >= k - p - 1
  BY <1>3, <1>13
<1>15. ASSUME NEW i \in 0 .. k - p - 2 PROVE out[l - i] = sent[k - i]
  <2>1. l - i \in f + 1 .. l /\ (l - i) + e = k - i
    BY <1>3, <1>13
  <2> QED
    BY <1>12, <2>1
<1> QED
  BY <1>11, <1>14, <1>15

\* Whenever in a message the application asks for a new sync, the next message that
\* comes is decoded, from its third sync byte to its end.
THEOREM NextIsDecoded == DecoderSpec => []NextMessageDecoded
<1>1. AnyInv => NextMessageDecoded
  BY InvNext DEF NextMessageDecoded
<1> QED
  BY <1>1, AnyInit, AnyStep, PTL DEF DecoderSpec
===============================================================================
