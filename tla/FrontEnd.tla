------------------------------- MODULE FrontEnd -------------------------------
(***************************************************************************)
(* The demodulator front end: what the DSP thread does with a 12 kHz       *)
(* sample before the bit decoder sees it (the middle of dsp_threads_fn in  *)
(* Common/FSKdsp.c).  A quadrature oscillator (Common/osc.c) and a mixer   *)
(* bring the FSK tones to both sides of zero, a low pass filter            *)
(* (Common/fir.c) cleans both channels, a delay discriminator              *)
(* (Common/demod.c) turns frequency into a level, and a slicer with a slow *)
(* DC estimate turns the level into a bit.                                 *)
(*                                                                         *)
(* One step per sample, in the code's fixed-point arithmetic.  Short       *)
(* integers wrap at 16 bits; the products and sums, in 32, do not get that *)
(* far, which is part of what is checked.                                  *)
(***************************************************************************)
EXTENDS Integers, Sequences

CONSTANTS
    QuarterWave,    \* 32767 * cos over the first quarter of a period
    Signals         \* bound: the inputs, each with its samples and what was sent

RTL_SAMPLE == -32768 .. 32767
Amplitude == 0 .. 32767

ASSUME QuarterAssumption == QuarterWave \in [0 .. 512 -> Amplitude]
ASSUME SignalsAssumption ==
    Signals \subseteq [samples: Seq(RTL_SAMPLE), bits: Seq({0, 1})]

VARIABLES
    signal, n,              \* the input, and how many of its samples are done
    Phase,                  \* i_Phase and q_Phase
    wrptr, firdata,         \* I_Channel_FIR and Q_Channel_FIR
    demod_dly, curr_index,  \* I_demod_dly and Q_demod_dly
    dcslice_level, demod_bit,
    loud                    \* history: the discriminator was driven beyond Linear

delays == <<wrptr, firdata, demod_dly, curr_index>>
vars == <<signal, n, Phase, wrptr, firdata, demod_dly, curr_index,
          dcslice_level, demod_bit, loud>>

Channels == {"I", "Q"}
Samples == signal.samples
Int16(x) == ((x + 32768) % 65536) - 32768
Toward0(x, d) == IF x >= 0 THEN x \div d ELSE -((-x) \div d)
-------------------------------------------------------------------------------
\* osc.c

LUT_SIZE == 2048
INJ_FREQ == 311

\* InitOsc: the cosine of the whole period; the conversion to integers rounds
\* towards zero, so the four quarters mirror each other.
oscLut ==
    [i \in 0 .. LUT_SIZE - 1 |->
        LET j == IF i <= 1024 THEN i ELSE LUT_SIZE - i
        IN  IF j <= 512 THEN QuarterWave[j] ELSE -QuarterWave[1024 - j]]

FirstPhase == [c \in Channels |-> IF c = "I" THEN 0 ELSE (3 * LUT_SIZE) \div 4]

\* RunOsc moves the phase on; the mixer takes the table value of the old one.
NextPhase(p) == (p + INJ_FREQ) % LUT_SIZE
Mixed(p, sample) == Int16((oscLut[p] * sample) \div 2^15)
-------------------------------------------------------------------------------
\* fir.c

N_FIR_TAPS == 45
MAC_SHIFT == 16

HalfCoeffs ==
    <<24, 85, 151, 208, 236, 217, 138, 0, -187, -395, -585, -707, -713, -563,
      -233, 276, 940, 1706, 2500, 3239, 3840, 4232, 4368>>
Fir_Coeffs ==
    [i \in 0 .. N_FIR_TAPS - 1 |->
        HalfCoeffs[IF i <= 22 THEN i + 1 ELSE N_FIR_TAPS - i]]

\* FIRInit: both filters start at the first slot of their rings.
FIRInit == [c \in Channels |-> 0]

\* What the filter gives when its last inputs were In[0], In[1], ..., newest first.
Filter(In) ==
    LET mac[i \in -1 .. N_FIR_TAPS - 1] ==
            IF i = -1 THEN 0 ELSE mac[i - 1] + Fir_Coeffs[i] * In[i]
    IN  mac[N_FIR_TAPS - 1] \div 2^MAC_SHIFT

\* Mutant of NextTap: one slot of the ring is never used.
NextTapShort(w) == IF w >= N_FIR_TAPS - 2 THEN 0 ELSE w + 1

NextTap(w) == IF w = N_FIR_TAPS - 1 THEN 0 ELSE w + 1

\* doFir stores the input at wrptr and walks backwards from there.
Stored(c, in) == [firdata[c] EXCEPT ![wrptr[c]] = in]
RunFIR(c, in) ==
    LET ring == Stored(c, in)
    IN  Filter([i \in 0 .. N_FIR_TAPS - 1 |-> ring[(wrptr[c] - i) % N_FIR_TAPS]])
-------------------------------------------------------------------------------
\* demod.c

DEMOD_DLY_LEN == 64
BIT_DELAY == 12

\* PhaseDiscrim, with the outputs of the filters: the cross product with the
\* outputs of BIT_DELAY samples ago.
Previous(c) == demod_dly[c][(curr_index - BIT_DELAY) % DEMOD_DLY_LEN]

\* Mutant of PhaseDiscrim: the two products swapped.
PhaseDiscrimSwapped(I, Q) == (I * Previous("Q") - Previous("I") * Q) \div 2^11

PhaseDiscrim(I, Q) == (Previous("I") * Q - I * Previous("Q")) \div 2^11
-------------------------------------------------------------------------------
\* The slicer.

\* (int)(phase * .00015).  The double nearest to .00015 is a little less, so the
\* product may stay short of a multiple it should reach.
JustShort == {1, 2, 4, 7, 8, 10, 14, 15, 16, 17, 18, 19, 20, 21, 28, 29, 30}
FallsShort(phase) ==
    phase % 20000 = 0 /\ \E m \in JustShort : phase \in {20000 * m, -20000 * m}
Gain(phase) ==
    LET short == IF ~FallsShort(phase) THEN 0 ELSE IF phase > 0 THEN -1 ELSE 1
    IN  Toward0(15 * phase + short, 100000)

\* (int)(level * 0.99985): what is lost is rounded away from zero.
Leak(level) ==
    IF level >= 0 THEN level - (15 * level + 99999) \div 100000
    ELSE level + (-15 * level + 99999) \div 100000

\* Mutant of Level: the factor is left out.
LevelUnscaled(phase) == Int16(Leak(dcslice_level) + phase)

\* The level and the bit a discriminator output makes.
Level(phase) == Int16(Leak(dcslice_level) + Gain(phase))
Sliced(phase, level) == IF phase - level > 0 THEN 0 ELSE 1

\* The discriminator outputs of any undistorted tone are well within this.
LinearBound == 39999
Linear == -LinearBound .. LinearBound
-------------------------------------------------------------------------------
Init ==
    /\ signal \in Signals /\ n = 0
    /\ Phase = FirstPhase
    /\ wrptr = FIRInit
    /\ firdata = [c \in Channels |-> [i \in 0 .. N_FIR_TAPS - 1 |-> 0]]
    /\ demod_dly = [c \in Channels |-> [i \in 0 .. DEMOD_DLY_LEN - 1 |-> 0]]
    /\ curr_index = 0
    /\ dcslice_level = 0 /\ demod_bit = 0 /\ loud = FALSE

\* One pass of the loop over a sample from the ring: oscillators and mixer,
\* filters, discriminator, slicer.
Pair(i, q) == [c \in Channels |-> IF c = "I" THEN i ELSE q]

DspSlice(phase, level) ==
    /\ dcslice_level' = level
    /\ demod_bit' = Sliced(phase, level)
    /\ loud' = (loud \/ phase \notin Linear)

DspDiscriminate(Iout, Qout) ==
    /\ demod_dly' = [c \in Channels |->
            [demod_dly[c] EXCEPT ![curr_index] = Int16(Pair(Iout, Qout)[c])]]
    /\ curr_index' = (curr_index + 1) % DEMOD_DLY_LEN
    /\ LET phase == PhaseDiscrim(Iout, Qout) IN DspSlice(phase, Level(phase))

DspFilter(Imix, Qmix) ==
    /\ firdata' = [c \in Channels |-> Stored(c, Pair(Imix, Qmix)[c])]
    /\ wrptr' = [c \in Channels |-> NextTap(wrptr[c])]
    /\ DspDiscriminate(RunFIR("I", Imix), RunFIR("Q", Qmix))

DspFrontEnd ==
    /\ n < Len(Samples)
    /\ n' = n + 1
    /\ Phase' = [c \in Channels |-> NextPhase(Phase[c])]
    /\ DspFilter(Mixed(Phase["I"], Samples[n + 1]), Mixed(Phase["Q"], Samples[n + 1]))
    /\ UNCHANGED signal

Spec == Init /\ [][DspFrontEnd]_vars
-------------------------------------------------------------------------------
\* What the chain should compute, from the input alone: the mixer's output for
\* the k-th sample (nothing came before the first), and the filter's.
PhaseAt(c, k) == (FirstPhase[c] + INJ_FREQ * (k - 1)) % LUT_SIZE
MixedAt(c, k) == IF k <= 0 THEN 0 ELSE Mixed(PhaseAt(c, k), Samples[k])
FilteredAt(c, k) == Filter([i \in 0 .. N_FIR_TAPS - 1 |-> MixedAt(c, k - i)])

\* The oscillators have made n steps, a quarter of a period apart; the filter
\* rings hold the last 45 mixer outputs and the delay lines the filter's outputs,
\* each in the slot the pointers give: no wrap loses or repeats one.
DelayLines ==
    \A c \in Channels :
        /\ Phase[c] = PhaseAt(c, n + 1)
        /\ \A k \in 0 .. N_FIR_TAPS - 1 :
            firdata[c][(wrptr[c] - 1 - k) % N_FIR_TAPS] = MixedAt(c, n - k)
        /\ n > 0 =>
            demod_dly[c][(curr_index - 1) % DEMOD_DLY_LEN] = Int16(FilteredAt(c, n))

FitsInt32(x) == -2147483647 - 1 <= x /\ x <= 2147483647

\* The mixer's product fits the 32 bits it is computed in, and 16 after the shift.
MixerProduct(c) == oscLut[PhaseAt(c, n)] * Samples[n]
MixerFits ==
    n > 0 => \A c \in Channels :
        FitsInt32(MixerProduct(c)) /\ MixerProduct(c) \div 2^15 \in RTL_SAMPLE

\* The difference of the discriminator's products fits the int it is cast to, also
\* before the shift.
CrossFits ==
    FitsInt32(FilteredAt("I", n - BIT_DELAY) * FilteredAt("Q", n)
                - FilteredAt("I", n) * FilteredAt("Q", n - BIT_DELAY))

\* What the filter gives fits the 16 bits of the delay lines, so the sum fitted 32.
FilterFits == \A c \in Channels : FilteredAt(c, n) \in RTL_SAMPLE

\* As long as the discriminator is not driven beyond what an undistorted tone
\* makes, the slicer's level settles below where its 16 bits wrap.
LevelBound == 26667
LevelSettles == ~loud => dcslice_level \in -LevelBound .. LevelBound

\* Mixers, filters and discriminator keep every bit, for any input; the slicer's level
\* does for an input that is not loud.
InWidth == MixerFits /\ FilterFits /\ CrossFits /\ LevelSettles

\* The bit the slicer gives is the bit sent GroupDelay samples ago, give or take
\* one sample: 22 from the filter, half of BIT_DELAY from the discriminator.
GroupDelay == 28
SentAt(t) == signal.bits[(25 * t) \div 576 + 1]
ToneDecoded ==
    signal.bits # << >> /\ n > GroupDelay + 1 =>
        demod_bit \in {SentAt(n - 1 - GroupDelay), SentAt(n - 2 - GroupDelay)}
===============================================================================
