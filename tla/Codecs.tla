-------------------------------- MODULE Codecs --------------------------------
(***************************************************************************)
(* The codec stage of Common/codecs.c: PCMEncode turns the samples of one  *)
(* pipe read (24 kHz) into the payload of one packet (8 kHz), with the     *)
(* deemphasis filter if the debug level asks for it.  The filter's state   *)
(* is kept from packet to packet.                                          *)
(***************************************************************************)
EXTENDS G711, SequencesExt

CONSTANT Scenarios      \* bound: what is encoded, see Scenario

Sample16 == -32768 .. 32767
CODEC_NONE == -1
CODEC_PCMU == 0
CODEC_PCMA == 8
\* Pipe reads, the codec and gain of the call (a shift the amplified sample has room
\* for in an int), and the deemphasis switch.
Scenario ==
    [reads : Seq(Seq(Sample16)), codec : {CODEC_NONE, CODEC_PCMU, CODEC_PCMA},
     gain : 0 .. 15, deemphasis : BOOLEAN]

ASSUME ScenariosAssumption == Scenarios \subseteq Scenario

VARIABLES
    scenario, todo, \* what is encoded, and how much of it is still to come
    state,          \* of the deemphasis filter
    buffer, out,    \* the samples of the last read, and what became of them
    loud            \* history: the filter was given more than QuietPeak

vars == <<scenario, todo, state, buffer, out, loud>>

AUDIO_DECIM == 3

Init ==
    /\ scenario \in Scenarios /\ todo = scenario.reads
    /\ state = 0 /\ buffer = << >> /\ out = << >> /\ loud = FALSE
-------------------------------------------------------------------------------
\* The division of C, which rounds towards zero, and the cast to RTL_SAMPLE.
Divide(a, b) == IF a >= 0 THEN a \div b ELSE -((-a) \div b)
Wrap16(x) == ((x + 32768) % 65536) - 32768
Magnitude(x) == IF x >= 0 THEN x ELSE -x

newlen(samples) == Len(samples) \div AUDIO_DECIM

\* The i-th output of stdioOutEncode and G711uLawEncode, before the gain.
Average(samples, i) ==
    Divide(samples[3 * i - 2] + samples[3 * i - 1] + samples[3 * i], AUDIO_DECIM)

\* The i-th output of G711aLawEncode: a third of the i-th sample.
Third(samples, i) == Divide(samples[i], AUDIO_DECIM)

coeff00 == 6878
coeff01 == 25889

\* Mutant of deemph: the feedback is not scaled down.
deemphUnscaled(s, input) ==
    LET accum == input + s IN [state |-> accum, output |-> Wrap16((accum * coeff00) \div 2^14
                                                + (accum * coeff00) \div 2^15)]

\* The filter's next state and its output, for products within 32 bits.
deemph(s, input) ==
    LET accum == input + (s * coeff01) \div 2^15 IN
    [state |-> accum,
     output |-> Wrap16((accum * coeff00) \div 2^14 + (accum * coeff00) \div 2^15)]

\* The filter's state after each of the inputs.
States(inputs) ==
    LET s[k \in 0 .. Len(inputs)] ==
            IF k = 0 THEN state ELSE deemph(s[k - 1], Wrap16(inputs[k])).state
    IN  s

\* Inputs up to here, a third of full scale, are what the filter can take for ever.
QuietPeak == 10900
TooLoud(inputs) == \E k \in DOMAIN inputs : Magnitude(Wrap16(inputs[k])) > QuietPeak

Code(sample) ==
    IF scenario.codec = CODEC_PCMU THEN linear2ulaw(sample) ELSE linear2alaw(sample)

\* Amplify the decimated samples, filter them if asked to, and code.
G711Encode(decimated) ==
    LET amplified == [i \in DOMAIN decimated |-> decimated[i] * 2^scenario.gain] IN
    IF scenario.deemphasis
    THEN LET s == States(amplified) IN
         /\ state' = s[Len(amplified)]
         /\ loud' = (loud \/ TooLoud(amplified))
         /\ out' = [i \in DOMAIN decimated |-> Code(deemph(s[i - 1], Wrap16(amplified[i])).output)]
    ELSE /\ UNCHANGED <<state, loud>>
         /\ out' = [i \in DOMAIN decimated |-> Code(amplified[i])]

\* The samples go to stdout as they are; the gain is not looked at.
stdioOutEncode(samples) ==
    /\ scenario.codec = CODEC_NONE
    /\ out' = [i \in 1 .. newlen(samples) |-> Average(samples, i)]
    /\ UNCHANGED <<state, loud>>

G711uLawEncode(samples) ==
    /\ scenario.codec = CODEC_PCMU
    /\ G711Encode([i \in 1 .. newlen(samples) |-> Average(samples, i)])

G711aLawEncode(samples) ==
    /\ scenario.codec = CODEC_PCMA
    /\ G711Encode([i \in 1 .. newlen(samples) |-> Third(samples, i)])

PCMEncode ==
    /\ todo # << >>
    /\ todo' = Tail(todo) /\ buffer' = Head(todo)
    /\ \/ stdioOutEncode(Head(todo))
       \/ G711uLawEncode(Head(todo))
       \/ G711aLawEncode(Head(todo))
    /\ UNCHANGED scenario

\* The other direction: what the far end of the call makes of a packet.
G711uLawDecode(inbuf) == [i \in DOMAIN inbuf |-> ulaw2linear(inbuf[i])]
G711aLawDecode(inbuf) == [i \in DOMAIN inbuf |-> alaw2linear(inbuf[i])]

PCMDecode(inbuf, codec) ==
    IF codec = CODEC_PCMU THEN G711uLawDecode(inbuf) ELSE G711aLawDecode(inbuf)

Next == PCMEncode

Spec == Init /\ [][Next]_vars
-------------------------------------------------------------------------------
Plain == ~scenario.deemphasis
Clipped(x, limit) == IF x > limit THEN limit ELSE IF x < -limit THEN -limit ELSE x

\* Whatever the gain, each u-law byte decodes to the average of its three samples,
\* amplified and clipped where u-law ends, to within 1/32 of it: the loss the codec
\* is designed for, at every sample value and segment boundary.
ULawFaithful ==
    scenario.codec = CODEC_PCMU /\ Plain =>
        LET heard == PCMDecode(out, scenario.codec) IN
        \A i \in 1 .. Len(out) :
            LET x == Clipped(Average(buffer, i) * 2^scenario.gain, 32635) IN
            32 * Magnitude(heard[i] - x) <= Magnitude(x) + BIAS

\* An A-law byte is off by at most 16, or 1/16 of the sample its coder was given, for
\* every sample and gain.  The samples just below zero are left to ALawFaithful.
ALawCoded ==
    scenario.codec = CODEC_PCMA /\ Plain =>
        LET heard == PCMDecode(out, scenario.codec) IN
        \A i \in 1 .. Len(out) :
            LET x == Clipped(Third(buffer, i) * 2^scenario.gain, 32767)
                error == Magnitude(heard[i] - x)
            IN  x \notin -7 .. -1 => error <= 16 \/ 16 * error <= Magnitude(x)

\* A call forwarded loses next to nothing more: coding again what a byte decodes
\* to gives the same sample, and the tables that convert between the codecs keep
\* it to within 1/16.
Requantized ==
    \A byte \in ToSet(out) :
        /\ scenario.codec = CODEC_PCMU =>
             LET x == ulaw2linear(byte) IN
             /\ ulaw2linear(linear2ulaw(x)) = x
             /\ 16 * Magnitude(alaw2linear(ulaw2alaw(byte)) - x) <= Magnitude(x) + BIAS
        /\ scenario.codec = CODEC_PCMA =>
             LET x == alaw2linear(byte) IN
             /\ alaw2linear(linear2alaw(x)) = x
             /\ 16 * Magnitude(ulaw2linear(alaw2ulaw(byte)) - x) <= Magnitude(x) + BIAS

\* The filter has a gain of nearly five at low frequencies and neither saturates
\* nor checks.  Inputs within a third of full scale are safe in the long run: the
\* product with coeff01 stays within 32 bits and the result within 16.
DeemphInRange ==
    ~loud =>
        /\ Magnitude(state) <= (2^30 - 1 + 2^30) \div coeff01
        /\ (state * coeff00) \div 2^14 + (state * coeff00) \div 2^15 \in Sample16

\* What rtl.h:88 says of the audio ("decimate by 3") and the table at g711.c:103 of the
\* code: each A-law byte stands for three samples of its own, as a u-law byte does, and
\* decodes to within 16 or 1/16 of their average.  The coder takes the first third of
\* the read, at a third of its amplitude (codecs.c:144-150); and it takes 8 off the
\* magnitude of a negative sample, also where there are not 8 (g711.c:127).
ALawFaithful ==
    scenario.codec = CODEC_PCMA /\ Plain =>
        LET heard == PCMDecode(out, scenario.codec) IN
        \A i \in 1 .. Len(out) :
            LET x == Clipped(Average(buffer, i) * 2^scenario.gain, 32767)
                error == Magnitude(heard[i] - x)
            IN  error <= 16 \/ 16 * error <= Magnitude(x)
-------------------------------------------------------------------------------
\* The inductive invariant.

TypeOK ==
    /\ scenario \in Scenario /\ todo \in Seq(Seq(Sample16))
    /\ buffer \in Seq(Sample16) /\ out \in Seq(Int)
    /\ state \in Int /\ loud \in BOOLEAN

\* The i-th sample of the last read as an encoder without filter gives it to its coder.
Amplified(i) ==
    (IF scenario.codec = CODEC_PCMU THEN Average(buffer, i) ELSE Third(buffer, i)) * 2^scenario.gain

\* The last packet is what its coder made of the last read.
Coded ==
    /\ Len(out) = newlen(buffer)
    /\ scenario.codec # CODEC_NONE =>
           \A i \in 1 .. Len(out) : out[i] \in Bytes /\ (Plain => out[i] = Code(Amplified(i)))

\* What goes in and what is left of the state add up to no more than this again.
StateBound == 51922
StateBounded == ~loud => state \in -StateBound .. StateBound

IInv == TypeOK /\ Coded /\ StateBounded
===============================================================================
