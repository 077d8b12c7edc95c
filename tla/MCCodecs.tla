------------------------------- MODULE MCCodecs -------------------------------
(***************************************************************************)
(* Every 16-bit average through the u-law coder and every third of a       *)
(* 16-bit sample through the A-law coder, with two gains; packets of       *)
(* three different samples each; and constant and alternating signals of   *)
(* the largest safe amplitude through the deemphasis filter.  Apart from    *)
(* these, reads of three quiet samples below zero and three loud ones.      *)
(***************************************************************************)
EXTENDS Codecs

Encode(reads, codecs, gains, deemphasis) ==
    {[reads |-> r, codec |-> c, gain |-> g, deemphasis |-> deemphasis] :
        r \in reads, c \in codecs, g \in gains}

\* 256 successive values to a packet.
MCAverages == {<< [i \in 1 .. 768 |-> 256 * k + (i - 1) \div 3] >> : k \in -128 .. 127}
MCThirds ==
    {<< [i \in 1 .. 768 |-> IF i <= 256 THEN 3 * (256 * k + i - 1) ELSE 0] >> : k \in -42 .. 41}
MCMixed ==
    LET values == {-32768, -32767, -1, 0, 2, 32767} IN
    {<< <<a, b, c, 5, -9, b>>, <<b, c>> >> : a, b, c \in values}

\* Thirty outputs take the filter to its largest state.
Constant(v) == << [i \in 1 .. 60 |-> v], [i \in 1 .. 60 |-> v] >>
Pulses(v) == << [i \in 1 .. 60 |-> IF i % 30 < 15 THEN v ELSE -v], [i \in 1 .. 60 |-> v] >>
MCSignals == {Constant(v) : v \in {-10900, -5450, 10900, 5450}} \cup {Pulses(10900)}

MCScenarios ==
    Encode(MCAverages, {CODEC_PCMU}, {0, 2}, FALSE)
    \cup Encode(MCThirds, {CODEC_PCMA}, {0, 2}, FALSE)
    \cup Encode(MCMixed, {CODEC_NONE, CODEC_PCMU, CODEC_PCMA}, {0, 1}, FALSE)
    \cup Encode(MCSignals, {CODEC_PCMU, CODEC_PCMA}, {0}, TRUE)

\* The thirds of the quiet samples are -7 .. -1.
MCQuietThenLoud ==
    Encode({<< [i \in 1 .. 6 |-> IF i <= 3 THEN a ELSE 20000] >> : a \in -21 .. -3},
           {CODEC_PCMA}, {0}, FALSE)
===============================================================================
