------------------------------ MODULE BitDecoder ------------------------------
(***************************************************************************)
(* The bit and byte decoder of the DSP thread (the two branches at the end *)
(* of dsp_threads_fn in Common/FSKdsp.c, with EdgeDetect, RunBitClock and  *)
(* DSPClearSync) and the sync correlator of Common/demod.c, one sample of  *)
(* the sliced FSK signal per step.                                         *)
(*                                                                         *)
(* The signal is that of an ideal transmitter: NOAA sends 520 5/6 bits per *)
(* second, least significant bit first, which at the decoder's 12000       *)
(* samples per second is 576/25 = 23.04 samples per bit.  On top of that a *)
(* bounded number of samples, once the decoder is in sync, may come out    *)
(* inverted.                                                               *)
(***************************************************************************)
EXTENDS Integers, Sequences

CONSTANT Scenarios      \* bound: what is received, see Scenario

BIT_DIVISOR == 23
SWALLOW_CTR == 23
XING_MAX == 3
SYNC_BYTE == 171        \* 0xAB
BITSPERBYTE == 8
N_CORR_BITS == 16
CORR_LENGTH == BIT_DIVISOR * N_CORR_BITS
sync_bits == <<1, 0, 1, 0, 1, 0, 1, 1, 1, 0, 1, 0, 1, 0, 1, 1>>

\* The bytes sent; where in the first bit, in 576ths, the first sample falls; how
\* many samples may come out inverted; when the application may ask for a new sync.
Scenario ==
    [sent: Seq(0 .. 255), phase: 0 .. 575, inverted: 0 .. XING_MAX - 1,
     clearings: SUBSET Nat]

\* The bits of a message, in the order they are sent.
BitsOf(message) == BITSPERBYTE * Len(message)
BitOf(message, k) == (message[k \div BITSPERBYTE + 1] \div 2^(k % BITSPERBYTE)) % 2

\* The sync bytes the decoder loses.  The correlator takes two: it matches as soon
\* as its register is full, as far inside bit 15 as the first sample was inside
\* bit 0, and the bit clock is started there.  For these phases its third bit time
\* is over within the first samples of bit 18, the first that differs: it is read
\* before its edge is detected, and again after, which spoils the third sync byte.
LateStart == 243 .. 292
Eaten(s) == IF s.phase \in LateStart THEN 3 ELSE 2

\* A message begins with one sync byte more than is lost, and no run of equal bits
\* in it is longer than the free-running clock bridges, which is one bit less for
\* each inverted sample that may delay the edge before.
Preamble(s) ==
    /\ Len(s.sent) > Eaten(s)
    /\ \A i \in 1 .. Eaten(s) + 1 : s.sent[i] = SYNC_BYTE
LongestRun(s) == 9 - s.inverted
Bridged(s) ==
    \A k \in 0 .. BitsOf(s.sent) - 1 - LongestRun(s) :
        \E i \in 1 .. LongestRun(s) : BitOf(s.sent, k + i) # BitOf(s.sent, k)

ASSUME ScenariosAssumption ==
    /\ Scenarios \subseteq Scenario
    /\ \A s \in Scenarios : Preamble(s) /\ Bridged(s)

VARIABLES
    scenario, t, glitches,  \* what is received, the next sample's time, inverted samples
    correlator, insync,             \* demod.c's shift register; in sync
    current_sense, xingcnt,         \* EdgeDetect
    divisor, swallow_ctr,           \* RunBitClock
    demod_byte, bitctr, bytesync,   \* byte assembly
    out,                            \* bytes given to byte_rx_func
    bitno,      \* history: bits clocked in, counted on from the sync byte
    cleared,    \* history: the application has asked for a new sync
    since       \* history: when the search for a sync code began last

received == <<scenario, t, glitches>>
edge == <<current_sense, xingcnt>>
clock == <<divisor, swallow_ctr>>
bytes == <<demod_byte, bitctr, bytesync, out>>
decoder == <<scenario, t, glitches, correlator, insync, current_sense, xingcnt,
          divisor, swallow_ctr, demod_byte, bitctr, bytesync, out,
          bitno, cleared, since>>
-------------------------------------------------------------------------------
\* The received signal.

sent == scenario.sent
TxIndex(time) == (25 * time + scenario.phase) \div 576
TxBits == BitsOf(sent)
TxBit(k) == BitOf(sent, k)
Received(time) == TxBit(TxIndex(time))

DecoderInit ==
    /\ scenario \in Scenarios /\ t = 0 /\ glitches = 0
    /\ correlator = [i \in 1 .. CORR_LENGTH |-> 0] /\ insync = FALSE
    /\ current_sense = 0 /\ xingcnt = 0
    /\ divisor = 0 /\ swallow_ctr = 0
    /\ demod_byte = 0 /\ bitctr = 0 /\ bytesync = FALSE
    /\ out = << >>
    /\ bitno = -1 /\ cleared = FALSE /\ since = 0
-------------------------------------------------------------------------------
\* SyncCorrelator: the register with a new sample in front, and the comparison.
ShiftedIn(bit) == <<bit>> \o SubSeq(correlator, 1, CORR_LENGTH - 1)

\* Mutant of Matches: the sync code is compared in the order it is sent in.
MatchesReversed(reg) ==
    \A i \in 0 .. N_CORR_BITS - 1 : reg[i * BIT_DIVISOR + 1] = sync_bits[N_CORR_BITS - i]

Matches(reg) ==
    \A i \in 0 .. N_CORR_BITS - 1 : reg[i * BIT_DIVISOR + 1] = sync_bits[i + 1]

\* Mutant of Edge: any sample that differs is one.
AnyChange(bit) == bit # current_sense

\* EdgeDetect(bit, FALSE): the sample that is the XING_MAX-th to differ from the
\* current sense.  The count is not reset by samples that agree with it.
Edge(bit) == bit # current_sense /\ xingcnt + 1 = XING_MAX

EdgeDetect(bit) ==
    /\ current_sense' = IF Edge(bit) THEN bit ELSE current_sense
    /\ xingcnt' = IF Edge(bit) THEN 0
                  ELSE IF bit # current_sense THEN xingcnt + 1 ELSE xingcnt

\* Mutant of ResetBitClock: back to the beginning of a bit.
ResetToEdge == divisor' = BIT_DIVISOR - 1 /\ swallow_ctr' = SWALLOW_CTR

\* RunBitClock(TRUE): back to the middle of a bit.
ResetBitClock == divisor' = BIT_DIVISOR \div 2 /\ swallow_ctr' = SWALLOW_CTR

\* RunBitClock(FALSE): the bit time is over when the divisor has run out.
RunBitClock ==
    \/ /\ divisor > 0
       /\ divisor' = divisor - 1
       /\ UNCHANGED swallow_ctr
    \/ /\ divisor = 0 /\ swallow_ctr > 0
       /\ divisor' = BIT_DIVISOR
       /\ swallow_ctr' = swallow_ctr - 1
    \/ /\ divisor = 0 /\ swallow_ctr = 0
       /\ divisor' = BIT_DIVISOR - 1
       /\ swallow_ctr' = SWALLOW_CTR

bit_time(bit) == divisor = 0 /\ ~Edge(bit)
-------------------------------------------------------------------------------
\* The sample the decoder sees at time t, and what history keeps of it.
Sample(bit) ==
    /\ t' = t + 1
    /\ UNCHANGED <<scenario, cleared, since>>
    /\ \/ bit = Received(t) /\ UNCHANGED glitches
       \/ /\ insync /\ bit # Received(t)
          /\ glitches < scenario.inverted /\ glitches' = glitches + 1

\* Mutant of ForgetBytes: the byte alignment survives a loss of sync.
KeepBytes == UNCHANGED bytesync

ForgetBytes == bytesync' = FALSE

\* Not in sync: look for the sync code; when it is found, initialise the edge
\* detector, the bit clock and the byte.
Search(bit) ==
    /\ ~insync
    /\ ForgetBytes
    /\ correlator' = ShiftedIn(bit)
    /\ insync' = Matches(ShiftedIn(bit))
    /\ UNCHANGED <<out, bitno>>
    /\ IF insync'
       THEN /\ current_sense' = bit /\ xingcnt' = 0
            /\ ResetBitClock
            /\ bitctr' = 0 /\ demod_byte' = 0
       ELSE UNCHANGED <<edge, clock, bitctr, demod_byte>>

\* The byte when a bit is shifted in on top, so that the first bit ends lowest.
ShiftIn(bit) == demod_byte \div 2 + 128 * bit

\* A bit is clocked in: wait for a whole sync byte, then count bytes off.
ReceiveBit(bit) ==
    /\ demod_byte' = ShiftIn(bit)
    /\ \/ /\ ~bytesync /\ ShiftIn(bit) = SYNC_BYTE
          /\ bytesync' = TRUE /\ bitctr' = 0
          /\ out' = Append(out, SYNC_BYTE)
       \/ /\ ~bytesync /\ ShiftIn(bit) # SYNC_BYTE
          /\ UNCHANGED <<bytesync, bitctr, out>>
       \/ /\ bytesync /\ bitctr < BITSPERBYTE - 1
          /\ bitctr' = bitctr + 1
          /\ UNCHANGED <<bytesync, out>>
       \/ /\ bytesync /\ bitctr = BITSPERBYTE - 1
          /\ bitctr' = 0
          /\ out' = Append(out, ShiftIn(bit))
          /\ UNCHANGED bytesync

\* In sync: run the edge detector and the bit clock, and gather the bits up.
Gather(bit) ==
    /\ insync
    /\ EdgeDetect(bit)
    /\ IF Edge(bit) THEN ResetBitClock ELSE RunBitClock
    /\ IF bit_time(bit) THEN ReceiveBit(bit) ELSE UNCHANGED bytes
    /\ bitno' = IF ~bit_time(bit) THEN bitno
                ELSE IF bytesync THEN bitno + 1 ELSE TxIndex(t)
    /\ UNCHANGED <<correlator, insync>>

\* One turn of the DSP thread.
DspSample ==
    /\ TxIndex(t) < TxBits
    /\ \E bit \in {0, 1} : Sample(bit) /\ (Search(bit) \/ Gather(bit))

\* The Java receiver gives up a message (clrFSKSync) between two samples.
DSPClearSync ==
    /\ t \in scenario.clearings
    /\ insync /\ insync' = FALSE
    /\ cleared' = TRUE /\ since' = t
    /\ UNCHANGED <<received, correlator, edge, clock, bytes, bitno>>

DecoderNext == DspSample \/ DSPClearSync

DecoderSpec == DecoderInit /\ [][DecoderNext]_decoder
-------------------------------------------------------------------------------
\* From a sync byte on, also one that follows a sync made of old samples, the bit
\* clock samples every transmitted bit once: none twice and none skipped, whatever
\* the phase at which the correlator matched and with the jitter that inverted
\* samples put on the edges it is reset by.
EachBitOnce ==
    [][bytesync /\ bitno' # bitno => bitno' = TxIndex(t)]_decoder

\* The transmission without the sync bytes that are lost.
Decodable == SubSeq(sent, Eaten(scenario) + 1, Len(sent))

\* Of a clean signal, the bytes given to byte_rx_func are those sent, from the
\* first byte after the sync code on, or the second after a late start, each once
\* and in order, and in the end all.
Decoded ==
    glitches = 0 /\ ~cleared =>
        /\ out = SubSeq(Decodable, 1, Len(out))
        /\ TxIndex(t) = TxBits => out = Decodable

\* Nothing that straddles two bytes of the transmission looks like a sync byte.
Unambiguous ==
    \A k \in 0 .. TxBits - BITSPERBYTE :
        (\A i \in 0 .. BITSPERBYTE - 1 : TxBit(k + i) = (SYNC_BYTE \div 2^i) % 2)
            => k % BITSPERBYTE = 0

\* However sync was found, each byte given to byte_rx_func is one of those sent, cut
\* where the transmitter cut them, at the moment its last bit is read.
BytesInStep ==
    [][out' # out /\ glitches' = 0 /\ Unambiguous =>
         /\ TxIndex(t) % BITSPERBYTE = BITSPERBYTE - 1
         /\ out' = Append(out, sent[TxIndex(t) \div BITSPERBYTE + 1])]_decoder

\* A message begins with byte p, and with three sync bytes, after the last search did.
AnotherMessage(p) ==
    /\ \A i \in p .. p + 2 : sent[i] = SYNC_BYTE
    /\ 25 * since + scenario.phase <= 576 * BITSPERBYTE * (p - 1)

\* Whenever in a message the application asks for a new sync, even if the decoder
\* then believes at once to be in sync again, as DSPClearSync leaves the register
\* full, all that is sent from the third sync byte of the message after it on is
\* decoded, unless a byte that looks like sync lies across two bytes of the one
\* given up.
NextMessageDecoded ==
    cleared /\ TxIndex(t) = TxBits /\ glitches = 0 /\ Unambiguous =>
        \A p \in 1 .. Len(sent) - 3 : AnotherMessage(p) =>
            /\ Len(out) >= Len(sent) - p - 1
            /\ \A i \in 0 .. Len(sent) - p - 2 : out[Len(out) - i] = sent[Len(sent) - i]

\* What demod.c:55 says the correlator looks for: sync is found only when the last
\* sixteen bits received are the sync code, twice AB.  DSPClearSync leaves the
\* register as it is, so this holds from the moment on when all that the correlator
\* compares was received since the search began.
FreshSync ==
    [][insync' /\ ~insync /\ t - (N_CORR_BITS - 1) * BIT_DIVISOR >= since =>
         \A i \in 0 .. N_CORR_BITS - 1 : Received(t - i * BIT_DIVISOR) = sync_bits[i + 1]]_decoder
===============================================================================
