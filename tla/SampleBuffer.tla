----------------------------- MODULE SampleBuffer -----------------------------
(***************************************************************************)
(* The sample ring of Common/FSKdsp.c between the timer thread (DSPDemod)  *)
(* and the DSP thread (the head of dsp_threads_fn's loop).  A slot holds   *)
(* the serial number of the sample pair averaged into it.                  *)
(*                                                                         *)
(* DSPDemod holds bfr_mutex while it copies, slot by slot, with a private  *)
(* write pointer that it publishes at the end.  The DSP thread needs the   *)
(* mutex only for its emptiness test: it reads its slot and advances rdptr *)
(* without it, so it can run in the middle of a copy.                      *)
(*                                                                         *)
(* Two strays make a DSP thread that waits take a slot of an empty ring: a *)
(* read of a single sample fills no slot, but DSPDemod signals all the     *)
(* same; and a wait may return without a signal, which the code does not   *)
(* look at (the test is an "if", FSKdsp.c:209).  A run of the system       *)
(* either has such strays or it has none.                                  *)
(***************************************************************************)
EXTENDS Integers

CONSTANTS
    SAMPLE_BFRSIZ,  \* slots of the ring
    ReadSizes,      \* how many samples a pipe read can bring
    MaxSlots,       \* bound: how many slots the timer thread fills
    MaxStray        \* bound: how many reads fill no slot or waits return without a signal

ASSUME SAMPLE_BFRSIZAssumption == SAMPLE_BFRSIZ \in Nat /\ SAMPLE_BFRSIZ > 1
\* timer_threads_fn calls DSPDemod only with samples, and one read (at most
\* PIPE_READ_SIZE = 720 samples, half as many slots) never fills the whole ring.
ASSUME ReadSizesAssumption ==
    ReadSizes \subseteq Nat \ {0} /\ \A n \in ReadSizes : n \div 2 < SAMPLE_BFRSIZ
ASSUME BoundsAssumption == MaxSlots \in Nat /\ MaxStray \in Nat

VARIABLES
    buffer,         \* serial number of the sample in each slot
    wrptr, rdptr,   \* the pointers both threads see
    limit,          \* how many strays this run may have
    timer,          \* "out" of DSPDemod, or "copying" with bfr_mutex held
    w, left,        \* DSPDemod's private write pointer and slots still to fill
    dsp,            \* where the DSP thread is in its loop
    stored, published, ntaken,  \* history: slots filled, made visible, processed
    last,           \* history: the sample processed last
    stray,          \* history: reads that filled no slot, waits that returned unsignalled
    overrun,        \* history: the writer once caught up with the reader
    early           \* history: waits that ended with nothing published for them

ring == <<buffer, wrptr, rdptr, limit>>
vars == <<buffer, wrptr, rdptr, limit, timer, w, left, dsp, stored, published,
          ntaken, last, stray, overrun, early>>

Slots == 0 .. SAMPLE_BFRSIZ - 1
Never == -1     \* a slot not written yet, a static 0 in the code

\* DSPInit, and nothing read from the pipe yet.
Init ==
    /\ buffer = [i \in Slots |-> Never]
    /\ wrptr = 0 /\ rdptr = 0
    /\ limit \in {0, MaxStray}
    /\ timer = "out" /\ w = 0 /\ left = 0
    /\ dsp = "idle"
    /\ stored = 0 /\ published = 0 /\ ntaken = 0
    /\ last = Never /\ stray = 0 /\ overrun = FALSE /\ early = 0

\* (p + 1) & (SAMPLE_BFRSIZ - 1), for a pointer p of the ring.
Advance(p) == IF p = SAMPLE_BFRSIZ - 1 THEN 0 ELSE p + 1

\* Mutant of BUFFER_EMPTY: the test is dropped.
NeverEmpty == FALSE

BUFFER_EMPTY == wrptr = rdptr

\* Mutant of Signalled: the wakeup is forgotten.
NoSignal(t) == t

\* The signal on dsp_wait_cond: a waiter may go on once it has the mutex again.
Signalled(t) == IF t = "waiting" THEN "woken" ELSE t
-------------------------------------------------------------------------------
\* DSPDemod up to its loop: n samples make n \div 2 slots, the decimation to
\* 12 kHz averages pairs and an odd sample at the end is left out.
DemodLock(n) ==
    /\ timer = "out"
    /\ n \div 2 = 0 => stray < limit
    /\ stored + n \div 2 <= MaxSlots
    /\ timer' = "copying"
    /\ w' = wrptr
    /\ left' = n \div 2
    /\ stray' = IF n \div 2 = 0 THEN stray + 1 ELSE stray
    /\ UNCHANGED <<ring, dsp, stored, published, ntaken, last, overrun, early>>

\* Mutant of DemodStore: the sample is stored after the pointer moved.
StoreAfterAdvance ==
    /\ timer = "copying" /\ left > 0
    /\ buffer' = [buffer EXCEPT ![Advance(w)] = stored]
    /\ w' = Advance(w)
    /\ left' = left - 1
    /\ stored' = stored + 1
    /\ overrun' = (overrun \/ w' = rdptr)
    /\ UNCHANGED <<wrptr, rdptr, limit, timer, dsp, published, ntaken, last, early, stray>>

\* One slot of the copy; the pointer moves once for every pair.
DemodStore ==
    /\ timer = "copying" /\ left > 0
    /\ buffer' = [buffer EXCEPT ![w] = stored]
    /\ w' = Advance(w)
    /\ left' = left - 1
    /\ stored' = stored + 1
    /\ overrun' = (overrun \/ w' = rdptr)
    /\ UNCHANGED <<wrptr, rdptr, limit, timer, dsp, published, ntaken, last, early, stray>>

\* The end of DSPDemod: publish, signal, unlock.  The signal is sent even when
\* the read was too short to fill a slot.
DemodPublish ==
    /\ timer = "copying" /\ left = 0
    /\ timer' = "out"
    /\ wrptr' = w
    /\ published' = stored
    /\ dsp' = Signalled(dsp)
    /\ early' = IF dsp = "waiting" /\ w = wrptr THEN early + 1 ELSE early
    /\ UNCHANGED <<buffer, rdptr, limit, w, left, stored, ntaken, last, overrun, stray>>

DSPDemod == (\E n \in ReadSizes : DemodLock(n)) \/ DemodStore \/ DemodPublish

\* Mutant of DspCheck: the thread goes on without waiting.
CheckWithoutWait ==
    /\ dsp = "idle" /\ timer = "out"
    /\ dsp' = "taking"
    /\ UNCHANGED <<ring, timer, w, left, stored, published, ntaken, last, overrun, early, stray>>

\* The head of the DSP loop, up to the unlock or into the wait.
DspCheck ==
    /\ dsp = "idle"
    /\ timer = "out"        \* bfr_mutex is free
    /\ dsp' = IF BUFFER_EMPTY THEN "waiting" ELSE "taking"
    /\ UNCHANGED <<ring, timer, w, left, stored, published, ntaken, last, overrun, early, stray>>

\* pthread_cond_wait returns with the mutex, which is released at once.
DspWake ==
    /\ dsp = "woken"
    /\ timer = "out"
    /\ dsp' = "taking"
    /\ UNCHANGED <<ring, timer, w, left, stored, published, ntaken, last, overrun, early, stray>>

\* pthread_cond_wait may return without a signal; the code goes on all the same.
SpuriousWake ==
    /\ dsp = "waiting"
    /\ stray < limit
    /\ dsp' = "woken"
    /\ stray' = stray + 1
    /\ early' = early + 1
    /\ UNCHANGED <<ring, timer, w, left, stored, published, ntaken, last, overrun>>

\* The unlocked read of one sample, whether or not there is one.
DspTake ==
    /\ dsp = "taking"
    /\ dsp' = "idle"
    /\ last' = buffer[rdptr]
    /\ rdptr' = Advance(rdptr)
    /\ ntaken' = ntaken + 1
    /\ UNCHANGED <<buffer, wrptr, limit, timer, w, left, stored, published, overrun, early, stray>>

dsp_threads_fn == DspCheck \/ DspWake \/ SpuriousWake \/ DspTake

Next == DSPDemod \/ dsp_threads_fn

Spec == Init /\ [][Next]_vars

\* The DSP thread loops for as long as the program runs, and DSPDemod runs to its
\* end once it holds the mutex; the pipe need never bring another sample.  The
\* mutex is handed to a waiting DSP thread again and again, not continuously:
\* DSPDemod runs once in 30 ms, so the thread does get it.  No wait need ever
\* return without a signal.
FairSpec ==
    /\ Spec
    /\ SF_vars(DspCheck) /\ SF_vars(DspWake) /\ WF_vars(DspTake)
    /\ WF_vars(DemodStore \/ DemodPublish)
-------------------------------------------------------------------------------
\* Every variable keeps its type; the pointers stay inside the ring.
TypeOK ==
    /\ buffer \in [Slots -> {Never} \cup Nat]
    /\ wrptr \in Slots /\ rdptr \in Slots /\ w \in Slots
    /\ timer \in {"out", "copying"} /\ left \in 0 .. SAMPLE_BFRSIZ - 1
    /\ dsp \in {"idle", "waiting", "woken", "taking"}
    /\ stored \in Nat /\ published \in Nat /\ ntaken \in Nat
    /\ last \in {Never} \cup Nat
    /\ limit \in Nat /\ stray \in Nat
    /\ overrun \in BOOLEAN /\ early \in Nat

\* The DSP thread sleeps (FSKdsp.c:211) only while nothing is published for it:
\* no signal is lost between its test and its wait.
NoLostWakeup == dsp = "waiting" => BUFFER_EMPTY

\* As long as the writer never caught up with it, the DSP thread gets every
\* sample once and in order, and none before DSPDemod has published it, although
\* it reads the ring without the mutex while DSPDemod is writing to it.
FIFO == ~overrun => last = ntaken - 1 /\ ntaken <= published

\* No wakeup is lost whatever happened before, and the ring is a queue of what
\* was published until the writer catches up with the reader or a wait ends with
\* nothing published.
QueueUntilOverrun == NoLostWakeup /\ (early = 0 => FIFO)

\* What FSKdsp.c:215 says of the thread that got past the test and the wait:
\* there is data to process.  It fails after an overrun, after a signal without a
\* sample and after a wait that returned without a signal, and then it costs a
\* bounded number of samples: every wait of the last two kinds makes the thread
\* process at most one lap of old samples again, and overruns none.
DataToProcess ==
    /\ dsp = "taking" => ~BUFFER_EMPTY \/ overrun \/ early > 0
    /\ ntaken <= published + early * SAMPLE_BFRSIZ

\* The abstract channel of a run without strays.  A slot counts as produced when it
\* is filled, as the reader may come to it before it is published once the ring has
\* overrun; before that FIFO says that it does not.
Channel ==
    INSTANCE OrderedChannel WITH
        produced <- IF limit = 0 THEN stored ELSE 0,
        delivered <- IF limit = 0 THEN ntaken ELSE 0,
        last <- IF limit = 0 THEN last ELSE Never

\* With any overruns, and samples overwritten in the middle of a copy, the DSP
\* thread still never gets a sample twice or out of order.
ChannelSpec == Channel!Spec

\* The DSP thread comes to every published sample or one after it, unless it was
\* overrun; neither kind of stray makes it stop early.
Processed ==
    \A k \in 0 .. MaxSlots - 1 : published > k ~> last >= k \/ overrun
-------------------------------------------------------------------------------
\* The inductive strengthening.

\* Distances around the ring from the reader, from the published pointer and from
\* slot i to the private write pointer.
Around(from) == IF from <= w THEN w - from ELSE w - from + SAMPLE_BFRSIZ
Ahead == Around(rdptr)
Copied == Around(wrptr)
Back(i) == IF i < w THEN w - i ELSE w - i + SAMPLE_BFRSIZ

\* The ring holds the newest samples, in order, ending behind w.
Contents ==
    \A i \in Slots : buffer[i] = IF stored >= Back(i) THEN stored - Back(i) ELSE Never

\* A copy has filled what lies between the pointers and makes never all slots, and
\* at least one unless the read was short; outside of DSPDemod there is nothing unpublished.
CopyInProgress ==
    /\ stored - published = Copied
    /\ timer = "out" => w = wrptr
    /\ timer = "copying" =>
           /\ Copied + left \in 0 .. SAMPLE_BFRSIZ - 1
           /\ Copied + left = 0 => early < stray

\* What was taken last is older than everything ahead of the reader, the whole
\* ring if it was overrun since its test.
ReaderBehind ==
    /\ last < stored - Ahead
    /\ dsp \in {"woken", "taking"} /\ Ahead = 0 => last < stored - SAMPLE_BFRSIZ

\* Without an overrun the pointers count exactly what is outstanding, and a
\* reader past its test has a published sample.
InStep ==
    ~overrun =>
        /\ Ahead = stored - ntaken
        /\ last = ntaken - 1 /\ ntaken <= published
        /\ dsp \in {"woken", "taking"} => ntaken < published

\* What the reader sees ahead of it.
Outstanding == IF rdptr <= wrptr THEN wrptr - rdptr ELSE wrptr - rdptr + SAMPLE_BFRSIZ

\* The samples published and the laps early waits were worth, less what was taken and
\* what the pointers still show: laps that an overrun lost or a wait is still owed.
Owed == published + early * SAMPLE_BFRSIZ - ntaken - Outstanding

\* A reader past its test with the pointers together has a lap before it.
InLaps == Owed >= IF dsp \in {"woken", "taking"} /\ Outstanding = 0 THEN SAMPLE_BFRSIZ ELSE 0

\* What the theorems of SampleBuffer_proof rest on: type, laps and copy in progress
\* agree always; contents of the ring, place of the reader and the counters do until
\* a wait first ends with nothing published, which takes a stray.
IInv ==
    /\ TypeOK /\ NoLostWakeup /\ CopyInProgress /\ InLaps
    /\ stray <= limit /\ early <= stray
    /\ early = 0 => Contents /\ ReaderBehind /\ InStep
===============================================================================
