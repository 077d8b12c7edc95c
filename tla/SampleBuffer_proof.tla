-------------------------- MODULE SampleBuffer_proof ---------------------------
(***************************************************************************)
(* Theorems about the sample ring, for every ring size and all read sizes  *)
(* that fill less than the ring.  A read of a single sample and a wait     *)
(* that returns without a signal may wake the DSP thread too early; types, *)
(* wakeups and the copy in progress do not suffer from it, the contents of *)
(* the queue do, by whole laps.                                            *)
(***************************************************************************)
EXTENDS SampleBuffer, TLAPS

USE SAMPLE_BFRSIZAssumption, BoundsAssumption

\* Advance stays in the ring.
LEMMA AdvanceInRing ==
    ASSUME NEW p \in Slots PROVE Advance(p) \in Slots
BY DEF Advance, Slots

\* The distances between the pointers are within one lap.
LEMMA Distances ==
    ASSUME wrptr \in Slots, rdptr \in Slots, w \in Slots
    PROVE  /\ Ahead \in 0 .. SAMPLE_BFRSIZ - 1
           /\ Copied \in 0 .. SAMPLE_BFRSIZ - 1
           /\ Ahead = 0 <=> rdptr = w
           /\ wrptr = rdptr => Ahead = Copied
           /\ Back(rdptr) = IF Ahead = 0 THEN SAMPLE_BFRSIZ ELSE Ahead
           /\ \A i \in Slots : Back(i) \in 1 .. SAMPLE_BFRSIZ
BY DEF Slots, Ahead, Copied, Around, Back

\* What the reader sees ahead of it is within one lap, and a publication adds the
\* slots copied to it, or takes the pointers past each other.
LEMMA Published ==
    ASSUME wrptr \in Slots, rdptr \in Slots, w \in Slots
    PROVE  /\ Outstanding \in 0 .. SAMPLE_BFRSIZ - 1
           /\ Outstanding = 0 <=> wrptr = rdptr
           /\ wrptr' = w /\ rdptr' = rdptr =>
                  Outstanding' = IF Outstanding + Copied < SAMPLE_BFRSIZ
                                 THEN Outstanding + Copied
                                 ELSE Outstanding + Copied - SAMPLE_BFRSIZ
BY DEF Slots, Outstanding, Copied, Around

\* One lap more.
LEMMA LapMore == ASSUME NEW k \in Nat
                 PROVE  /\ k * SAMPLE_BFRSIZ \in Nat
                        /\ (k + 1) * SAMPLE_BFRSIZ = k * SAMPLE_BFRSIZ + SAMPLE_BFRSIZ
OBVIOUS

\* The ring as DSPInit leaves it satisfies the invariant.
LEMMA InitIInv == Init => IInv
<1> SUFFICES ASSUME Init PROVE IInv
  OBVIOUS
<1> USE DEF Init
<1>1. TypeOK /\ NoLostWakeup
  <2>1. buffer \in [Slots -> {Never} \cup Nat]
    OBVIOUS
  <2>2. wrptr \in Slots /\ rdptr \in Slots /\ w \in Slots
    BY DEF Slots
  <2>3. overrun \in BOOLEAN /\ early \in Nat
    <3>1. overrun \in BOOLEAN
      BY Zenon
    <3> QED
      BY <3>1
  <2> QED
    BY <2>1, <2>2, <2>3 DEF TypeOK, NoLostWakeup, Never
<1>2. Contents
  BY DEF Contents, Back, Slots
<1>3. CopyInProgress /\ ReaderBehind /\ InStep
  BY DEF CopyInProgress, ReaderBehind, InStep, Ahead, Copied, Around, Never
<1>4. InLaps /\ stray <= limit /\ early <= stray
  BY DEF InLaps, Owed, Outstanding
<1> QED
  BY <1>1, <1>2, <1>3, <1>4 DEF IInv

\* Taking the mutex for a read of n samples.
LEMMA LockIInv ==
    ASSUME IInv, NEW n \in ReadSizes, DemodLock(n) PROVE IInv'
<1> USE DEF IInv
<1>1. n \div 2 \in 0 .. SAMPLE_BFRSIZ - 1
  <2>1. n \in Nat /\ n \div 2 < SAMPLE_BFRSIZ
    BY ReadSizesAssumption
  <2> QED
    BY <2>1
<1>2. w' = w /\ wrptr' = wrptr /\ rdptr' = rdptr /\ w = wrptr
  BY DEF CopyInProgress, DemodLock, ring
<1>3. Ahead' = Ahead /\ Copied' = Copied /\ Copied = 0 /\ \A i \in Slots : Back(i)' = Back(i)
  BY <1>2 DEF Ahead, Copied, Around, Back, TypeOK, Slots
<1>4. /\ stray \in Nat /\ limit \in Nat /\ early \in Nat /\ limit' = limit /\ early' = early
      /\ stray' = (IF n \div 2 = 0 THEN stray + 1 ELSE stray)
      /\ n \div 2 = 0 => stray < limit
  BY DEF TypeOK, DemodLock, ring
<1>5. stray' \in Nat /\ stray' <= limit' /\ (n \div 2 = 0 => early' < stray') /\ early' <= stray'
  BY <1>1, <1>4
<1>6. TypeOK' /\ NoLostWakeup'
  BY <1>1, <1>2, <1>5 DEF TypeOK, NoLostWakeup, DemodLock, ring, BUFFER_EMPTY
<1>7. CopyInProgress'
  BY <1>1, <1>2, <1>3, <1>5 DEF CopyInProgress, DemodLock, TypeOK
<1>8. InLaps'
  BY <1>2, <1>4 DEF InLaps, Owed, Outstanding, DemodLock
<1>9. early' = 0 => Contents' /\ ReaderBehind' /\ InStep'
  BY <1>3, <1>4 DEF Contents, ReaderBehind, InStep, DemodLock, ring
<1> QED
  BY <1>5, <1>6, <1>7, <1>8, <1>9

\* Filling a slot: the reader falls one slot behind, or the pointers meet and a
\* whole lap is gone.
LEMMA StoreIInv == IInv /\ DemodStore => IInv'
<1> SUFFICES ASSUME IInv, DemodStore PROVE IInv'
  OBVIOUS
<1> USE DEF IInv
<1>1. TypeOK'
  BY AdvanceInRing DEF TypeOK, DemodStore, Slots, Never
<1>2. NoLostWakeup'
  BY DEF NoLostWakeup, DemodStore, BUFFER_EMPTY
<1>3. Ahead' = IF Ahead = SAMPLE_BFRSIZ - 1 THEN 0 ELSE Ahead + 1
  BY DEF TypeOK, DemodStore, Ahead, Around, Advance, Slots
<1>4. Copied' = Copied + 1
  <2>1. Copied < SAMPLE_BFRSIZ - 1
    BY Distances DEF TypeOK, CopyInProgress, DemodStore
  <2> QED
    BY <2>1 DEF TypeOK, DemodStore, Copied, Around, Advance, Slots
<1>5. ASSUME NEW i \in Slots
      PROVE  Back(i)' = IF i = w THEN 1 ELSE Back(i) + 1
  BY DEF TypeOK, DemodStore, Back, Advance, Slots
<1>6. Contents => Contents'
  <2> SUFFICES ASSUME Contents, NEW i \in Slots
               PROVE  buffer'[i] = IF stored' >= Back(i)' THEN stored' - Back(i)' ELSE Never
    BY DEF Contents
  <2>1. CASE i = w
    BY <1>5, <2>1 DEF TypeOK, DemodStore
  <2>2. CASE i # w
    <3>1. buffer'[i] = buffer[i] /\ stored' = stored + 1 /\ Back(i)' = Back(i) + 1
      BY <1>5, <2>2 DEF TypeOK, DemodStore
    <3>2. Back(i) \in Int /\ stored \in Int
      BY DEF TypeOK, Back, Slots
    <3> QED
      BY <3>1, <3>2 DEF Contents
  <2> QED
    BY <2>1, <2>2
<1>7. CopyInProgress'
  BY <1>4, Distances DEF TypeOK, CopyInProgress, DemodStore
<1>8. ReaderBehind => ReaderBehind'
  BY <1>3, Distances DEF TypeOK, DemodStore, ReaderBehind, Never
<1>9. InStep => InStep'
  <2> SUFFICES ASSUME InStep, ~overrun' PROVE InStep'
    BY DEF InStep
  <2>1. ~overrun /\ w' # rdptr /\ rdptr' = rdptr
    BY DEF DemodStore
  <2>2. Ahead' # 0
    <3>1. w' \in Slots /\ rdptr' \in Slots
      BY <1>1 DEF TypeOK
    <3>2. w' # rdptr'
      BY <2>1
    <3>3. ASSUME NEW a \in Slots, NEW b \in Slots, a # b
          PROVE  (IF b <= a THEN a - b ELSE a - b + SAMPLE_BFRSIZ) # 0
      BY <3>3 DEF Slots
    <3> QED
      BY <3>1, <3>2, <3>3 DEF Ahead, Around
  <2>3. /\ Ahead = stored - ntaken
        /\ last = ntaken - 1 /\ ntaken <= published
        /\ dsp \in {"woken", "taking"} => ntaken < published
    BY <2>1 DEF InStep
  <2>4. Ahead' = stored' - ntaken'
    BY <1>3, <2>2, <2>3, Distances DEF TypeOK, DemodStore
  <2> QED
    BY <2>3, <2>4 DEF InStep, DemodStore
<1>10. early' = early /\ stray' = stray /\ limit' = limit
  BY DEF DemodStore
<1>11. InLaps'
  BY DEF InLaps, Owed, Outstanding, DemodStore
<1> QED
  BY <1>1, <1>2, <1>6, <1>7, <1>8, <1>9, <1>10, <1>11

\* A publication that takes the write pointer past the reader loses a lap; an empty
\* one wakes a waiting reader for a lap of old samples.
LEMMA PublishLaps == ASSUME IInv, DemodPublish PROVE InLaps'
<1> DEFINE laps == early * SAMPLE_BFRSIZ
<1> USE DEF IInv
<1>1. /\ wrptr \in Slots /\ rdptr \in Slots /\ w \in Slots /\ early \in Nat
      /\ stored \in Nat /\ published \in Nat /\ ntaken \in Nat
  BY DEF TypeOK
<1>2. /\ Outstanding \in 0 .. SAMPLE_BFRSIZ - 1 /\ Copied \in 0 .. SAMPLE_BFRSIZ - 1
      /\ Copied = 0 <=> w = wrptr
      /\ Outstanding' = IF Outstanding + Copied < SAMPLE_BFRSIZ THEN Outstanding + Copied
                        ELSE Outstanding + Copied - SAMPLE_BFRSIZ
  BY <1>1, Published, Distances DEF DemodPublish, Copied, Around, Slots
<1>3. published' = published + Copied /\ ntaken' = ntaken
  BY <1>1, <1>2 DEF CopyInProgress, DemodPublish
<1>4. laps \in Nat /\ Owed = published + laps - ntaken - Outstanding
  BY <1>1, LapMore DEF Owed
<1>5. Owed \in Int /\ Owed >= 0
  BY <1>1, <1>2, <1>4 DEF InLaps
<1>6. CASE dsp = "waiting" /\ Copied = 0
  <2>1. early' = early + 1 /\ Outstanding = 0 /\ Outstanding' = 0
    BY <1>1, <1>2, <1>6, Published DEF DemodPublish, NoLostWakeup, BUFFER_EMPTY
  <2>2. early' * SAMPLE_BFRSIZ = laps + SAMPLE_BFRSIZ
    BY <1>1, <2>1, LapMore
  <2>3. Owed' = published' + early' * SAMPLE_BFRSIZ - ntaken' - Outstanding'
    BY DEF Owed
  <2>4. Owed' = Owed + SAMPLE_BFRSIZ
    BY <1>1, <1>2, <1>3, <1>4, <1>6, <2>1, <2>2, <2>3
  <2> QED
    BY <1>5, <2>4 DEF InLaps
<1>7. CASE dsp # "waiting" \/ Copied # 0
  <2>1. early' = early
    BY <1>2, <1>7 DEF DemodPublish
  <2>2. Owed' = published' + laps - ntaken' - Outstanding'
    BY <2>1 DEF Owed
  <2> HIDE DEF laps
  <2>3. Owed' = IF Outstanding + Copied < SAMPLE_BFRSIZ THEN Owed ELSE Owed + SAMPLE_BFRSIZ
    BY <1>1, <1>2, <1>3, <1>4, <2>2
  <2>4. dsp' \in {"woken", "taking"} /\ Outstanding' = 0 /\ Outstanding + Copied < SAMPLE_BFRSIZ
            => dsp \in {"woken", "taking"} /\ Outstanding = 0
    BY <1>2, <1>7 DEF DemodPublish, Signalled
  <2>5. dsp \in {"woken", "taking"} /\ Outstanding = 0 => Owed >= SAMPLE_BFRSIZ
    BY DEF InLaps
  <2> QED
    BY <1>2, <1>5, <2>3, <2>4, <2>5 DEF InLaps
<1> QED
  BY <1>6, <1>7

\* Publishing: a woken reader has something ahead of it, unless the copy was empty.
LEMMA PublishIInv == IInv /\ DemodPublish => IInv'
<1> SUFFICES ASSUME IInv, DemodPublish PROVE IInv'
  OBVIOUS
<1> USE DEF IInv
<1>1. /\ Copied \in 0 .. SAMPLE_BFRSIZ - 1 /\ (Copied = 0 => early < stray)
      /\ Copied = 0 <=> w = wrptr
  BY Distances DEF TypeOK, CopyInProgress, DemodPublish, Copied, Around, Slots
<1>2. early' = (IF dsp = "waiting" /\ w = wrptr THEN early + 1 ELSE early) /\ early \in Nat
  BY DEF DemodPublish, TypeOK
<1>3. TypeOK' /\ NoLostWakeup'
  BY <1>2 DEF TypeOK, NoLostWakeup, DemodPublish, Signalled
<1>4. Ahead' = Ahead /\ Copied' = 0 /\ \A i \in Slots : Back(i)' = Back(i)
  BY DEF TypeOK, DemodPublish, Ahead, Copied, Around, Back, Slots
<1>5. CopyInProgress'
  BY <1>4 DEF CopyInProgress, DemodPublish, TypeOK
<1>6. stray' <= limit' /\ early' <= stray'
  BY <1>1, <1>2 DEF DemodPublish, TypeOK
<1>7. ASSUME early' = 0 PROVE Contents' /\ ReaderBehind' /\ InStep'
  <2>1. early = 0 /\ (dsp = "waiting" => Copied >= 1)
    BY <1>1, <1>2, <1>7
  <2>2. Contents'
    BY <1>4, <2>1 DEF Contents, DemodPublish
  <2>3. dsp = "waiting" => Ahead >= 1
    BY <2>1, Distances DEF TypeOK, NoLostWakeup, BUFFER_EMPTY
  <2>4. ReaderBehind'
    BY <1>4, <2>1, <2>3 DEF ReaderBehind, DemodPublish, Signalled
  <2>5. InStep'
    BY <1>1, <1>4, <2>1, <2>3 DEF TypeOK, InStep, CopyInProgress, DemodPublish, Signalled
  <2> QED
    BY <2>2, <2>4, <2>5
<1>8. InLaps'
  BY <1>1, <1>2, PublishLaps
<1> QED
  BY <1>3, <1>5, <1>6, <1>7, <1>8

\* The emptiness test, and coming back from the wait.
LEMMA CheckIInv == IInv /\ (DspCheck \/ DspWake) => IInv'
<1> SUFFICES ASSUME IInv, DspCheck \/ DspWake PROVE IInv'
  OBVIOUS
<1> USE DEF IInv, DspCheck, DspWake, ring
<1>1. TypeOK' /\ NoLostWakeup'
  BY DEF TypeOK, NoLostWakeup, BUFFER_EMPTY
<1>2. Ahead' = Ahead /\ Copied' = Copied /\ \A i \in Slots : Back(i)' = Back(i)
  BY DEF Ahead, Copied, Around, Back
<1>3. CopyInProgress' /\ (Contents => Contents')
  BY <1>2 DEF Contents, CopyInProgress
<1>4. w = wrptr
  BY DEF CopyInProgress
<1>5. ReaderBehind => ReaderBehind'
  BY <1>2, <1>4, Distances DEF TypeOK, ReaderBehind, BUFFER_EMPTY
<1>6. InStep => InStep'
  <2>1. Copied = 0
    BY <1>4 DEF TypeOK, Copied, Around, Slots
  <2> QED
    BY <1>2, <1>4, <2>1, Distances DEF TypeOK, InStep, CopyInProgress, BUFFER_EMPTY
<1>7. early' = early /\ stray' = stray /\ limit' = limit
  OBVIOUS
<1>8. InLaps'
  <2>1. Owed' = Owed /\ Outstanding' = Outstanding
    BY DEF Owed, Outstanding
  <2>2. dsp' \in {"woken", "taking"} /\ Outstanding = 0 => dsp = "woken"
    BY Published DEF TypeOK, BUFFER_EMPTY
  <2> QED
    BY <2>1, <2>2, Published DEF InLaps, TypeOK
<1> QED
  BY <1>1, <1>3, <1>5, <1>6, <1>7, <1>8

\* A wait that returns without a signal is worth a lap that was not published.
LEMMA SpuriousIInv == IInv /\ SpuriousWake => IInv'
<1> SUFFICES ASSUME IInv, SpuriousWake PROVE IInv'
  OBVIOUS
<1> USE DEF IInv
<1>1. /\ UNCHANGED <<buffer, wrptr, rdptr, limit, timer, w, left, stored, published, ntaken, last, overrun>>
      /\ dsp' = "woken" /\ early' = early + 1 /\ stray' = stray + 1 /\ stray < limit
      /\ early \in Nat /\ stray \in Nat /\ limit \in Nat
  BY DEF SpuriousWake, ring, TypeOK
<1>2. TypeOK' /\ NoLostWakeup'
  BY <1>1 DEF TypeOK, NoLostWakeup
<1>3. CopyInProgress'
  BY <1>1 DEF CopyInProgress, Copied, Around
<1>4. InLaps'
  <2>1. Outstanding' = Outstanding /\ Outstanding \in Int /\ published \in Nat /\ ntaken \in Nat
    BY <1>1, Published DEF Outstanding, TypeOK
  <2> DEFINE laps == early * SAMPLE_BFRSIZ
  <2>2. laps \in Nat /\ early' * SAMPLE_BFRSIZ = laps + SAMPLE_BFRSIZ
    BY <1>1, LapMore
  <2>3. /\ Owed = published + laps - ntaken - Outstanding
        /\ Owed' = published' + early' * SAMPLE_BFRSIZ - ntaken' - Outstanding'
    BY DEF Owed
  <2>4. Owed' = Owed + SAMPLE_BFRSIZ /\ Owed >= 0 /\ Owed \in Int
    BY <1>1, <2>1, <2>2, <2>3 DEF InLaps
  <2> QED
    BY <2>4 DEF InLaps
<1>5. stray' <= limit' /\ early' <= stray' /\ early' # 0
  BY <1>1
<1> QED
  BY <1>2, <1>3, <1>4, <1>5

\* What the DSP thread takes: the oldest sample ahead of it, or the oldest of the
\* whole ring when the writer has met it.
LEMMA Taken ==
    ASSUME IInv, early = 0, DspTake
    PROVE  /\ last' = stored - (IF Ahead = 0 THEN SAMPLE_BFRSIZ ELSE Ahead)
           /\ last < last' /\ last' < stored
           /\ Ahead' = (IF Ahead = 0 THEN SAMPLE_BFRSIZ ELSE Ahead) - 1
<1> USE DEF IInv
<1>1. /\ rdptr \in Slots /\ wrptr \in Slots /\ w \in Slots
      /\ stored \in Nat /\ last \in {Never} \cup Nat
  BY DEF TypeOK
<1>2. last < stored - (IF Ahead = 0 THEN SAMPLE_BFRSIZ ELSE Ahead)
  BY DEF ReaderBehind, DspTake
<1>3. last' = stored - (IF Ahead = 0 THEN SAMPLE_BFRSIZ ELSE Ahead)
  <2>1. last' = IF stored >= Back(rdptr) THEN stored - Back(rdptr) ELSE Never
    BY <1>1 DEF Contents, DspTake
  <2> QED
    BY <1>1, <1>2, <2>1, Distances DEF Never
<1>4. Ahead' = (IF Ahead = 0 THEN SAMPLE_BFRSIZ ELSE Ahead) - 1
  BY <1>1 DEF DspTake, Ahead, Around, Advance, Slots
<1> QED
  BY <1>1, <1>2, <1>3, <1>4, Distances DEF Never

\* Taking a sample keeps the invariant.
LEMMA TakeIInv == IInv /\ DspTake => IInv'
<1> SUFFICES ASSUME IInv, DspTake PROVE IInv'
  OBVIOUS
<1> USE DEF IInv
<1>1. TypeOK' /\ NoLostWakeup'
  BY AdvanceInRing DEF TypeOK, NoLostWakeup, DspTake, Slots
<1>2. CopyInProgress' /\ (Contents => Contents')
  BY DEF Contents, CopyInProgress, DspTake, Back, Copied, Around
<1>3. early = 0 => ReaderBehind'
  BY Taken, Distances DEF TypeOK, ReaderBehind, DspTake
<1>4. early = 0 => InStep'
  <2> SUFFICES ASSUME early = 0 PROVE InStep'
    OBVIOUS
  <2>1. ~overrun => Ahead > 0
    BY Distances DEF TypeOK, InStep, CopyInProgress, DspTake
  <2> QED
    BY <2>1, Taken, Distances DEF TypeOK, InStep, DspTake
<1>5. early' = early /\ stray' = stray /\ limit' = limit
  BY DEF DspTake
<1>6. InLaps'
  <2> DEFINE laps == early * SAMPLE_BFRSIZ
  <2>1. laps \in Nat /\ published \in Nat /\ ntaken \in Nat
    BY LapMore DEF TypeOK
  <2>2. Owed = published + laps - ntaken - Outstanding /\ Owed' = published + laps - (ntaken + 1) - Outstanding'
    BY DEF Owed, DspTake
  <2>3. Outstanding' = (IF Outstanding = 0 THEN SAMPLE_BFRSIZ ELSE Outstanding) - 1
    BY DEF TypeOK, DspTake, Outstanding, Advance, Slots
  <2>4. Owed >= IF Outstanding = 0 THEN SAMPLE_BFRSIZ ELSE 0
    BY DEF InLaps, DspTake
  <2>5. dsp' = "idle" /\ Outstanding \in Nat
    BY Published DEF DspTake, TypeOK
  <2> HIDE DEF laps
  <2>6. Owed' >= 0
    BY <2>1, <2>2, <2>3, <2>4, <2>5
  <2> QED
    BY <2>5, <2>6 DEF InLaps
<1> QED
  BY <1>1, <1>2, <1>3, <1>4, <1>5, <1>6

\* The inductive invariant holds of the specification.
THEOREM Invariance == Spec => []IInv
<1>1. Init => IInv
  BY InitIInv
<1>2. IInv /\ [Next]_vars => IInv'
  <2> SUFFICES ASSUME IInv, [Next]_vars PROVE IInv'
    OBVIOUS
  <2>1. ASSUME NEW n \in ReadSizes, DemodLock(n) PROVE IInv'
    BY <2>1, LockIInv
  <2>2. CASE DemodStore
    BY <2>2, StoreIInv
  <2>3. CASE DemodPublish
    BY <2>3, PublishIInv
  <2>4. CASE DspCheck \/ DspWake
    BY <2>4, CheckIInv
  <2>5. CASE DspTake
    BY <2>5, TakeIInv
  <2>6. CASE SpuriousWake
    BY <2>6, SpuriousIInv
  <2>7. CASE UNCHANGED vars
    BY <2>7 DEF vars, IInv, TypeOK, NoLostWakeup, Contents, CopyInProgress, ReaderBehind,
                InStep, Ahead, Copied, Around, Back, BUFFER_EMPTY, InLaps, Owed, Outstanding
  <2> QED
    BY <2>1, <2>2, <2>3, <2>4, <2>5, <2>6, <2>7 DEF Next, DSPDemod, dsp_threads_fn
<1> QED
  BY <1>1, <1>2, PTL DEF Spec

\* The pointers never leave the ring, also when the reader runs past the writer.
THEOREM TypeCorrect == Spec => []TypeOK
<1>1. IInv => TypeOK
  BY DEF IInv
<1> QED
  BY <1>1, Invariance, PTL

\* A DSP thread that sleeps has nothing published for it, and until the first
\* overrun, signal without a sample or wait without a signal the ring is a FIFO queue
\* that hands out only what was published, although the reader looks at it without the mutex.
THEOREM QueueUntilThen == Spec => []QueueUntilOverrun
<1>1. IInv => QueueUntilOverrun
  BY DEF IInv, InStep, FIFO, QueueUntilOverrun
<1> QED
  BY <1>1, Invariance, PTL

\* Overruns, signals without a sample and waits without a signal are the only ways for
\* the DSP thread to run on an empty ring, and what it then takes that was never
\* published is at most a lap for each such signal or wait.
THEOREM AlwaysDataToProcess == Spec => []DataToProcess
<1>1. IInv => DataToProcess
  <2> SUFFICES ASSUME IInv PROVE DataToProcess
    OBVIOUS
  <2>1. ASSUME dsp = "taking", ~overrun, early = 0, wrptr = rdptr PROVE FALSE
    BY <2>1, Distances DEF IInv, TypeOK, InStep, CopyInProgress
  <2>2. dsp = "taking" => ~BUFFER_EMPTY \/ overrun \/ early > 0
    BY <2>1 DEF BUFFER_EMPTY, IInv, TypeOK
  <2>3. ntaken <= published + early * SAMPLE_BFRSIZ
    <3> DEFINE laps == early * SAMPLE_BFRSIZ
    <3>1. laps \in Nat /\ published \in Nat /\ ntaken \in Nat /\ Outstanding \in Nat
      BY LapMore, Published DEF IInv, TypeOK
    <3>2. Owed = published + laps - ntaken - Outstanding /\ Owed >= 0
      BY <3>1 DEF Owed, IInv, InLaps
    <3> HIDE DEF laps
    <3>3. ntaken <= published + laps
      BY <3>1, <3>2
    <3> QED
      BY <3>3 DEF laps
  <2> QED
    BY <2>2, <2>3 DEF DataToProcess
<1> QED
  BY <1>1, Invariance, PTL

\* Without strays the ring implements the lossy, ordered channel:
\* slots filled map to Produce, takes to Deliver, everything else to stuttering
\* steps.  A run that may have strays maps to the empty channel.
THEOREM ImplementsChannel == Spec => ChannelSpec
<1> DEFINE produced == IF limit = 0 THEN stored ELSE 0
           delivered == IF limit = 0 THEN ntaken ELSE 0
           got == IF limit = 0 THEN last ELSE Never
<1>1. Init => Channel!Init
  BY DEF Init, Channel!Init, Never
<1>2. IInv /\ [Next]_vars => [Channel!Next]_<<produced, delivered, got>>
  <2> SUFFICES ASSUME IInv, [Next]_vars PROVE [Channel!Next]_<<produced, delivered, got>>
    OBVIOUS
  <2>1. limit' = limit
    BY DEF Next, vars, DSPDemod, DemodLock, DemodStore, DemodPublish, ring,
           dsp_threads_fn, DspCheck, DspWake, SpuriousWake, DspTake
  <2>2. CASE limit # 0
    BY <2>1, <2>2
  <2>3. CASE limit = 0 /\ DemodStore
    <3>1. stored \in Nat /\ stored' = stored + 1 /\ ntaken' = ntaken /\ last' = last
      BY <2>3 DEF DemodStore, IInv, TypeOK
    <3> QED
      BY <2>1, <2>3, <3>1 DEF Channel!Next, Channel!Produce
  <2>4. CASE limit = 0 /\ DspTake
    <3>1. early = 0
      BY <2>4 DEF IInv, TypeOK
    <3>2. /\ last < last' /\ last' < stored /\ last' \in Int
          /\ stored' = stored /\ ntaken' = ntaken + 1
      BY <2>4, <3>1, Taken, TakeIInv DEF IInv, TypeOK, Never, DspTake
    <3> QED
      BY <2>1, <2>4, <3>2 DEF Channel!Next, Channel!Deliver
  <2>5. CASE ~DemodStore /\ ~DspTake
    <3>1. stored' = stored /\ ntaken' = ntaken /\ last' = last
      BY <2>5 DEF Next, vars, DSPDemod, DemodLock, DemodPublish, dsp_threads_fn, DspCheck, DspWake,
                  SpuriousWake
    <3> QED
      BY <2>1, <3>1
  <2> QED
    BY <2>2, <2>3, <2>4, <2>5
<1> QED
  BY <1>1, <1>2, Invariance, PTL DEF Spec, ChannelSpec, Channel!Spec
===============================================================================
