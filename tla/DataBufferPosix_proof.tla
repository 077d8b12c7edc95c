------------------------ MODULE DataBufferPosix_proof -------------------------
(***************************************************************************)
(* Theorems about the byte ring, for every ring size, any number of bytes  *)
(* and any number of waits that return without a signal.  What holds until *)
(* the first such return comes from IInv, the rest from PInv.              *)
(***************************************************************************)
EXTENDS DataBufferPosix, TLAPS

USE bufferSIZEAssumption, MaxBytesAssumption

\* Advance stays in the ring, whatever the pointer.
LEMMA AdvanceInRing ==
    ASSUME NEW p \in Slots PROVE Advance(p) \in Slots
BY DEF Advance, Slots

\* The two distances between the pointers are within one lap.
LEMMA Distances ==
    ASSUME wrptr \in Slots, rdptr \in Slots
    PROVE  /\ Ahead \in 0 .. bufferSIZE - 1
           /\ Ahead = 0 <=> wrptr = rdptr
           /\ \A i \in Slots : Back(i) \in 1 .. bufferSIZE
           /\ Back(rdptr) = IF Ahead = 0 THEN bufferSIZE ELSE Ahead
BY DEF Slots, Ahead, Back

\* The ring as databuffer_init leaves it satisfies the invariant.
LEMMA InitIInv == Init => IInv
<1> SUFFICES ASSUME Init PROVE IInv
  OBVIOUS
<1> USE DEF Init, databuffer_init
<1>1. TypeOK /\ NoLostWakeup
  <2>1. buffer \in [Slots -> {NO_BYTE} \cup Nat]
    BY DEF NO_BYTE
  <2>2. wrptr \in Slots /\ rdptr \in Slots
    BY DEF Slots
  <2> QED
    BY <2>1, <2>2 DEF TypeOK, NoLostWakeup, NO_BYTE
<1>2. Contents
  BY DEF Contents, Back, Slots
<1>3. ReaderBehind /\ InStep
  BY DEF ReaderBehind, InStep, Ahead, NO_BYTE
<1> QED
  BY <1>1, <1>2, <1>3 DEF IInv

\* A put brings the writer one slot further away, or the pointers together.
LEMMA PutAhead ==
    ASSUME TypeOK, databuffer_put
    PROVE  Ahead' = IF Ahead = bufferSIZE - 1 THEN 0 ELSE Ahead + 1
BY DEF TypeOK, databuffer_put, Ahead, Advance, Slots

\* The newest byte replaces the oldest, wherever the reader is.
LEMMA PutContents == ASSUME TypeOK, Contents, databuffer_put PROVE Contents'
<1>1. ASSUME NEW i \in Slots
      PROVE  Back(i)' = IF i = wrptr THEN 1 ELSE Back(i) + 1
  BY DEF TypeOK, databuffer_put, Back, Advance, Slots
<1> SUFFICES ASSUME NEW i \in Slots
             PROVE  buffer'[i] = IF nput' >= Back(i)' THEN nput' - Back(i)' ELSE NO_BYTE
  BY DEF Contents
<1>2. CASE i = wrptr
  BY <1>1, <1>2 DEF TypeOK, databuffer_put
<1>3. CASE i # wrptr
  <2>1. buffer'[i] = buffer[i] /\ nput' = nput + 1 /\ Back(i)' = Back(i) + 1
    BY <1>1, <1>3 DEF TypeOK, databuffer_put
  <2>2. Back(i) \in Int /\ nput \in Int
    BY DEF TypeOK, Back, Slots
  <2> QED
    BY <2>1, <2>2 DEF Contents
<1> QED
  BY <1>2, <1>3

\* A put keeps the invariant: the reader falls one slot behind, or the pointers
\* meet and a whole lap is gone.
LEMMA PutIInv == IInv /\ databuffer_put => IInv'
<1> SUFFICES ASSUME IInv, databuffer_put PROVE IInv'
  OBVIOUS
<1> USE DEF IInv
<1>1. TypeOK'
  BY AdvanceInRing DEF TypeOK, databuffer_put, Signalled, Slots, NO_BYTE
<1>2. Ahead' = IF Ahead = bufferSIZE - 1 THEN 0 ELSE Ahead + 1
  BY PutAhead
<1>4. NoLostWakeup'
  BY DEF TypeOK, databuffer_put, NoLostWakeup, Signalled
<1>5. Contents'
  BY PutContents
<1>6. ReaderBehind'
  BY <1>2, Distances DEF TypeOK, databuffer_put, ReaderBehind, NO_BYTE, Signalled
<1>7. InStep'
  <2> SUFFICES ASSUME ~overrun'
               PROVE  Ahead' = nput' - ntaken' /\ last' = ntaken' - 1 /\ Ahead' > 0
    BY DEF InStep
  <2>1. ~overrun /\ wrptr' # rdptr /\ rdptr' = rdptr
    BY DEF databuffer_put
  <2>2. Ahead' # 0
    <3>1. wrptr' \in Slots /\ rdptr' \in Slots
      BY <1>1 DEF TypeOK
    <3>2. wrptr' # rdptr'
      BY <2>1
    <3>3. ASSUME NEW w \in Slots, NEW r \in Slots, w # r
          PROVE  (IF r <= w THEN w - r ELSE w - r + bufferSIZE) # 0
      BY <3>3 DEF Slots
    <3> QED
      BY <3>1, <3>2, <3>3 DEF Ahead
  <2>3. Ahead = nput - ntaken /\ last = ntaken - 1
    BY <2>1 DEF InStep
  <2> QED
    BY <1>2, <2>2, <2>3, Distances DEF TypeOK, databuffer_put
<1> QED
  BY <1>1, <1>4, <1>5, <1>6, <1>7

\* The emptiness test keeps the invariant.
LEMMA CheckIInv == IInv /\ GetCheck => IInv'
<1> SUFFICES ASSUME IInv, GetCheck PROVE IInv'
  OBVIOUS
<1> USE DEF IInv
<1>1. TypeOK' /\ NoLostWakeup'
  BY DEF TypeOK, NoLostWakeup, GetCheck, BUFFER_EMPTY
<1>2. Ahead' = Ahead /\ \A i \in Slots : Back(i)' = Back(i)
  BY DEF GetCheck, Ahead, Back
<1>3. Contents'
  BY <1>2 DEF Contents, GetCheck
<1>4. ReaderBehind' /\ InStep'
  BY <1>2, Distances DEF TypeOK, ReaderBehind, InStep, GetCheck, BUFFER_EMPTY
<1> QED
  BY <1>1, <1>3, <1>4

\* What the reader takes: the oldest byte it has ahead of it, or the oldest of
\* the whole ring when the writer has met it.
LEMMA Taken ==
    ASSUME IInv, GetTake
    PROVE  /\ last' = nput - (IF Ahead = 0 THEN bufferSIZE ELSE Ahead)
           /\ last < last' /\ last' < nput
           /\ Ahead' = (IF Ahead = 0 THEN bufferSIZE ELSE Ahead) - 1
<1> USE DEF IInv
<1>1. rdptr \in Slots /\ wrptr \in Slots /\ nput \in Nat /\ last \in {NO_BYTE} \cup Nat
  BY DEF TypeOK
<1>2. last < nput - (IF Ahead = 0 THEN bufferSIZE ELSE Ahead)
  BY DEF ReaderBehind, GetTake
<1>3. last' = nput - (IF Ahead = 0 THEN bufferSIZE ELSE Ahead)
  <2>1. last' = IF nput >= Back(rdptr) THEN nput - Back(rdptr) ELSE NO_BYTE
    BY <1>1 DEF Contents, GetTake
  <2> QED
    BY <1>1, <1>2, <2>1, Distances DEF NO_BYTE
<1>4. Ahead' = (IF Ahead = 0 THEN bufferSIZE ELSE Ahead) - 1
  BY <1>1 DEF GetTake, Ahead, Advance, Slots
<1> QED
  BY <1>1, <1>2, <1>3, <1>4, Distances DEF NO_BYTE

\* Taking a byte keeps the invariant.
LEMMA TakeIInv == IInv /\ GetTake => IInv'
<1> SUFFICES ASSUME IInv, GetTake PROVE IInv'
  OBVIOUS
<1> USE DEF IInv
<1>1. TypeOK'
  BY AdvanceInRing DEF TypeOK, GetTake, Slots
<1>2. NoLostWakeup'
  BY DEF NoLostWakeup, GetTake
<1>3. Contents'
  BY DEF Contents, GetTake, Back
<1>4. ReaderBehind' /\ InStep'
  BY Taken, Distances DEF TypeOK, ReaderBehind, InStep, GetTake
<1> QED
  BY <1>1, <1>2, <1>3, <1>4

\* IInv is preserved by every step.
LEMMA NextIInv == IInv /\ [Next]_vars => IInv'
<1> SUFFICES ASSUME IInv, [Next]_vars PROVE IInv'
  OBVIOUS
<1>1. CASE databuffer_put
  BY <1>1, PutIInv
<1>2. CASE GetCheck
  BY <1>2, CheckIInv
<1>3. CASE GetTake
  BY <1>3, TakeIInv
<1>4. CASE UNCHANGED vars
  BY <1>4 DEF vars, IInv, TypeOK, NoLostWakeup, Contents, ReaderBehind, InStep,
              Back, Ahead, BUFFER_EMPTY
<1> QED
  BY <1>1, <1>2, <1>3, <1>4 DEF Next, databuffer_get

\* The inductive invariant holds of the specification.
THEOREM Invariance == Spec => []IInv
<1>1. Init => IInv
  BY InitIInv
<1>2. IInv /\ [Next]_vars => IInv'
  BY NextIInv
<1> QED
  BY <1>1, <1>2, PTL DEF Spec

\* The pointers never leave the ring and the other variables keep their types.
THEOREM TypeCorrect == Spec => []TypeOK
<1>1. IInv => TypeOK
  BY DEF IInv
<1> QED
  BY <1>1, Invariance, PTL

\* A reader that sleeps has nothing to read: no wakeup is ever lost.
THEOREM WakeupNeverLost == Spec => []NoLostWakeup
<1>1. IInv => NoLostWakeup
  BY DEF IInv
<1> QED
  BY <1>1, Invariance, PTL

\* Until the first overrun the ring is a FIFO queue.
THEOREM FIFOUntilOverrun == Spec => []FIFO
<1>1. IInv => FIFO
  BY DEF IInv, InStep, FIFO
<1> QED
  BY <1>1, Invariance, PTL
-------------------------------------------------------------------------------
USE MaxSpuriousAssumption

\* Whole laps: multiples of bufferSIZE.
LEMMA MultipleOf == ASSUME NEW x \in Int, x % bufferSIZE = 0 PROVE \E k \in Int : x = k * bufferSIZE
OBVIOUS

LEMMA IsMultiple ==
    ASSUME NEW x \in Int, NEW k \in Int, x = k * bufferSIZE PROVE x % bufferSIZE = 0
OBVIOUS

LEMMA LapMore == ASSUME NEW k \in Int PROVE (k + 1) * bufferSIZE = k * bufferSIZE + bufferSIZE
OBVIOUS

LEMMA LapsAdd ==
    ASSUME NEW x \in Int, NEW y \in Int, x % bufferSIZE = 0, y % bufferSIZE = 0
    PROVE  (x + y) % bufferSIZE = 0 /\ (x - y) % bufferSIZE = 0
<1>1. PICK k \in Int : x = k * bufferSIZE
  BY MultipleOf
<1>2. PICK l \in Int : y = l * bufferSIZE
  BY MultipleOf
<1>3. x + y = (k + l) * bufferSIZE /\ x - y = (k - l) * bufferSIZE
  BY <1>1, <1>2
<1> QED
  BY <1>3, IsMultiple

LEMMA Laps ==
    /\ 0 % bufferSIZE = 0 /\ bufferSIZE % bufferSIZE = 0
    /\ \A k \in Int : k * bufferSIZE \in Int /\ (k * bufferSIZE) % bufferSIZE = 0
    /\ \A x \in Int : x % bufferSIZE = 0 /\ x > 0 => x >= bufferSIZE
OBVIOUS

\* Types and wakeups need nothing but themselves: a put wakes a reader that waits,
\* and only the reader's own test sends it to sleep.
LEMMA TypesKept == TypeOK /\ NoLostWakeup /\ Next => TypeOK' /\ NoLostWakeup'
<1> SUFFICES ASSUME TypeOK, NoLostWakeup, Next PROVE TypeOK' /\ NoLostWakeup'
  OBVIOUS
<1>1. CASE databuffer_put
  <2>1. overrun' \in BOOLEAN
    BY <1>1, Zenon DEF databuffer_put, TypeOK
  <2>2. /\ buffer' \in [Slots -> {NO_BYTE} \cup Nat]
        /\ wrptr' \in Slots /\ rdptr' \in Slots
        /\ reader' \in {"idle", "waiting", "taking"}
        /\ nput' \in Nat /\ ntaken' \in Nat
        /\ last' \in {NO_BYTE} \cup Nat
    BY <1>1, AdvanceInRing DEF databuffer_put, TypeOK, Signalled
  <2>3. NoLostWakeup'
    BY <1>1 DEF databuffer_put, NoLostWakeup, Signalled, TypeOK
  <2> QED
    BY <2>1, <2>2, <2>3 DEF TypeOK
<1>2. CASE GetCheck
  BY <1>2 DEF GetCheck, TypeOK, NoLostWakeup, BUFFER_EMPTY
<1>3. CASE GetTake
  BY <1>3, AdvanceInRing DEF GetTake, TypeOK, NoLostWakeup
<1> QED
  BY <1>1, <1>2, <1>3 DEF Next, databuffer_get

\* The distances as they are used with laps.
LEMMA Counts ==
    ASSUME PInv
    PROVE  /\ nput \in Nat /\ ntaken \in Nat /\ limit \in Nat /\ spurious \in Nat
           /\ Ahead \in 0 .. bufferSIZE - 1 /\ Owed \in Int /\ Owed % bufferSIZE = 0 /\ Owed >= 0
           /\ spurious * bufferSIZE \in Int /\ (spurious * bufferSIZE) % bufferSIZE = 0
<1>1. nput \in Nat /\ ntaken \in Nat /\ limit \in Nat /\ spurious \in Nat
  BY DEF PInv, TypeOK
<1>2. Ahead \in 0 .. bufferSIZE - 1
  BY Distances DEF PInv, TypeOK
<1>3. spurious * bufferSIZE \in Int /\ (spurious * bufferSIZE) % bufferSIZE = 0
  BY <1>1, Laps
<1>4. Owed \in Int
  BY <1>1, <1>2, <1>3 DEF Owed
<1>5. Owed % bufferSIZE = 0 /\ Owed >= 0
  BY <1>4 DEF PInv, InLaps
<1> QED
  BY <1>1, <1>2, <1>3, <1>4, <1>5

\* A put that brings the pointers together loses a lap.
LEMMA PutLaps == ASSUME PInv, databuffer_put, spurious' = spurious PROVE InLaps' /\ InWholeLaps'
<1>1. nput' = nput + 1 /\ ntaken' = ntaken /\ last' = last
  BY DEF databuffer_put
<1>2. Ahead' = IF Ahead = bufferSIZE - 1 THEN 0 ELSE Ahead + 1
  BY PutAhead DEF PInv
<1>3. Owed' = IF Ahead = bufferSIZE - 1 THEN Owed + bufferSIZE ELSE Owed
  <2> DEFINE laps == spurious * bufferSIZE
  <2>1. laps \in Int
    BY Counts
  <2>2. Owed = nput + laps - ntaken - Ahead /\ Owed' = nput' + laps - ntaken' - Ahead'
    BY DEF Owed
  <2> HIDE DEF laps
  <2> QED
    BY <1>1, <1>2, <2>1, <2>2, Counts
<1>4. Owed >= 0 /\ Owed % bufferSIZE = 0
  BY Counts
<1>5. Owed' % bufferSIZE = 0
  BY <1>3, <1>4, Counts, Laps, LapsAdd
<1> QED
  BY <1>1, <1>2, <1>3, <1>4, <1>5, Counts DEF PInv, InLaps, InWholeLaps

\* The test lets only a reader pass that has something ahead of it.
LEMMA CheckLaps == ASSUME PInv, GetCheck, spurious' = spurious PROVE InLaps' /\ InWholeLaps'
<1>1. UNCHANGED <<nput, ntaken, last, wrptr, rdptr>> /\ Ahead' = Ahead /\ Owed' = Owed
  BY DEF GetCheck, Ahead, Owed
<1>2. reader' = "taking" => Ahead # 0
  BY Distances DEF PInv, TypeOK, GetCheck, BUFFER_EMPTY
<1>3. Owed >= 0 /\ Owed % bufferSIZE = 0
  BY Counts
<1> QED
  BY <1>1, <1>2, <1>3 DEF PInv, InLaps, InWholeLaps

\* Taking with the pointers together uses up one of the laps owed, and what is taken
\* is some laps away from the byte whose turn it is.
LEMMA TakeLaps == ASSUME PInv, GetTake, spurious' = spurious PROVE InLaps' /\ InWholeLaps'
<1> DEFINE step == IF Ahead = 0 THEN bufferSIZE ELSE Ahead
<1>1. nput' = nput /\ ntaken' = ntaken + 1 /\ reader' = "idle" /\ last' = buffer[rdptr]
  BY DEF GetTake
<1>2. Ahead' = step - 1
  BY DEF PInv, TypeOK, GetTake, Ahead, Advance, Slots
<1>3. last' = IF nput >= step THEN nput - step ELSE NO_BYTE
  <2>1. rdptr \in Slots /\ Back(rdptr) = step
    BY Distances DEF PInv, TypeOK
  <2> QED
    BY <1>1, <2>1 DEF PInv, Contents
<1>4. Owed % bufferSIZE = 0 /\ Owed >= (IF Ahead = 0 THEN bufferSIZE ELSE 0)
  BY DEF PInv, InLaps, GetTake
<1>5. Owed' = Owed - (IF Ahead = 0 THEN bufferSIZE ELSE 0)
  <2> DEFINE laps == spurious * bufferSIZE
  <2>1. laps \in Int /\ nput \in Int /\ ntaken \in Int /\ Ahead \in Int
    BY Counts
  <2>2. Owed = nput + laps - ntaken - Ahead /\ Owed' = nput' + laps - ntaken' - Ahead'
    BY DEF Owed
  <2> HIDE DEF laps
  <2>3. CASE Ahead = 0
    <3>1. Ahead' = bufferSIZE - 1 /\ Owed = nput + laps - ntaken
      BY <1>2, <2>1, <2>2, <2>3
    <3> QED
      BY <1>1, <2>1, <2>2, <2>3, <3>1
  <2>4. CASE Ahead # 0
    BY <1>1, <1>2, <2>1, <2>2, <2>4
  <2> QED
    BY <2>3, <2>4
<1>6. Owed' % bufferSIZE = 0 /\ Owed' >= 0 /\ Owed' \in Int
  BY <1>4, <1>5, Counts, Laps, LapsAdd
<1>7. nput - step - ntaken = Owed' - spurious * bufferSIZE
  BY <1>5, Counts DEF Owed
<1>8. (nput - step - ntaken) % bufferSIZE = 0
  <2>1. (Owed' - spurious * bufferSIZE) % bufferSIZE = 0
    BY <1>6, Counts, LapsAdd
  <2> QED
    BY <1>7, <2>1
<1>9. last' # NO_BYTE => (last' - (ntaken' - 1)) % bufferSIZE = 0
  <2>1. ntaken' - 1 = ntaken
    BY <1>1, Counts
  <2> QED
    BY <1>3, <1>8, <2>1, Counts
<1>10. ntaken' <= nput' + spurious * bufferSIZE
  <2>1. Owed' = nput - step - ntaken + spurious * bufferSIZE /\ step >= 0 /\ step \in Int
    BY <1>7, <1>6, Counts
  <2>2. ntaken + 1 <= nput + spurious * bufferSIZE
    BY <1>6, <2>1, Counts
  <2> QED
    BY <1>1, <2>2
<1>11. spurious = 0 => last' >= ntaken' - 1
  <2> SUFFICES ASSUME spurious = 0 PROVE last' >= ntaken' - 1
    OBVIOUS
  <2>1. spurious * bufferSIZE = 0
    OBVIOUS
  <2>2. nput - step >= ntaken
    BY <1>6, <1>7, <2>1, Counts
  <2> QED
    BY <1>1, <1>3, <2>2, Counts
<1> QED
  BY <1>1, <1>6, <1>9, <1>10, <1>11 DEF InLaps, InWholeLaps

\* A wakeup without a signal gives the reader a lap that was not put.
LEMMA SpuriousLaps == ASSUME PInv, SpuriousWake PROVE InLaps' /\ InWholeLaps'
<1>1. UNCHANGED <<nput, ntaken, last, wrptr, rdptr>> /\ Ahead' = Ahead
  BY DEF SpuriousWake, Ahead
<1>2. spurious' = spurious + 1 /\ spurious' * bufferSIZE = spurious * bufferSIZE + bufferSIZE
  BY Counts, LapMore DEF SpuriousWake
<1>3. Owed' = Owed + bufferSIZE
  BY <1>1, <1>2, Counts DEF Owed
<1>4. Owed >= 0 /\ Owed % bufferSIZE = 0
  BY Counts
<1>5. Owed' % bufferSIZE = 0 /\ Owed' >= bufferSIZE
  BY <1>3, <1>4, Counts, Laps, LapsAdd
<1>6. ntaken' <= nput' + spurious' * bufferSIZE
  BY <1>1, <1>2, Counts DEF PInv, InWholeLaps
<1>7. last' # NO_BYTE => (last' - (ntaken' - 1)) % bufferSIZE = 0
  BY <1>1 DEF PInv, InWholeLaps
<1>8. spurious' # 0
  BY <1>2, Counts
<1>9. Owed' >= 0
  BY <1>3, <1>4, Counts
<1> QED
  BY <1>5, <1>6, <1>7, <1>8, <1>9 DEF InLaps, InWholeLaps

\* PInv is preserved by every step.
LEMMA NextPInv == PInv /\ [PosixNext]_posixvars => PInv'
<1> SUFFICES ASSUME PInv, [PosixNext]_posixvars PROVE PInv'
  OBVIOUS
<1>1. CASE SpuriousWake
  <2>1. InLaps' /\ InWholeLaps'
    BY <1>1, SpuriousLaps
  <2>2. TypeOK' /\ NoLostWakeup' /\ limit' \in Nat /\ spurious' \in 1 .. limit'
    BY <1>1 DEF SpuriousWake, PInv, TypeOK, NoLostWakeup
  <2>3. Contents'
    BY <1>1 DEF SpuriousWake, PInv, Contents, Back
  <2> QED
    BY <2>1, <2>2, <2>3 DEF PInv
<1>2. CASE RingNext
  <2>1. TypeOK' /\ NoLostWakeup'
    BY <1>2, TypesKept DEF RingNext, PInv
  <2>2. spurious = 0 => IInv'
    BY <1>2, NextIInv DEF RingNext, PInv
  <2>3. limit' = limit /\ spurious' = spurious
    BY <1>2 DEF RingNext
  <2>4. InLaps' /\ InWholeLaps' /\ Contents'
    <3>1. CASE databuffer_put
      BY <2>3, <3>1, PutLaps, PutContents DEF PInv
    <3>2. CASE GetCheck
      BY <2>3, <3>2, CheckLaps DEF GetCheck, PInv, Contents, Back
    <3>3. CASE GetTake
      BY <2>3, <3>3, TakeLaps DEF GetTake, PInv, Contents, Back
    <3> QED
      BY <1>2, <3>1, <3>2, <3>3 DEF RingNext, Next, databuffer_get
  <2> QED
    BY <2>1, <2>2, <2>3, <2>4 DEF PInv
<1>3. CASE UNCHANGED posixvars
  <2>1. TypeOK' /\ NoLostWakeup' /\ Contents' /\ limit' = limit /\ spurious' = spurious
    BY <1>3 DEF posixvars, PInv, TypeOK, NoLostWakeup, Contents, Back, BUFFER_EMPTY
  <2>2. InLaps' /\ InWholeLaps'
    BY <1>3 DEF posixvars, PInv, InLaps, InWholeLaps, Owed, Ahead
  <2>3. spurious = 0 => IInv'
    BY <1>3, <2>1 DEF posixvars, PInv, IInv, ReaderBehind, InStep, Ahead
  <2> QED
    BY <2>1, <2>2, <2>3 DEF PInv
<1> QED
  BY <1>1, <1>2, <1>3 DEF PosixNext

\* PInv holds of the specification.
THEOREM PosixInvariance == PosixSpec => []PInv
<1>1. PosixInit => PInv
  <2> SUFFICES ASSUME PosixInit PROVE PInv
    OBVIOUS
  <2>1. IInv /\ spurious = 0 /\ limit \in Nat
    BY InitIInv DEF PosixInit
  <2>2. nput = 0 /\ ntaken = 0 /\ Ahead = 0 /\ last = NO_BYTE /\ reader = "idle"
    BY DEF PosixInit, Init, databuffer_init, Ahead
  <2>3. spurious * bufferSIZE = 0 /\ Owed = 0
    BY <2>1, <2>2 DEF Owed
  <2>4. InLaps /\ InWholeLaps
    BY <2>1, <2>2, <2>3, Laps DEF InLaps, InWholeLaps, NO_BYTE
  <2> QED
    BY <2>1, <2>4 DEF PInv, IInv
<1> QED
  BY <1>1, NextPInv, PTL DEF PosixSpec

\* The pointers never leave the ring, also when the reader runs past the writer.
THEOREM PosixTypeCorrect == PosixSpec => []TypeOK
<1>1. PInv => TypeOK
  BY DEF PInv
<1> QED
  BY <1>1, PosixInvariance, PTL

\* No wakeup is lost whatever happened before, and the ring is a FIFO queue until it
\* overruns or a wait returns without a signal.
THEOREM QueueUntilThen == PosixSpec => []QueueUntilOverrun
<1>1. PInv => QueueUntilOverrun
  BY DEF PInv, IInv, InStep, FIFO, QueueUntilOverrun
<1> QED
  BY <1>1, PosixInvariance, PTL

\* What the ring loses by overruns and hands out again after wakeups without a signal
\* is whole laps, for every ring size and any number of either.
THEOREM LossInWholeLaps == PosixSpec => []InWholeLaps
<1>1. PInv => InWholeLaps
  BY DEF PInv
<1> QED
  BY <1>1, PosixInvariance, PTL

\* Without such waits the ring implements the lossy, ordered channel: puts map to
\* Produce, takes to Deliver, and the emptiness test to a stuttering step.  A run
\* that has them maps to the empty channel.
THEOREM ImplementsChannel == PosixSpec => ChannelSpec
<1> DEFINE produced == IF limit = 0 THEN nput ELSE 0
           delivered == IF limit = 0 THEN ntaken ELSE 0
           got == IF limit = 0 THEN last ELSE NO_BYTE
<1>1. PosixInit => Channel!Init
  BY DEF PosixInit, Init, Channel!Init, NO_BYTE
<1>2. PInv /\ [PosixNext]_posixvars => [Channel!Next]_<<produced, delivered, got>>
  <2> SUFFICES ASSUME PInv, [PosixNext]_posixvars
               PROVE  [Channel!Next]_<<produced, delivered, got>>
    OBVIOUS
  <2>1. limit' = limit
    BY DEF PosixNext, SpuriousWake, RingNext, posixvars
  <2>2. CASE limit # 0
    BY <2>1, <2>2
  <2>3. CASE limit = 0 /\ UNCHANGED posixvars
    BY <2>3 DEF posixvars
  <2>4. CASE limit = 0 /\ PosixNext
    <3>1. Next /\ IInv
      BY <2>4 DEF PosixNext, SpuriousWake, RingNext, PInv
    <3>2. CASE databuffer_put
      <4>1. nput \in Nat /\ nput' = nput + 1 /\ ntaken' = ntaken /\ last' = last
        BY <3>1, <3>2 DEF databuffer_put, IInv, TypeOK
      <4> QED
        BY <2>1, <2>4, <4>1 DEF Channel!Next, Channel!Produce
    <3>3. CASE GetCheck
      BY <2>1, <3>3 DEF GetCheck
    <3>4. CASE GetTake
      <4>1. last < last' /\ last' < nput /\ last' \in Int /\ nput' = nput /\ ntaken' = ntaken + 1
        BY <3>1, <3>4, Taken, TakeIInv DEF IInv, TypeOK, NO_BYTE, GetTake
      <4> QED
        BY <2>1, <2>4, <4>1 DEF Channel!Next, Channel!Deliver
    <3> QED
      BY <3>1, <3>2, <3>3, <3>4 DEF Next, databuffer_get
  <2> QED
    BY <2>2, <2>3, <2>4
<1> QED
  BY <1>1, <1>2, PosixInvariance, PTL DEF PosixSpec, ChannelSpec, Channel!Spec
===============================================================================
