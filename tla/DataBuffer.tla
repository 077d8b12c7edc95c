------------------------------ MODULE DataBuffer ------------------------------
(***************************************************************************)
(* Common/databuffer.c: the ring of received bytes between the DSP thread  *)
(* (databuffer_put, called through byteRx) and the Java reader thread      *)
(* (databuffer_get, called through getRxByte).  A byte is represented by   *)
(* its serial number, so that loss, repetition and reordering are visible. *)
(*                                                                         *)
(* databuffer_put is one critical section of data_mutex and one action.    *)
(* databuffer_get tests for an empty ring under the mutex (GetCheck), may  *)
(* wait on data_wait_cond, and only after it has released the mutex reads  *)
(* its slot and advances rdptr (GetTake).  The writer never reads rdptr:   *)
(* it has no test for a full ring.                                         *)
(***************************************************************************)
EXTENDS Integers

CONSTANTS
    bufferSIZE,     \* slots of the ring
    MaxBytes        \* bound: how many bytes the decoder delivers

\* The pointers wrap by "& (bufferSIZE - 1)": the size is a power of two.
ASSUME bufferSIZEAssumption == bufferSIZE \in Nat /\ bufferSIZE > 1
ASSUME PowerOfTwo == \E k \in 1..bufferSIZE : bufferSIZE = 2^k
ASSUME MaxBytesAssumption == MaxBytes \in Nat

VARIABLES
    buffer,         \* serial number of the byte in each slot
    wrptr, rdptr,   \* write and read pointers
    reader,         \* where the reader thread is in databuffer_get
    nput, ntaken,   \* history: how many bytes were put and handed out
    last,           \* history: the byte handed out last
    overrun         \* history: the writer once caught up with the reader

threadvars == <<buffer, wrptr, rdptr, reader>>
history == <<nput, ntaken, last, overrun>>
vars == <<buffer, wrptr, rdptr, reader, nput, ntaken, last, overrun>>

Slots == 0 .. bufferSIZE - 1
NO_BYTE == -1

databuffer_init ==
    /\ wrptr = 0 /\ rdptr = 0
    /\ buffer = [i \in Slots |-> NO_BYTE]

Init ==
    /\ databuffer_init
    /\ reader = "idle"
    /\ nput = 0 /\ ntaken = 0 /\ last = NO_BYTE /\ overrun = FALSE

\* Mutant of Advance: no wrap.
AdvanceNoWrap(p) == p + 1

\* (p + 1) & (bufferSIZE - 1), for a pointer p of the ring.
Advance(p) == IF p = bufferSIZE - 1 THEN 0 ELSE p + 1

\* Mutant of BUFFER_EMPTY: "empty" one byte too early.
EmptyEarly == wrptr = rdptr \/ wrptr = Advance(rdptr)

BUFFER_EMPTY == wrptr = rdptr

\* Mutant of Signalled: the wakeup is forgotten.
NoSignal(r) == r

\* Where the signal on data_wait_cond leaves the reader: a waiter proceeds,
\* and a signal that finds nobody waiting is lost.
Signalled(r) == IF r = "waiting" THEN "taking" ELSE r
-------------------------------------------------------------------------------
\* Mutants of databuffer_put: the newest byte is dropped when the ring is
\* full; the byte is stored after the pointer moved.
PutUnlessFull ==
    /\ nput < MaxBytes
    /\ IF Advance(wrptr) = rdptr
       THEN UNCHANGED <<buffer, wrptr>>
       ELSE /\ buffer' = [buffer EXCEPT ![wrptr] = nput]
            /\ wrptr' = Advance(wrptr)
    /\ overrun' = (overrun \/ Advance(wrptr) = rdptr)
    /\ reader' = Signalled(reader)
    /\ nput' = nput + 1
    /\ UNCHANGED <<rdptr, ntaken, last>>
PutAfterAdvance ==
    /\ nput < MaxBytes
    /\ buffer' = [buffer EXCEPT ![Advance(wrptr)] = nput]
    /\ wrptr' = Advance(wrptr)
    /\ reader' = Signalled(reader)
    /\ nput' = nput + 1
    /\ overrun' = (overrun \/ wrptr' = rdptr)
    /\ UNCHANGED <<rdptr, ntaken, last>>

databuffer_put ==
    /\ nput < MaxBytes
    /\ buffer' = [buffer EXCEPT ![wrptr] = nput]
    /\ wrptr' = Advance(wrptr)
    /\ reader' = Signalled(reader)
    /\ nput' = nput + 1
    /\ overrun' = (overrun \/ wrptr' = rdptr)
    /\ UNCHANGED <<rdptr, ntaken, last>>

\* databuffer_get up to its unlock, or to the wait inside pthread_cond_wait.
GetCheck ==
    /\ reader = "idle"
    /\ reader' = IF BUFFER_EMPTY THEN "waiting" ELSE "taking"
    /\ UNCHANGED <<buffer, wrptr, rdptr, nput, ntaken, last, overrun>>

\* The unlocked tail of databuffer_get.  It does not look at wrptr again: the
\* emptiness test is an "if", not a "while".
GetTake ==
    /\ reader = "taking"
    /\ reader' = "idle"
    /\ last' = buffer[rdptr]
    /\ rdptr' = Advance(rdptr)
    /\ ntaken' = ntaken + 1
    /\ UNCHANGED <<buffer, wrptr, nput, overrun>>

databuffer_get == GetCheck \/ GetTake

Next == databuffer_put \/ databuffer_get

Spec == Init /\ [][Next]_vars
-------------------------------------------------------------------------------
\* Every variable keeps its type; both pointers stay inside the ring.
TypeOK ==
    /\ buffer \in [Slots -> {NO_BYTE} \cup Nat]
    /\ wrptr \in Slots /\ rdptr \in Slots
    /\ reader \in {"idle", "waiting", "taking"}
    /\ nput \in Nat /\ ntaken \in Nat
    /\ last \in {NO_BYTE} \cup Nat
    /\ overrun \in BOOLEAN

\* The reader sleeps in pthread_cond_wait (databuffer.c:80) only while the
\* ring looks empty: the signal of databuffer_put is never lost between the
\* test and the wait, even after overruns.
NoLostWakeup == reader = "waiting" => BUFFER_EMPTY

\* As long as the writer never caught up with the reader, the bytes come out
\* one by one in the order databuffer_put got them.
FIFO == ~overrun => last = ntaken - 1
-------------------------------------------------------------------------------
\* The inductive strengthening of NoLostWakeup and FIFO.

\* How many puts ago slot i was last written (if it was): 1 .. bufferSIZE.
Back(i) == IF i < wrptr THEN wrptr - i ELSE wrptr - i + bufferSIZE

\* How many slots the reader is behind the writer, as the pointers tell it:
\* 0 both for an empty ring and for one that was overrun by whole laps.
Ahead == IF rdptr <= wrptr THEN wrptr - rdptr ELSE wrptr - rdptr + bufferSIZE

\* The ring holds the newest bufferSIZE bytes, in order, ending behind wrptr.
Contents ==
    \A i \in Slots : buffer[i] = IF nput >= Back(i) THEN nput - Back(i) ELSE NO_BYTE

\* What was handed out last is older than everything the reader has ahead of it,
\* the whole ring if it takes from a ring that was overrun since its test.
ReaderBehind ==
    /\ last < nput - Ahead
    /\ reader = "taking" /\ Ahead = 0 => last < nput - bufferSIZE

\* Without an overrun the pointers count exactly what is outstanding.
InStep ==
    ~overrun =>
        /\ Ahead = nput - ntaken
        /\ last = ntaken - 1
        /\ reader = "taking" => Ahead > 0

\* What the theorems of DataBufferPosix_proof rest on: contents of the ring, place of
\* the reader and the counters agree in every state.
IInv == TypeOK /\ NoLostWakeup /\ Contents /\ ReaderBehind /\ InStep
===============================================================================
