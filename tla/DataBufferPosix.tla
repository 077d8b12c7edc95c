--------------------------- MODULE DataBufferPosix ----------------------------
(***************************************************************************)
(* The byte ring under the contract POSIX gives pthread_cond_wait: a       *)
(* waiter may return without a signal.  databuffer_get tests for an empty  *)
(* ring with "if" (databuffer.c:77), so a reader that wakes up like that   *)
(* takes a slot of an empty ring and runs past the write pointer; slots    *)
(* are never set back to NO_BYTE, so it may hand out old bytes again.      *)
(*                                                                         *)
(* A run of the system either has such wakeups or it has none.             *)
(***************************************************************************)
EXTENDS DataBuffer

CONSTANT MaxSpurious    \* bound: how many waits return without a signal
ASSUME MaxSpuriousAssumption == MaxSpurious \in Nat

VARIABLES
    limit,      \* how many waits return without a signal in this run at most
    spurious    \* history: how many have

posixvars == <<buffer, wrptr, rdptr, reader, nput, ntaken, last, overrun, limit, spurious>>

PosixInit == Init /\ limit \in {0, MaxSpurious} /\ spurious = 0

\* pthread_cond_wait returns without a signal.
SpuriousWake ==
    /\ reader = "waiting"
    /\ spurious < limit
    /\ reader' = "taking"
    /\ spurious' = spurious + 1
    /\ UNCHANGED <<buffer, wrptr, rdptr, nput, ntaken, last, overrun, limit>>

RingNext == Next /\ UNCHANGED <<limit, spurious>>
PosixNext == SpuriousWake \/ RingNext

PosixSpec == PosixInit /\ [][PosixNext]_posixvars

\* The Java reader calls getRx in a loop for as long as it runs, and a woken
\* or unblocked thread is eventually scheduled.  Nothing obliges the radio to
\* deliver bytes, nor a wait to return without a signal.
PosixFairSpec == PosixSpec /\ WF_posixvars(databuffer_get /\ UNCHANGED <<limit, spurious>>)
-------------------------------------------------------------------------------
\* A reader sleeps only while the ring looks empty, whatever happened before, and
\* until a wait returns without a signal or the writer catches up with the reader
\* the bytes come out one by one in the order databuffer_put got them.
QueueUntilOverrun == NoLostWakeup /\ (spurious = 0 => FIFO)

\* The ring has no full test.  When it overruns, the pointers meet and the ring
\* looks empty, so what is lost is always a whole number of laps; and a wakeup
\* without a signal costs at most one lap of old bytes, after which the pointers
\* have met again and the reader waits.
InWholeLaps ==
    /\ last # NO_BYTE => (last - (ntaken - 1)) % bufferSIZE = 0
    /\ ntaken <= nput + spurious * bufferSIZE
    /\ spurious = 0 => last >= ntaken - 1

\* The abstract channel of a run without such wakeups.
Channel ==
    INSTANCE OrderedChannel WITH
        produced <- IF limit = 0 THEN nput ELSE 0,
        delivered <- IF limit = 0 THEN ntaken ELSE 0,
        last <- IF limit = 0 THEN last ELSE NO_BYTE

\* Whatever the interleaving, and with any overruns, databuffer_get hands out only
\* bytes that were put, none twice and none out of order: the ring implements the
\* lossy but ordered channel.
ChannelSpec == Channel!Spec

\* A reader that keeps calling databuffer_get comes to every byte or one after it,
\* unless the writer overran it; wakeups without a signal do not make it stop early.
Delivered == \A k \in 0 .. MaxBytes - 1 : nput > k ~> last >= k \/ overrun
-------------------------------------------------------------------------------
\* The inductive strengthening of InWholeLaps.

\* The bytes and the laps that wakeups without a signal were worth, less what was taken
\* and what the pointers still show: laps that were lost, or are owed to such a wakeup.
Owed == nput + spurious * bufferSIZE - ntaken - Ahead

\* A reader that passed its test with the pointers together has a lap before it.
InLaps ==
    /\ Owed % bufferSIZE = 0
    /\ Owed >= IF reader = "taking" /\ Ahead = 0 THEN bufferSIZE ELSE 0

\* What every state satisfies, and the invariant of DataBuffer until such a wakeup.
PInv ==
    /\ TypeOK /\ NoLostWakeup /\ Contents
    /\ limit \in Nat /\ spurious \in 0 .. limit
    /\ InLaps /\ InWholeLaps
    /\ spurious = 0 => IInv
===============================================================================
