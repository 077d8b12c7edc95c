---------------------------- MODULE OrderedChannel ----------------------------
(***************************************************************************)
(* What the two rings of the receiver (databuffer.c and the sample ring of *)
(* FSKdsp.c) promise when nobody ever checks that they are full: items     *)
(* carry the serial numbers 0, 1, 2, ... in the order they are produced;   *)
(* the consumer may miss some of them, but what it gets was produced, is   *)
(* never handed over twice and never comes out of order.                   *)
(***************************************************************************)
EXTENDS Integers

VARIABLES
    produced,   \* how many items the producer has published
    delivered,  \* how many items were handed over
    last        \* serial number of the last of them, -1 if none

Init ==
    /\ produced = 0
    /\ delivered = 0 /\ last = -1

\* A publication makes one or more items available (a pipe read brings many).
Produce ==
    /\ produced' \in Nat /\ produced' > produced
    /\ UNCHANGED <<delivered, last>>

\* The consumer gets an item that is newer than any it got before.
Deliver ==
    /\ delivered' = delivered + 1
    /\ last' \in Int /\ last < last' /\ last' < produced
    /\ UNCHANGED produced

Next == Produce \/ Deliver

Spec == Init /\ [][Next]_<<produced, delivered, last>>
===============================================================================
