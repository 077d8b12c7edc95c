---------------------------- MODULE MCSampleBuffer ----------------------------
(***************************************************************************)
(* A ring of four slots, reads that fill no slot (one sample), one slot    *)
(* (two or three samples) or two slots (five samples), ten slots in all:   *)
(* the writer can lap the reader twice.  There are no strays, or up to two *)
(* reads of a single sample and waits that return without a signal.        *)
(***************************************************************************)
EXTENDS SampleBuffer

MCSAMPLE_BFRSIZ == 4
MCReadSizes == {1, 2, 3, 5}
MCMaxSlots == 10
MCMaxStray == 2
===============================================================================
