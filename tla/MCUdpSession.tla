---------------------------- MODULE MCUdpSession ------------------------------
(***************************************************************************)
(* Two calls and one stop without a call, three packets, counters that     *)
(* wrap at once (the sequence number after two packets, the timestamp      *)
(* within the first), three descriptors for the socket and everybody else. *)
(***************************************************************************)
EXTENDS UdpSession

MCSEQ_MOD == 3
MCTS_MOD == 4
MCHeaders == {[seq |-> 2, ts |-> 3]}
MCReadSizes == {2, 6}       \* a packet without samples, and one of two
MCDescriptors == 0 .. 2
MCMaxCalls == 2
MCMaxPackets == 3
MCMaxStrays == 1
===============================================================================
