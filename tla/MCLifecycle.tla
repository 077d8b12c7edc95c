------------------------------ MODULE MCLifecycle ------------------------------
(***************************************************************************)
(* One start and at most one stop, at any time, with a sample ring of     *)
(* four slots and reads that bring none, some or all but one of them.      *)
(***************************************************************************)
EXTENDS Lifecycle

MCMaxBacklog == 3
================================================================================
