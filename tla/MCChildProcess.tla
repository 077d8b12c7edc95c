---------------------------- MODULE MCChildProcess ----------------------------
(***************************************************************************)
(* Stdin, stdout, stderr, three pipes, and a descriptor of another thread  *)
(* opened before, between or after them.                                   *)
(***************************************************************************)
EXTENDS ChildProcess

MCMaxFd == 9
MCMaxOthers == 1
MCPipeSize == 1
===============================================================================
