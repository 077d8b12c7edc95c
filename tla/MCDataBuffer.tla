----------------------------- MODULE MCDataBuffer -----------------------------
(***************************************************************************)
(* A ring of four slots and fourteen bytes: the writer can lap the reader  *)
(* three times, with the reader at any point of databuffer_get; no wait or *)
(* up to two waits return without a signal.                                *)
(***************************************************************************)
EXTENDS DataBufferPosix

MCbufferSIZE == 4
MCMaxBytes == 14
MCMaxSpurious == 2
===============================================================================
