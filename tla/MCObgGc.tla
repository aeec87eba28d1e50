------------------------------- MODULE MCObgGc -------------------------------
(* A small instance of ObgGc.  Blocks are interchangeable. *)
EXTENDS ObgGcValues, TLC

Interchangeable == Permutations(Addr)
=============================================================================
