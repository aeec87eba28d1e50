--------------------------- MODULE MCObgGcOperands ---------------------------
(* A small instance of ObgGcOperands.  Blocks are interchangeable. *)
EXTENDS ObgGcOperands, TLC

Interchangeable == Permutations(Addr)
=============================================================================
