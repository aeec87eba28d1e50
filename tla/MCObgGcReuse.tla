---------------------------- MODULE MCObgGcReuse -----------------------------
(* A small instance of ObgGcReuse.  Blocks are interchangeable. *)
EXTENDS ObgGcReuse, TLC

Interchangeable == Permutations(Addr)
=============================================================================
