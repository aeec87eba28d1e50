---------------------------- MODULE MCObgGcPairs -----------------------------
(* A small instance of ObgGcPairs.  Blocks are interchangeable. *)
EXTENDS ObgGcPairs, TLC

Interchangeable == Permutations(Addr)

\* Programs without globals are enough here.
NoGlobals == phase = "run" \/ (stack = <<>> /\ prim = Idle)
=============================================================================
