---------------------------- MODULE MCBytevectors -----------------------------
(* A small instance of Bytevectors: sizes below 4, so that a count of 4 and  *)
(* the sum of two sizes leave the size field.                               *)
EXTENDS Bytevectors

MCCounts == -1 .. 4
MCInts == -1 .. 3
MCLiterals == {<<0, 1>>}
=============================================================================
