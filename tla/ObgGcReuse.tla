------------------------------ MODULE ObgGcReuse ------------------------------
(***************************************************************************)
(* ObgGc with gc_try_to_recycle: whenever vm_run finds the stack empty, all *)
(* blocks become reusable without leaving their pools.                      *)
(***************************************************************************)
EXTENDS ObgGc

\* simple_collect of the pools of objects, lists and pairs.
TryToRecycle ==
  /\ heap' = [a \in Addr |-> IF a \in Booked /\ heap[a].gc # PERMANENT_OBJ
                             THEN [heap[a] EXCEPT !.gc = FREE_OBJ] ELSE heap[a]]
  /\ UNCHANGED pool

\* The activation returns and its result is popped: sp is 0.
EndForm ==
  /\ Ready
  /\ phase = "run"
  /\ stack' = <<>>
  /\ TryToRecycle
  /\ UNCHANGED <<prim, globals, phase, panic>>

NextReuse == Next \/ EndForm

SpecReuse == Init /\ [][NextReuse]_vars

------------------------------------------------------------------------------
(* What the sweep gives to os_free is memory that is still managed: the     *)
(* block freed by a step was in its pool once (memory.c stops the program   *)
(* with "freed a memory area not managed by us" otherwise).                 *)
FreedOnce ==
  [][\A k \in Kinds : \A i, j \in DOMAIN pool[k] :
        i # j /\ pool[k][i] = pool[k][j] => heap'[pool[k][i]].kind # "none"]_vars
=============================================================================
