------------------------------ MODULE ObgGcValues -----------------------------
(***************************************************************************)
(* ObgGc as an implementation of ValueStack: what a program reads when it   *)
(* follows its stack and globals through memory.                            *)
(***************************************************************************)
EXTENDS ObgGc

\* What is read of a value in memory h, when inside tells what is read of those
\* it holds; a half made node holds none.
Junk == [kind |-> "junk", imm |-> NULL, items |-> <<>>]
Item(h, inside, x) == IF x \in Addr /\ h[x].kind = "obj" THEN inside[h[x].val] ELSE Junk
Look(h, inside, v) ==
  IF ~IsRef(v) THEN [kind |-> "imm", imm |-> v.at, items |-> <<>>]
  ELSE IF h[v.at].kind # "list" THEN Junk
  ELSE LET s == h[v.at].items
       IN  [kind |-> "list", imm |-> NULL, items |-> [i \in DOMAIN s |-> Item(h, inside, s[i])]]

Sight(h) == LET sight[v \in Values] == Look(h, sight, v) IN sight

See(h, s) == [i \in DOMAIN s |-> Sight(h)[s[i]]]

\* The list under construction is not yet the program's.
Visible == IF prim.op \in {"node", "elem"} THEN SubSeq(stack, 1, Len(stack) - 1) ELSE stack

(* The collector is invisible.  What the program sees by following its      *)
(* stack and globals through memory is what the abstract machine without    *)
(* memory has, whenever collections happen: a list half made, its elements  *)
(* still on the stack, survives them complete.                              *)
Data == INSTANCE ValueStack WITH stack <- See(heap, Visible), globals <- See(heap, globals)
Transparent == Data!Spec
=============================================================================
