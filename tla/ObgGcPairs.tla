------------------------------ MODULE ObgGcPairs ------------------------------
(***************************************************************************)
(* ObgGc with pairs: pair literals, car and cdr of a pair.  Both copy an    *)
(* Object and share the inner structure it refers to.                       *)
(***************************************************************************)
EXTENDS ObgGc

\* generate_object, case pair: NEW_INNER_OBJ (pair), pushed with its parts unset.
PairLiteral(p) ==
  /\ Ready
  /\ Len(stack) \in 2 .. MaxStack - 1
  /\ Available > 0
  /\ p \in Blocks("pair")
  /\ heap' = [heap EXCEPT ![p] = NewInner("pair", Gen)]
  /\ pool' = [pool EXCEPT !["pair"] = <<p>> \o @]
  /\ stack' = Append(stack, Value("pair", p))
  /\ prim' = [op |-> "part", n |-> 2]
  /\ UNCHANGED <<globals, phase, panic>>

\* NEW_OBJ, of a simple type, for the cdr, then for the car: generation 1 in
\* every state.
Part(o) ==
  /\ panic = "none"
  /\ prim.op = "part"
  /\ Available > 0
  /\ o \in Blocks("obj")
  /\ heap' = [heap EXCEPT ![o] = NewObject(stack[Len(stack) - 1 - Done], GEN_1_OBJ),
                          ![TheList].items = <<o>> \o @]
  /\ pool' = [pool EXCEPT !["obj"] = BookObject(o)]
  /\ IF Done = 1
     THEN prim' = Idle /\ stack' = Taken
     ELSE UNCHANGED <<prim, stack>>
  /\ UNCHANGED <<globals, phase, panic>>

\* A collection meets the parts that are not set yet.
HalfPair == prim.op = "part"

GcHalfPair ==
  /\ panic = "none"
  /\ HalfPair
  /\ panic' = "null obj"
  /\ UNCHANGED <<heap, pool, stack, prim, globals, phase>>

\* car (i = 1) and cdr (i = 2) of a pair whose parts are still in memory.
PairPart(i) ==
  /\ Ready
  /\ stack # <<>>
  /\ LET v == stack[Len(stack)]
     IN  /\ v.type = "pair"
         /\ heap[heap[v.at].items[i]].kind = "obj"
         /\ stack' = [stack EXCEPT ![Len(stack)] = heap[heap[v.at].items[i]].val]
  /\ UNCHANGED <<heap, pool, prim, globals, phase, panic>>

NextPairs == \/ ~HalfPair /\ Next
             \/ \E a \in Addr : PairLiteral(a) \/ Part(a)
             \/ \E i \in {1, 2} : PairPart(i)
             \/ GcHalfPair

SpecPairs == Init /\ [][NextPairs]_vars

------------------------------------------------------------------------------
(* A collection leaves every block of the active root in memory: "If it's   *)
(* in active root, it get aged if it's gen-1, keep age if it's gen-2"       *)
(* (collect, collect_inner).                                                *)
ActiveKept ==
  [][phase' = "run" => \A a \in ActiveRoot : heap[a].kind # "none" => heap'[a].kind # "none"]_vars
=============================================================================
