---------------------------- MODULE ObgGcOperands ----------------------------
(***************************************************************************)
(* ObgGc with primitives that allocate: cdr and append of lists.  call_prim *)
(* pops their operands into C variables first, so while they allocate the   *)
(* collector no longer finds the operands on the stack.                     *)
(***************************************************************************)
EXTENDS ObgGc

\* call_prim: the operands leave the stack; what is read of them is in C variables.
TopList(i) == /\ Len(stack) >= i
              /\ stack[Len(stack) + 1 - i].type = "list"
Items(i) == heap[stack[Len(stack) + 1 - i].at].items

Popped(i) == SubSeq(stack, 1, Len(stack) - i)

\* _cdr: next_node is read before the new list is allocated; the rest of the
\* nodes becomes the new list.
Cdr == /\ Ready
       /\ TopList(1)
       /\ Len(Items(1)) > 1
       /\ prim' = [op |-> "cdr", n |-> 0, items |-> Tail(Items(1))]
       /\ stack' = Popped(1)
       /\ UNCHANGED <<heap, pool, globals, phase, panic>>

CdrList(l) ==
  /\ prim.op = "cdr"
  /\ Available > 0
  /\ l \in Blocks("list")
  /\ heap' = [heap EXCEPT ![l] = [NewInner("list", Gen) EXCEPT !.items = prim.items]]
  /\ pool' = [pool EXCEPT !["list"] = <<l>> \o @]
  /\ stack' = Append(stack, Value("list", l))
  /\ prim' = Idle
  /\ UNCHANGED <<globals, phase, panic>>

\* _list_append: the nodes of the first list, which is not empty, are copied
\* and the second list follows them.
ListAppend ==
  /\ Ready
  /\ TopList(1) /\ TopList(2)
  /\ Items(2) # <<>>
  /\ prim' = [op |-> "append", n |-> Len(Items(2)), items |-> Items(2) \o Items(1)]
  /\ stack' = Popped(2)
  /\ UNCHANGED <<heap, pool, globals, phase, panic>>

\* The new list is permanent until it is complete.
AppendList(l) ==
  /\ prim.op = "append"
  /\ Available > 0
  /\ l \in Blocks("list")
  /\ heap' = [heap EXCEPT ![l] = NewInner("list", PERMANENT_OBJ)]
  /\ pool' = [pool EXCEPT !["list"] = <<l>> \o @]
  /\ prim' = [op |-> "nodes", n |-> prim.n, items |-> prim.items, at |-> l]
  /\ UNCHANGED <<stack, globals, phase, panic>>

\* NEW_LIST_NODE for each element of the first list; the last one completes it.
AppendNode ==
  /\ prim.op = "nodes"
  /\ IF prim.n > 1
     THEN /\ prim' = [prim EXCEPT !.n = @ - 1]
          /\ UNCHANGED <<heap, stack>>
     ELSE /\ heap' = [heap EXCEPT ![prim.at].items = prim.items, ![prim.at].gc = Gen]
          /\ stack' = Append(stack, Value("list", prim.at))
          /\ prim' = Idle
  /\ UNCHANGED <<pool, globals, phase, panic>>

NextOperands == \/ Next
                \/ Cdr \/ ListAppend \/ AppendNode
                \/ \E l \in Addr : CdrList(l) \/ AppendList(l)

SpecOperands == Init /\ [][NextOperands]_vars

------------------------------------------------------------------------------
(* Whatever a result on the stack leads to is in memory: the collector does *)
(* not take back the sub-objects of what a primitive returns (vm.h says of  *)
(* CREATE_RET_OBJ that it "can prevent GC mis-recycle the sub-object of     *)
(* ret_obj").                                                               *)
ResultsKept == \A a \in Reachable(Refs(stack)) : heap[a].kind # "none"
=============================================================================
