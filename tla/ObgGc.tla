-------------------------------- MODULE ObgGc --------------------------------
(***************************************************************************)
(* The object-based generational collector of gc.c, with the allocation     *)
(* macros of object.h and the list literals of vm.c that call it in mid     *)
(* construction.  A block of memory is an Object or the inner structure of  *)
(* a list or a pair; every block the collector may release is booked in     *)
(* the pool of its kind, at the cost of one list node (ObjectListNodes      *)
(* shows that available nodes are PRE_OLN less the booked ones).            *)
(*                                                                          *)
(* Here a program builds and reads lists in one activation that the         *)
(* collector scans; modules that extend this one add the operations for     *)
(* which the collector does not keep its promises.                          *)
(*                                                                          *)
(* Two things of the code are outside of it and make the properties below   *)
(* narrower than they would like to be.  The nodes of a list are entries of *)
(* its items and no blocks: NEW_LIST_NODE takes their memory from os_malloc *)
(* and books it nowhere, and nothing ever frees it (free_object stops at    *)
(* non_shared, which is 0 in a literal), so every list leaks its nodes.     *)
(* And the constants of the globals are lists and simple objects: the parts *)
(* of a pair and the elements of a vector get generation 1 in every state   *)
(* (vm.c:621, 626, 689), so that of such constants a collection would free   *)
(* what the globals still lead to.                                          *)
(***************************************************************************)
EXTENDS Integers, Sequences, FiniteSets, SequencesExt

CONSTANTS Addr,        \* addresses of blocks
          Imm,         \* immediate values
          PRE_OLN,     \* list nodes
          MaxStack,    \* bound on the stack, in objects
          StrayTypes,  \* object types TOP_OBJ_PTR_FROM may read past the stack top
          BEEF,        \* (void *)0xDEADBEEF, the half made list node
          NULL

ASSUME ObgGcAssumption ==
  /\ PRE_OLN \in Nat
  /\ MaxStack \in Nat
  /\ StrayTypes \subseteq {"imm", "list"}
  /\ {BEEF, NULL} \cap (Addr \cup Imm) = {}

FREE_OBJ == 0
GEN_1_OBJ == 1
GEN_2_OBJ == 2
PERMANENT_OBJ == 3

VARIABLES heap,     \* the blocks
          pool,     \* pool[k]: obj_free_pool, list_free_pool, pair_free_pool
          stack,    \* the objects of the running activation
          prim,     \* the list literal under construction
          globals,  \* vm->globals
          phase,    \* vm->state: VM_INIT_GLOBALS, VM_RUN, VM_STOP
          panic

vars == <<heap, pool, stack, prim, globals, phase, panic>>

\* An Object: an immediate, or a reference to an inner structure.
Value(t, a) == [type |-> t, at |-> a]
IsRef(v) == v.type # "imm"

Unused == [kind |-> "none", gc |-> FREE_OBJ, val |-> NULL, items |-> <<>>]
NewObject(v, g) == [kind |-> "obj", gc |-> g, val |-> v, items |-> <<>>]
NewInner(k, g) == [kind |-> k, gc |-> g, val |-> NULL, items |-> <<>>]

Kinds == {"obj", "list", "pair"}
Booked == UNION {ToSet(pool[k]) : k \in Kinds}
Available == PRE_OLN - (Len(pool["obj"]) + Len(pool["list"]) + Len(pool["pair"]))

Idle == [op |-> "idle", n |-> 0]

------------------------------------------------------------------------------
(* build_active_root.                                                       *)

Refs(s) == {s[i].at : i \in {j \in DOMAIN s : IsRef(s[j])}}

\* What a block leads to; half made nodes are skipped.
\* Faulty variant: the walk through a list ends at a half made node.
ChildrenUntilHalf(b) ==
  CASE b.kind = "obj" -> IF IsRef(b.val) THEN {b.val.at} ELSE {}
    [] b.kind \in {"list", "pair"} -> IF BEEF \in ToSet(b.items) THEN {} ELSE ToSet(b.items)
    [] OTHER -> {}

Children(b) ==
  CASE b.kind = "obj" -> IF IsRef(b.val) THEN {b.val.at} ELSE {}
    [] b.kind \in {"list", "pair"} -> ToSet(b.items) \ {BEEF}
    [] OTHER -> {}

\* The least set of blocks that holds S and wherever a step leads.
Closed(S, Step(_)) ==
  LET closed == {T \in SUBSET Addr : S \subseteq T /\ \A x \in T : Step(x) \subseteq T}
  IN  {a \in Addr : \A T \in closed : a \in T}

Reachable(S) == Closed(S, LAMBDA a : Children(heap[a]))

\* While the globals are initialised there is no frame, hence no root.
\* Faulty variant: what the objects of the stack lead to is not inserted.
ActiveRootShallow == IF phase = "run" THEN Refs(stack) ELSE {}
ActiveRoot == IF phase = "run" THEN Reachable(Refs(stack)) ELSE {}

------------------------------------------------------------------------------
(* collect and collect_inner.                                               *)

\* The Objects free_object marks when called on o: with non_shared = 0 it
\* leaves the elements of a list alone, and it follows a pair to its parts.
Parts(o) ==
  IF heap[o].kind = "obj" /\ heap[o].gc # PERMANENT_OBJ /\ heap[o].val.type = "pair"
  THEN ToSet(heap[heap[o].val.at].items) ELSE {}

FreedWith(S) == {o \in Closed(S, Parts) : heap[o].gc # PERMANENT_OBJ}

\* Faulty variant: permanent blocks die too.
DyingPermanent(root) == {a \in Booked : a \notin root}
Dying(root) ==
  {a \in Booked : heap[a].gc # PERMANENT_OBJ /\ (a \notin root \/ heap[a].gc = FREE_OBJ)}

\* The blocks with gc = FREE_OBJ when the sweep begins.
Condemned(root) ==
  LET d == Dying(root)
      pairs == {a \in d : heap[a].kind = "pair"}
      objs == {a \in d : heap[a].kind = "obj"}
  IN  d \cup FreedWith(objs \cup UNION {ToSet(heap[a].items) : a \in pairs})

\* Faulty variant: a block ages whatever its generation.
AgedAlways(b) == [b EXCEPT !.gc = @ + 1]
Aged(b) == IF b.gc = GEN_1_OBJ THEN [b EXCEPT !.gc = GEN_2_OBJ] ELSE b

\* release_all_free_objects on every pool.  Faulty variant: the block is freed
\* and its node stays in the pool.
KeptNodeLeft(k, dead) == pool[k]
Kept(k, dead) ==
  LET kept[n \in 0 .. Len(pool[k])] ==
        IF n = 0 THEN <<>>
        ELSE IF pool[k][n] \in dead THEN kept[n - 1]
        ELSE Append(kept[n - 1], pool[k][n])
  IN  kept[Len(pool[k])]

Sweep(dead) ==
  /\ heap' = [a \in Addr |-> IF a \in dead THEN Unused
                             ELSE IF a \in Booked THEN Aged(heap[a]) ELSE heap[a]]
  /\ pool' = [k \in Kinds |-> Kept(k, dead)]

\* GC () in an allocation: no list node or no memory is left.  os_malloc may
\* fail at any time, so whenever an allocation is pending.
Pending == prim.op # "idle"

Gc == /\ panic = "none"
      /\ Pending
      /\ Sweep(Condemned(ActiveRoot))
      /\ UNCHANGED <<stack, prim, globals, phase, panic>>

------------------------------------------------------------------------------
(* Allocation.                                                              *)

\* get_free_obj_node: the first free block of the pool, else one from os_malloc.
Blocks(k) ==
  LET free == {i \in DOMAIN pool[k] : heap[pool[k][i]].gc = FREE_OBJ}
  IN  IF free # {} THEN {pool[k][Min(free)]} ELSE {a \in Addr : heap[a].kind = "none"}

FromPool(k, a) == a \in ToSet(pool[k])

\* The generation of what a literal allocates.
Gen == IF phase = "globals" THEN PERMANENT_OBJ ELSE GEN_1_OBJ

Ready == panic = "none" /\ phase # "stop" /\ prim = Idle

Push(v) == /\ Ready
           /\ Len(stack) < MaxStack
           /\ stack' = Append(stack, v)
           /\ UNCHANGED <<heap, pool, prim, globals, phase, panic>>

PushConst(i) == Push(Value("imm", i))
LocalRef(i) == i <= Len(stack) /\ Push(stack[i])
GlobalRef(i) == phase = "run" /\ i <= Len(globals) /\ Push(globals[i])

\* prim pop.  During the globals the stack is not emptied again.
Drop == /\ Ready
        /\ phase = "run"
        /\ stack # <<>>
        /\ stack' = SubSeq(stack, 1, Len(stack) - 1)
        /\ UNCHANGED <<heap, pool, prim, globals, phase, panic>>

\* car of a list: the object popped is replaced by a copy of the first element.
Car == /\ Ready
       /\ stack # <<>>
       /\ LET v == stack[Len(stack)]
          IN  /\ v.type = "list"
              /\ heap[v.at].items # <<>>
              /\ stack' = [stack EXCEPT ![Len(stack)] = heap[heap[v.at].items[1]].val]
       /\ UNCHANGED <<heap, pool, prim, globals, phase, panic>>

------------------------------------------------------------------------------
(* generate_object, case list: a list of the n topmost objects.             *)

ListLiteral(n) ==
  /\ Ready
  /\ n <= Len(stack)
  /\ Len(stack) < MaxStack
  /\ prim' = [op |-> "inner", n |-> n]
  /\ UNCHANGED <<heap, pool, stack, globals, phase, panic>>

\* NEW_INNER_OBJ (list); the list is pushed so that the collector sees it.
Inner(l) ==
  /\ panic = "none"
  /\ prim.op = "inner"
  /\ Available > 0
  /\ l \in Blocks("list")
  /\ heap' = [heap EXCEPT ![l] = NewInner("list", Gen)]
  /\ pool' = [pool EXCEPT !["list"] = <<l>> \o @]
  /\ stack' = Append(stack, Value("list", l))
  /\ prim' = IF prim.n = 0 THEN Idle ELSE [prim EXCEPT !.op = "node"]
  /\ UNCHANGED <<globals, phase, panic>>

TheList == stack[Len(stack)].at
Done == Len(heap[TheList].items)

\* NEW_LIST_NODE, which enters the list before it has an object; the memory it
\* takes for the node is never given back and not counted here.
Node ==
  /\ panic = "none"
  /\ prim.op = "node"
  /\ heap' = [heap EXCEPT ![TheList].items = <<BEEF>> \o @]
  /\ prim' = [prim EXCEPT !.op = "elem"]
  /\ UNCHANGED <<pool, stack, globals, phase, panic>>

\* The last element takes the inputs and the list off, and pushes the list.
Taken == SubSeq(stack, 1, Len(stack) - 1 - prim.n) \o <<stack[Len(stack)]>>

\* The generation of an element of a list.
\* Faulty variant: an element of a permanent list is an ordinary object, as the
\* parts of a pair and the elements of a vector are.
ElemGenOrdinary == GEN_1_OBJ
ElemGen == Gen

Element(h, o) ==
  /\ heap' = [h EXCEPT ![o] = NewObject(stack[Len(stack) - Done], ElemGen),
                       ![TheList].items[1] = o]
  /\ IF Done = prim.n
     THEN prim' = Idle /\ stack' = Taken
     ELSE prim' = [prim EXCEPT !.op = "node"] /\ UNCHANGED stack
  /\ UNCHANGED <<globals, phase>>

\* gc_obj_book.
BookObject(o) == IF FromPool("obj", o) THEN pool["obj"] ELSE <<o>> \o pool["obj"]

\* NEW_OBJ of a simple type.
SimpleElement(o) ==
  /\ panic = "none"
  /\ prim.op = "elem"
  /\ "imm" \in StrayTypes
  /\ Available > 0
  /\ o \in Blocks("obj")
  /\ Element(heap, o)
  /\ pool' = [pool EXCEPT !["obj"] = BookObject(o)]
  /\ UNCHANGED panic

\* NEW_OBJ of a composite type (a list here; pairs, vectors, closures and
\* bytevectors do the same) allocates and books an inner structure too, which
\* the assignment *new_obj = POP_OBJ_FROM (sp) forgets at once.  Only one list
\* node was asked for.
CompositeElement(o, i) ==
  /\ panic = "none"
  /\ prim.op = "elem"
  /\ "list" \in StrayTypes
  /\ Available > 0
  /\ o \in Blocks("obj")
  /\ i \in Blocks("list")
  /\ o # i
  /\ IF Available > 1
     THEN /\ Element([heap EXCEPT ![i] = NewInner("list", GEN_1_OBJ)], o)
          /\ pool' = [pool EXCEPT !["obj"] = BookObject(o), !["list"] = <<i>> \o @]
          /\ UNCHANGED panic
     ELSE /\ panic' = "doomed"
          /\ UNCHANGED <<heap, pool, stack, prim, globals, phase>>

------------------------------------------------------------------------------
(* vm_init_globals and HALT.                                                *)

EndGlobals ==
  /\ Ready
  /\ phase = "globals"
  /\ globals' = stack
  /\ stack' = <<>>
  /\ phase' = "run"
  /\ UNCHANGED <<heap, pool, prim, panic>>

\* gc_clean_cache: every booked block is freed, permanent or not.
\* Faulty variant: the sweep is not forced.
HaltSweepFree == {a \in Booked : heap[a].gc # PERMANENT_OBJ}
HaltSweep == Booked

Halt ==
  /\ Ready
  /\ phase = "run"
  /\ phase' = "stop"
  /\ stack' = <<>> /\ globals' = <<>>
  /\ Sweep(HaltSweep)
  /\ UNCHANGED <<prim, panic>>

Init == /\ heap = [a \in Addr |-> Unused]
        /\ pool = [k \in Kinds |-> <<>>]
        /\ stack = <<>>
        /\ prim = Idle
        /\ globals = <<>>
        /\ phase = "globals"
        /\ panic = "none"

Next == \/ \E i \in Imm : PushConst(i)
        \/ \E i \in 1 .. MaxStack : LocalRef(i) \/ GlobalRef(i)
        \/ \E n \in 0 .. MaxStack : ListLiteral(n)
        \/ \E a \in Addr : Inner(a) \/ SimpleElement(a)
        \/ \E a, b \in Addr : CompositeElement(a, b)
        \/ Node \/ Drop \/ Car \/ Gc \/ EndGlobals \/ Halt

Spec == Init /\ [][Next]_vars

------------------------------------------------------------------------------
Ref == [type : {"list", "pair"}, at : Addr]
Values == Ref \cup [type : {"imm"}, at : Imm]

TypeOK ==
  /\ \A a \in Addr :
       /\ heap[a].kind \in Kinds \cup {"none"}
       /\ heap[a].gc \in FREE_OBJ .. PERMANENT_OBJ
       /\ heap[a].kind = "obj" => heap[a].val \in Values
       /\ ToSet(heap[a].items) \subseteq Addr \cup {BEEF}
  /\ \A k \in Kinds : ToSet(pool[k]) \subseteq Addr
  /\ ToSet(stack) \cup ToSet(globals) \subseteq Values
  /\ prim.op \in {"idle", "inner", "node", "elem"}
  /\ phase \in {"globals", "run", "stop"}
  /\ panic \in {"none", "doomed"}

(* Every Object and inner structure is booked exactly once, in its pool,    *)
(* and no pool refers to memory that was given back: the sweep will free    *)
(* each block once and forgets none (gc_obj_book, gc_inner_obj_book,        *)
(* release_all_free_objects).                                               *)
BookedOnce ==
  /\ \A k \in Kinds : \A i \in DOMAIN pool[k] : heap[pool[k][i]].kind = k
  /\ \A k \in Kinds : IsInjective(pool[k])
  /\ \A a \in Addr : heap[a].kind # "none" => a \in Booked

(* The globals are no root of the collector, so everything they lead to,    *)
(* elements of elements included, has to be permanent.  generate_object     *)
(* sees to it for constants made of lists and simple objects (case list,    *)
(* vm.c:652 and 667), which is all this says; a constant with a pair or a   *)
(* vector in it breaks it.                                                  *)
ListConstantsPermanent ==
  phase = "run" => \A a \in Reachable(Refs(globals)) : heap[a].gc = PERMANENT_OBJ

(* Nothing the program can reach was given back, the list it is making      *)
(* included: collections happen in between, while the elements of a nested  *)
(* list hang on a list that is still half made (build_active_root).         *)
NothingDangling == \A a \in Reachable(Refs(stack) \cup Refs(globals)) : heap[a].kind # "none"

(* A collection changes no block that the program can reach, but for its    *)
(* age (collect, collect_inner, free_object).                               *)
CollectionKeeps ==
  [][Gc => \A a \in Reachable(Refs(stack) \cup Refs(globals)) :
             heap'[a] \in {heap[a], Aged(heap[a])}]_vars

(* HALT gives every Object and every inner structure back, permanent ones   *)
(* included, and nothing stays booked (gc_clean_cache), so gc_clean finds   *)
(* the node of every booking returned.  It does not speak of the memory of  *)
(* the list's own nodes, which nobody books and HALT leaves behind.         *)
NothingBooked ==
  phase = "stop" => Booked = {} /\ \A a \in Addr : heap[a].kind = "none"
=============================================================================
