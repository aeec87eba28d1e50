--------------------------- MODULE ObjectListNodes ---------------------------
(***************************************************************************)
(* The pre-allocated list nodes (OLN) of gc.c: an array of PRE_OLN node     *)
(* pointers and an index.  Slots from index on hold free nodes; a slot that *)
(* was handed out is overwritten with the poison 0xDEAD0001 and is filled   *)
(* again by whichever node is recycled next, so the array is a stack whose  *)
(* order has nothing to do with the order of allocation.  The clients link  *)
(* every node they get into one of the collector's pools and recycle it     *)
(* when they unlink it.                                                     *)
(***************************************************************************)
EXTENDS Integers, FiniteSets

CONSTANTS PRE_OLN,   \* slots in the array
          Nodes,     \* addresses os_malloc may return for a ListNode
          Pools,     \* the collector's pools (SLISTs of nodes)
          NULL,
          POISON     \* (void *)0xDEAD0001

ASSUME OlnAssumption ==
  /\ PRE_OLN \in Nat \ {0}
  /\ NULL \notin Nodes
  /\ POISON \notin Nodes
  /\ NULL # POISON
  /\ IsFiniteSet(Nodes)

Slots == 0 .. PRE_OLN - 1

VARIABLES oln,      \* _oln.oln
          index,    \* _oln.index
          linked,   \* linked[p]: the nodes now in the SLIST of pool p
          heap,     \* the nodes os_malloc gave and os_free has not taken back
          on,       \* TRUE between gc_init and gc_clean
          panic     \* the PANIC the VM stopped with, or "none"

vars == <<oln, index, linked, heap, on, panic>>

Panics == {"none", "no_memory", "null_node", "doomed", "leaked", "null_slot"}

AllLinked == UNION {linked[p] : p \in Pools}

Init == /\ oln = [i \in Slots |-> NULL]
        /\ index = 0
        /\ linked = [p \in Pools |-> {}]
        /\ heap = {}
        /\ on = FALSE
        /\ panic = "none"

------------------------------------------------------------------------------
(* gc_init fills every slot with a node of its own, or PANICs.              *)

\* Faulty variant: the loop stops one slot early.
PreAllocateShort ==
  \E f \in [Slots -> Nodes \ heap] :
    /\ \A i, j \in Slots : f[i] = f[j] => i = j
    /\ oln' = [f EXCEPT ![PRE_OLN - 1] = NULL]
    /\ heap' = heap \cup {f[i] : i \in Slots \ {PRE_OLN - 1}}
    /\ index' = 0
    /\ on' = TRUE
    /\ linked' = [p \in Pools |-> {}]
    /\ UNCHANGED panic

PreAllocate ==
  \E f \in [Slots -> Nodes \ heap] :
    /\ \A i, j \in Slots : f[i] = f[j] => i = j
    /\ oln' = f
    /\ heap' = heap \cup {f[i] : i \in Slots}
    /\ index' = 0
    /\ on' = TRUE
    /\ linked' = [p \in Pools |-> {}]
    /\ UNCHANGED panic

GcInit == /\ panic = "none"
          /\ ~on
          /\ \/ PreAllocate
             \/ /\ panic' = "no_memory"
                /\ UNCHANGED <<oln, index, linked, heap, on>>

Available == PRE_OLN - index

\* Faulty variant: the slot is poisoned but the index stays.
AllocNoAdvance == oln' = [oln EXCEPT ![index] = POISON] /\ index' = index

AllocSlot == oln' = [oln EXCEPT ![index] = POISON] /\ index' = index + 1

\* gc_obj_book and gc_inner_obj_book: take a node and link it in pool p.
Book(p) ==
  /\ panic = "none"
  /\ on
  /\ IF Available = 0
     THEN panic' = "doomed" /\ UNCHANGED <<oln, index, linked>>
     ELSE IF oln[index] = NULL
          THEN /\ panic' = "null_node"
               /\ oln' = [oln EXCEPT ![index] = POISON]
               /\ UNCHANGED <<index, linked>>
          ELSE /\ linked' = [linked EXCEPT ![p] = @ \cup {oln[index]}]
               /\ AllocSlot
               /\ UNCHANGED panic
  /\ UNCHANGED <<heap, on>>

\* Faulty variants: post-decrement instead of pre-decrement, and decrementing
\* both in the subscript and after it.
RecycleTwice(n) == oln' = [oln EXCEPT ![index - 1] = n] /\ index' = index - 2
RecycleInPlace(n) == oln' = [oln EXCEPT ![index] = n] /\ index' = index - 1

RecycleSlot(n) == oln' = [oln EXCEPT ![index - 1] = n] /\ index' = index - 1

\* SLIST_REMOVE followed by object_list_node_recycle, as in
\* release_all_free_objects and free_object_from_pool.
Release(p, n) ==
  /\ panic = "none"
  /\ on
  /\ n \in linked[p]
  /\ linked' = [linked EXCEPT ![p] = @ \ {n}]
  /\ RecycleSlot(n)
  /\ UNCHANGED <<heap, on, panic>>

FreedSlots == {oln[i] : i \in index .. PRE_OLN - 1}

\* Faulty variant: gc_clean forgets to ask whether every node is back.
NoLeakTest == FALSE
LeakTest == index # 0

\* object_list_node_clean: every node must be back; each is freed once.
GcClean ==
  /\ panic = "none"
  /\ on
  /\ IF LeakTest
     THEN panic' = "leaked" /\ UNCHANGED <<oln, heap, on>>
     ELSE IF NULL \in FreedSlots
          THEN panic' = "null_slot" /\ UNCHANGED <<oln, heap, on>>
          ELSE /\ heap' = heap \ FreedSlots
               /\ oln' = [i \in Slots |-> NULL]
               /\ on' = FALSE
               /\ UNCHANGED panic
  /\ index' = IF LeakTest THEN index ELSE 0
  /\ UNCHANGED linked

Next == \/ GcInit
        \/ \E p \in Pools : Book(p)
        \/ \E p \in Pools, n \in Nodes : Release(p, n)
        \/ GcClean

Spec == Init /\ [][Next]_vars

------------------------------------------------------------------------------
FreeNodes == IF on THEN {oln[i] : i \in index .. PRE_OLN - 1} ELSE {}

TypeOK ==
  /\ oln \in [Slots -> Nodes \cup {NULL, POISON}]
  /\ index \in 0 .. PRE_OLN
  /\ linked \in [Pools -> SUBSET Nodes]
  /\ heap \subseteq Nodes
  /\ on \in BOOLEAN
  /\ panic \in Panics

(* Conservation: whatever the order in which pools give nodes back, the     *)
(* free slots hold pairwise different nodes, no pool holds a node that is   *)
(* free or that another pool holds, and free and linked nodes together are  *)
(* exactly the nodes bought from the heap: none is handed out twice, none   *)
(* is lost (object_list_node_alloc / object_list_node_recycle).             *)
Conserved ==
  /\ \A i, j \in index .. PRE_OLN - 1 : on /\ oln[i] = oln[j] => i = j
  /\ \A p \in Pools : linked[p] \cap FreeNodes = {}
  /\ \A p, q \in Pools : linked[p] \cap linked[q] # {} => p = q
  /\ heap = FreeNodes \cup AllLinked

(* The index counts the nodes in use, so NEW_OBJ's test of                  *)
(* object_list_node_available is exact and gc_clean's "Not all nodes        *)
(* returned to OLN" fires exactly when some pool still holds a node.        *)
IndexCounts == index = Cardinality(AllLinked)

(* The two "BUG" branches that guard against a damaged array are            *)
(* unreachable: object_list_node_alloc never meets a NULL slot, and the     *)
(* clean-up loop never does either.                                         *)
ArrayIntact == panic \notin {"null_node", "null_slot"}

(* The array refines the set-based stock.                                   *)
Stock == INSTANCE NodePool WITH free <- FreeNodes
StockSpec == Stock!Spec
=============================================================================
