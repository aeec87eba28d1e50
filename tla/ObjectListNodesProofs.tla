------------------------ MODULE ObjectListNodesProofs ------------------------
(***************************************************************************)
(* Proofs about the node array for every PRE_OLN, every set of addresses    *)
(* and every set of pools.                                                  *)
(*                                                                          *)
(* Conservation is not inductive by itself: that a recycled node lands in a *)
(* slot of the array needs index > 0, which follows because index counts    *)
(* the linked nodes, and that a node taken from the array is new to every   *)
(* pool needs the free slots to hold proper nodes.  OlnInv adds both.       *)
(***************************************************************************)
EXTENDS ObjectListNodes, FiniteSetTheorems, TLAPS

FreeIndices == index .. PRE_OLN - 1

OlnInv ==
  /\ TypeOK
  /\ on => \A i \in FreeIndices : oln[i] \in Nodes
  /\ ~on => index = 0
  /\ Conserved
  /\ IndexCounts
  /\ ArrayIntact

(* Linked nodes are finitely many, so Cardinality counts them.              *)
LEMMA LinkedFinite ==
  ASSUME TypeOK
  PROVE  IsFiniteSet(AllLinked) /\ AllLinked \subseteq Nodes
<1>1. AllLinked \subseteq Nodes
  BY DEF TypeOK, AllLinked
<1> QED
  BY <1>1, FS_Subset, OlnAssumption

(* What a successful allocation does to the free nodes.                     *)
LEMMA BookTakes ==
  ASSUME OlnInv, NEW p \in Pools, Book(p), Available # 0
  PROVE  /\ index \in FreeIndices /\ index \in Nat
         /\ oln[index] \in Nodes /\ oln[index] \in FreeNodes
         /\ linked' = [linked EXCEPT ![p] = @ \cup {oln[index]}]
         /\ oln' = [oln EXCEPT ![index] = POISON]
         /\ index' = index + 1
         /\ on /\ on' = on /\ heap' = heap /\ panic' = panic
         /\ FreeNodes' = FreeNodes \ {oln[index]}
<1> USE OlnAssumption
<1> DEFINE n == oln[index]
<1>1. index \in FreeIndices /\ on /\ index \in Nat
  BY DEF Available, OlnInv, TypeOK, FreeIndices, Book
<1>2. n \in Nodes /\ n # NULL /\ n \in FreeNodes
  BY <1>1 DEF OlnInv, FreeNodes, FreeIndices
<1>3. /\ linked' = [linked EXCEPT ![p] = @ \cup {n}]
      /\ oln' = [oln EXCEPT ![index] = POISON]
      /\ index' = index + 1
      /\ on' = on /\ heap' = heap /\ panic' = panic
  BY <1>2 DEF Book, AllocSlot
<1>4. FreeNodes' = FreeNodes \ {n}
  <2>1. \A i \in index' .. PRE_OLN - 1 :
           oln'[i] = oln[i] /\ i \in FreeIndices /\ i # index
    BY <1>1, <1>3 DEF OlnInv, TypeOK, Slots, FreeIndices
  <2>2. \A i \in FreeIndices : i # index => i \in index' .. PRE_OLN - 1
    BY <1>1, <1>3 DEF OlnInv, TypeOK, FreeIndices
  <2>3. \A i \in FreeIndices : i # index => oln[i] # n
    BY <1>1 DEF OlnInv, Conserved, FreeIndices
  <2> QED
    BY <1>1, <1>3, <2>1, <2>2, <2>3 DEF FreeNodes, FreeIndices
<1> QED
  BY <1>1, <1>2, <1>3, <1>4

(* What a recycled node does to the free nodes.                             *)
LEMMA ReleaseGives ==
  ASSUME OlnInv, NEW p \in Pools, NEW n \in Nodes, Release(p, n)
  PROVE  /\ on /\ on' = on /\ heap' = heap /\ panic' = panic
         /\ n \in linked[p] /\ n \in AllLinked /\ n \notin FreeNodes
         /\ linked' = [linked EXCEPT ![p] = @ \ {n}]
         /\ oln' = [oln EXCEPT ![index - 1] = n]
         /\ index' = index - 1
         /\ index \in 1 .. PRE_OLN
         /\ \A i \in index' .. PRE_OLN - 1 :
                oln'[i] = IF i = index - 1 THEN n ELSE oln[i]
         /\ FreeNodes' = FreeNodes \cup {n}
<1> USE OlnAssumption
<1>1. /\ on
      /\ n \in linked[p]
      /\ linked' = [linked EXCEPT ![p] = @ \ {n}]
      /\ oln' = [oln EXCEPT ![index - 1] = n]
      /\ index' = index - 1
      /\ on' = on /\ heap' = heap /\ panic' = panic
  BY DEF Release, RecycleSlot
<1>2. n \in AllLinked
  BY <1>1 DEF AllLinked
<1>3. index \in 1 .. PRE_OLN
  <2>1. Cardinality(AllLinked) # 0
    BY <1>2, LinkedFinite, FS_EmptySet DEF OlnInv
  <2> QED
    BY <2>1 DEF OlnInv, IndexCounts, TypeOK
<1>4. n \notin FreeNodes
  BY <1>1 DEF OlnInv, Conserved
<1>5. \A i \in index' .. PRE_OLN - 1 :
         oln'[i] = IF i = index - 1 THEN n ELSE oln[i]
  BY <1>1, <1>3 DEF OlnInv, TypeOK, Slots
<1>6. FreeNodes' = FreeNodes \cup {n}
  <2>1. index - 1 \in index' .. PRE_OLN - 1
    BY <1>1, <1>3
  <2>2. \A i \in index' .. PRE_OLN - 1 : i # index - 1 => i \in index .. PRE_OLN - 1
    BY <1>1, <1>3
  <2>3. \A i \in index .. PRE_OLN - 1 : i \in index' .. PRE_OLN - 1 /\ i # index - 1
    BY <1>1, <1>3
  <2> QED
    BY <1>1, <1>5, <2>1, <2>2, <2>3 DEF FreeNodes
<1> QED
  BY <1>1, <1>2, <1>3, <1>4, <1>5, <1>6

LEMMA InitOlnInv == Init => OlnInv
<1> SUFFICES ASSUME Init PROVE OlnInv
  OBVIOUS
<1> USE OlnAssumption DEF Init
<1>1. AllLinked = {}
  BY DEF AllLinked
<1>2. TypeOK
  <2>1. oln \in [Slots -> Nodes \cup {NULL, POISON}]
    BY Zenon
  <2>2. linked \in [Pools -> SUBSET Nodes]
    BY Zenon
  <2>3. index \in 0 .. PRE_OLN /\ heap \subseteq Nodes /\ panic \in Panics
    BY DEF Panics
  <2> QED
    BY <2>1, <2>2, <2>3, Zenon DEF TypeOK
<1>3. Conserved
  BY <1>1 DEF Conserved, FreeNodes
<1>4. IndexCounts
  BY <1>1, FS_EmptySet DEF IndexCounts
<1> QED
  BY <1>2, <1>3, <1>4 DEF OlnInv, ArrayIntact

LEMMA GcInitOlnInv ==
  ASSUME OlnInv, GcInit
  PROVE  OlnInv'
<1> USE OlnAssumption
<1>0. index = 0 /\ AllLinked = {}
  <2>1. index = 0
    BY DEF OlnInv, GcInit
  <2> QED
    BY <2>1, LinkedFinite, FS_EmptySet DEF OlnInv, IndexCounts
<1>1. CASE PreAllocate
  <2>1. PICK f \in [Slots -> Nodes \ heap] :
           /\ \A i, j \in Slots : f[i] = f[j] => i = j
           /\ oln' = f
           /\ heap' = heap \cup {f[i] : i \in Slots}
    BY <1>1 DEF PreAllocate
  <2>2. index' = 0 /\ on' = TRUE /\ linked' = [p \in Pools |-> {}]
        /\ panic' = panic
    BY <1>1 DEF PreAllocate
  <2>3. AllLinked' = {}
    BY <2>2 DEF AllLinked
  <2>4. heap = {}
    BY <1>0 DEF OlnInv, Conserved, FreeNodes, GcInit
  <2>5. FreeNodes' = {f[i] : i \in Slots}
    BY <2>1, <2>2 DEF FreeNodes, Slots
  <2>6. TypeOK'
    BY <2>1, <2>2, <2>4 DEF OlnInv, TypeOK, Slots
  <2>7. Conserved'
    BY <2>1, <2>2, <2>3, <2>4, <2>5 DEF Conserved, Slots
  <2>8. IndexCounts'
    BY <2>2, <2>3, FS_EmptySet DEF IndexCounts
  <2> QED
    BY <2>1, <2>2, <2>6, <2>7, <2>8 DEF OlnInv, ArrayIntact, FreeIndices, Slots
<1>2. CASE panic' = "no_memory" /\ UNCHANGED <<oln, index, linked, heap, on>>
  BY <1>2 DEF OlnInv, TypeOK, Conserved, IndexCounts, ArrayIntact, FreeNodes,
              AllLinked, FreeIndices, Panics
<1> QED
  BY <1>1, <1>2 DEF GcInit

LEMMA BookOlnInv ==
  ASSUME OlnInv, NEW p \in Pools, Book(p)
  PROVE  OlnInv'
<1> USE OlnAssumption
<1>1. CASE Available = 0
  <2>1. panic' = "doomed" /\ UNCHANGED <<oln, index, linked, heap, on>>
    BY <1>1 DEF Book
  <2> QED
    BY <2>1 DEF OlnInv, TypeOK, Conserved, IndexCounts, ArrayIntact, FreeNodes,
                AllLinked, FreeIndices, Panics
<1>2. CASE Available # 0
  <2> DEFINE n == oln[index]
  <2>1. /\ index \in FreeIndices /\ index \in Nat
        /\ n \in Nodes /\ n \in FreeNodes
        /\ linked' = [linked EXCEPT ![p] = @ \cup {n}]
        /\ oln' = [oln EXCEPT ![index] = POISON]
        /\ index' = index + 1
        /\ on /\ on' = on /\ heap' = heap /\ panic' = panic
        /\ FreeNodes' = FreeNodes \ {n}
    BY <1>2, BookTakes
  <2>2. n \notin AllLinked
    BY <2>1 DEF OlnInv, Conserved, AllLinked
  <2>3. AllLinked' = AllLinked \cup {n}
    <3>1. \A q \in Pools : linked'[q] = IF q = p THEN linked[p] \cup {n} ELSE linked[q]
      BY <2>1 DEF OlnInv, TypeOK
    <3> QED
      BY <3>1 DEF AllLinked
  <2>4. TypeOK'
    BY <2>1 DEF OlnInv, TypeOK, FreeIndices, Slots
  <2>5. Conserved'
    <3>1. \A i, j \in index' .. PRE_OLN - 1 : on' /\ oln'[i] = oln'[j] => i = j
      BY <2>1 DEF OlnInv, Conserved, TypeOK, Slots, FreeIndices
    <3>2. \A q \in Pools : linked'[q] \cap FreeNodes' = {}
      BY <2>1 DEF OlnInv, Conserved, TypeOK
    <3>3. \A q, r \in Pools : linked'[q] \cap linked'[r] # {} => q = r
      BY <2>1, <2>2 DEF OlnInv, Conserved, TypeOK, AllLinked
    <3>4. heap' = FreeNodes' \cup AllLinked'
      BY <2>1, <2>3 DEF OlnInv, Conserved
    <3> QED
      BY <3>1, <3>2, <3>3, <3>4 DEF Conserved
  <2>6. IndexCounts'
    BY <2>1, <2>2, <2>3, LinkedFinite, FS_AddElement DEF OlnInv, IndexCounts
  <2>7. on' => \A i \in FreeIndices' : oln'[i] \in Nodes
    BY <2>1 DEF OlnInv, FreeIndices, TypeOK, Slots
  <2> QED
    BY <2>1, <2>4, <2>5, <2>6, <2>7 DEF OlnInv, ArrayIntact
<1> QED
  BY <1>1, <1>2

LEMMA ReleaseOlnInv ==
  ASSUME OlnInv, NEW p \in Pools, NEW n \in Nodes, Release(p, n)
  PROVE  OlnInv'
<1> USE OlnAssumption
<1>1. /\ on /\ on' = on /\ heap' = heap /\ panic' = panic
      /\ n \in linked[p] /\ n \in AllLinked /\ n \notin FreeNodes
      /\ linked' = [linked EXCEPT ![p] = @ \ {n}]
      /\ oln' = [oln EXCEPT ![index - 1] = n]
      /\ index' = index - 1
      /\ index \in 1 .. PRE_OLN
      /\ FreeNodes' = FreeNodes \cup {n}
  BY ReleaseGives
<1>2. \A i \in index' .. PRE_OLN - 1 :
         oln'[i] = IF i = index - 1 THEN n ELSE oln[i]
  BY ReleaseGives
<1>3. AllLinked' = AllLinked \ {n}
  <2>1. \A q \in Pools : linked'[q] = IF q = p THEN linked[p] \ {n} ELSE linked[q]
    BY <1>1 DEF OlnInv, TypeOK
  <2>2. \A q \in Pools : q # p => n \notin linked[q]
    BY <1>1 DEF OlnInv, Conserved
  <2> QED
    BY <2>1, <2>2 DEF AllLinked
<1>4. TypeOK'
  BY <1>1 DEF OlnInv, TypeOK, Slots
<1>5. Conserved'
  <2>1. \A i, j \in index' .. PRE_OLN - 1 : on' /\ oln'[i] = oln'[j] => i = j
    <3>1. \A i \in index .. PRE_OLN - 1 : oln[i] # n
      BY <1>1 DEF FreeNodes
    <3>2. \A i \in index' .. PRE_OLN - 1 : i = index - 1 \/ i \in index .. PRE_OLN - 1
      BY <1>1
    <3> QED
      BY <1>1, <1>2, <3>1, <3>2 DEF OlnInv, Conserved
  <2>2. \A q \in Pools : linked'[q] \cap FreeNodes' = {}
    BY <1>1 DEF OlnInv, Conserved, TypeOK
  <2>3. \A q, r \in Pools : linked'[q] \cap linked'[r] # {} => q = r
    BY <1>1 DEF OlnInv, Conserved, TypeOK
  <2>4. heap' = FreeNodes' \cup AllLinked'
    BY <1>1, <1>3 DEF OlnInv, Conserved
  <2> QED
    BY <2>1, <2>2, <2>3, <2>4 DEF Conserved
<1>6. IndexCounts'
  BY <1>1, <1>3, LinkedFinite, FS_RemoveElement DEF OlnInv, IndexCounts
<1>7. on' => \A i \in FreeIndices' : oln'[i] \in Nodes
  BY <1>1, <1>2 DEF OlnInv, FreeIndices
<1> QED
  BY <1>1, <1>4, <1>5, <1>6, <1>7 DEF OlnInv, ArrayIntact

LEMMA GcCleanOlnInv ==
  ASSUME OlnInv, GcClean
  PROVE  OlnInv'
<1> USE OlnAssumption
<1>1. CASE index # 0
  <2>1. panic' = "leaked" /\ UNCHANGED <<oln, heap, on, index, linked>>
    BY <1>1 DEF GcClean, LeakTest
  <2> QED
    BY <2>1 DEF OlnInv, TypeOK, Conserved, IndexCounts, ArrayIntact, FreeNodes,
                AllLinked, FreeIndices, Panics
<1>2. CASE index = 0
  <2>1. AllLinked = {}
    BY <1>2, LinkedFinite, FS_EmptySet DEF OlnInv, IndexCounts
  <2>2. on /\ NULL \notin FreedSlots
    BY DEF GcClean, FreedSlots, OlnInv, FreeIndices
  <2>3. /\ heap' = heap \ FreedSlots
        /\ oln' = [i \in Slots |-> NULL]
        /\ on' = FALSE
        /\ index' = 0
        /\ UNCHANGED <<linked, panic>>
    BY <1>2, <2>2 DEF GcClean, LeakTest
  <2>4. heap = FreedSlots
    BY <2>1, <2>2 DEF OlnInv, Conserved, FreeNodes, FreedSlots
  <2>5. AllLinked' = {} /\ FreeNodes' = {} /\ heap' = {}
    BY <2>1, <2>3, <2>4 DEF AllLinked, FreeNodes
  <2>6. TypeOK'
    <3>1. oln' \in [Slots -> Nodes \cup {NULL, POISON}]
      BY <2>3, Zenon
    <3>2. index' \in 0 .. PRE_OLN /\ heap' \subseteq Nodes /\ linked' = linked
          /\ panic' = panic
      BY <2>3, <2>5
    <3>3. on' \in BOOLEAN
      BY <2>3, Zenon
    <3> QED
      BY <3>1, <3>2, <3>3 DEF OlnInv, TypeOK
  <2>7. Conserved'
    BY <2>3, <2>5 DEF OlnInv, Conserved
  <2>8. IndexCounts'
    BY <2>3, <2>5, FS_EmptySet DEF IndexCounts
  <2> QED
    BY <2>3, <2>6, <2>7, <2>8 DEF OlnInv, ArrayIntact
<1> QED
  BY <1>1, <1>2

LEMMA NextOlnInv == OlnInv /\ [Next]_vars => OlnInv'
<1> SUFFICES ASSUME OlnInv, [Next]_vars PROVE OlnInv'
  OBVIOUS
<1>1. CASE GcInit
  BY <1>1, GcInitOlnInv
<1>2. ASSUME NEW p \in Pools, Book(p) PROVE OlnInv'
  BY <1>2, BookOlnInv
<1>3. ASSUME NEW p \in Pools, NEW n \in Nodes, Release(p, n) PROVE OlnInv'
  BY <1>3, ReleaseOlnInv
<1>4. CASE GcClean
  BY <1>4, GcCleanOlnInv
<1>5. CASE UNCHANGED vars
  BY <1>5 DEF OlnInv, TypeOK, Conserved, IndexCounts, ArrayIntact, FreeNodes,
              AllLinked, FreeIndices, vars
<1> QED
  BY <1>1, <1>2, <1>3, <1>4, <1>5 DEF Next

(* The strengthened invariant holds of every behaviour of the node array.   *)
THEOREM OlnInvariant == Spec => []OlnInv
<1>1. Init => OlnInv
  BY InitOlnInv
<1>2. OlnInv /\ [Next]_vars => OlnInv'
  BY NextOlnInv
<1> QED
  BY <1>1, <1>2, PTL DEF Spec

(* object_list_node_alloc and object_list_node_recycle neither duplicate    *)
(* nor lose a node, whatever the order of the calls.                        *)
THEOREM NodesConserved == Spec => []Conserved
<1>1. OlnInv => Conserved
  BY DEF OlnInv
<1> QED
  BY <1>1, OlnInvariant, PTL

(* _oln.index is the number of nodes linked in the pools.                   *)
THEOREM IndexCountsLinked == Spec => []IndexCounts
<1>1. OlnInv => IndexCounts
  BY DEF OlnInv
<1> QED
  BY <1>1, OlnInvariant, PTL

(* The variables keep their types.                                          *)
THEOREM OlnTypeCorrect == Spec => []TypeOK
<1>1. OlnInv => TypeOK
  BY DEF OlnInv
<1> QED
  BY <1>1, OlnInvariant, PTL

(* No behaviour reaches the PANICs that report a NULL slot.                 *)
THEOREM NoDamagedSlot == Spec => []ArrayIntact
<1>1. OlnInv => ArrayIntact
  BY DEF OlnInv
<1> QED
  BY <1>1, OlnInvariant, PTL

------------------------------------------------------------------------------
(* Each operation on the array is an operation on the stock, or leaves it   *)
(* as it is.                                                                *)

LEMMA InitStock == Init => Stock!Init
  BY DEF Init, Stock!Init, FreeNodes

LEMMA GcInitStock ==
  ASSUME OlnInv, GcInit
  PROVE  [Stock!Next]_(Stock!vars)
<1> USE OlnAssumption
<1>1. CASE PreAllocate
  <2>1. index = 0 /\ AllLinked = {} /\ ~on
    BY LinkedFinite, FS_EmptySet DEF OlnInv, IndexCounts, GcInit
  <2>2. \A p \in Pools : linked[p] = {}
    BY <2>1 DEF AllLinked
  <2>3. FreeNodes = {}
    BY <2>1 DEF FreeNodes
  <2>4. linked' = linked
    BY <1>1, <2>2 DEF PreAllocate, OlnInv, TypeOK
  <2>5. FreeNodes' \in SUBSET Nodes
    <3>1. PICK f \in [Slots -> Nodes \ heap] : oln' = f
      BY <1>1 DEF PreAllocate
    <3>2. index' = 0 /\ on'
      BY <1>1 DEF PreAllocate
    <3> QED
      BY <3>1, <3>2 DEF FreeNodes, Slots
  <2>6. Stock!Fill(FreeNodes')
    BY <2>2, <2>3, <2>4 DEF Stock!Fill
  <2> QED
    BY <2>5, <2>6 DEF Stock!Next
<1>2. CASE panic' = "no_memory" /\ UNCHANGED <<oln, index, linked, heap, on>>
  BY <1>2 DEF Stock!vars, FreeNodes
<1> QED
  BY <1>1, <1>2 DEF GcInit

LEMMA BookStock ==
  ASSUME OlnInv, NEW p \in Pools, Book(p)
  PROVE  [Stock!Next]_(Stock!vars)
<1>1. CASE Available = 0
  BY <1>1 DEF Book, Stock!vars, FreeNodes
<1>2. CASE Available # 0
  <2>1. Stock!Take(p, oln[index]) /\ oln[index] \in Nodes
    BY <1>2, BookTakes DEF Stock!Take
  <2> QED
    BY <2>1 DEF Stock!Next
<1> QED
  BY <1>1, <1>2

LEMMA ReleaseStock ==
  ASSUME OlnInv, NEW p \in Pools, NEW n \in Nodes, Release(p, n)
  PROVE  [Stock!Next]_(Stock!vars)
<1>1. Stock!Give(p, n)
  BY ReleaseGives DEF Stock!Give
<1> QED
  BY <1>1 DEF Stock!Next

LEMMA GcCleanStock ==
  ASSUME OlnInv, GcClean
  PROVE  [Stock!Next]_(Stock!vars)
<1> USE OlnAssumption
<1>1. CASE index # 0
  BY <1>1 DEF GcClean, LeakTest, Stock!vars, FreeNodes
<1>2. CASE index = 0
  <2>1. AllLinked = {}
    BY <1>2, LinkedFinite, FS_EmptySet DEF OlnInv, IndexCounts
  <2>2. \A p \in Pools : linked[p] = {}
    BY <2>1 DEF AllLinked
  <2>3. NULL \notin FreedSlots
    BY DEF GcClean, FreedSlots, OlnInv, FreeIndices
  <2>4. on' = FALSE /\ linked' = linked
    BY <1>2, <2>3 DEF GcClean, LeakTest
  <2>5. Stock!Drain
    BY <2>2, <2>4 DEF Stock!Drain, FreeNodes
  <2> QED
    BY <2>5 DEF Stock!Next
<1> QED
  BY <1>1, <1>2

(* The array with its index implements the set-based stock: every           *)
(* behaviour of gc.c's node allocator is one of NodePool's.                 *)
THEOREM OlnImplementsStock == Spec => StockSpec
<1>1. Init => Stock!Init
  BY InitStock
<1>2. OlnInv /\ [Next]_vars => [Stock!Next]_(Stock!vars)
  <2> SUFFICES ASSUME OlnInv, [Next]_vars PROVE [Stock!Next]_(Stock!vars)
    OBVIOUS
  <2>1. CASE GcInit
    BY <2>1, GcInitStock
  <2>2. ASSUME NEW p \in Pools, Book(p) PROVE [Stock!Next]_(Stock!vars)
    BY <2>2, BookStock
  <2>3. ASSUME NEW p \in Pools, NEW n \in Nodes, Release(p, n)
        PROVE  [Stock!Next]_(Stock!vars)
    BY <2>3, ReleaseStock
  <2>4. CASE GcClean
    BY <2>4, GcCleanStock
  <2>5. CASE UNCHANGED vars
    BY <2>5 DEF vars, Stock!vars, FreeNodes
  <2> QED
    BY <2>1, <2>2, <2>3, <2>4, <2>5 DEF Next
<1> QED
  BY <1>1, <1>2, OlnInvariant, PTL DEF Spec, StockSpec, Stock!Spec
=============================================================================
