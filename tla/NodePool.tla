------------------------------ MODULE NodePool ------------------------------
(***************************************************************************)
(* What the collector needs from its stock of list nodes: a set of free     *)
(* nodes and, for each pool, the set of nodes linked in it.  A node is      *)
(* handed out only while it is free, comes back only from the pool that     *)
(* holds it, and the stock is given back to the heap only when no pool      *)
(* holds any of it.  The array with an index that the code uses instead is  *)
(* module ObjectListNodes.                                                  *)
(***************************************************************************)
CONSTANTS Nodes,    \* addresses of ListNode structures
          Pools     \* the GC pools: obj, list, vector, pair, closure, ...

VARIABLES free,     \* nodes nobody holds
          linked    \* linked[p]: the nodes in pool p

vars == <<free, linked>>

Init == /\ free = {}
        /\ linked = [p \in Pools |-> {}]

\* The stock is bought from the heap in one go.
Fill(S) == /\ free = {}
           /\ \A p \in Pools : linked[p] = {}
           /\ free' = S
           /\ UNCHANGED linked

Take(p, n) == /\ n \in free
              /\ free' = free \ {n}
              /\ linked' = [linked EXCEPT ![p] = @ \cup {n}]

Give(p, n) == /\ n \in linked[p]
              /\ linked' = [linked EXCEPT ![p] = @ \ {n}]
              /\ free' = free \cup {n}

Drain == /\ \A p \in Pools : linked[p] = {}
         /\ free' = {}
         /\ UNCHANGED linked

Next == \/ \E S \in SUBSET Nodes : Fill(S)
        \/ \E p \in Pools, n \in Nodes : Take(p, n) \/ Give(p, n)
        \/ Drain

Spec == Init /\ [][Next]_vars
=============================================================================
