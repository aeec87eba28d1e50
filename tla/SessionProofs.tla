---------------------------- MODULE SessionProofs ----------------------------
(***************************************************************************)
(* The session of Session.tla, for any programs, any addresses malloc may   *)
(* answer with, any limits, and any number of commands and power losses.    *)
(*                                                                          *)
(* What a call may rely on depends on the calls that are still to come: the *)
(* body of a file may be freed because no vm_run comes behind, a block may  *)
(* be overwritten because its pointer is NULL whenever its allocation is    *)
(* still to be made.  The proof says so once: Follows (c, R) states what the *)
(* calls R behind a call c may be, every row of the shell and every start   *)
(* is shown to obey it, and the invariant then speaks of the set Rest of    *)
(* the calls still to make instead of their sequence.                       *)
(*                                                                          *)
(* SessionInv adds to the table of the tracker and to the order of calls:   *)
(* every pointer that will be used or freed leads to a block of its own     *)
(* kind (Held); what the LEF structure describes is what the body holds     *)
(* (FileInv); the symbol table is about that file (NamesInv); the           *)
(* registers, the globals and the objects made for them belong together     *)
(* (RunInv); and what will be allocated is not allocated yet (PointersInv). *)
(* OwnInv, on top of it, gives every allocated block an owner.              *)
(***************************************************************************)
EXTENDS Session, FiniteSetTheorems, WellFoundedInduction, TLAPS

------------------------------------------------------------------------------
(* The table of the tracker.  It agrees with the library's blocks: the slot *)
(* a block is recorded in had no pointer, and a block that is given back    *)
(* had one slot.  The limit is kept because the sum over the slots is the   *)
(* sum over the live blocks: slots with a pointer and live blocks pair off, *)
(* and the other slots count nothing.                                       *)

TrackerInv == TrackerTypeOK /\ TrackerExact

(* Recording a new block in the first empty slot keeps the table exact.     *)
LEMMA RecordKeeps ==
  ASSUME TrackerInv, stopped = "no",
         NEW b \in Block, live[b] = NotLive, NEW size \in Nat,
         live' = [live EXCEPT ![b] = size],
         Record(b, size)
  PROVE  TrackerInv'
<1> USE TrackerAssumption
<1>1. CASE FirstEmpty = {}
  <2>1. stopped' = "used_up" /\ table' = table
    BY <1>1 DEF Record
  <2>2. TrackerTypeOK'
    BY <2>1 DEF TrackerInv, TrackerTypeOK, Slot
  <2> QED
    BY <2>1, <2>2 DEF TrackerInv, TrackerExact
<1>2. CASE FirstEmpty # {}
  <2>1. PICK i \in FirstEmpty : /\ table' = [table EXCEPT ![i] = [ptr |-> b, size |-> size]]
                                /\ stopped' = stopped
    BY <1>2 DEF Record
  <2>2. i \in Slot /\ table[i].ptr = NULL
    BY <2>1 DEF FirstEmpty, Tracked
  <2>3. TrackerTypeOK'
    BY <2>1, <2>2 DEF TrackerInv, TrackerTypeOK, Slot
  <2>4. /\ \A j \in Slot : j # i => table'[j] = table[j]
        /\ table'[i].ptr = b /\ table'[i].size = size
        /\ live'[b] = size /\ \A c \in Block : c # b => live'[c] = live[c]
    BY <2>1, <2>2 DEF TrackerInv, TrackerTypeOK
  <2>5. \A j \in Slot : table[j].ptr # b
    BY DEF TrackerInv, TrackerExact, TrackerTypeOK, NotLive
  <2>6. \A j, k \in Slot : table'[j].ptr = table'[k].ptr /\ table'[j].ptr # NULL => j = k
    BY <2>4, <2>5 DEF TrackerInv, TrackerExact
  <2>7. \A j \in Slot : table'[j].ptr = NULL => table'[j].size = 0
    BY <2>4 DEF TrackerInv, TrackerExact
  <2>8. \A j \in Slot : table'[j].ptr # NULL => live'[table'[j].ptr] = table'[j].size
    BY <2>4, <2>5 DEF TrackerInv, TrackerExact, TrackerTypeOK
  <2>9. \A c \in Live' : \E j \in Slot : table'[j].ptr = c
    <3> SUFFICES ASSUME NEW c \in Live' PROVE \E j \in Slot : table'[j].ptr = c
      OBVIOUS
    <3>1. CASE c = b
      BY <3>1, <2>2, <2>4
    <3>2. CASE c # b
      <4>1. c \in Block /\ c \in Live
        BY <3>2, <2>4 DEF Live
      <4>2. PICK j \in Slot : table[j].ptr = c
        BY <4>1 DEF TrackerInv, TrackerExact, Tracked
      <4> QED
        BY <4>1, <4>2, <2>2, <2>4
    <3> QED
      BY <3>1, <3>2
  <2> QED
    BY <2>3, <2>6, <2>7, <2>8, <2>9 DEF TrackerInv, TrackerExact, Tracked
<1> QED
  BY <1>1, <1>2

(* os_free stops the machine exactly for what is not allocated: NULL, or a  *)
(* pointer that was freed before.                                           *)
THEOREM FreeStops ==
  ASSUME TrackerInv, stopped = "no", NEW b \in Block \cup {NULL}, OsFree(b)
  PROVE  stopped' = "no" <=> b \in Live
<1> USE TrackerAssumption
<1>1. CASE b = NULL
  BY <1>1 DEF OsFree, Live
<1>2. CASE b # NULL /\ Tracked(b) = {}
  BY <1>2 DEF OsFree, TrackerInv, TrackerExact
<1>3. CASE b # NULL /\ Tracked(b) # {}
  <2>1. PICK i \in Slot : table[i].ptr = b
    BY <1>3 DEF Tracked
  <2>2. live[b] = table[i].size /\ table[i].size \in Nat
    BY <2>1, <1>3 DEF TrackerInv, TrackerExact, TrackerTypeOK
  <2>3. b \in Live
    BY <2>2, <1>3 DEF Live, NotLive
  <2> QED
    BY <2>3, <1>3 DEF OsFree
<1> QED
  BY <1>1, <1>2, <1>3

(* Giving a block back keeps the table exact.                               *)
LEMMA FreeKeeps ==
  ASSUME TrackerInv, stopped = "no", NEW b \in Block \cup {NULL}, OsFree(b)
  PROVE  TrackerInv'
<1> USE TrackerAssumption
<1>1. CASE b = NULL
  <2>1. live' = live /\ table' = table /\ stopped' = "free_of_NULL"
    BY <1>1 DEF OsFree
  <2>2. TrackerTypeOK'
    BY <2>1 DEF TrackerInv, TrackerTypeOK, Slot
  <2>3. Live' = Live /\ \A c : Tracked(c)' = Tracked(c)
    BY <2>1 DEF Live, Tracked
  <2> QED
    BY <2>1, <2>2, <2>3 DEF TrackerInv, TrackerExact, Tracked
<1>2. CASE b # NULL /\ Tracked(b) = {}
  <2>1. /\ live' = [live EXCEPT ![b] = NotLive]
        /\ stopped' = "free_of_unknown" /\ table' = table
    BY <1>2 DEF OsFree
  <2>2. live' = live
    BY <1>2, <2>1 DEF TrackerInv, TrackerExact, TrackerTypeOK, Live
  <2>3. TrackerTypeOK'
    BY <2>1, <2>2 DEF TrackerInv, TrackerTypeOK, Slot
  <2>4. Live' = Live /\ \A c : Tracked(c)' = Tracked(c)
    BY <2>1, <2>2 DEF Live, Tracked
  <2> QED
    BY <2>1, <2>2, <2>3, <2>4 DEF TrackerInv, TrackerExact, Tracked
<1>3. CASE b # NULL /\ Tracked(b) # {}
  <2>1. /\ live' = [live EXCEPT ![b] = NotLive]
        /\ Unrecord(b) /\ stopped' = stopped
    BY <1>3 DEF OsFree
  <2>2. PICK i \in Tracked(b) : table' = [table EXCEPT ![i] = EmptySlot]
    BY <2>1 DEF Unrecord
  <2>3. i \in Slot /\ table[i].ptr = b
    BY <2>2 DEF Tracked
  <2>4. /\ \A j \in Slot : j # i => table'[j] = table[j] /\ table[j].ptr # b
        /\ table'[i].ptr = NULL /\ table'[i].size = 0
        /\ \A c \in Block : c # b => live'[c] = live[c]
        /\ live'[b] = NotLive
    BY <2>1, <2>2, <2>3, <1>3 DEF TrackerInv, TrackerExact, TrackerTypeOK, EmptySlot
  <2>5. TrackerTypeOK'
    BY <2>1, <2>2, <2>3 DEF TrackerInv, TrackerTypeOK, EmptySlot, NotLive
  <2>6. \A j, k \in Slot : table'[j].ptr = table'[k].ptr /\ table'[j].ptr # NULL => j = k
    BY <2>4 DEF TrackerInv, TrackerExact
  <2>7. \A j \in Slot : table'[j].ptr = NULL => table'[j].size = 0
    BY <2>4 DEF TrackerInv, TrackerExact
  <2>8. \A j \in Slot : table'[j].ptr # NULL => live'[table'[j].ptr] = table'[j].size
    BY <2>4 DEF TrackerInv, TrackerExact, TrackerTypeOK
  <2>9. \A c \in Live' : \E j \in Slot : table'[j].ptr = c
    <3> SUFFICES ASSUME NEW c \in Live' PROVE \E j \in Slot : table'[j].ptr = c
      OBVIOUS
    <3>1. c \in Block /\ c # b /\ c \in Live
      BY <2>4 DEF Live
    <3>2. PICK j \in Slot : table[j].ptr = c
      BY <3>1 DEF TrackerInv, TrackerExact, Tracked
    <3> QED
      BY <3>1, <3>2, <2>3, <2>4
  <2> QED
    BY <2>5, <2>6, <2>7, <2>8, <2>9 DEF TrackerInv, TrackerExact, Tracked
<1> QED
  BY <1>1, <1>2, <1>3

(* The empty table is exact.                                                *)
LEMMA TrackerAtStart == TrackerInit => TrackerInv
BY TrackerAssumption
   DEF TrackerInit, TrackerInv, TrackerTypeOK, TrackerExact, EmptySlot, Live, NotLive

(* Any call keeps the table exact.                                          *)
LEMMA TrackerStep ==
  ASSUME TrackerInv, [TrackerNext]_trackerVars
  PROVE  TrackerInv'
<1> USE TrackerAssumption
<1>1. ASSUME UNCHANGED trackerVars PROVE TrackerInv'
  <2>1. live' = live /\ table' = table /\ stopped' = stopped
    BY <1>1 DEF trackerVars
  <2>2. TrackerTypeOK'
    BY <2>1 DEF TrackerInv, TrackerTypeOK, Slot
  <2>3. Live' = Live /\ \A c : Tracked(c)' = Tracked(c)
    BY <2>1 DEF Live, Tracked
  <2> QED
    BY <2>1, <2>2, <2>3 DEF TrackerInv, TrackerExact, Tracked
<1>2. CASE Malloc
  <2>1. PICK size \in Sizes, b \in Block \cup {NULL} : OsMalloc(size, b)
    BY <1>2 DEF Malloc
  <2>2. CASE b = NULL
    BY <2>1, <2>2, <1>1 DEF OsMalloc
  <2>3. CASE b # NULL
    <3>1. /\ live[b] = NotLive /\ live' = [live EXCEPT ![b] = size]
          /\ Record(b, size)
      BY <2>1, <2>3 DEF OsMalloc
    <3>2. b \in Block /\ size \in Nat /\ stopped = "no"
      BY <2>3, <1>2 DEF Malloc
    <3> QED
      BY <3>1, <3>2, RecordKeeps
  <2> QED
    BY <2>2, <2>3
<1>3. CASE Calloc
  <2>1. PICK size \in Sizes, b \in Block \cup {NULL} : OsCalloc(1, size, b)
    BY <1>3 DEF Calloc
  <2>2. CASE b = NULL
    BY <2>1, <2>2, <1>1 DEF OsCalloc
  <2>3. CASE b # NULL
    <3>1. 1 * size = size
      OBVIOUS
    <3>2. /\ live[b] = NotLive /\ live' = [live EXCEPT ![b] = size]
          /\ Record(b, size)
      BY <2>1, <2>3, <3>1 DEF OsCalloc
    <3>3. b \in Block /\ size \in Nat /\ stopped = "no"
      BY <2>3, <1>3 DEF Calloc
    <3> QED
      BY <3>2, <3>3, RecordKeeps
  <2> QED
    BY <2>2, <2>3
<1>4. CASE Free
  BY <1>4, FreeKeeps DEF Free
<1> QED
  BY <1>1, <1>2, <1>3, <1>4 DEF TrackerNext

(* The table says exactly which blocks are allocated, in any order of       *)
(* os_malloc, os_calloc and os_free (memory.c:75-194).                      *)
THEOREM TableExact == TrackerSpec => []TrackerExact
<1>1. TrackerInit => TrackerInv
  BY TrackerAtStart
<1>2. TrackerInv /\ [TrackerNext]_trackerVars => TrackerInv'
  BY TrackerStep
<1>3. TrackerInv => TrackerExact
  BY DEF TrackerInv
<1> QED
  BY <1>1, <1>2, <1>3, PTL DEF TrackerSpec

------------------------------------------------------------------------------
(* Sums over finite sets.                                                   *)

(* The order of the naturals is well founded.                               *)
LEMMA NatOrder == IsWellFoundedOn({ss \in Nat \X Nat : ss[1] < ss[2]}, Nat)
BY NatLessThanWellFounded DEF OpToRel

(* Induction, for a set.                                                    *)
LEMMA Induction ==
  ASSUME NEW S, 0 \in S, \A n \in Nat : n \in S => n + 1 \in S
  PROVE  \A n \in Nat : n \in S
<1> DEFINE Bad == {n \in Nat : n \notin S}
           Less == {ss \in Nat \X Nat : ss[1] < ss[2]}
<1> SUFFICES ASSUME Bad # {} PROVE FALSE
  OBVIOUS
<1>1. PICK m \in Bad : \A n \in Bad : ~(<<n, m>> \in Less)
  <2> HIDE DEF Bad
  <2>1. Bad \in SUBSET Nat
    BY DEF Bad
  <2> QED BY <2>1, NatOrder, WFMin
<1>2. m \in Nat /\ m # 0 /\ m - 1 \in Nat
  BY <1>1
<1>3. m - 1 \in S
  <2> SUFFICES ASSUME m - 1 \in Bad PROVE FALSE
    BY <1>2
  <2>1. <<m - 1, m>> \in Nat \X Nat /\ <<m - 1, m>>[1] < <<m - 1, m>>[2]
    BY <1>2
  <2>2. <<m - 1, m>> \in Less
    BY <2>1
  <2> QED BY <1>1, <2>2
<1> QED BY <1>1, <1>2, <1>3

\* g adds f up over the sets of members of U, in any order.
Adds(f, U, g) ==
  /\ \A s \in SUBSET U : g[s] \in Int
  /\ g[{}] = 0
  /\ \A s \in SUBSET U : \A x \in s : g[s] = f[x] + g[s \ {x}]

\* Its values are integers.
Integral(f, U) == \A x \in U : f[x] \in Int

(* One more member.                                                         *)
LEMMA AddsMore ==
  ASSUME NEW f, NEW V, NEW y, y \notin V, NEW g, Adds(f, V, g), Integral(f, V \cup {y})
  PROVE  \E h : Adds(f, V \cup {y}, h)
<1> DEFINE U == V \cup {y}
           h == [s \in SUBSET U |-> IF y \in s THEN f[y] + g[s \ {y}] ELSE g[s]]
<1>1. \A s \in SUBSET U : s \ {y} \in SUBSET V
  OBVIOUS
<1>2. \A s \in SUBSET U : y \in s => h[s] = f[y] + g[s \ {y}]
  OBVIOUS
<1>3. \A s \in SUBSET U : y \notin s => s \in SUBSET V /\ h[s] = g[s]
  OBVIOUS
<1>4. {} \in SUBSET U /\ y \notin {}
  OBVIOUS
<1>5. f[y] \in Int /\ \A x \in V : f[x] \in Int
  BY DEF Integral
<1> HIDE DEF h
<1>6. ASSUME NEW s \in SUBSET U PROVE h[s] \in Int
  <2>1. \A t \in SUBSET V : g[t] \in Int
    BY DEF Adds
  <2>2. CASE y \in s
    <3>1. g[s \ {y}] \in Int
      BY <2>1, <1>1
    <3>2. h[s] = f[y] + g[s \ {y}]
      BY <2>2, <1>2
    <3> QED BY <3>1, <3>2, <1>5
  <2>3. CASE y \notin s
    BY <2>1, <2>3, <1>3
  <2> QED BY <2>2, <2>3
<1>7. h[{}] = 0
  BY <1>3, <1>4 DEF Adds
<1>8. ASSUME NEW s \in SUBSET U, NEW x \in s PROVE h[s] = f[x] + h[s \ {x}]
  <2>1. s \ {x} \in SUBSET U
    OBVIOUS
  <2>2. CASE x = y
    <3>1. h[s \ {x}] = g[s \ {y}]
      BY <2>1, <2>2, <1>3
    <3> QED BY <3>1, <2>2, <1>2
  <2>3. CASE x # y /\ y \notin s
    <3>1. h[s] = g[s] /\ h[s \ {x}] = g[s \ {x}] /\ s \in SUBSET V
      BY <2>1, <2>3, <1>3
    <3> QED BY <3>1 DEF Adds
  <2>4. CASE x # y /\ y \in s
    <3> DEFINE t == s \ {y}
    <3>1. h[s] = f[y] + g[t] /\ t \in SUBSET V /\ x \in t
      BY <2>4, <1>1, <1>2
    <3>2. (s \ {x}) \ {y} = t \ {x} /\ y \in s \ {x} /\ t \ {x} \in SUBSET V
      BY <2>4, <3>1
    <3>3. h[s \ {x}] = f[y] + g[t \ {x}]
      BY <3>2, <2>1, <1>2
    <3>4. g[t] = f[x] + g[t \ {x}] /\ g[t \ {x}] \in Int
      BY <3>1, <3>2 DEF Adds
    <3>5. f[x] \in Int
      BY <3>1, <1>5
    <3> HIDE DEF t
    <3> QED BY <3>1, <3>3, <3>4, <3>5, <1>5
  <2> QED BY <2>2, <2>3, <2>4
<1>9. Adds(f, U, h)
  BY <1>6, <1>7, <1>8 DEF Adds
<1> QED BY <1>9

(* Over every finite set such sums exist.                                   *)
LEMMA AddsExists ==
  ASSUME NEW f, NEW U, IsFiniteSet(U), Integral(f, U)
  PROVE  \E g : Adds(f, U, g)
<1> DEFINE Good(n) == \A V : IsFiniteSet(V) /\ Cardinality(V) = n /\ Integral(f, V) => \E g : Adds(f, V, g)
           S == {n \in Nat : Good(n)}
<1>1. 0 \in S
  <2> SUFFICES ASSUME NEW V, IsFiniteSet(V), Cardinality(V) = 0 PROVE \E g : Adds(f, V, g)
    OBVIOUS
  <2>1. V = {}
    BY FS_EmptySet
  <2>2. Adds(f, V, [s \in {{}} |-> 0])
    BY <2>1 DEF Adds
  <2> QED BY <2>2
<1>2. ASSUME NEW n \in Nat, n \in S PROVE n + 1 \in S
  <2> SUFFICES ASSUME NEW V, IsFiniteSet(V), Cardinality(V) = n + 1, Integral(f, V)
               PROVE  \E g : Adds(f, V, g)
    OBVIOUS
  <2>1. PICK y \in V : TRUE
    BY FS_EmptySet
  <2> DEFINE W == V \ {y}
  <2>2. IsFiniteSet(W) /\ Cardinality(W) = n
    <3>1. Cardinality(W) = Cardinality(V) - 1
      BY <2>1, FS_RemoveElement, Zenon
    <3> QED BY <3>1, FS_RemoveElement
  <2>3. Integral(f, W)
    BY DEF Integral
  <2>4. PICK g : Adds(f, W, g)
    BY <1>2, <2>2, <2>3
  <2>5. W \cup {y} = V /\ y \notin W
    BY <2>1
  <2> HIDE DEF W
  <2> QED BY <2>4, <2>5, AddsMore
<1>3. \A n \in Nat : n \in S
  <2> HIDE DEF S
  <2> QED BY <1>1, <1>2, Induction
<1>4. Good(Cardinality(U))
  BY <1>3, FS_CardinalityType
<1> QED BY <1>4

(* They are sums over the parts of the set too, and depend on f there only. *)
LEMMA AddsSame ==
  ASSUME NEW f, NEW f1, NEW U, NEW V \in SUBSET U, NEW g, Adds(f, U, g),
         \A x \in V : f1[x] = f[x]
  PROVE  Adds(f1, V, g)
<1>1. \A s \in SUBSET V : s \in SUBSET U
  OBVIOUS
<1>2. \A s \in SUBSET V : \A x \in s : f1[x] = f[x]
  OBVIOUS
<1> QED BY <1>1, <1>2 DEF Adds

\* c is the function MapThenSumSet defines by recursion.
Folds(f, U, c) == c = [s \in SUBSET U |-> IF s = {} THEN 0
                                          ELSE f[CHOOSE x \in s : TRUE] + c[s \ {CHOOSE x \in s : TRUE}]]

(* They solve the recursion of MapThenSumSet, whose order is any.           *)
LEMMA AddsFolds ==
  ASSUME NEW f, NEW U, NEW g, Adds(f, U, g)
  PROVE  Folds(f, U, [s \in SUBSET U |-> g[s]])
<1> DEFINE c == [s \in SUBSET U |-> g[s]]
<1>1. ASSUME NEW s \in SUBSET U
      PROVE  c[s] = IF s = {} THEN 0 ELSE f[CHOOSE x \in s : TRUE] + c[s \ {CHOOSE x \in s : TRUE}]
  <2>1. CASE s = {}
    BY <2>1 DEF Adds
  <2>2. CASE s # {}
    <3> DEFINE y == CHOOSE x \in s : TRUE
    <3>1. y \in s
      BY <2>2
    <3> HIDE DEF y
    <3>2. g[s] = f[y] + g[s \ {y}]
      BY <3>1 DEF Adds
    <3>3. c[s] = g[s] /\ c[s \ {y}] = g[s \ {y}]
      OBVIOUS
    <3>4. c[s] = f[y] + c[s \ {y}]
      BY <3>2, <3>3
    <3> QED BY <3>4, <2>2 DEF y
  <2> QED BY <2>1, <2>2
<1>2. c = [s \in SUBSET U |-> c[s]]
  OBVIOUS
<1> HIDE DEF c
<1>3. Folds(f, U, c)
  BY <1>1, <1>2 DEF Folds
<1> QED BY <1>3 DEF c

(* That recursion has one solution.                                         *)
LEMMA FoldsUnique ==
  ASSUME NEW f, NEW U, IsFiniteSet(U), NEW g, Adds(f, U, g), NEW c, Folds(f, U, c)
  PROVE  c[U] = g[U]
<1> DEFINE Good(n) == \A s \in SUBSET U : Cardinality(s) = n => c[s] = g[s]
           S == {n \in Nat : Good(n)}
<1>0. \A s \in SUBSET U : IsFiniteSet(s)
  BY FS_Subset
<1>1. 0 \in S
  <2>1. \A s \in SUBSET U : Cardinality(s) = 0 => s = {}
    BY <1>0, FS_EmptySet
  <2> QED BY <2>1 DEF Folds, Adds
<1>2. ASSUME NEW n \in Nat, n \in S PROVE n + 1 \in S
  <2> SUFFICES ASSUME NEW s \in SUBSET U, Cardinality(s) = n + 1 PROVE c[s] = g[s]
    OBVIOUS
  <2>1. s # {}
    BY FS_EmptySet
  <2> DEFINE y == CHOOSE x \in s : TRUE
  <2>2. c[s] = f[y] + c[s \ {y}]
    BY <2>1 DEF Folds
  <2>3. y \in s
    BY <2>1
  <2> HIDE DEF y
  <2>4. Cardinality(s \ {y}) = n /\ s \ {y} \in SUBSET U
    <3>1. Cardinality(s \ {y}) = Cardinality(s) - 1
      BY <2>3, <1>0, FS_RemoveElement, Zenon
    <3> QED BY <3>1
  <2>5. c[s \ {y}] = g[s \ {y}]
    BY <2>4, <1>2
  <2>6. g[s] = f[y] + g[s \ {y}]
    BY <2>3 DEF Adds
  <2> QED BY <2>2, <2>5, <2>6
<1>3. \A n \in Nat : n \in S
  <2> HIDE DEF S
  <2> QED BY <1>1, <1>2, Induction
<1>4. Good(Cardinality(U))
  BY <1>3, FS_CardinalityType
<1> QED BY <1>4

\* The sum of f over U.
Total(f, U) == MapThenSumSet(LAMBDA x : f[x], U)

(* So the sum MapThenSumSet computes does not depend on its order.          *)
LEMMA TotalIs ==
  ASSUME NEW f, NEW U, IsFiniteSet(U), NEW g, Adds(f, U, g)
  PROVE  Total(f, U) = g[U]
<1> DEFINE c == CHOOSE h : h = [s \in SUBSET U |-> IF s = {} THEN 0
                       ELSE f[CHOOSE x \in s : TRUE] + h[s \ {CHOOSE x \in s : TRUE}]]
<1>1. Folds(f, U, c)
  <2>1. \E h : Folds(f, U, h)
    BY AddsFolds
  <2> QED BY <2>1 DEF Folds
<1>2. Total(f, U) = c[U]
  BY DEF Total, MapThenSumSet, MapThenFoldSet
<1> HIDE DEF c
<1> QED BY <1>1, <1>2, FoldsUnique

(* The same for the sizes in the table.                                     *)
LEMMA UsedIs ==
  ASSUME NEW f, \A i \in Slot : f[i] = table[i].size, IsFiniteSet(Slot), NEW g, Adds(f, Slot, g)
  PROVE  Used = g[Slot]
<1> DEFINE c == CHOOSE h : h = [s \in SUBSET Slot |-> IF s = {} THEN 0
                       ELSE table[CHOOSE x \in s : TRUE].size + h[s \ {CHOOSE x \in s : TRUE}]]
           F(h) == [s \in SUBSET Slot |-> IF s = {} THEN 0
                       ELSE f[CHOOSE x \in s : TRUE] + h[s \ {CHOOSE x \in s : TRUE}]]
           T(h) == [s \in SUBSET Slot |-> IF s = {} THEN 0
                       ELSE table[CHOOSE x \in s : TRUE].size + h[s \ {CHOOSE x \in s : TRUE}]]
<1>1. ASSUME NEW h PROVE F(h) = T(h)
  <2>1. ASSUME NEW s \in SUBSET Slot, s # {}
        PROVE  f[CHOOSE x \in s : TRUE] = table[CHOOSE x \in s : TRUE].size
    <3>1. (CHOOSE x \in s : TRUE) \in Slot
      BY <2>1
    <3> QED BY <3>1
  <2> QED BY <2>1
<1>2. Folds(f, Slot, c)
  <2>1. PICK h : h = F(h)
    <3>1. \E h : Folds(f, Slot, h)
      BY AddsFolds
    <3> QED BY <3>1 DEF Folds
  <2>2. h = T(h)
    BY <1>1, <2>1
  <2>3. c = T(c)
    BY <2>2
  <2>4. c = F(c)
    BY <1>1, <2>3
  <2> QED BY <2>4 DEF Folds
<1>3. Used = c[Slot]
  BY DEF Used, MapThenSumSet, MapThenFoldSet
<1> HIDE DEF c
<1> QED BY <1>2, <1>3, FoldsUnique


(* A member more adds its value.                                            *)
LEMMA TotalAdd ==
  ASSUME NEW f, NEW U, IsFiniteSet(U), NEW x, x \notin U, Integral(f, U \cup {x})
  PROVE  Total(f, U \cup {x}) = f[x] + Total(f, U)
<1>1. IsFiniteSet(U \cup {x})
  BY FS_AddElement
<1>2. PICK g : Adds(f, U \cup {x}, g)
  BY <1>1, AddsExists
<1>3. Adds(f, U, g)
  BY <1>2, AddsSame
<1>4. Total(f, U \cup {x}) = g[U \cup {x}] /\ Total(f, U) = g[U]
  BY <1>1, <1>2, <1>3, TotalIs
<1>5. (U \cup {x}) \ {x} = U
  OBVIOUS
<1>6. g[U \cup {x}] = f[x] + g[(U \cup {x}) \ {x}]
  BY <1>2 DEF Adds
<1> QED BY <1>4, <1>5, <1>6

(* The sum depends on the values of the members only.                       *)
LEMMA TotalSame ==
  ASSUME NEW f, NEW f1, NEW U, IsFiniteSet(U), Integral(f, U), \A x \in U : f1[x] = f[x]
  PROVE  Total(f1, U) = Total(f, U) /\ Total(f, U) \in Int
<1>1. PICK g : Adds(f, U, g)
  BY AddsExists
<1>2. Adds(f1, U, g)
  BY <1>1, AddsSame
<1>3. Total(f1, U) = g[U] /\ Total(f, U) = g[U]
  BY <1>1, <1>2, TotalIs
<1>4. g[U] \in Int
  BY <1>1 DEF Adds
<1> QED BY <1>3, <1>4

------------------------------------------------------------------------------
(* The limit.                                                               *)

(* LimitKept, as a total.                                                   *)
LEMMA LimitIs == LimitKept <=> Total(live, Live) <= MemoryHardLimit
BY DEF LimitKept, Total, MapThenSumSet, MapThenFoldSet

(* The same after a step.                                                   *)
LEMMA LimitIsThen == LimitKept' <=> Total(live', Live') <= MemoryHardLimit
BY DEF LimitKept, Total, MapThenSumSet, MapThenFoldSet, Live

\* The blocks the slots of I record.
Recorded(I) == {b \in Live : \E i \in I : table[i].ptr = b}

(* There are finitely many live blocks, since the table knows them all.     *)
LEMMA LiveIsFinite ==
  ASSUME TrackerInv, stopped # "used_up"
  PROVE  IsFiniteSet(Live) /\ IsFiniteSet(Slot) /\ Recorded(Slot) = Live
<1>1. IsFiniteSet(Slot)
  <2>1. 1 \in Int /\ TrackerLength \in Int
    BY TrackerAssumption
  <2> QED BY <2>1, FS_Interval DEF Slot
<1>2. Recorded(Slot) = Live
  BY DEF Recorded, TrackerInv, TrackerExact, Tracked
<1> DEFINE I == {i \in Slot : table[i].ptr # NULL}
           p == [i \in I |-> table[i].ptr]
<1>3. IsFiniteSet(I)
  <2>1. I \in SUBSET Slot
    OBVIOUS
  <2> QED BY <2>1, <1>1, FS_Subset
<1>4. ASSUME NEW i \in I PROVE p[i] \in Live
  <2>1. i \in Slot /\ p[i] = table[i].ptr /\ table[i].ptr # NULL
    OBVIOUS
  <2>2. table[i].ptr \in Block /\ table[i].size \in Nat
    BY <2>1 DEF TrackerInv, TrackerTypeOK
  <2>3. live[table[i].ptr] = table[i].size
    BY <2>1 DEF TrackerInv, TrackerExact
  <2> QED BY <2>1, <2>2, <2>3 DEF Live, NotLive
<1>5. ASSUME NEW b \in Live PROVE \E i \in I : p[i] = b
  <2>1. PICK i \in Slot : table[i].ptr = b
    BY <1>2 DEF Recorded
  <2>2. i \in I /\ p[i] = b
    BY <2>1, TrackerAssumption DEF Live
  <2> QED BY <2>2
<1>6. p \in Surjection(I, Live)
  <2>1. p \in [I -> Live]
    BY <1>4
  <2>2. \A b \in Live : \E i \in I : p[i] = b
    BY <1>5
  <2> HIDE DEF p, I
  <2> QED BY <2>1, <2>2, Zenon DEF Surjection
<1> HIDE DEF p, I
<1> QED BY <1>1, <1>2, <1>3, <1>6, FS_Surjection

(* The bytes the table counts are those of the blocks allocated.            *)
LEMMA UsedIsLive ==
  ASSUME TrackerInv, stopped # "used_up"
  PROVE  Used = Total(live, Live)
<1> DEFINE f == [i \in Slot |-> table[i].size]
<1>1. IsFiniteSet(Live) /\ IsFiniteSet(Slot) /\ Recorded(Slot) = Live
  BY LiveIsFinite
<1>2. Integral(f, Slot) /\ Integral(live, Live)
  <2>1. \A i \in Slot : table[i].size \in Int
    BY DEF TrackerInv, TrackerTypeOK
  <2>2. \A b \in Live : live[b] \in Int
    BY DEF TrackerInv, TrackerTypeOK, Live, NotLive
  <2> QED BY <2>1, <2>2 DEF Integral
<1>3. \A i \in Slot : f[i] = table[i].size
  OBVIOUS
<1> HIDE DEF f
<1>4. PICK g : Adds(f, Slot, g)
  BY <1>1, <1>2, AddsExists
<1>5. PICK h : Adds(live, Live, h)
  BY <1>1, <1>2, AddsExists
<1> DEFINE Good(n) == \A I \in SUBSET Slot : Cardinality(I) = n => g[I] = h[Recorded(I)]
           S == {n \in Nat : Good(n)}
<1>6. \A I \in SUBSET Slot : IsFiniteSet(I)
  BY <1>1, FS_Subset
<1>7. 0 \in S
  <2>1. \A I \in SUBSET Slot : Cardinality(I) = 0 => I = {}
    BY <1>6, FS_EmptySet
  <2>2. Recorded({}) = {}
    BY DEF Recorded
  <2> QED BY <2>1, <2>2, <1>4, <1>5 DEF Adds
<1>8. ASSUME NEW n \in Nat, n \in S PROVE n + 1 \in S
  <2> SUFFICES ASSUME NEW I \in SUBSET Slot, Cardinality(I) = n + 1 PROVE g[I] = h[Recorded(I)]
    OBVIOUS
  <2>1. PICK i \in I : TRUE
    BY <1>6, FS_EmptySet
  <2> DEFINE J == I \ {i}
  <2>2. Cardinality(J) = n /\ J \in SUBSET Slot
    <3>1. Cardinality(J) = Cardinality(I) - 1
      BY <2>1, <1>6, FS_RemoveElement, Zenon
    <3> QED BY <3>1
  <2>3. g[J] = h[Recorded(J)]
    BY <2>2, <1>8
  <2>4. g[I] = table[i].size + g[J]
    BY <1>3, <1>4 DEF Adds
  <2>5. \A k \in I : k = i \/ k \in J
    OBVIOUS
  <2>6. g[J] \in Int
    BY <2>2, <1>4 DEF Adds
  <2>7. CASE table[i].ptr = NULL
    <3>1. Recorded(I) = Recorded(J)
      <4>1. \A b \in Live : table[i].ptr # b
        BY <2>7, TrackerAssumption DEF Live
      <4>2. Recorded(I) \subseteq Recorded(J)
        BY <2>5, <4>1 DEF Recorded
      <4>3. Recorded(J) \subseteq Recorded(I)
        BY DEF Recorded
      <4> QED BY <4>2, <4>3
    <3>2. table[i].size = 0
      BY <2>7 DEF TrackerInv, TrackerExact
    <3> QED BY <2>3, <2>4, <2>6, <3>1, <3>2
  <2>8. CASE table[i].ptr # NULL
    <3> DEFINE b == table[i].ptr
    <3>1. b \in Live /\ live[b] = table[i].size
      <4>1. b \in Block /\ table[i].size \in Nat
        BY <2>8 DEF TrackerInv, TrackerTypeOK
      <4>2. live[b] = table[i].size
        BY <2>8 DEF TrackerInv, TrackerExact
      <4> QED BY <4>1, <4>2 DEF Live, NotLive
    <3>2. \A k \in J : table[k].ptr # b
      BY <2>8 DEF TrackerInv, TrackerExact
    <3>3. b \in Recorded(I) /\ Recorded(I) \ {b} = Recorded(J)
      BY <2>5, <3>1, <3>2 DEF Recorded
    <3>4. Recorded(I) \in SUBSET Live
      BY DEF Recorded
    <3>5. h[Recorded(I)] = live[b] + h[Recorded(I) \ {b}]
      BY <3>3, <3>4, <1>5 DEF Adds
    <3> QED BY <2>3, <2>4, <3>1, <3>3, <3>5
  <2> QED BY <2>7, <2>8
<1>9. \A n \in Nat : n \in S
  <2> HIDE DEF S
  <2> QED BY <1>7, <1>8, Induction
<1>10. g[Slot] = h[Live]
  <2>1. Good(Cardinality(Slot))
    BY <1>9, <1>1, FS_CardinalityType
  <2> QED BY <2>1, <1>1
<1>11. Used = g[Slot] /\ Total(live, Live) = h[Live]
  BY <1>1, <1>3, <1>4, <1>5, UsedIs, TotalIs
<1> QED BY <1>10, <1>11

(* An allocation the table lets pass fits the limit.                        *)
LEMMA AllocationFits ==
  ASSUME TrackerInv, stopped = "no", NEW b \in Block, NEW size \in Nat,
         live[b] = NotLive, live' = [live EXCEPT ![b] = size], ~Refuses(size)
  PROVE  LimitKept'
<1> USE TrackerAssumption
<1>1. Live' = Live \cup {b} /\ b \notin Live
  BY DEF Live, NotLive, TrackerInv, TrackerTypeOK
<1>2. \A c \in Live : live'[c] = live[c] /\ live[c] \in Int
  BY <1>1 DEF TrackerInv, TrackerTypeOK, Live, NotLive
<1>3. live'[b] = size
  BY DEF TrackerInv, TrackerTypeOK
<1>4. IsFiniteSet(Live)
  BY LiveIsFinite
<1>5. Integral(live, Live) /\ Integral(live', Live \cup {b})
  BY <1>2, <1>3 DEF Integral
<1>6. Total(live', Live \cup {b}) = size + Total(live', Live)
  <2>1. Total(live', Live \cup {b}) = live'[b] + Total(live', Live)
    BY <1>1, <1>4, <1>5, TotalAdd, Zenon
  <2> QED BY <1>3, <2>1
<1>7. Total(live', Live) = Total(live, Live) /\ Total(live, Live) \in Int
  BY <1>2, <1>4, <1>5, TotalSame
<1>8. Total(live, Live) + size <= MemoryHardLimit
  BY UsedIsLive, <1>7 DEF Refuses
<1> QED BY <1>1, <1>6, <1>7, <1>8, LimitIsThen

(* Giving back takes nothing from the room that is left.                    *)
LEMMA FreeFits ==
  ASSUME TrackerInv, stopped = "no", LimitKept, NEW b \in Block, live' = [live EXCEPT ![b] = NotLive]
  PROVE  LimitKept'
<1> USE TrackerAssumption
<1>1. CASE b \notin Live
  <2>1. live' = live
    BY <1>1 DEF Live, TrackerInv, TrackerTypeOK
  <2> QED BY <2>1, LimitIs, LimitIsThen DEF Live
<1>2. CASE b \in Live
  <2> DEFINE U == Live \ {b}
  <2>1. Live' = U /\ Live = U \cup {b} /\ b \notin U
    BY <1>2 DEF Live, NotLive, TrackerInv, TrackerTypeOK
  <2>2. \A c \in U : live'[c] = live[c]
    BY DEF TrackerInv, TrackerTypeOK, Live
  <2>3. live[b] \in Nat
    BY <1>2 DEF TrackerInv, TrackerTypeOK, Live
  <2>4. Integral(live, U \cup {b}) /\ Integral(live, U)
    BY <1>2 DEF Integral, TrackerInv, TrackerTypeOK, Live, NotLive
  <2>5. IsFiniteSet(U)
    BY LiveIsFinite, FS_RemoveElement
  <2> HIDE DEF U
  <2>6. Total(live, U \cup {b}) = live[b] + Total(live, U)
    BY <2>1, <2>4, <2>5, TotalAdd
  <2>7. Total(live', U) = Total(live, U) /\ Total(live, U) \in Int
    BY <2>2, <2>4, <2>5, TotalSame
  <2> QED BY <2>1, <2>3, <2>6, <2>7, LimitIs, LimitIsThen
<1> QED BY <1>1, <1>2

(* Any call keeps the limit.                                                *)
LEMMA LimitStep ==
  ASSUME TrackerInv, LimitKept, [TrackerNext]_trackerVars
  PROVE  LimitKept'
<1> USE TrackerAssumption
<1>1. ASSUME UNCHANGED trackerVars PROVE LimitKept'
  BY <1>1, LimitIs, LimitIsThen DEF trackerVars, Live
<1>2. CASE Malloc
  <2>1. PICK size \in Sizes, b \in Block \cup {NULL} : OsMalloc(size, b)
    BY <1>2 DEF Malloc
  <2>2. CASE b = NULL
    BY <2>1, <2>2, <1>1 DEF OsMalloc
  <2>3. CASE b # NULL
    BY <2>1, <2>3, <1>2, AllocationFits DEF OsMalloc, Malloc
  <2> QED BY <2>2, <2>3
<1>3. CASE Calloc
  <2>1. PICK size \in Sizes, b \in Block \cup {NULL} : OsCalloc(1, size, b)
    BY <1>3 DEF Calloc
  <2>2. CASE b = NULL
    BY <2>1, <2>2, <1>1 DEF OsCalloc
  <2>3. CASE b # NULL
    <3>1. 1 * size = size
      OBVIOUS
    <3>2. ~Refuses(size) /\ live[b] = NotLive /\ live' = [live EXCEPT ![b] = size]
      BY <2>1, <2>3, <3>1 DEF OsCalloc
    <3> QED BY <3>2, <2>3, <1>3, AllocationFits DEF Calloc
  <2> QED BY <2>2, <2>3
<1>4. CASE Free
  <2>1. PICK b \in Block \cup {NULL} : OsFree(b)
    BY <1>4 DEF Free
  <2>2. CASE b = NULL
    <3>1. live' = live
      BY <2>1, <2>2 DEF OsFree
    <3> QED BY <3>1, LimitIs, LimitIsThen DEF Live
  <2>3. CASE b # NULL
    BY <2>1, <2>3, <1>4, FreeFits DEF OsFree, Free
  <2> QED BY <2>2, <2>3
<1> QED BY <1>1, <1>2, <1>3, <1>4 DEF TrackerNext

(* Nothing is allocated at first.                                           *)
LEMMA LimitAtStart == TrackerInit => LimitKept
<1> SUFFICES ASSUME TrackerInit PROVE LimitKept
  OBVIOUS
<1>1. Live = {}
  BY DEF TrackerInit, Live
<1>2. Adds(live, {}, [s \in {{}} |-> 0])
  BY DEF Adds
<1>3. Total(live, {}) = 0
  BY <1>2, FS_EmptySet, TotalIs
<1> QED BY <1>1, <1>3, LimitIs, TrackerAssumption

(* The bytes in use stay within MEMORY_HARD_LIMIT, however often memory is  *)
(* given back and handed out again: the table an allocation is checked      *)
(* against counts exactly the bytes in use (memory.c:75-194, os.h:144).     *)
THEOREM LimitHolds == TrackerSpec => []LimitKept
<1>1. TrackerInit => TrackerInv /\ LimitKept
  BY TrackerAtStart, LimitAtStart
<1>2. TrackerInv /\ LimitKept /\ [TrackerNext]_trackerVars => (TrackerInv /\ LimitKept)'
  BY TrackerStep, LimitStep
<1> QED
  BY <1>1, <1>2, PTL DEF TrackerSpec

------------------------------------------------------------------------------
(* The calls and their order.                                               *)

Run == Call("vm_run")
Create == Call("create_symbol_table")
InitGlobals == Call("vm_init_globals")
InitEnvironment == Call("vm_init_environment")
Clean == Call("clean_symbol_table")
Leaving == Call("leave")
Parsing == Call("parse")
Filling == Call("receive_body")
Reading == Call("read_flash")
Keeping == Call("keep")
Checking == Call("check_signature")
VmIniting == Call("vm_init")
Receiving(p) == [op |-> "receive", arg |-> p]
Interning(n) == [op |-> "intern", arg |-> n]
Primitives == [op |-> "calloc", arg |-> "primitives"]

Boot == {Alloc("vm"), Primitives, Alloc("pools")}
Loading == {Alloc("lef"), Alloc("body"), Filling, Parsing, Reading} \cup {Receiving(p) : p \in Program}
SetUp == {InitGlobals, Run, Alloc("globals"), InitEnvironment}
Freeing == {Dealloc("body"), Dealloc("lef"), Dealloc("stack"), Dealloc("globals"), Clean, Dealloc("vm")}
Restarting == {VmIniting, Alloc("stack")}
Others == {Create, Alloc("entry"), Leaving, Keeping, Checking, Call("store_head"), Call("store_body")}

Known(c) == c \in Boot \cup Loading \cup SetUp \cup Freeing \cup Restarting \cup Others
            \/ c = Interning(c.arg)

Stores == {Call("store_head"), Call("store_body")}
HasLef(R) == R \cap {Dealloc("lef"), Keeping, Checking} # {}
HasBody(R) == R \cap {Dealloc("body"), Keeping, Checking} # {}
NoNames(R) == Alloc("entry") \notin R /\ \A c \in R : c.op # "intern"
NoFile(R) == R \cap Loading = {} /\ Create \notin R

\* What may follow a call c in the row of a command: the calls R.
Follows(c, R) ==
  /\ Known(c)
  /\ c \in Freeing => R \subseteq Freeing \cup Restarting \cup {Leaving}
  /\ c \notin Freeing /\ Dealloc("vm") \in R => Dealloc("stack") \in R
  /\ c \in Boot => c \notin R
  /\ c \in Boot \cup Restarting \cup Loading => (Run \in R => Create \in R) /\ NoNames(R)
  /\ c \in Loading \ {Parsing} => Parsing \in R
  /\ c = Parsing => c \notin R
  /\ c = Alloc("lef") => c \notin R /\ HasLef(R)
  /\ c = Alloc("body") => c \notin R /\ HasBody(R)
  /\ c.op = "receive" => Checking \notin R /\ (Create \in R => Clean \in R \/ Leaving \in R)
  /\ c = Reading => R \cap Stores = {}
  /\ c \in Stores => R \cap Loading = {}
  /\ c = Checking => R = {}
  /\ c = Create => {Run, InitGlobals} \subseteq R /\ NoFile(R) /\ NoNames(R)
  /\ c.op = "intern" => {Alloc("entry"), Run, InitGlobals} \subseteq R /\ NoFile(R)
  /\ c = Alloc("entry") => NoFile(R) /\ NoNames(R)
  /\ c \in SetUp => NoFile(R) /\ InitGlobals \notin R
  /\ c = Alloc("globals") => /\ c \notin R /\ {Run, InitEnvironment} \subseteq R
                             /\ Clean \in R => Dealloc("globals") \in R
  /\ c = InitEnvironment => c \notin R
  /\ c = Alloc("stack") => c \notin R /\ Dealloc("stack") \notin R
  /\ c = VmIniting => /\ Alloc("stack") \in R /\ Dealloc("stack") \notin R
                      /\ R \cap {Leaving, Dealloc("globals")} # {} => Alloc("globals") \in R
  /\ c = Dealloc("lef") => c \notin R
  /\ c = Dealloc("vm") => c \notin R /\ Dealloc("stack") \notin R

\* The calls of a row, and those from place m to place n.
CallsOf(s) == {s[i] : i \in DOMAIN s}
Part(s, m, n) == {s[j] : j \in m .. n}

\* A row of calls R in an order that Follows allows.
Ordered(s, R) ==
  /\ s \in Seq(R) /\ R = CallsOf(s)
  /\ \A i \in DOMAIN s : Follows(s[i], Part(s, i + 1, Len(s)))

(* Putting a call in front of a row, and taking it away.                    *)
LEMMA NoCalls == Ordered(<<>>, {})
BY DEF Ordered, CallsOf

LEMMA Shifted ==
  ASSUME NEW m \in Int, NEW n \in Int, NEW s, NEW t, \A j \in m .. n : t[j + 1] = s[j]
  PROVE  Part(t, m + 1, n + 1) = Part(s, m, n)
<1>1. \A j \in m + 1 .. n + 1 : j - 1 \in m .. n /\ t[j] = s[j - 1]
  <2> SUFFICES ASSUME NEW j \in m + 1 .. n + 1 PROVE j - 1 \in m .. n /\ t[j] = s[j - 1]
    OBVIOUS
  <2>1. j - 1 \in m .. n /\ (j - 1) + 1 = j
    OBVIOUS
  <2> QED BY <2>1
<1>2. \A j \in m .. n : j + 1 \in m + 1 .. n + 1 /\ t[j + 1] = s[j]
  OBVIOUS
<1> QED BY <1>1, <1>2 DEF Part

\* The parts of t are those of s, with c in front.
PartsShift(t, c, s, n) ==
  /\ Part(t, 1, n + 1) = {c} \cup Part(s, 1, n)
  /\ \A i \in 1 .. n : Part(t, (i + 1) + 1, n + 1) = Part(s, i + 1, n)
  /\ Part(t, 1 + 1, n + 1) = Part(s, 1, n)

(* The same of a sequence t that is c followed by s.                        *)
LEMMA Prefixed ==
  ASSUME NEW n \in Nat, NEW s, NEW t, NEW c, t[1] = c, \A j \in 1 .. n : t[j + 1] = s[j]
  PROVE  PartsShift(t, c, s, n)
<1>1. Part(t, 1 + 1, n + 1) = Part(s, 1, n)
  BY Shifted
<1>2. 1 .. n + 1 = {1} \cup (1 + 1 .. n + 1)
  OBVIOUS
<1>3. Part(t, 1, n + 1) = {c} \cup Part(t, 1 + 1, n + 1)
  BY <1>2 DEF Part
<1>4. ASSUME NEW i \in 1 .. n
      PROVE  Part(t, (i + 1) + 1, n + 1) = Part(s, i + 1, n)
  <2> DEFINE m == i + 1
  <2>1. m \in Int /\ n \in Int /\ \A j \in m .. n : t[j + 1] = s[j]
    OBVIOUS
  <2> HIDE DEF m
  <2>2. Part(t, m + 1, n + 1) = Part(s, m, n)
    BY <2>1, Shifted
  <2> QED BY <2>2 DEF m
<1> QED BY <1>1, <1>3, <1>4 DEF PartsShift

LEMMA InFront ==
  ASSUME NEW c, NEW s, NEW R, Ordered(s, R), Follows(c, R)
  PROVE  Ordered(<<c>> \o s, {c} \cup R)
<1> DEFINE t == <<c>> \o s
           S == {c} \cup R
           n == Len(s)
<1>1. s \in Seq(S) /\ n \in Nat /\ <<c>> \in Seq(S)
  BY DEF Ordered
<1>2. /\ t \in Seq(S) /\ Len(t) = n + 1 /\ t[1] = c
      /\ \A i \in 1 .. n : t[i + 1] = s[i]
  BY <1>1
<1>3. DOMAIN t = 1 .. n + 1 /\ DOMAIN s = 1 .. n
  BY <1>1, <1>2
<1>4. Part(s, 1, n) = R
  BY <1>3 DEF Ordered, CallsOf, Part
<1>5. PartsShift(t, c, s, n)
  <2> HIDE DEF t, n
  <2>1. n \in Nat /\ t[1] = c /\ \A i \in 1 .. n : t[i + 1] = s[i]
    BY <1>1, <1>2
  <2> QED BY <2>1, Prefixed
<1>6. \A i \in 1 .. n : Follows(s[i], Part(s, i + 1, n))
  BY <1>3 DEF Ordered
<1> HIDE DEF t, n, S
<1>7. CallsOf(t) = S
  BY <1>3, <1>4, <1>5 DEF CallsOf, Part, PartsShift, S
<1>8. ASSUME NEW i \in 1 .. n + 1
      PROVE  Follows(t[i], Part(t, i + 1, n + 1))
  <2>1. CASE i = 1
    <3>1. Part(t, i + 1, n + 1) = R
      BY <2>1, <1>4, <1>5 DEF PartsShift
    <3> QED BY <2>1, <3>1, <1>2
  <2>2. CASE i # 1
    <3>1. PICK k \in 1 .. n : i = k + 1
      <4>1. i - 1 \in 1 .. n /\ i = (i - 1) + 1
        BY <2>2, <1>1
      <4> QED BY <4>1
    <3>2. Part(t, i + 1, n + 1) = Part(s, k + 1, n)
      BY <3>1, <1>5 DEF PartsShift
    <3>3. t[i] = s[k]
      BY <3>1, <1>2
    <3> QED BY <3>1, <3>2, <3>3, <1>6
  <2> QED BY <2>1, <2>2
<1>9. Ordered(t, S)
  <2>1. Len(t) = n + 1 /\ t \in Seq(S)
    BY <1>2
  <2> QED BY <2>1, <1>3, <1>7, <1>8 DEF Ordered
<1> QED BY <1>9 DEF t, S

LEMMA FromFront ==
  ASSUME NEW t, NEW R, Ordered(t, R), t # <<>>
  PROVE  \E Q : Ordered(Tail(t), Q) /\ Follows(Head(t), Q) /\ R = {Head(t)} \cup Q
<1> DEFINE s == Tail(t)
           n == Len(s)
           Q == CallsOf(s)
           c == Head(t)
<1>1. t \in Seq(R) /\ t # <<>>
  BY DEF Ordered
<1>2. /\ s \in Seq(R) /\ n \in Nat /\ Len(t) = n + 1 /\ c = t[1]
      /\ \A i \in 1 .. n : t[i + 1] = s[i]
      /\ DOMAIN t = 1 .. n + 1 /\ DOMAIN s = 1 .. n
  BY <1>1
<1> HIDE DEF s, n, c
<1>3. PartsShift(t, c, s, n)
  BY <1>2, Prefixed
<1>4. Q = Part(s, 1, n)
  BY <1>2 DEF CallsOf, Part
<1>5. R = {c} \cup Q
  BY <1>2, <1>3, <1>4 DEF Ordered, CallsOf, Part, PartsShift
<1>6. \A i \in 1 .. n + 1 : Follows(t[i], Part(t, i + 1, n + 1))
  BY <1>2 DEF Ordered
<1>7. Follows(c, Q)
  <2>1. 1 \in 1 .. n + 1
    BY <1>2
  <2> QED BY <2>1, <1>2, <1>3, <1>4, <1>6 DEF PartsShift
<1>8. ASSUME NEW i \in 1 .. n
      PROVE  Follows(s[i], Part(s, i + 1, n))
  <2>1. i + 1 \in 1 .. n + 1 /\ t[i + 1] = s[i]
    BY <1>2
  <2> QED BY <2>1, <1>3, <1>6 DEF PartsShift
<1>9. Ordered(s, Q)
  <2>1. s \in Seq(Q)
    BY <1>2 DEF CallsOf
  <2>2. Len(s) = n
    BY DEF n
  <2> QED BY <2>1, <2>2, <1>2, <1>8 DEF Ordered
<1> QED BY <1>5, <1>7, <1>9 DEF s, c

------------------------------------------------------------------------------
(* The rows of the shell and of a start are in order.                       *)

Grouped(a, b, s) == (a \o b) \o s = a \o (b \o s)

LEMMA Associates ==
  ASSUME NEW S, NEW a \in Seq(S), NEW b \in Seq(S), NEW s \in Seq(S)
  PROVE  Grouped(a, b, s)
BY DEF Grouped

LEMMA SameSequence ==
  ASSUME NEW S, NEW s \in Seq(S), NEW t \in Seq(S), Len(s) = Len(t),
         \A i \in 1 .. Len(t) : s[i] = t[i]
  PROVE  s = t
OBVIOUS

\* z is the row x with the row y behind it.
Joins(z, x, y, S) ==
  /\ z \in Seq(S) /\ Len(z) = Len(x) + Len(y)
  /\ \A i \in 1 .. Len(x) : z[i] = x[i]
  /\ \A i \in 1 .. Len(y) : z[Len(x) + i] = y[i]

LEMMA Joined ==
  ASSUME NEW S, NEW x \in Seq(S), NEW y \in Seq(S)
  PROVE  Joins(x \o y, x, y, S)
BY DEF Joins

TwoApart(a, b, s) == <<a, b>> \o s = <<a>> \o (<<b>> \o s)

LEMMA Two ==
  ASSUME NEW S, NEW a \in S, NEW b \in S, NEW s \in Seq(S)
  PROVE  TwoApart(a, b, s)
<1>1. <<a>> \in Seq(S) /\ <<b>> \in Seq(S)
  OBVIOUS
<1>2. Grouped(<<a>>, <<b>>, s)
  BY <1>1, Associates
<1>3. <<a>> \o <<b>> = <<a, b>>
  <2> DEFINE x == <<a>> \o <<b>>
             t == <<a, b>>
  <2>1. x \in Seq(S) /\ Len(x) = 2 /\ x[1] = a /\ x[2] = b
    BY <1>1
  <2>2. t \in Seq(S) /\ Len(t) = 2 /\ t[1] = a /\ t[2] = b
    OBVIOUS
  <2> HIDE DEF x, t
  <2>3. \A i \in 1 .. Len(t) : x[i] = t[i]
    BY <2>1, <2>2
  <2>4. x = t
    BY <2>1, <2>2, <2>3, SameSequence
  <2> QED BY <2>4 DEF x, t
<1> QED BY <1>2, <1>3 DEF TwoApart, Grouped

FourApart(a, b, c, d, s) ==
  <<a, b, c, d>> \o s = <<a>> \o (<<b>> \o (<<c>> \o (<<d>> \o s)))

LEMMA Four ==
  ASSUME NEW S, NEW a \in S, NEW b \in S, NEW c \in S, NEW d \in S, NEW s \in Seq(S)
  PROVE  FourApart(a, b, c, d, s)
<1>1. <<a, b>> \in Seq(S) /\ <<c, d>> \in Seq(S) /\ <<c, d>> \o s \in Seq(S)
  OBVIOUS
<1>2. Grouped(<<a, b>>, <<c, d>>, s)
  BY <1>1, Associates
<1>3. <<a, b>> \o <<c, d>> = <<a, b, c, d>>
  <2> DEFINE y == <<a, b>>
             z == <<c, d>>
             x == y \o z
             t == <<a, b, c, d>>
  <2>1. y \in Seq(S) /\ Len(y) = 2 /\ y[1] = a /\ y[2] = b
    OBVIOUS
  <2>2. z \in Seq(S) /\ Len(z) = 2 /\ z[1] = c /\ z[2] = d
    OBVIOUS
  <2>3. t \in Seq(S) /\ Len(t) = 4 /\ t[1] = a /\ t[2] = b /\ t[3] = c /\ t[4] = d
    OBVIOUS
  <2> HIDE DEF y, z, t
  <2>4. x \in Seq(S) /\ Len(x) = 4 /\ x[1] = a /\ x[2] = b /\ x[2 + 1] = c /\ x[2 + 2] = d
    <3>1. Joins(x, y, z, S)
      BY <2>1, <2>2, Joined
    <3> HIDE DEF x
    <3>2. /\ Len(x) = Len(y) + Len(z)
          /\ \A i \in 1 .. Len(y) : x[i] = y[i]
          /\ \A i \in 1 .. Len(z) : x[Len(y) + i] = z[i]
          /\ x \in Seq(S)
      BY <3>1 DEF Joins
    <3> QED BY <2>1, <2>2, <3>2
  <2> HIDE DEF x
  <2>5. \A i \in 1 .. Len(t) : x[i] = t[i]
    BY <2>3, <2>4
  <2>6. x = t
    BY <2>3, <2>4, <2>5, SameSequence
  <2> QED BY <2>6 DEF x, y, z, t
<1>4. TwoApart(c, d, s)
  BY Two
<1>5. TwoApart(a, b, <<c, d>> \o s)
  BY <1>1, Two
<1> QED BY <1>2, <1>3, <1>4, <1>5 DEF TwoApart, FourApart, Grouped

FiveApart(a, b, c, d, e, s) ==
  <<a, b, c, d, e>> \o s = <<a>> \o (<<b>> \o (<<c>> \o (<<d>> \o (<<e>> \o s))))

LEMMA Five ==
  ASSUME NEW S, NEW a \in S, NEW b \in S, NEW c \in S, NEW d \in S, NEW e \in S,
         NEW s \in Seq(S)
  PROVE  FiveApart(a, b, c, d, e, s)
<1>1. <<a>> \in Seq(S) /\ <<b, c, d, e>> \in Seq(S) /\ <<b, c, d, e>> \o s \in Seq(S)
  OBVIOUS
<1>2. Grouped(<<a>>, <<b, c, d, e>>, s)
  BY <1>1, Associates
<1>3. <<a>> \o <<b, c, d, e>> = <<a, b, c, d, e>>
  <2> DEFINE y == <<a>>
             z == <<b, c, d, e>>
             x == y \o z
             t == <<a, b, c, d, e>>
  <2>1. y \in Seq(S) /\ Len(y) = 1 /\ y[1] = a
    OBVIOUS
  <2>2. z \in Seq(S) /\ Len(z) = 4 /\ z[1] = b /\ z[2] = c /\ z[3] = d /\ z[4] = e
    OBVIOUS
  <2>3. /\ t \in Seq(S) /\ Len(t) = 5
        /\ t[1] = a /\ t[2] = b /\ t[3] = c /\ t[4] = d /\ t[5] = e
    OBVIOUS
  <2> HIDE DEF y, z, t
  <2>4. /\ x \in Seq(S) /\ Len(x) = 5
        /\ x[1] = a /\ x[1 + 1] = b /\ x[1 + 2] = c /\ x[1 + 3] = d /\ x[1 + 4] = e
    <3>1. Joins(x, y, z, S)
      BY <2>1, <2>2, Joined
    <3> HIDE DEF x
    <3>2. /\ Len(x) = Len(y) + Len(z)
          /\ \A i \in 1 .. Len(y) : x[i] = y[i]
          /\ \A i \in 1 .. Len(z) : x[Len(y) + i] = z[i]
          /\ x \in Seq(S)
      BY <3>1 DEF Joins
    <3> QED BY <2>1, <2>2, <3>2
  <2> HIDE DEF x
  <2>5. \A i \in 1 .. Len(t) : x[i] = t[i]
    BY <2>3, <2>4
  <2>6. x = t
    BY <2>3, <2>4, <2>5, SameSequence
  <2> QED BY <2>6 DEF x, y, z, t
<1>4. FourApart(b, c, d, e, s)
  BY Four
<1> QED BY <1>2, <1>3, <1>4 DEF FourApart, FiveApart, Grouped

SixApart(a, b, c, d, e, f, s) ==
  <<a, b, c, d, e, f>> \o s
    = <<a>> \o (<<b>> \o (<<c>> \o (<<d>> \o (<<e>> \o (<<f>> \o s)))))

LEMMA Six ==
  ASSUME NEW S, NEW a \in S, NEW b \in S, NEW c \in S, NEW d \in S, NEW e \in S,
         NEW f \in S,
         NEW s \in Seq(S)
  PROVE  SixApart(a, b, c, d, e, f, s)
<1>1. <<a, b>> \in Seq(S) /\ <<c, d, e, f>> \in Seq(S) /\ <<c, d, e, f>> \o s \in Seq(S)
  OBVIOUS
<1>2. Grouped(<<a, b>>, <<c, d, e, f>>, s)
  BY <1>1, Associates
<1>3. <<a, b>> \o <<c, d, e, f>> = <<a, b, c, d, e, f>>
  <2> DEFINE y == <<a, b>>
             z == <<c, d, e, f>>
             x == y \o z
             t == <<a, b, c, d, e, f>>
  <2>1. y \in Seq(S) /\ Len(y) = 2 /\ y[1] = a /\ y[2] = b
    OBVIOUS
  <2>2. z \in Seq(S) /\ Len(z) = 4 /\ z[1] = c /\ z[2] = d /\ z[3] = e /\ z[4] = f
    OBVIOUS
  <2>3. /\ t \in Seq(S) /\ Len(t) = 6
        /\ t[1] = a /\ t[2] = b /\ t[3] = c /\ t[4] = d /\ t[5] = e /\ t[6] = f
    OBVIOUS
  <2> HIDE DEF y, z, t
  <2>4. /\ x \in Seq(S) /\ Len(x) = 6
        /\ x[1] = a /\ x[2] = b /\ x[2 + 1] = c /\ x[2 + 2] = d /\ x[2 + 3] = e
        /\ x[2 + 4] = f
    <3>1. Joins(x, y, z, S)
      BY <2>1, <2>2, Joined
    <3> HIDE DEF x
    <3>2. /\ Len(x) = Len(y) + Len(z)
          /\ \A i \in 1 .. Len(y) : x[i] = y[i]
          /\ \A i \in 1 .. Len(z) : x[Len(y) + i] = z[i]
          /\ x \in Seq(S)
      BY <3>1 DEF Joins
    <3> QED BY <2>1, <2>2, <3>2
  <2> HIDE DEF x
  <2>5. \A i \in 1 .. Len(t) : x[i] = t[i]
    BY <2>3, <2>4
  <2>6. x = t
    BY <2>3, <2>4, <2>5, SameSequence
  <2> QED BY <2>6 DEF x, y, z, t
<1>4. <<c, d, e, f>> \o s = <<c>> \o (<<d>> \o (<<e>> \o (<<f>> \o s)))
  <2>1. FourApart(c, d, e, f, s)
    BY Four
  <2> QED BY <2>1 DEF FourApart
<1>5. <<a, b>> \o (<<c, d, e, f>> \o s) = <<a>> \o (<<b>> \o (<<c, d, e, f>> \o s))
  <2> DEFINE r == <<c, d, e, f>> \o s
  <2>1. r \in Seq(S)
    BY <1>1
  <2> HIDE DEF r
  <2>2. TwoApart(a, b, r)
    BY <2>1, Two
  <2> QED BY <2>2 DEF r, TwoApart
<1> QED BY <1>2, <1>3, <1>4, <1>5 DEF SixApart, TwoApart, FourApart, Grouped

\* The calls of the parts that rows are made of.
LoadCalls == {Create, InitGlobals, Run, Alloc("globals"), InitEnvironment}
ReceiveCalls(p) == {Alloc("lef"), Receiving(p), Alloc("body"), Filling, Parsing}
FlashCalls == {Alloc("lef"), Reading, Alloc("body"), Parsing}
FreeCalls == {Dealloc("body"), Dealloc("lef")}

VmLast(R) == Dealloc("vm") \in R => Dealloc("stack") \in R
RunsCreated(R) == Run \in R => Create \in R

USE DEF Alloc, Dealloc, Call, Run, Create, InitGlobals, InitEnvironment, Clean, Leaving, Parsing,
        Filling, Reading, Keeping, Checking, VmIniting, Receiving, Interning, Primitives

(* What each call demands of the calls behind it.                           *)
LEMMA FreeBody ==
  ASSUME NEW R, R \subseteq Freeing \cup Restarting \cup {Leaving}
  PROVE  Follows(Dealloc("body"), R)
<1>1. /\ Dealloc("body") \notin Boot /\ Dealloc("body") \notin Loading
      /\ Dealloc("body") \notin SetUp
      /\ Dealloc("body") \in Freeing /\ Dealloc("body") \notin Restarting
      /\ Dealloc("body") \notin Others /\ Dealloc("body") \notin Stores
  BY DEF Boot, Loading, SetUp, Freeing, Restarting, Others, Stores
<1> QED BY <1>1 DEF Follows, Known, VmLast, RunsCreated

LEMMA FreeStack ==
  ASSUME NEW R, R \subseteq Freeing \cup Restarting \cup {Leaving}
  PROVE  Follows(Dealloc("stack"), R)
<1>1. /\ Dealloc("stack") \notin Boot /\ Dealloc("stack") \notin Loading
      /\ Dealloc("stack") \notin SetUp
      /\ Dealloc("stack") \in Freeing /\ Dealloc("stack") \notin Restarting
      /\ Dealloc("stack") \notin Others /\ Dealloc("stack") \notin Stores
  BY DEF Boot, Loading, SetUp, Freeing, Restarting, Others, Stores
<1> QED BY <1>1 DEF Follows, Known, VmLast, RunsCreated

LEMMA FreeGlobals ==
  ASSUME NEW R, R \subseteq Freeing \cup Restarting \cup {Leaving}
  PROVE  Follows(Dealloc("globals"), R)
<1>1. /\ Dealloc("globals") \notin Boot /\ Dealloc("globals") \notin Loading
      /\ Dealloc("globals") \notin SetUp
      /\ Dealloc("globals") \in Freeing /\ Dealloc("globals") \notin Restarting
      /\ Dealloc("globals") \notin Others /\ Dealloc("globals") \notin Stores
  BY DEF Boot, Loading, SetUp, Freeing, Restarting, Others, Stores
<1> QED BY <1>1 DEF Follows, Known, VmLast, RunsCreated

LEMMA FreeNames ==
  ASSUME NEW R, R \subseteq Freeing \cup Restarting \cup {Leaving}
  PROVE  Follows(Clean, R)
<1>1. /\ Clean \notin Boot /\ Clean \notin Loading /\ Clean \notin SetUp
      /\ Clean \in Freeing /\ Clean \notin Restarting /\ Clean \notin Others
      /\ Clean \notin Stores
  BY DEF Boot, Loading, SetUp, Freeing, Restarting, Others, Stores
<1> QED BY <1>1 DEF Follows, Known, VmLast, RunsCreated

LEMMA FreeLefHead ==
  ASSUME NEW R, R \subseteq Freeing \cup Restarting \cup {Leaving}, Dealloc("lef") \notin R
  PROVE  Follows(Dealloc("lef"), R)
<1>1. /\ Dealloc("lef") \notin Boot /\ Dealloc("lef") \notin Loading
      /\ Dealloc("lef") \notin SetUp
      /\ Dealloc("lef") \in Freeing /\ Dealloc("lef") \notin Restarting
      /\ Dealloc("lef") \notin Others /\ Dealloc("lef") \notin Stores
  BY DEF Boot, Loading, SetUp, Freeing, Restarting, Others, Stores
<1> QED BY <1>1 DEF Follows, Known, VmLast, RunsCreated

LEMMA FreeVm ==
  ASSUME NEW R, R \subseteq Freeing \cup Restarting \cup {Leaving},
         Dealloc("vm") \notin R, Dealloc("stack") \notin R
  PROVE  Follows(Dealloc("vm"), R)
<1>1. /\ Dealloc("vm") \notin Boot /\ Dealloc("vm") \notin Loading
      /\ Dealloc("vm") \notin SetUp
      /\ Dealloc("vm") \in Freeing /\ Dealloc("vm") \notin Restarting
      /\ Dealloc("vm") \notin Others /\ Dealloc("vm") \notin Stores
  BY DEF Boot, Loading, SetUp, Freeing, Restarting, Others, Stores
<1> QED BY <1>1 DEF Follows, Known, VmLast, RunsCreated

LEMMA TakeVm ==
  ASSUME NEW R, VmLast(R), RunsCreated(R), NoNames(R), Alloc("vm") \notin R
  PROVE  Follows(Alloc("vm"), R)
<1>1. /\ Alloc("vm") \in Boot /\ Alloc("vm") \notin Loading /\ Alloc("vm") \notin SetUp
      /\ Alloc("vm") \notin Freeing /\ Alloc("vm") \notin Restarting
      /\ Alloc("vm") \notin Others /\ Alloc("vm") \notin Stores
  BY DEF Boot, Loading, SetUp, Freeing, Restarting, Others, Stores
<1> QED BY <1>1 DEF Follows, Known, VmLast, RunsCreated

LEMMA TakePrims ==
  ASSUME NEW R, VmLast(R), RunsCreated(R), NoNames(R), Primitives \notin R
  PROVE  Follows(Primitives, R)
<1>1. /\ Primitives \in Boot /\ Primitives \notin Loading /\ Primitives \notin SetUp
      /\ Primitives \notin Freeing /\ Primitives \notin Restarting
      /\ Primitives \notin Others /\ Primitives \notin Stores
  BY DEF Boot, Loading, SetUp, Freeing, Restarting, Others, Stores
<1> QED BY <1>1 DEF Follows, Known, VmLast, RunsCreated

LEMMA TakePools ==
  ASSUME NEW R, VmLast(R), RunsCreated(R), NoNames(R), Alloc("pools") \notin R
  PROVE  Follows(Alloc("pools"), R)
<1>1. /\ Alloc("pools") \in Boot /\ Alloc("pools") \notin Loading
      /\ Alloc("pools") \notin SetUp
      /\ Alloc("pools") \notin Freeing /\ Alloc("pools") \notin Restarting
      /\ Alloc("pools") \notin Others /\ Alloc("pools") \notin Stores
  BY DEF Boot, Loading, SetUp, Freeing, Restarting, Others, Stores
<1> QED BY <1>1 DEF Follows, Known, VmLast, RunsCreated

LEMMA TakeStack ==
  ASSUME NEW R, VmLast(R), RunsCreated(R), NoNames(R), Alloc("stack") \notin R,
         Dealloc("stack") \notin R
  PROVE  Follows(Alloc("stack"), R)
<1>1. /\ Alloc("stack") \notin Boot /\ Alloc("stack") \notin Loading
      /\ Alloc("stack") \notin SetUp
      /\ Alloc("stack") \notin Freeing /\ Alloc("stack") \in Restarting
      /\ Alloc("stack") \notin Others /\ Alloc("stack") \notin Stores
  BY DEF Boot, Loading, SetUp, Freeing, Restarting, Others, Stores
<1> QED BY <1>1 DEF Follows, Known, VmLast, RunsCreated

LEMMA InitVm ==
  ASSUME NEW R, VmLast(R), RunsCreated(R), NoNames(R), Alloc("stack") \in R,
         Dealloc("stack") \notin R,
         R \cap {Leaving, Dealloc("globals")} # {} => Alloc("globals") \in R
  PROVE  Follows(VmIniting, R)
<1>1. /\ VmIniting \notin Boot /\ VmIniting \notin Loading /\ VmIniting \notin SetUp
      /\ VmIniting \notin Freeing /\ VmIniting \in Restarting /\ VmIniting \notin Others
      /\ VmIniting \notin Stores
  BY DEF Boot, Loading, SetUp, Freeing, Restarting, Others, Stores
<1> QED BY <1>1 DEF Follows, Known, VmLast, RunsCreated

LEMMA TakeLef ==
  ASSUME NEW R, VmLast(R), RunsCreated(R), NoNames(R), Parsing \in R,
         Alloc("lef") \notin R, HasLef(R)
  PROVE  Follows(Alloc("lef"), R)
<1>1. /\ Alloc("lef") \notin Boot /\ Alloc("lef") \in Loading /\ Alloc("lef") \notin SetUp
      /\ Alloc("lef") \notin Freeing /\ Alloc("lef") \notin Restarting
      /\ Alloc("lef") \notin Others /\ Alloc("lef") \notin Stores
  BY DEF Boot, Loading, SetUp, Freeing, Restarting, Others, Stores
<1> QED BY <1>1 DEF Follows, Known, VmLast, RunsCreated

LEMMA TakeBody ==
  ASSUME NEW R, VmLast(R), RunsCreated(R), NoNames(R), Parsing \in R,
         Alloc("body") \notin R, HasBody(R)
  PROVE  Follows(Alloc("body"), R)
<1>1. /\ Alloc("body") \notin Boot /\ Alloc("body") \in Loading
      /\ Alloc("body") \notin SetUp
      /\ Alloc("body") \notin Freeing /\ Alloc("body") \notin Restarting
      /\ Alloc("body") \notin Others /\ Alloc("body") \notin Stores
  BY DEF Boot, Loading, SetUp, Freeing, Restarting, Others, Stores
<1> QED BY <1>1 DEF Follows, Known, VmLast, RunsCreated

LEMMA ReadFlashHead ==
  ASSUME NEW R, VmLast(R), RunsCreated(R), NoNames(R), Parsing \in R, R \cap Stores = {}
  PROVE  Follows(Reading, R)
<1>1. /\ Reading \notin Boot /\ Reading \in Loading /\ Reading \notin SetUp
      /\ Reading \notin Freeing /\ Reading \notin Restarting /\ Reading \notin Others
      /\ Reading \notin Stores
  BY DEF Boot, Loading, SetUp, Freeing, Restarting, Others, Stores
<1> QED BY <1>1 DEF Follows, Known, VmLast, RunsCreated

LEMMA ReceiveHead ==
  ASSUME NEW R, NEW p \in Program, VmLast(R), RunsCreated(R), NoNames(R), Parsing \in R,
         Checking \notin R, Create \in R => Clean \in R \/ Leaving \in R
  PROVE  Follows(Receiving(p), R)
<1>1. /\ Receiving(p) \notin Boot /\ Receiving(p) \in Loading /\ Receiving(p) \notin SetUp
      /\ Receiving(p) \notin Freeing /\ Receiving(p) \notin Restarting
      /\ Receiving(p) \notin Others /\ Receiving(p) \notin Stores
  BY DEF Boot, Loading, SetUp, Freeing, Restarting, Others, Stores
<1> QED BY <1>1 DEF Follows, Known, VmLast, RunsCreated

LEMMA FillFile ==
  ASSUME NEW R, VmLast(R), RunsCreated(R), NoNames(R), Parsing \in R
  PROVE  Follows(Filling, R)
<1>1. /\ Filling \notin Boot /\ Filling \in Loading /\ Filling \notin SetUp
      /\ Filling \notin Freeing /\ Filling \notin Restarting /\ Filling \notin Others
      /\ Filling \notin Stores
  BY DEF Boot, Loading, SetUp, Freeing, Restarting, Others, Stores
<1> QED BY <1>1 DEF Follows, Known, VmLast, RunsCreated

LEMMA ParseFile ==
  ASSUME NEW R, VmLast(R), RunsCreated(R), NoNames(R), Parsing \notin R
  PROVE  Follows(Parsing, R)
<1>1. /\ Parsing \notin Boot /\ Parsing \in Loading /\ Parsing \notin SetUp
      /\ Parsing \notin Freeing /\ Parsing \notin Restarting /\ Parsing \notin Others
      /\ Parsing \notin Stores
  BY DEF Boot, Loading, SetUp, Freeing, Restarting, Others, Stores
<1> QED BY <1>1 DEF Follows, Known, VmLast, RunsCreated

LEMMA RunIt ==
  ASSUME NEW R, VmLast(R), NoFile(R), InitGlobals \notin R
  PROVE  Follows(Run, R)
<1>1. /\ Run \notin Boot /\ Run \notin Loading /\ Run \in SetUp
      /\ Run \notin Freeing /\ Run \notin Restarting /\ Run \notin Others
      /\ Run \notin Stores
  BY DEF Boot, Loading, SetUp, Freeing, Restarting, Others, Stores
<1> QED BY <1>1 DEF Follows, Known, VmLast, RunsCreated

LEMMA StartGlobals ==
  ASSUME NEW R, VmLast(R), NoFile(R), InitGlobals \notin R
  PROVE  Follows(InitGlobals, R)
<1>1. /\ InitGlobals \notin Boot /\ InitGlobals \notin Loading /\ InitGlobals \in SetUp
      /\ InitGlobals \notin Freeing /\ InitGlobals \notin Restarting
      /\ InitGlobals \notin Others /\ InitGlobals \notin Stores
  BY DEF Boot, Loading, SetUp, Freeing, Restarting, Others, Stores
<1> QED BY <1>1 DEF Follows, Known, VmLast, RunsCreated

LEMMA StartRun ==
  ASSUME NEW R, VmLast(R), NoFile(R), InitGlobals \notin R, InitEnvironment \notin R
  PROVE  Follows(InitEnvironment, R)
<1>1. /\ InitEnvironment \notin Boot /\ InitEnvironment \notin Loading
      /\ InitEnvironment \in SetUp
      /\ InitEnvironment \notin Freeing /\ InitEnvironment \notin Restarting
      /\ InitEnvironment \notin Others /\ InitEnvironment \notin Stores
  BY DEF Boot, Loading, SetUp, Freeing, Restarting, Others, Stores
<1> QED BY <1>1 DEF Follows, Known, VmLast, RunsCreated

LEMMA TakeGlobals ==
  ASSUME NEW R, VmLast(R), NoFile(R), InitGlobals \notin R, Alloc("globals") \notin R,
         {Run, InitEnvironment} \subseteq R, Clean \in R => Dealloc("globals") \in R
  PROVE  Follows(Alloc("globals"), R)
<1>1. /\ Alloc("globals") \notin Boot /\ Alloc("globals") \notin Loading
      /\ Alloc("globals") \in SetUp
      /\ Alloc("globals") \notin Freeing /\ Alloc("globals") \notin Restarting
      /\ Alloc("globals") \notin Others /\ Alloc("globals") \notin Stores
  BY DEF Boot, Loading, SetUp, Freeing, Restarting, Others, Stores
<1> QED BY <1>1 DEF Follows, Known, VmLast, RunsCreated

LEMMA MakeNames ==
  ASSUME NEW R, VmLast(R), NoFile(R), NoNames(R), {Run, InitGlobals} \subseteq R
  PROVE  Follows(Create, R)
<1>1. /\ Create \notin Boot /\ Create \notin Loading /\ Create \notin SetUp
      /\ Create \notin Freeing /\ Create \notin Restarting /\ Create \in Others
      /\ Create \notin Stores
  BY DEF Boot, Loading, SetUp, Freeing, Restarting, Others, Stores
<1> QED BY <1>1 DEF Follows, Known, VmLast, RunsCreated

LEMMA MakeName ==
  ASSUME NEW R, NEW n, VmLast(R), NoFile(R), {Alloc("entry"), Run, InitGlobals} \subseteq R
  PROVE  Follows(Interning(n), R)
<1>1. /\ Interning(n) \notin Boot /\ Interning(n) \notin Loading
      /\ Interning(n) \notin SetUp
      /\ Interning(n) \notin Freeing /\ Interning(n) \notin Restarting
      /\ Interning(n) \notin Others /\ Interning(n) \notin Stores
  BY DEF Boot, Loading, SetUp, Freeing, Restarting, Others, Stores
<1> QED BY <1>1 DEF Follows, Known, VmLast, RunsCreated

LEMMA TakeNames ==
  ASSUME NEW R, VmLast(R), NoFile(R), NoNames(R)
  PROVE  Follows(Alloc("entry"), R)
<1>1. /\ Alloc("entry") \notin Boot /\ Alloc("entry") \notin Loading
      /\ Alloc("entry") \notin SetUp
      /\ Alloc("entry") \notin Freeing /\ Alloc("entry") \notin Restarting
      /\ Alloc("entry") \in Others /\ Alloc("entry") \notin Stores
  BY DEF Boot, Loading, SetUp, Freeing, Restarting, Others, Stores
<1> QED BY <1>1 DEF Follows, Known, VmLast, RunsCreated

LEMMA LeaveIt ==
  ASSUME NEW R, VmLast(R)
  PROVE  Follows(Leaving, R)
<1>1. /\ Leaving \notin Boot /\ Leaving \notin Loading /\ Leaving \notin SetUp
      /\ Leaving \notin Freeing /\ Leaving \notin Restarting /\ Leaving \in Others
      /\ Leaving \notin Stores
  BY DEF Boot, Loading, SetUp, Freeing, Restarting, Others, Stores
<1> QED BY <1>1 DEF Follows, Known, VmLast, RunsCreated

LEMMA KeepIt ==
  ASSUME NEW R, VmLast(R)
  PROVE  Follows(Keeping, R)
<1>1. /\ Keeping \notin Boot /\ Keeping \notin Loading /\ Keeping \notin SetUp
      /\ Keeping \notin Freeing /\ Keeping \notin Restarting /\ Keeping \in Others
      /\ Keeping \notin Stores
  BY DEF Boot, Loading, SetUp, Freeing, Restarting, Others, Stores
<1> QED BY <1>1 DEF Follows, Known, VmLast, RunsCreated

LEMMA StoreHeadRule ==
  ASSUME NEW R, VmLast(R), R \cap Loading = {}
  PROVE  Follows(Call("store_head"), R)
<1>1. /\ Call("store_head") \notin Boot /\ Call("store_head") \notin Loading
      /\ Call("store_head") \notin SetUp
      /\ Call("store_head") \notin Freeing /\ Call("store_head") \notin Restarting
      /\ Call("store_head") \in Others
  BY DEF Boot, Loading, SetUp, Freeing, Restarting, Others, Stores
<1> QED BY <1>1 DEF Follows, Known, VmLast, RunsCreated

LEMMA StoreBodyRule ==
  ASSUME NEW R, VmLast(R), R \cap Loading = {}
  PROVE  Follows(Call("store_body"), R)
<1>1. /\ Call("store_body") \notin Boot /\ Call("store_body") \notin Loading
      /\ Call("store_body") \notin SetUp
      /\ Call("store_body") \notin Freeing /\ Call("store_body") \notin Restarting
      /\ Call("store_body") \in Others
  BY DEF Boot, Loading, SetUp, Freeing, Restarting, Others, Stores
<1> QED BY <1>1 DEF Follows, Known, VmLast, RunsCreated

LEMMA CheckIt ==
  ASSUME NEW R, R = {}
  PROVE  Follows(Checking, R)
<1>1. /\ Checking \notin Boot /\ Checking \notin Loading /\ Checking \notin SetUp
      /\ Checking \notin Freeing /\ Checking \notin Restarting /\ Checking \in Others
      /\ Checking \notin Stores
  BY DEF Boot, Loading, SetUp, Freeing, Restarting, Others, Stores
<1> QED BY <1>1 DEF Follows, Known, VmLast, RunsCreated

(* The rows.                                                                *)
\* What may come behind the run of a program, behind a file and behind a start.
AfterRun(R) ==
  /\ R \subseteq Freeing \cup Restarting \cup {Leaving}
  /\ VmLast(R)
  /\ Clean \in R => Dealloc("globals") \in R
AfterFile(R) ==
  /\ NoNames(R) /\ RunsCreated(R) /\ VmLast(R) /\ R \cap Loading = {}
  /\ HasLef(R) /\ HasBody(R)
AfterStart(R) ==
  /\ NoNames(R) /\ RunsCreated(R) /\ VmLast(R)
  /\ R \cap (Boot \cup Restarting) = {} /\ Dealloc("stack") \notin R
  /\ R \cap {Leaving, Dealloc("globals")} # {} => Alloc("globals") \in R

LEMMA LoadAndRunOrdered ==
  ASSUME NEW s, NEW R, Ordered(s, R), AfterRun(R)
  PROVE  Ordered(LoadAndRun \o s, LoadCalls \cup R)
<1>0. /\ NoFile(R) /\ NoNames(R) /\ VmLast(R) /\ InitGlobals \notin R
      /\ InitEnvironment \notin R /\ Alloc("globals") \notin R
      /\ (Clean \in R => Dealloc("globals") \in R)
  <2>1. \A c \in Freeing \cup Restarting \cup {Leaving} :
          /\ c \notin Loading /\ c # Create /\ c # Alloc("entry") /\ c.op # "intern"
          /\ c \notin {InitGlobals, InitEnvironment, Alloc("globals")}
    BY DEF Freeing, Restarting, Loading
  <2> QED BY <2>1 DEF AfterRun, NoFile, NoNames
<1>1. PICK R1, s1 : R1 = {Run} \cup R /\ s1 = <<Run>> \o s
  OBVIOUS
<1>2. PICK R2, s2 : R2 = {InitEnvironment} \cup R1 /\ s2 = <<InitEnvironment>> \o s1
  OBVIOUS
<1>3. PICK R3, s3 : R3 = {Alloc("globals")} \cup R2 /\ s3 = <<Alloc("globals")>> \o s2
  OBVIOUS
<1>4. PICK R4, s4 : R4 = {Run} \cup R3 /\ s4 = <<Run>> \o s3
  OBVIOUS
<1>5. PICK R5, s5 : R5 = {InitGlobals} \cup R4 /\ s5 = <<InitGlobals>> \o s4
  OBVIOUS
<1>6. PICK R6, s6 : R6 = {Create} \cup R5 /\ s6 = <<Create>> \o s5
  OBVIOUS
<1>7. Ordered(s1, R1)
  <2>1. Follows(Run, R)
    BY <1>0, RunIt
  <2> QED BY <2>1, <1>1, InFront
<1>8. /\ NoFile(R1) /\ NoNames(R1) /\ VmLast(R1) /\ InitGlobals \notin R1
      /\ InitEnvironment \notin R1 /\ Alloc("globals") \notin R1
      /\ (Clean \in R1 => Dealloc("globals") \in R1) /\ Run \in R1
  BY <1>1, <1>0 DEF NoFile, NoNames, VmLast, Loading
<1>9. Ordered(s2, R2)
  <2>1. Follows(InitEnvironment, R1)
    BY <1>8, StartRun
  <2> QED BY <2>1, <1>2, <1>7, InFront
<1>10. /\ NoFile(R2) /\ NoNames(R2) /\ VmLast(R2) /\ InitGlobals \notin R2
       /\ Alloc("globals") \notin R2 /\ (Clean \in R2 => Dealloc("globals") \in R2)
       /\ {Run, InitEnvironment} \subseteq R2
  BY <1>2, <1>8 DEF NoFile, NoNames, VmLast, Loading
<1>11. Ordered(s3, R3)
  <2>1. Follows(Alloc("globals"), R2)
    BY <1>10, TakeGlobals
  <2> QED BY <2>1, <1>3, <1>9, InFront
<1>12. /\ NoFile(R3) /\ NoNames(R3) /\ VmLast(R3) /\ InitGlobals \notin R3
  BY <1>3, <1>10 DEF NoFile, NoNames, VmLast, Loading
<1>13. Ordered(s4, R4)
  <2>1. Follows(Run, R3)
    BY <1>12, RunIt
  <2> QED BY <2>1, <1>4, <1>11, InFront
<1>14. /\ NoFile(R4) /\ NoNames(R4) /\ VmLast(R4) /\ InitGlobals \notin R4 /\ Run \in R4
  BY <1>4, <1>12 DEF NoFile, NoNames, VmLast, Loading
<1>15. Ordered(s5, R5)
  <2>1. Follows(InitGlobals, R4)
    BY <1>14, StartGlobals
  <2> QED BY <2>1, <1>5, <1>13, InFront
<1>16. /\ NoFile(R5) /\ NoNames(R5) /\ VmLast(R5) /\ {Run, InitGlobals} \subseteq R5
  BY <1>5, <1>14 DEF NoFile, NoNames, VmLast, Loading
<1>17. Ordered(s6, R6)
  <2>1. Follows(Create, R5)
    BY <1>16, MakeNames
  <2> QED BY <2>1, <1>6, <1>15, InFront
<1>18. R6 = LoadCalls \cup R
  BY <1>1, <1>2, <1>3, <1>4, <1>5, <1>6 DEF LoadCalls
<1>19. s6 = LoadAndRun \o s
  <2>1. s \in Seq(R6) /\ {Alloc("globals"), Create, InitEnvironment, InitGlobals, Run} \subseteq R6
    BY <1>1, <1>2, <1>3, <1>4, <1>5, <1>6 DEF Ordered
  <2>2. SixApart(Create, InitGlobals, Run, Alloc("globals"), InitEnvironment, Run, s)
    BY <2>1, Six
  <2> QED BY <2>2, <1>1, <1>2, <1>3, <1>4, <1>5, <1>6 DEF SixApart, LoadAndRun
<1> QED BY <1>18, <1>19, <1>17

LEMMA ReceiveOrdered ==
  ASSUME NEW p \in Program, NEW s, NEW R, Ordered(s, R), AfterFile(R), Checking \notin R,
         Create \in R => Clean \in R \/ Leaving \in R
  PROVE  Ordered(ReceiveLef(p) \o s, ReceiveCalls(p) \cup R)
<1>0. /\ NoNames(R) /\ RunsCreated(R) /\ VmLast(R) /\ HasLef(R) /\ HasBody(R)
      /\ Alloc("lef") \notin R /\ Alloc("body") \notin R /\ Parsing \notin R
      /\ Checking \notin R /\ (Create \in R => Clean \in R \/ Leaving \in R)
  BY DEF AfterFile, Loading
<1>1. PICK R1, s1 : R1 = {Parsing} \cup R /\ s1 = <<Parsing>> \o s
  OBVIOUS
<1>2. PICK R2, s2 : R2 = {Filling} \cup R1 /\ s2 = <<Filling>> \o s1
  OBVIOUS
<1>3. PICK R3, s3 : R3 = {Alloc("body")} \cup R2 /\ s3 = <<Alloc("body")>> \o s2
  OBVIOUS
<1>4. PICK R4, s4 : R4 = {Receiving(p)} \cup R3 /\ s4 = <<Receiving(p)>> \o s3
  OBVIOUS
<1>5. PICK R5, s5 : R5 = {Alloc("lef")} \cup R4 /\ s5 = <<Alloc("lef")>> \o s4
  OBVIOUS
<1>6. Ordered(s1, R1)
  <2>1. Follows(Parsing, R)
    BY <1>0, ParseFile
  <2> QED BY <2>1, <1>1, InFront
<1>7. /\ NoNames(R1) /\ RunsCreated(R1) /\ VmLast(R1) /\ Parsing \in R1 /\ HasLef(R1)
      /\ HasBody(R1) /\ Alloc("lef") \notin R1 /\ Alloc("body") \notin R1
      /\ Checking \notin R1
      /\ (Create \in R1 => Clean \in R1 \/ Leaving \in R1)
  BY <1>1, <1>0 DEF NoNames, RunsCreated, VmLast, HasLef, HasBody, Stores
<1>8. Ordered(s2, R2)
  <2>1. Follows(Filling, R1)
    BY <1>7, FillFile
  <2> QED BY <2>1, <1>2, <1>6, InFront
<1>9. /\ NoNames(R2) /\ RunsCreated(R2) /\ VmLast(R2) /\ Parsing \in R2 /\ HasLef(R2)
      /\ HasBody(R2) /\ Alloc("lef") \notin R2 /\ Alloc("body") \notin R2
      /\ Checking \notin R2
      /\ (Create \in R2 => Clean \in R2 \/ Leaving \in R2)
  BY <1>2, <1>7 DEF NoNames, RunsCreated, VmLast, HasLef, HasBody, Stores
<1>10. Ordered(s3, R3)
  <2>1. Follows(Alloc("body"), R2)
    BY <1>9, TakeBody
  <2> QED BY <2>1, <1>3, <1>8, InFront
<1>11. /\ NoNames(R3) /\ RunsCreated(R3) /\ VmLast(R3) /\ Parsing \in R3 /\ HasLef(R3)
       /\ Alloc("lef") \notin R3 /\ Checking \notin R3
       /\ (Create \in R3 => Clean \in R3 \/ Leaving \in R3)
  BY <1>3, <1>9 DEF NoNames, RunsCreated, VmLast, HasLef, HasBody, Stores
<1>12. Ordered(s4, R4)
  <2>1. Follows(Receiving(p), R3)
    BY <1>11, ReceiveHead
  <2> QED BY <2>1, <1>4, <1>10, InFront
<1>13. /\ NoNames(R4) /\ RunsCreated(R4) /\ VmLast(R4) /\ Parsing \in R4 /\ HasLef(R4)
       /\ Alloc("lef") \notin R4
  BY <1>4, <1>11 DEF NoNames, RunsCreated, VmLast, HasLef, HasBody, Stores
<1>14. Ordered(s5, R5)
  <2>1. Follows(Alloc("lef"), R4)
    BY <1>13, TakeLef
  <2> QED BY <2>1, <1>5, <1>12, InFront
<1>15. R5 = ReceiveCalls(p) \cup R
  BY <1>1, <1>2, <1>3, <1>4, <1>5 DEF ReceiveCalls
<1>16. s5 = ReceiveLef(p) \o s
  <2>1. /\ s \in Seq(R5)
        /\ {Alloc("body"), Alloc("lef"), Filling, Parsing, Receiving(p)} \subseteq R5
    BY <1>1, <1>2, <1>3, <1>4, <1>5 DEF Ordered
  <2>2. FiveApart(Alloc("lef"), Receiving(p), Alloc("body"), Filling, Parsing, s)
    BY <2>1, Five
  <2> QED BY <2>2, <1>1, <1>2, <1>3, <1>4, <1>5 DEF FiveApart, ReceiveLef
<1> QED BY <1>14, <1>15, <1>16

LEMMA ReadFlashOrdered ==
  ASSUME NEW s, NEW R, Ordered(s, R), AfterFile(R), R \cap Stores = {}
  PROVE  Ordered(ReadFlash \o s, FlashCalls \cup R)
<1>0. /\ NoNames(R) /\ RunsCreated(R) /\ VmLast(R) /\ HasLef(R) /\ HasBody(R)
      /\ Alloc("lef") \notin R /\ Alloc("body") \notin R /\ Parsing \notin R
      /\ R \cap Stores = {}
  BY DEF AfterFile, Loading
<1>1. PICK R1, s1 : R1 = {Parsing} \cup R /\ s1 = <<Parsing>> \o s
  OBVIOUS
<1>2. PICK R2, s2 : R2 = {Alloc("body")} \cup R1 /\ s2 = <<Alloc("body")>> \o s1
  OBVIOUS
<1>3. PICK R3, s3 : R3 = {Reading} \cup R2 /\ s3 = <<Reading>> \o s2
  OBVIOUS
<1>4. PICK R4, s4 : R4 = {Alloc("lef")} \cup R3 /\ s4 = <<Alloc("lef")>> \o s3
  OBVIOUS
<1>5. Ordered(s1, R1)
  <2>1. Follows(Parsing, R)
    BY <1>0, ParseFile
  <2> QED BY <2>1, <1>1, InFront
<1>6. /\ NoNames(R1) /\ RunsCreated(R1) /\ VmLast(R1) /\ Parsing \in R1 /\ HasLef(R1)
      /\ HasBody(R1) /\ Alloc("lef") \notin R1 /\ Alloc("body") \notin R1
      /\ R1 \cap Stores = {}
  BY <1>1, <1>0 DEF NoNames, RunsCreated, VmLast, HasLef, HasBody, Stores
<1>7. Ordered(s2, R2)
  <2>1. Follows(Alloc("body"), R1)
    BY <1>6, TakeBody
  <2> QED BY <2>1, <1>2, <1>5, InFront
<1>8. /\ NoNames(R2) /\ RunsCreated(R2) /\ VmLast(R2) /\ Parsing \in R2 /\ HasLef(R2)
      /\ Alloc("lef") \notin R2 /\ R2 \cap Stores = {}
  BY <1>2, <1>6 DEF NoNames, RunsCreated, VmLast, HasLef, HasBody, Stores
<1>9. Ordered(s3, R3)
  <2>1. Follows(Reading, R2)
    BY <1>8, ReadFlashHead
  <2> QED BY <2>1, <1>3, <1>7, InFront
<1>10. /\ NoNames(R3) /\ RunsCreated(R3) /\ VmLast(R3) /\ Parsing \in R3 /\ HasLef(R3)
       /\ Alloc("lef") \notin R3
  BY <1>3, <1>8 DEF NoNames, RunsCreated, VmLast, HasLef, HasBody, Stores
<1>11. Ordered(s4, R4)
  <2>1. Follows(Alloc("lef"), R3)
    BY <1>10, TakeLef
  <2> QED BY <2>1, <1>4, <1>9, InFront
<1>12. R4 = FlashCalls \cup R
  BY <1>1, <1>2, <1>3, <1>4 DEF FlashCalls
<1>13. s4 = ReadFlash \o s
  <2>1. s \in Seq(R4) /\ {Alloc("body"), Alloc("lef"), Parsing, Reading} \subseteq R4
    BY <1>1, <1>2, <1>3, <1>4 DEF Ordered
  <2>2. FourApart(Alloc("lef"), Reading, Alloc("body"), Parsing, s)
    BY <2>1, Four
  <2> QED BY <2>2, <1>1, <1>2, <1>3, <1>4 DEF FourApart, ReadFlash
<1> QED BY <1>12, <1>13, <1>11

CleanCalls == {Dealloc("stack"), Dealloc("globals"), Clean, Dealloc("vm")}

LEMMA FreeLefOrdered ==
  ASSUME NEW s, NEW R, Ordered(s, R), R \subseteq Freeing \cup Restarting \cup {Leaving},
         Dealloc("lef") \notin R
  PROVE  Ordered(FreeLef \o s, FreeCalls \cup R)
<1>0. /\ R \subseteq Freeing \cup Restarting \cup {Leaving} /\ Dealloc("lef") \notin R
  OBVIOUS
<1>1. PICK R1, s1 : R1 = {Dealloc("lef")} \cup R /\ s1 = <<Dealloc("lef")>> \o s
  OBVIOUS
<1>2. PICK R2, s2 : R2 = {Dealloc("body")} \cup R1 /\ s2 = <<Dealloc("body")>> \o s1
  OBVIOUS
<1>3. Ordered(s1, R1)
  <2>1. Follows(Dealloc("lef"), R)
    BY <1>0, FreeLefHead
  <2> QED BY <2>1, <1>1, InFront
<1>4. /\ R1 \subseteq Freeing \cup Restarting \cup {Leaving}
  BY <1>1, <1>0 DEF Freeing
<1>5. Ordered(s2, R2)
  <2>1. Follows(Dealloc("body"), R1)
    BY <1>4, FreeBody
  <2> QED BY <2>1, <1>2, <1>3, InFront
<1>6. R2 = FreeCalls \cup R
  BY <1>1, <1>2 DEF FreeCalls
<1>7. s2 = FreeLef \o s
  <2>1. s \in Seq(R2) /\ {Dealloc("body"), Dealloc("lef")} \subseteq R2
    BY <1>1, <1>2 DEF Ordered
  <2>2. TwoApart(Dealloc("body"), Dealloc("lef"), s)
    BY <2>1, Two
  <2> QED BY <2>2, <1>1, <1>2 DEF TwoApart, FreeLef
<1> QED BY <1>6, <1>7, <1>5

LEMMA VmCleanOrdered ==
  ASSUME NEW s, NEW R, Ordered(s, R), R \subseteq Restarting
  PROVE  Ordered(VmClean \o s, CleanCalls \cup R)
<1>0. /\ R \subseteq Freeing \cup Restarting \cup {Leaving} /\ Dealloc("vm") \notin R
      /\ Dealloc("stack") \notin R
  BY DEF Restarting
<1>1. PICK R1, s1 : R1 = {Dealloc("vm")} \cup R /\ s1 = <<Dealloc("vm")>> \o s
  OBVIOUS
<1>2. PICK R2, s2 : R2 = {Clean} \cup R1 /\ s2 = <<Clean>> \o s1
  OBVIOUS
<1>3. PICK R3, s3 : R3 = {Dealloc("globals")} \cup R2 /\ s3 = <<Dealloc("globals")>> \o s2
  OBVIOUS
<1>4. PICK R4, s4 : R4 = {Dealloc("stack")} \cup R3 /\ s4 = <<Dealloc("stack")>> \o s3
  OBVIOUS
<1>5. Ordered(s1, R1)
  <2>1. Follows(Dealloc("vm"), R)
    BY <1>0, FreeVm
  <2> QED BY <2>1, <1>1, InFront
<1>6. /\ R1 \subseteq Freeing \cup Restarting \cup {Leaving}
  BY <1>1, <1>0 DEF Freeing
<1>7. Ordered(s2, R2)
  <2>1. Follows(Clean, R1)
    BY <1>6, FreeNames
  <2> QED BY <2>1, <1>2, <1>5, InFront
<1>8. /\ R2 \subseteq Freeing \cup Restarting \cup {Leaving}
  BY <1>2, <1>6 DEF Freeing
<1>9. Ordered(s3, R3)
  <2>1. Follows(Dealloc("globals"), R2)
    BY <1>8, FreeGlobals
  <2> QED BY <2>1, <1>3, <1>7, InFront
<1>10. /\ R3 \subseteq Freeing \cup Restarting \cup {Leaving}
  BY <1>3, <1>8 DEF Freeing
<1>11. Ordered(s4, R4)
  <2>1. Follows(Dealloc("stack"), R3)
    BY <1>10, FreeStack
  <2> QED BY <2>1, <1>4, <1>9, InFront
<1>12. R4 = CleanCalls \cup R
  BY <1>1, <1>2, <1>3, <1>4 DEF CleanCalls
<1>13. s4 = VmClean \o s
  <2>1. s \in Seq(R4) /\ {Clean, Dealloc("globals"), Dealloc("stack"), Dealloc("vm")} \subseteq R4
    BY <1>1, <1>2, <1>3, <1>4 DEF Ordered
  <2>2. FourApart(Dealloc("stack"), Dealloc("globals"), Clean, Dealloc("vm"), s)
    BY <2>1, Four
  <2> QED BY <2>2, <1>1, <1>2, <1>3, <1>4 DEF FourApart, VmClean
<1> QED BY <1>12, <1>13, <1>11

LEMMA VmInitOrdered ==
  ASSUME NEW s, NEW R, Ordered(s, R), NoNames(R), RunsCreated(R), VmLast(R),
         Dealloc("stack") \notin R, Alloc("stack") \notin R,
         R \cap {Leaving, Dealloc("globals")} # {} => Alloc("globals") \in R
  PROVE  Ordered(VmInit \o s, Restarting \cup R)
<1>0. /\ NoNames(R) /\ RunsCreated(R) /\ VmLast(R) /\ Dealloc("stack") \notin R
      /\ Alloc("stack") \notin R
      /\ (R \cap {Leaving, Dealloc("globals")} # {} => Alloc("globals") \in R)
  OBVIOUS
<1>1. PICK R1, s1 : R1 = {Alloc("stack")} \cup R /\ s1 = <<Alloc("stack")>> \o s
  OBVIOUS
<1>2. PICK R2, s2 : R2 = {VmIniting} \cup R1 /\ s2 = <<VmIniting>> \o s1
  OBVIOUS
<1>3. Ordered(s1, R1)
  <2>1. Follows(Alloc("stack"), R)
    BY <1>0, TakeStack
  <2> QED BY <2>1, <1>1, InFront
<1>4. /\ NoNames(R1) /\ RunsCreated(R1) /\ VmLast(R1) /\ Dealloc("stack") \notin R1
      /\ Alloc("stack") \in R1
      /\ (R1 \cap {Leaving, Dealloc("globals")} # {} => Alloc("globals") \in R1)
  BY <1>1, <1>0 DEF NoNames, RunsCreated, VmLast
<1>5. Ordered(s2, R2)
  <2>1. Follows(VmIniting, R1)
    BY <1>4, InitVm
  <2> QED BY <2>1, <1>2, <1>3, InFront
<1>6. R2 = Restarting \cup R
  BY <1>1, <1>2 DEF Restarting
<1>7. s2 = VmInit \o s
  <2>1. s \in Seq(R2) /\ {Alloc("stack"), VmIniting} \subseteq R2
    BY <1>1, <1>2 DEF Ordered
  <2>2. TwoApart(VmIniting, Alloc("stack"), s)
    BY <2>1, Two
  <2> QED BY <2>2, <1>1, <1>2 DEF TwoApart, VmInit
<1> QED BY <1>6, <1>7, <1>5

LEMMA OneOrdered ==
  ASSUME NEW c, Follows(c, {})
  PROVE  Ordered(<<c>>, {c})
<1>1. Ordered(<<c>> \o <<>>, {c} \cup {})
  BY NoCalls, InFront
<1> QED BY <1>1

\* What a row of the shell is when it is typed, and a start when it begins.
Begins(R) ==
  /\ NoNames(R) /\ RunsCreated(R) /\ VmLast(R)
  /\ {Parsing, Alloc("lef"), Alloc("body")} \subseteq R
  /\ Create \in R /\ Clean \notin R /\ Leaving \notin R => Reading \in R
  /\ Checking \in R => Reading \in R
  /\ R \cap Stores # {} => \E p \in Program : Receiving(p) \in R
AtPrompt(R) == /\ Begins(R) /\ R \cap Boot = {}
               /\ Alloc("stack") \in R => Dealloc("stack") \in R

Anything == Boot \cup Loading \cup SetUp \cup Freeing \cup Restarting \cup Others

\* All parts of rows are sequences of one set.
LEMMA PartsAre ==
  /\ LoadAndRun \in Seq(Anything) /\ FreeLef \in Seq(Anything) /\ VmClean \in Seq(Anything)
  /\ VmInit \in Seq(Anything) /\ ReadFlash \in Seq(Anything)
  /\ AnimulaInit \in Seq(Anything)
  /\ \A p \in Program : ReceiveLef(p) \in Seq(Anything)
  /\ <<Leaving>> \in Seq(Anything) /\ <<Keeping>> \in Seq(Anything)
  /\ <<Checking>> \in Seq(Anything)
<1>1. {Alloc("vm"), Primitives, Alloc("pools"), Alloc("lef"), Alloc("body"), Filling, Parsing, Reading,
        InitGlobals, Run, Alloc("globals"), InitEnvironment, Dealloc("body"), Dealloc("lef"),
        Dealloc("stack"), Dealloc("globals"), Clean, Dealloc("vm"), VmIniting, Alloc("stack"),
        Create, Leaving, Keeping, Checking, Call("store_head"), Call("store_body")} \subseteq Anything
  BY DEF Anything, Boot, Loading, SetUp, Freeing, Restarting, Others
<1>2. \A p \in Program : Receiving(p) \in Anything
  BY DEF Anything, Loading
<1> HIDE DEF Anything
<1>3. LoadAndRun \in Seq(Anything)
  BY <1>1 DEF LoadAndRun
<1>4. FreeLef \in Seq(Anything)
  BY <1>1 DEF FreeLef
<1>5. VmClean \in Seq(Anything)
  BY <1>1 DEF VmClean
<1>6. VmInit \in Seq(Anything)
  BY <1>1 DEF VmInit
<1>7. ReadFlash \in Seq(Anything)
  BY <1>1 DEF ReadFlash
<1>8. ASSUME NEW p \in Program
      PROVE  ReceiveLef(p) \in Seq(Anything)
  BY <1>1, <1>2 DEF ReceiveLef
<1>9. <<Leaving>> \in Seq(Anything) /\ <<Keeping>> \in Seq(Anything) /\ <<Checking>> \in Seq(Anything)
  BY <1>1
<1>10. << Alloc("vm"), Primitives >> \in Seq(Anything) /\ << Alloc("pools") >> \in Seq(Anything)
  BY <1>1
<1>11. AnimulaInit \in Seq(Anything)
  BY <1>10, <1>6 DEF AnimulaInit
<1> QED BY <1>3, <1>4, <1>5, <1>6, <1>7, <1>8, <1>9, <1>10, <1>11

LEMMA RunProgramOrdered == \E R : Ordered(RunProgram, R) /\ AtPrompt(R)
<1>1. Ordered(FreeLef, FreeCalls)
  <2>1. Ordered(FreeLef \o <<>>, FreeCalls \cup {})
    BY NoCalls, FreeLefOrdered
  <2> QED BY <2>1, PartsAre
<1>2. AfterRun(FreeCalls)
  BY DEF AfterRun, FreeCalls, Freeing, VmLast
<1>3. PICK R : R = LoadCalls \cup FreeCalls
  OBVIOUS
<1>4. Ordered(LoadAndRun \o FreeLef, R)
  BY <1>1, <1>2, <1>3, LoadAndRunOrdered
<1>5. AfterFile(R) /\ R \cap Stores = {}
  BY <1>3 DEF Stores, AfterFile, FreeCalls, LoadCalls, NoNames, RunsCreated, VmLast, Loading, HasLef, HasBody
<1>6. Ordered(ReadFlash \o (LoadAndRun \o FreeLef), FlashCalls \cup R)
  BY <1>4, <1>5, ReadFlashOrdered
<1>7. RunProgram = ReadFlash \o (LoadAndRun \o FreeLef)
  <2>1. Grouped(ReadFlash, LoadAndRun, FreeLef)
    BY PartsAre, Associates
  <2> QED BY <2>1 DEF RunProgram, Grouped
<1>8. AtPrompt(FlashCalls \cup R)
  BY <1>3 DEF AtPrompt, Begins, Stores, FlashCalls, FreeCalls, LoadCalls, NoNames, RunsCreated, VmLast, Boot
<1> QED BY <1>6, <1>7, <1>8

LEMMA RunAndLeaveOrdered ==
  Ordered(LoadAndRun \o FreeLef \o << Leaving >>, LoadCalls \cup FreeCalls \cup {Leaving})
<1>1. Ordered(<<Leaving>>, {Leaving})
  BY OneOrdered, LeaveIt DEF VmLast
<1>2. Ordered(FreeLef \o <<Leaving>>, FreeCalls \cup {Leaving})
  BY <1>1, FreeLefOrdered
<1>3. AfterRun(FreeCalls \cup {Leaving})
  BY DEF AfterRun, FreeCalls, Freeing, VmLast
<1>4. Ordered(LoadAndRun \o (FreeLef \o <<Leaving>>), LoadCalls \cup (FreeCalls \cup {Leaving}))
  BY <1>2, <1>3, LoadAndRunOrdered
<1>5. LoadAndRun \o FreeLef \o << Leaving >> = LoadAndRun \o (FreeLef \o <<Leaving>>)
  <2>1. Grouped(LoadAndRun, FreeLef, <<Leaving>>)
    BY PartsAre, Associates
  <2> QED BY <2>1 DEF Grouped
<1>6. LoadCalls \cup (FreeCalls \cup {Leaving}) = LoadCalls \cup FreeCalls \cup {Leaving}
  OBVIOUS
<1> QED BY <1>4, <1>5, <1>6

LEMMA SloadRunOrdered ==
  ASSUME NEW p \in Program
  PROVE  \E R : Ordered(SloadRun(p), R) /\ AtPrompt(R)
<1> DEFINE s1 == VmInit
           s2 == VmClean \o s1
           s3 == FreeLef \o s2
           s4 == LoadAndRun \o s3
           s5 == ReceiveLef(p) \o s4
<1>1. Ordered(s1, Restarting)
  <2>1. NoNames({}) /\ RunsCreated({}) /\ VmLast({})
    BY DEF NoNames, RunsCreated, VmLast
  <2>2. Ordered(VmInit \o <<>>, Restarting \cup {})
    BY <2>1, NoCalls, VmInitOrdered
  <2> QED BY <2>2, PartsAre
<1>2. PICK R2 : R2 = CleanCalls \cup Restarting
  OBVIOUS
<1>3. Ordered(s2, R2)
  BY <1>1, <1>2, VmCleanOrdered
<1>4. R2 \subseteq Freeing \cup Restarting \cup {Leaving} /\ Dealloc("lef") \notin R2
  BY <1>2 DEF CleanCalls, Freeing, Restarting
<1>5. PICK R3 : R3 = FreeCalls \cup R2
  OBVIOUS
<1>6. Ordered(s3, R3)
  BY <1>3, <1>4, <1>5, FreeLefOrdered
<1>7. AfterRun(R3)
  BY <1>2, <1>4, <1>5 DEF AfterRun, FreeCalls, Freeing, VmLast, CleanCalls
<1>8. PICK R4 : R4 = LoadCalls \cup R3
  OBVIOUS
<1>9. Ordered(s4, R4)
  BY <1>6, <1>7, <1>8, LoadAndRunOrdered
<1>10. AfterFile(R4) /\ Checking \notin R4 /\ (Create \in R4 => Clean \in R4 \/ Leaving \in R4)
  BY <1>2, <1>5, <1>8 DEF AfterFile, FreeCalls, LoadCalls, CleanCalls, Restarting, NoNames,
     RunsCreated, VmLast, Loading, HasLef, HasBody
<1>11. PICK R5 : R5 = ReceiveCalls(p) \cup R4
  OBVIOUS
<1>12. Ordered(s5, R5)
  BY <1>9, <1>10, <1>11, ReceiveOrdered
<1>13. AtPrompt(R5)
  BY <1>2, <1>5, <1>8, <1>11 DEF AtPrompt, Begins, Stores, ReceiveCalls, FreeCalls, LoadCalls, CleanCalls,
     Restarting, NoNames, RunsCreated, VmLast, Boot
<1>14. SloadRun(p) = s5
  <2> DEFINE a == ReceiveLef(p)
             b == a \o LoadAndRun
             c == b \o FreeLef
             d == c \o VmClean
  <2>1. /\ a \in Seq(Anything) /\ b \in Seq(Anything) /\ c \in Seq(Anything)
        /\ s1 \in Seq(Anything) /\ s2 \in Seq(Anything) /\ s3 \in Seq(Anything)
    BY PartsAre
  <2> HIDE DEF a, b, c, d, s1, s2, s3
  <2>2. Grouped(c, VmClean, s1) /\ Grouped(b, FreeLef, s2) /\ Grouped(a, LoadAndRun, s3)
    BY <2>1, PartsAre, Associates
  <2>3. d \o s1 = a \o s4
    BY <2>2 DEF Grouped, d, c, b, s2, s3
  <2> QED BY <2>3 DEF SloadRun, a, b, c, d, s1
<1> QED BY <1>12, <1>13, <1>14

LEMMA SloadOnceOrdered ==
  ASSUME NEW p \in Program
  PROVE  \E R : Ordered(SloadOnce(p), R) /\ AtPrompt(R)
<1>1. Ordered(<<Keeping>>, {Keeping})
  BY OneOrdered, KeepIt DEF VmLast
<1>2. AfterFile({Keeping}) /\ Checking \notin {Keeping} /\ Create \notin {Keeping}
  BY DEF AfterFile, NoNames, RunsCreated, VmLast, Loading, HasLef, HasBody
<1>3. Ordered(ReceiveLef(p) \o <<Keeping>>, ReceiveCalls(p) \cup {Keeping})
  BY <1>1, <1>2, ReceiveOrdered
<1>4. AtPrompt(ReceiveCalls(p) \cup {Keeping})
  BY DEF AtPrompt, Begins, Stores, ReceiveCalls, NoNames, RunsCreated, VmLast, Boot
<1> QED BY <1>3, <1>4 DEF SloadOnce

LEMMA SloadSaveOrdered ==
  ASSUME NEW p \in Program
  PROVE  \E R : Ordered(SloadSave(p), R) /\ AtPrompt(R)
<1>1. Ordered(<<Keeping>>, {Keeping})
  BY OneOrdered, KeepIt DEF VmLast
<1>2. PICK R : R = {Call("store_head")} \cup ({Call("store_body")} \cup {Keeping})
  OBVIOUS
<1>3. Ordered(<<Call("store_head")>> \o (<<Call("store_body")>> \o <<Keeping>>), R)
  <2>1. Ordered(<<Call("store_body")>> \o <<Keeping>>, {Call("store_body")} \cup {Keeping})
    <3>1. Follows(Call("store_body"), {Keeping})
      BY StoreBodyRule DEF VmLast, Loading
    <3> QED BY <3>1, <1>1, InFront
  <2>2. Follows(Call("store_head"), {Call("store_body")} \cup {Keeping})
    BY StoreHeadRule DEF VmLast, Loading
  <2> QED BY <2>1, <2>2, <1>2, InFront
<1>4. <<Call("store_head"), Call("store_body"), Keeping>>
        = <<Call("store_head")>> \o (<<Call("store_body")>> \o <<Keeping>>)
  OBVIOUS
<1>5. AfterFile(R) /\ Checking \notin R /\ Create \notin R
  BY <1>2 DEF AfterFile, NoNames, RunsCreated, VmLast, Loading, HasLef, HasBody
<1>6. Ordered(SloadSave(p), ReceiveCalls(p) \cup R)
  BY <1>3, <1>4, <1>5, ReceiveOrdered DEF SloadSave
<1>7. AtPrompt(ReceiveCalls(p) \cup R)
  BY <1>2 DEF AtPrompt, Begins, Stores, ReceiveCalls, NoNames, RunsCreated, VmLast, Boot
<1> QED BY <1>6, <1>7

LEMMA RowsOrdered ==
  ASSUME NEW row \in Rows
  PROVE  \E R : Ordered(row, R) /\ AtPrompt(R)
<1>1. CASE row = RunProgram
  BY <1>1, RunProgramOrdered
<1>2. ASSUME NEW p \in Program, row \in {SloadRun(p), SloadOnce(p), SloadSave(p)}
      PROVE  \E R : Ordered(row, R) /\ AtPrompt(R)
  BY <1>2, SloadRunOrdered, SloadOnceOrdered, SloadSaveOrdered
<1> QED BY <1>1, <1>2 DEF Rows

LEMMA AnimulaInitOrdered ==
  ASSUME NEW s \in Seq(Anything), NEW R, Ordered(s, R), AfterStart(R)
  PROVE  Ordered(AnimulaInit \o s, Boot \cup Restarting \cup R)
<1> DEFINE s1 == <<Alloc("pools")>> \o s
           s2 == VmInit \o s1
           s3 == <<Primitives>> \o s2
           s4 == <<Alloc("vm")>> \o s3
<1>0. /\ NoNames(R) /\ RunsCreated(R) /\ VmLast(R) /\ Dealloc("stack") \notin R
      /\ Alloc("stack") \notin R /\ Alloc("vm") \notin R /\ Primitives \notin R
      /\ Alloc("pools") \notin R
      /\ R \cap {Leaving, Dealloc("globals")} # {} => Alloc("globals") \in R
  BY DEF AfterStart, Boot, Restarting
<1>1. PICK R1 : R1 = {Alloc("pools")} \cup R
  OBVIOUS
<1>2. Ordered(s1, R1)
  BY <1>0, <1>1, TakePools, InFront
<1>3. /\ NoNames(R1) /\ RunsCreated(R1) /\ VmLast(R1) /\ Dealloc("stack") \notin R1
      /\ Alloc("stack") \notin R1 /\ Alloc("vm") \notin R1 /\ Primitives \notin R1
      /\ R1 \cap {Leaving, Dealloc("globals")} # {} => Alloc("globals") \in R1
  BY <1>0, <1>1 DEF NoNames, RunsCreated, VmLast
<1>4. PICK R2 : R2 = Restarting \cup R1
  OBVIOUS
<1>5. Ordered(s2, R2)
  BY <1>2, <1>3, <1>4, VmInitOrdered
<1>6. NoNames(R2) /\ RunsCreated(R2) /\ VmLast(R2) /\ Alloc("vm") \notin R2 /\ Primitives \notin R2
  BY <1>3, <1>4 DEF NoNames, RunsCreated, VmLast, Restarting
<1>7. PICK R3 : R3 = {Primitives} \cup R2
  OBVIOUS
<1>8. Ordered(s3, R3)
  BY <1>5, <1>6, <1>7, TakePrims, InFront
<1>9. NoNames(R3) /\ RunsCreated(R3) /\ VmLast(R3) /\ Alloc("vm") \notin R3
  BY <1>6, <1>7 DEF NoNames, RunsCreated, VmLast
<1>10. PICK R4 : R4 = {Alloc("vm")} \cup R3
  OBVIOUS
<1>11. Ordered(s4, R4)
  BY <1>8, <1>9, <1>10, TakeVm, InFront
<1>12. R4 = Boot \cup Restarting \cup R
  BY <1>1, <1>4, <1>7, <1>10 DEF Boot
<1>13. AnimulaInit \o s = s4
  <2> DEFINE a == <<Alloc("vm"), Primitives>>
             b == a \o VmInit
             c == <<Alloc("pools")>>
  <2>1. /\ a \in Seq(Anything) /\ b \in Seq(Anything) /\ c \in Seq(Anything)
        /\ s1 \in Seq(Anything) /\ s2 \in Seq(Anything)
        /\ Alloc("vm") \in Anything /\ Primitives \in Anything
    BY PartsAre DEF Anything, Boot
  <2> HIDE DEF a, b, c, s2
  <2>2. Grouped(b, c, s) /\ Grouped(a, VmInit, c \o s)
    BY <2>1, PartsAre, Associates DEF c
  <2>3. TwoApart(Alloc("vm"), Primitives, s2)
    BY <2>1, Two
  <2> QED BY <2>2, <2>3 DEF AnimulaInit, Grouped, TwoApart, a, b, c, s2
<1> QED BY <1>11, <1>12, <1>13

LEMMA StartFromFlashOrdered == \E R : Ordered(StartFromFlash, R) /\ Begins(R)
<1>1. Ordered(<<Checking>>, {Checking})
  BY OneOrdered, CheckIt
<1>2. AfterFile({Checking}) /\ {Checking} \cap Stores = {}
  BY DEF Stores, AfterFile, NoNames, RunsCreated, VmLast, Loading, HasLef, HasBody
<1>3. Ordered(ReadFlash \o <<Checking>>, FlashCalls \cup {Checking})
  BY <1>1, <1>2, ReadFlashOrdered
<1>4. AfterStart(FlashCalls \cup {Checking})
  BY DEF AfterStart, FlashCalls, NoNames, RunsCreated, VmLast, Boot, Restarting
<1>5. PICK R : R = Boot \cup Restarting \cup (FlashCalls \cup {Checking})
  OBVIOUS
<1>6. ReadFlash \o <<Checking>> \in Seq(Anything)
  BY PartsAre
<1>7. Ordered(AnimulaInit \o (ReadFlash \o <<Checking>>), R)
  BY <1>3, <1>4, <1>5, <1>6, AnimulaInitOrdered
<1>8. AnimulaInit \o (ReadFlash \o <<Checking>>) = StartFromFlash
  <2>1. Grouped(AnimulaInit, ReadFlash, <<Checking>>)
    BY PartsAre, Associates
  <2> QED BY <2>1 DEF Grouped, StartFromFlash
<1>9. Begins(R)
  BY <1>5 DEF Begins, Stores, FlashCalls, NoNames, RunsCreated, VmLast, Boot, Restarting
<1> QED BY <1>7, <1>8, <1>9

LEMMA StartFromFileOrdered ==
  ASSUME NEW p \in Program
  PROVE  \E R : Ordered(StartFromFile(p), R) /\ Begins(R)
<1> DEFINE s1 == LoadAndRun \o FreeLef \o <<Leaving>>
           s2 == ReceiveLef(p) \o s1
           s3 == AnimulaInit \o s2
<1>1. PICK R1 : R1 = LoadCalls \cup FreeCalls \cup {Leaving}
  OBVIOUS
<1>2. Ordered(s1, R1)
  BY <1>1, RunAndLeaveOrdered
<1>3. AfterFile(R1) /\ Checking \notin R1 /\ (Create \in R1 => Clean \in R1 \/ Leaving \in R1)
  BY <1>1 DEF AfterFile, FreeCalls, LoadCalls, NoNames, RunsCreated, VmLast, Loading, HasLef,
     HasBody
<1>4. PICK R2 : R2 = ReceiveCalls(p) \cup R1
  OBVIOUS
<1>5. Ordered(s2, R2)
  BY <1>2, <1>3, <1>4, ReceiveOrdered
<1>6. AfterStart(R2)
  BY <1>1, <1>4 DEF AfterStart, ReceiveCalls, FreeCalls, LoadCalls, NoNames, RunsCreated, VmLast,
     Boot, Restarting
<1>7. s1 \in Seq(Anything) /\ s2 \in Seq(Anything)
  BY PartsAre
<1>8. PICK R3 : R3 = Boot \cup Restarting \cup R2
  OBVIOUS
<1>9. Ordered(s3, R3)
  <2> HIDE DEF s2
  <2> QED BY <1>5, <1>6, <1>7, <1>8, AnimulaInitOrdered
<1>10. Begins(R3)
  BY <1>1, <1>4, <1>8 DEF Begins, Stores, ReceiveCalls, FreeCalls, LoadCalls, NoNames, RunsCreated, VmLast,
     Boot, Restarting
<1>11. StartFromFile(p) = s3
  <2> DEFINE a == AnimulaInit \o ReceiveLef(p)
             b == a \o LoadAndRun
             c == LoadAndRun \o FreeLef
             d == FreeLef \o <<Leaving>>
  <2>1. a \in Seq(Anything) /\ b \in Seq(Anything) /\ c \in Seq(Anything) /\ d \in Seq(Anything)
    BY PartsAre
  <2> HIDE DEF a, b, c, d
  <2>2. Grouped(b, FreeLef, <<Leaving>>)
    BY <2>1, PartsAre, Associates
  <2>3. Grouped(a, LoadAndRun, d)
    BY <2>1, PartsAre, Associates
  <2>4. Grouped(LoadAndRun, FreeLef, <<Leaving>>)
    BY PartsAre, Associates
  <2>5. Grouped(AnimulaInit, ReceiveLef(p), s1)
    BY <1>7, PartsAre, Associates
  <2>6. s1 = LoadAndRun \o d
    BY <2>4 DEF Grouped, d
  <2>7. b \o FreeLef \o <<Leaving>> = a \o s1
    BY <2>2, <2>3, <2>6 DEF Grouped, b, d
  <2> QED BY <2>5, <2>7 DEF Grouped, StartFromFile, a, b
<1> QED BY <1>9, <1>10, <1>11

LEMMA StartsOrdered ==
  ASSUME NEW row \in Starts
  PROVE  \E R : Ordered(row, R) /\ Begins(R)
BY StartFromFlashOrdered, StartFromFileOrdered DEF Starts

(* Any number of calls in front of a row.                                   *)
LEMMA ManyInFront ==
  ASSUME NEW A, NEW a \in Seq(A), NEW s, NEW R, Ordered(s, R),
         \A c \in A : \A B \in SUBSET A : Follows(c, B \cup R)
  PROVE  Ordered(a \o s, CallsOf(a) \cup R)
<1> DEFINE t == a \o s
           k == Len(a)
           n == Len(s)
           S == CallsOf(a) \cup R
<1>1. /\ k \in Nat /\ n \in Nat /\ DOMAIN a = 1 .. k /\ DOMAIN s = 1 .. n
      /\ \A i \in 1 .. k : a[i] \in A
  BY DEF Ordered
<1>2. a \in Seq(S) /\ s \in Seq(S)
  <2>1. a \in Seq(CallsOf(a))
    BY <1>1 DEF CallsOf
  <2> QED BY <2>1 DEF Ordered
<1>3. /\ t \in Seq(S) /\ Len(t) = k + n /\ DOMAIN t = 1 .. k + n
      /\ \A i \in 1 .. k : t[i] = a[i]
      /\ \A i \in 1 .. n : t[k + i] = s[i]
  <2>1. Joins(t, a, s, S)
    BY <1>2, Joined
  <2> HIDE DEF t, S
  <2> QED BY <2>1, <1>1 DEF Joins
<1> HIDE DEF t, k, n, S
<1>4. \A i \in 1 .. n : Follows(s[i], Part(s, i + 1, n))
  BY <1>1 DEF Ordered, n
<1>5. ASSUME NEW m \in Nat, m \in 1 .. n + 1
      PROVE  Part(t, k + m, k + n) = Part(s, m, n)
  <2>1. \A j \in m .. n : k + j \in k + m .. k + n /\ t[k + j] = s[j]
    BY <1>5, <1>1, <1>3
  <2>2. \A j \in k + m .. k + n : j - k \in m .. n /\ t[j] = s[j - k]
    <3> SUFFICES ASSUME NEW j \in k + m .. k + n PROVE j - k \in m .. n /\ t[j] = s[j - k]
      OBVIOUS
    <3>1. j - k \in m .. n /\ k + (j - k) = j
      BY <1>5, <1>1
    <3> QED BY <3>1, <2>1
  <2> QED BY <2>1, <2>2 DEF Part
<1>6. Part(s, 1, n) = R
  BY <1>1 DEF Ordered, CallsOf, Part
<1>7. ASSUME NEW i \in 1 .. k + n
      PROVE  Follows(t[i], Part(t, i + 1, k + n))
  <2>1. CASE i \in 1 .. k
    <3> DEFINE B == {a[j] : j \in i + 1 .. k}
    <3>1. Part(t, i + 1, k + n) = B \cup R
      <4>1. i + 1 .. k + n = (i + 1 .. k) \cup (k + 1 .. k + n)
        BY <2>1, <1>1
      <4>2. Part(t, k + 1, k + n) = R
        <5>1. 1 \in Nat /\ 1 \in 1 .. n + 1
          BY <1>1
        <5> QED BY <5>1, <1>5, <1>6
      <4>3. \A j \in i + 1 .. k : t[j] = a[j]
        BY <1>1, <1>3
      <4> QED BY <4>1, <4>2, <4>3 DEF Part
    <3>2. B \in SUBSET A /\ a[i] \in A
      BY <2>1, <1>1
    <3> HIDE DEF B
    <3> QED BY <3>1, <3>2, <2>1, <1>3
  <2>2. CASE i \notin 1 .. k
    <3>1. PICK m \in 1 .. n : i = k + m
      <4>1. i - k \in 1 .. n /\ i = k + (i - k)
        BY <2>2, <1>1
      <4> QED BY <4>1
    <3>2. Part(t, k + (m + 1), k + n) = Part(s, m + 1, n)
      BY <3>1, <1>1, <1>5
    <3>3. k + (m + 1) = i + 1 /\ t[i] = s[m]
      BY <3>1, <1>1, <1>3
    <3> QED BY <3>1, <3>2, <3>3, <1>4
  <2> QED BY <2>1, <2>2
<1>8. S = CallsOf(t)
  <2>1. 1 .. k + n = (1 .. k) \cup (k + 1 .. k + n)
    BY <1>1
  <2>2. Part(t, k + 1, k + n) = R
    <3>1. 1 \in Nat /\ 1 \in 1 .. n + 1
      BY <1>1
    <3> QED BY <3>1, <1>5, <1>6
  <2> QED BY <2>1, <2>2, <1>1, <1>3 DEF S, CallsOf, Part
<1>9. Ordered(t, S)
  BY <1>3, <1>7, <1>8 DEF Ordered
<1> QED BY <1>9 DEF t, S

------------------------------------------------------------------------------
(* The memory, one call at a time.                                          *)

MemoryInv == TrackerInv /\ LimitKept

\* What a call that took b did to the memory.
Took(b) ==
  /\ MemoryInv' /\ b \in Block /\ b \notin Live /\ Live' = Live \cup {b}
  /\ stopped' \in {"no", "used_up"}

LEMMA Takes ==
  ASSUME MemoryInv, Running, NEW b \in Memory, OsMalloc(1, b) \/ OsCalloc(1, 1, b)
  PROVE  Took(b)
<1>1. b \in Block /\ live[b] = NotLive /\ ~Refuses(1) /\ b # NULL
  BY TrackerAssumption DEF Memory, Answers, Fresh
<1>2. live' = [live EXCEPT ![b] = 1] /\ Record(b, 1)
  BY <1>1 DEF OsMalloc, OsCalloc
<1>3. TrackerInv /\ stopped = "no" /\ 1 \in Nat
  BY DEF MemoryInv, Running
<1>4. MemoryInv'
  BY <1>1, <1>2, <1>3, RecordKeeps, AllocationFits DEF MemoryInv
<1>5. b \notin Live /\ Live' = Live \cup {b}
  BY <1>1, <1>2, <1>3 DEF Live, NotLive, TrackerInv, TrackerTypeOK
<1>6. stopped' \in {"no", "used_up"}
  BY <1>2, <1>3 DEF Record
<1> QED BY <1>1, <1>4, <1>5, <1>6 DEF Took

\* What a call that gave b back did.
Gave(b) ==
  /\ MemoryInv' /\ Live' \subseteq Live
  /\ stopped' \in {"no", "free_of_NULL", "free_of_unknown"}
  /\ stopped' = "no" => b \in Live /\ Live' = Live \ {b}

LEMMA Gives ==
  ASSUME MemoryInv, Running, NEW b \in Block \cup {NULL}, OsFree(b)
  PROVE  Gave(b)
<1>1. TrackerInv /\ stopped = "no" /\ LimitKept
  BY DEF MemoryInv, Running
<1>2. TrackerInv'
  BY <1>1, FreeKeeps
<1>3. stopped' = "no" => b \in Live
  BY <1>1, FreeStops
<1>4. CASE b = NULL
  <2>1. live' = live /\ stopped' = "free_of_NULL"
    BY <1>4 DEF OsFree
  <2>2. LimitKept' /\ Live' = Live
    BY <2>1, <1>1, LimitIs, LimitIsThen DEF Live
  <2> QED BY <2>1, <2>2, <1>2 DEF Gave, MemoryInv
<1>5. CASE b # NULL
  <2>1. b \in Block /\ live' = [live EXCEPT ![b] = NotLive]
    BY <1>5 DEF OsFree
  <2>2. LimitKept'
    BY <2>1, <1>1, FreeFits
  <2>3. Live' = Live \ {b}
    BY <2>1, <1>1 DEF Live, NotLive, TrackerInv, TrackerTypeOK
  <2>4. stopped' \in {"no", "free_of_unknown"}
    BY <1>1, <1>5 DEF OsFree
  <2> QED BY <2>2, <2>3, <2>4, <1>2, <1>3 DEF Gave, MemoryInv
<1> QED BY <1>4, <1>5

(* A part of a sum of natural numbers is not more than the sum.             *)
LEMMA TotalPart ==
  ASSUME NEW f, NEW U, IsFiniteSet(U), \A x \in U : f[x] \in Nat, NEW V \in SUBSET U
  PROVE  Total(f, V) <= Total(f, U)
<1>1. Integral(f, U) /\ Integral(f, V)
  BY DEF Integral
<1>2. PICK g : Adds(f, U, g)
  BY <1>1, AddsExists
<1>3. \A W \in SUBSET U : IsFiniteSet(W)
  BY FS_Subset
<1>4. \A W \in SUBSET U : g[W] \in Int
  BY <1>2 DEF Adds
<1> DEFINE Good(n) == \A W \in SUBSET U : Cardinality(W) = n => g[U \ W] <= g[U]
           S == {n \in Nat : Good(n)}
<1>5. 0 \in S
  <2> SUFFICES ASSUME NEW W \in SUBSET U, Cardinality(W) = 0 PROVE g[U \ W] <= g[U]
    OBVIOUS
  <2>1. W = {}
    BY <1>3, FS_EmptySet
  <2>2. U \ W = U
    BY <2>1
  <2>3. g[U] \in Int
    <3>1. U \in SUBSET U
      OBVIOUS
    <3> QED BY <3>1, <1>4
  <2> QED BY <2>2, <2>3
<1>6. ASSUME NEW n \in Nat, n \in S PROVE n + 1 \in S
  <2> SUFFICES ASSUME NEW W \in SUBSET U, Cardinality(W) = n + 1 PROVE g[U \ W] <= g[U]
    <3>1. n + 1 \in Nat
      OBVIOUS
    <3> QED BY <3>1
  <2>1. PICK x \in W : TRUE
    BY <1>3, FS_EmptySet
  <2> DEFINE X == W \ {x}
  <2>2. Cardinality(X) = n /\ X \in SUBSET U
    <3>1. Cardinality(X) = Cardinality(W) - 1
      BY <2>1, <1>3, FS_RemoveElement, Zenon
    <3> QED BY <3>1
  <2>3. g[U \ X] <= g[U]
    BY <2>2, <1>6
  <2>4. x \in U \ X /\ (U \ X) \ {x} = U \ W /\ U \ X \in SUBSET U /\ U \ W \in SUBSET U
    BY <2>1
  <2>5. g[U \ X] = f[x] + g[(U \ X) \ {x}]
    BY <2>4, <1>2 DEF Adds
  <2>6. f[x] \in Nat /\ g[U \ X] \in Int /\ g[U \ W] \in Int /\ g[U] \in Int
    <3>1. U \in SUBSET U
      OBVIOUS
    <3> QED BY <3>1, <2>4, <1>4
  <2> HIDE DEF X
  <2>7. g[U \ X] = f[x] + g[U \ W]
    BY <2>4, <2>5
  <2> QED BY <2>3, <2>6, <2>7
<1>7. \A n \in Nat : n \in S
  <2> HIDE DEF S
  <2> QED BY <1>5, <1>6, Induction
<1>8. g[V] <= g[U]
  <2>1. U \ V \in SUBSET U /\ U \ (U \ V) = V
    OBVIOUS
  <2>2. Good(Cardinality(U \ V))
    BY <2>1, <1>3, <1>7, FS_CardinalityType
  <2> QED BY <2>1, <2>2
<1>9. Adds(f, V, g)
  BY <1>2, AddsSame
<1> QED BY <1>2, <1>3, <1>8, <1>9, TotalIs

\* What the calls that gave the blocks of bs back did.
GaveAll(bs) == MemoryInv' /\ Live' = Live \ bs /\ stopped' = stopped

LEMMA GivesAll ==
  ASSUME MemoryInv, Running, NEW bs, OsFreeAll(bs)
  PROVE  GaveAll(bs)
<1>1. TrackerInv /\ stopped = "no" /\ LimitKept
  BY DEF MemoryInv, Running
<1>2. /\ live' = [b \in Block |-> IF b \in bs THEN NotLive ELSE live[b]]
      /\ table' = [i \in Slot |-> IF table[i].ptr \in bs THEN EmptySlot ELSE table[i]]
      /\ stopped' = stopped
  BY DEF OsFreeAll
<1>3. Live' = Live \ bs
  BY <1>2 DEF Live
<1>4. TrackerTypeOK'
  BY <1>1, <1>2 DEF TrackerInv, TrackerTypeOK, EmptySlot, Slot
<1>5. TrackerInv'
  <2> USE TrackerAssumption
  <2>1. \A i \in Slot : /\ table[i].ptr \in bs => table'[i].ptr = NULL /\ table'[i].size = 0
                        /\ table[i].ptr \notin bs => table'[i] = table[i]
    BY <1>2 DEF EmptySlot
  <2>2. \A i, j \in Slot : table'[i].ptr = table'[j].ptr /\ table'[i].ptr # NULL => i = j
    BY <2>1, <1>1 DEF TrackerInv, TrackerExact
  <2>3. \A i \in Slot : table'[i].ptr = NULL => table'[i].size = 0
    BY <2>1, <1>1 DEF TrackerInv, TrackerExact
  <2>4. \A i \in Slot : table'[i].ptr # NULL => live'[table'[i].ptr] = table'[i].size
    BY <2>1, <1>1, <1>2 DEF TrackerInv, TrackerExact, TrackerTypeOK
  <2>5. \A b \in Live' : Tracked(b)' # {}
    <3> SUFFICES ASSUME NEW b \in Live' PROVE \E i \in Slot : table'[i].ptr = b
      BY DEF Tracked
    <3>1. b \in Live /\ b \notin bs
      BY <1>3
    <3>2. PICK i \in Slot : table[i].ptr = b
      BY <3>1, <1>1 DEF TrackerInv, TrackerExact, Tracked
    <3> QED BY <3>1, <3>2, <2>1
  <2> QED BY <1>4, <2>2, <2>3, <2>4, <2>5 DEF TrackerInv, TrackerExact
<1>6. LimitKept'
  <2>1. IsFiniteSet(Live)
    BY <1>1, LiveIsFinite
  <2>2. \A b \in Live : live[b] \in Nat
    BY <1>1 DEF TrackerInv, TrackerTypeOK, Live
  <2>3. Live' \in SUBSET Live /\ \A b \in Live' : live'[b] = live[b]
    BY <1>2, <1>3 DEF Live
  <2>4. Total(live, Live') <= Total(live, Live)
    BY <2>1, <2>2, <2>3, TotalPart
  <2>5. IsFiniteSet(Live') /\ Integral(live, Live') /\ Integral(live, Live)
    BY <2>1, <2>2, <2>3, FS_Subset DEF Integral
  <2>6. Total(live', Live') = Total(live, Live') /\ Total(live, Live') \in Int
    BY <2>3, <2>5, TotalSame
  <2>7. Total(live, Live) \in Int
    BY <2>1, <2>5, TotalSame
  <2> QED BY <2>4, <2>6, <2>7, <1>1, LimitIs, LimitIsThen, TrackerAssumption
<1> QED BY <1>2, <1>3, <1>5, <1>6 DEF GaveAll, MemoryInv

------------------------------------------------------------------------------
(* The invariant.  Its parts speak of the calls still to make, in whatever   *)
(* order; OrderInv says that the order is one that Follows allows.           *)

Rest == CallsOf(todo)
Loaded == Run \in Rest /\ Create \notin Rest
Started == Loaded /\ InitGlobals \notin Rest
Is(h) == at[h] \in Live /\ holds[at[h]].for = h

OrderInv == Ordered(todo, Rest)

\* The types of what TypeOK leaves open.
ShapeInv ==
  /\ TypeOK
  /\ holds = [b \in Block |-> holds[b]]
  /\ vm = [state |-> vm.state, code |-> vm.code, pc |-> vm.pc] /\ vm.pc \in Nat
  /\ \A n \in names : n.node \in Block

\* A pointer that is going to be used or freed leads to a block of its own.
StackHeld == at["stack"] # NULL => Is("stack")
GlobalsHeld == at["globals"] # NULL => Is("globals")
BodyHeld == at["body"] # NULL => Is("body")
LefHeld == HasLef(Rest) /\ Alloc("lef") \notin Rest /\ at["lef"] # NULL => Is("lef")
EntryHeld == names # {} => Alloc("entry") \in Rest \/ Is("entry")
NodesHeld == \A n \in names : n.node \in Live /\ holds[n.node].for = "node"
ObjectsHeld == \A b \in objects : b \in Live /\ holds[b].for = "object"
VmHeld == Dealloc("vm") \in Rest /\ Dealloc("stack") \notin Rest => VmUsable

\* What the LEF structure describes is what the body holds and what was measured.
BodyMatches == Run \in Rest /\ Parsing \notin Rest /\ lef # "garbage" =>
                 at["body"] # NULL /\ holds[at["body"]] = [for |-> "body", prog |-> lef]
NoWayBack == Create \in Rest /\ Clean \notin Rest /\ Leaving \notin Rest =>
               Reading \in Rest \/ lef = "garbage"
CheckedIsGarbage == Checking \in Rest => Reading \in Rest \/ lef = "garbage"
Measured == Loaded => lef \in Program /\ sizes = [code |-> Len(CodeOf[lef]), globals |-> Len(GlobalsOf[lef])]
WayBack == Loaded => Clean \in Rest \/ Leaving \in Rest
StoresProgram == Rest \cap Stores # {} => lef \in Program \/ \E p \in Program : Receiving(p) \in Rest

\* The symbol table lives from its making to its cleaning, over one file.
NamesTime == names # {} => /\ Parsing \notin Rest /\ Create \notin Rest
                           /\ Clean \in Rest \/ Leaving \in Rest
NamesOfFile == Run \in Rest => \A n \in names : n.text = at["body"] /\ n.of = lef
EntryWanted == Alloc("entry") \in Rest => names # {} \/ \E c \in Rest : c.op = "intern"

\* The registers, the globals and the objects made while they were set up.
CodeIsBody == Started => vm.code = at["body"]
GlobalsThere == Started /\ vm.state = "VM_RUN" => at["globals"] # NULL
HaltIsOld == Started /\ vm.state = "VM_INIT_GLOBALS" /\ bc = "halt" => constants = {}
ConstantsKept == Started /\ (vm.state = "VM_RUN" \/ InitEnvironment \in Rest) => constants \subseteq objects
NotYetRunning == Started /\ InitEnvironment \in Rest => vm.state # "VM_RUN"

\* Every block that is allocated is somebody's.
LefOwned == HasLef(Rest) /\ Alloc("lef") \notin Rest
BodyOwned == HasBody(Rest) /\ Alloc("body") \notin Rest
EntryOwned == names # {} /\ Alloc("entry") \notin Rest
Owned(b) ==
  \/ b \in left \/ b \in objects \/ \E n \in names : b = n.node
  \/ b = at["vm"] \/ b = at["primitives"] \/ b = at["stack"] \/ b = at["pools"] \/ b = at["globals"]
  \/ b = at["entry"] /\ EntryOwned
  \/ b = at["lef"] /\ LefOwned
  \/ b = at["body"] /\ BodyOwned
AllOwned == \A b \in Live : Owned(b)

\* A pointer that is going to be set is not the only one to its block.
Unset == /\ Alloc("vm") \in Rest => at["vm"] = NULL
         /\ Primitives \in Rest => at["primitives"] = NULL
         /\ Alloc("pools") \in Rest => at["pools"] = NULL
         /\ Alloc("globals") \in Rest => at["globals"] = NULL
StackUnset == Alloc("stack") \in Rest /\ Dealloc("stack") \notin Rest => at["stack"] = NULL
GlobalsEnd == at["globals"] # NULL => Dealloc("globals") \in Rest \/ Leaving \in Rest

Held == /\ StackHeld /\ GlobalsHeld /\ BodyHeld /\ LefHeld
        /\ EntryHeld /\ NodesHeld /\ ObjectsHeld /\ VmHeld
FileInv == /\ BodyMatches /\ NoWayBack /\ CheckedIsGarbage /\ Measured /\ WayBack /\ StoresProgram
NamesInv == NamesTime /\ NamesOfFile /\ EntryWanted
RunInv == CodeIsBody /\ GlobalsThere /\ HaltIsOld /\ ConstantsKept /\ NotYetRunning
PointersInv == Unset /\ StackUnset /\ GlobalsEnd

Sound == Held /\ FileInv /\ NamesInv /\ RunInv /\ PointersInv

SessionInv == MemoryInv /\ ShapeInv /\ OrderInv /\ (Running => Sound)

------------------------------------------------------------------------------
(* What a step finds at the head of the row, and what it leaves.            *)

Passed(c) == Rest = {c} \cup Rest' /\ Follows(c, Rest') /\ OrderInv'

LEMMA Advances ==
  ASSUME OrderInv, todo # <<>>, todo' = Tail(todo)
  PROVE  Passed(Head(todo))
<1>1. PICK Q : Ordered(Tail(todo), Q) /\ Follows(Head(todo), Q) /\ Rest = {Head(todo)} \cup Q
  BY FromFront DEF OrderInv
<1>2. Q = Rest'
  BY <1>1 DEF Ordered, Rest
<1> QED BY <1>1, <1>2 DEF Passed, OrderInv

\* The calls of one name.
OfOp(c) ==
  /\ c.op = "alloc" => /\ c = Alloc(c.arg)
                       /\ c.arg \in {"vm", "pools", "lef", "body", "globals", "stack", "entry"}
  /\ c.op = "free" => /\ c = Dealloc(c.arg)
                      /\ c.arg \in {"body", "lef", "stack", "globals", "vm"}
  /\ c.op = "calloc" => c = Primitives
  /\ c.op = "receive" => c.arg \in Program /\ c = Receiving(c.arg)
  /\ c.op = "intern" => c = Interning(c.arg)
  /\ c.op \in {"vm_run", "create_symbol_table", "vm_init_globals", "vm_init_environment",
               "clean_symbol_table", "leave", "receive_body", "parse", "read_flash", "keep", "check_signature",
               "vm_init", "store_head", "store_body"} => c = Call(c.op)

LEMMA KnownOp ==
  ASSUME NEW c, Known(c)
  PROVE  OfOp(c)
<1>1. CASE c \in Boot
  BY <1>1 DEF OfOp, Boot
<1>2. CASE c \in Loading
  BY <1>2 DEF OfOp, Loading
<1>3. CASE c \in SetUp
  BY <1>3 DEF OfOp, SetUp
<1>4. CASE c \in Freeing
  BY <1>4 DEF OfOp, Freeing
<1>5. CASE c \in Restarting
  BY <1>5 DEF OfOp, Restarting
<1>6. CASE c \in Others
  BY <1>6 DEF OfOp, Others
<1>7. CASE c = Interning(c.arg)
  BY <1>7 DEF OfOp
<1> QED BY <1>1, <1>2, <1>3, <1>4, <1>5, <1>6, <1>7 DEF Known

(* The call that is being done.                                             *)
LEMMA Heads ==
  ASSUME OrderInv, todo # <<>>
  PROVE  OfOp(Head(todo))
<1>1. PICK Q : Follows(Head(todo), Q)
  BY FromFront DEF OrderInv
<1> QED BY <1>1, KnownOp DEF Follows

(* Taking a block.                                                          *)

\* b was taken for h, and nothing else happened to any block.
Filled(b, h) ==
  /\ Took(b) /\ holds'[b] = [for |-> h, prog |-> lef]
  /\ \A x \in Block : x # b => holds'[x] = holds[x]
  /\ holds' = [x \in Block |-> holds'[x]]

LEMMA Fills ==
  ASSUME SessionInv, Running, NEW b \in Memory, NEW h,
         OsMalloc(1, b) \/ OsCalloc(1, 1, b), Take(b, h)
  PROVE  Filled(b, h)
<1>1. Took(b)
  BY Takes DEF SessionInv
<1>2. b \in Block /\ holds = [x \in Block |-> holds[x]] /\ holds' = [holds EXCEPT ![b] = [for |-> h, prog |-> lef]]
  BY <1>1 DEF Took, SessionInv, ShapeInv, Take
<1> QED BY <1>1, <1>2 DEF Filled

\* The pointer h was set to b.
Pointed(h, b) == at'[h] = b /\ \A g \in Holder : g # h => at'[g] = at[g]

LEMMA Points ==
  ASSUME SessionInv, NEW h \in Holder, NEW b, at' = [at EXCEPT ![h] = b]
  PROVE  Pointed(h, b)
BY DEF SessionInv, ShapeInv, TypeOK, Pointed

LEMMA TakeBlockShape ==
  ASSUME SessionInv, TakeBlock \/ TakePrimitives
  PROVE  MemoryInv' /\ ShapeInv' /\ OrderInv'
<1>1. Running /\ todo # <<>> /\ Done
  BY DEF TakeBlock, TakePrimitives, Doing
<1>2. OfOp(Head(todo)) /\ OrderInv'
  BY <1>1, Heads, Advances DEF SessionInv, Done, Passed
<1>3. Arg \in Holder
  BY <1>2 DEF TakeBlock, TakePrimitives, Doing, OfOp, Arg, Holder
<1>4. PICK b \in Memory : (OsMalloc(1, b) \/ OsCalloc(1, 1, b)) /\ Take(b, Arg) /\ at' = [at EXCEPT ![Arg] = b]
  BY DEF TakeBlock, TakePrimitives
<1>5. Filled(b, Arg)
  BY <1>1, <1>4, Fills
<1>6. /\ MemoryInv' /\ b \in Block /\ stopped' \in {"no", "used_up"}
      /\ holds' = [x \in Block |-> holds'[x]]
  BY <1>5 DEF Filled, Took
<1>7. UNCHANGED <<vm, names, objects, lef, bc, sizes, left, constants, flash>>
  BY DEF TakeBlock, TakePrimitives
<1>8. TrackerTypeOK'
  BY <1>6 DEF MemoryInv, TrackerInv
<1>9. ShapeInv'
  BY <1>3, <1>4, <1>6, <1>7, <1>8 DEF SessionInv, ShapeInv, TypeOK
<1> QED BY <1>2, <1>6, <1>9

LEMMA TakeBlockSound ==
  ASSUME SessionInv, TakeBlock \/ TakePrimitives, Running'
  PROVE  Sound'
<1> DEFINE c == Head(todo)
           h == c.arg
<1>1. Running /\ todo # <<>> /\ Done /\ Sound
  BY DEF TakeBlock, TakePrimitives, Doing, SessionInv
<1>2. OfOp(c) /\ Rest = {c} \cup Rest' /\ Follows(c, Rest')
  BY <1>1, Heads, Advances DEF SessionInv, Done, Passed
<1>3. /\ c \in {Alloc(h), Primitives}
      /\ h \in {"vm", "primitives", "pools", "lef", "body", "globals", "stack", "entry"}
      /\ h = "primitives" <=> c = Primitives
  BY <1>2 DEF TakeBlock, TakePrimitives, Doing, OfOp
<1>4. PICK b \in Memory : (OsMalloc(1, b) \/ OsCalloc(1, 1, b)) /\ Take(b, h) /\ at' = [at EXCEPT ![h] = b]
  BY DEF TakeBlock, TakePrimitives, Arg
<1>5. Filled(b, h)
  BY <1>1, <1>4, Fills
<1>6. Pointed(h, b)
  BY <1>3, <1>4, Points DEF Holder
<1>7. /\ b \in Block /\ b # NULL /\ b \in Live' /\ holds'[b].for = h
      /\ \A x \in Live : x \in Live' /\ x # b /\ holds'[x] = holds[x]
  BY <1>5, TrackerAssumption DEF Filled, Took, Live
<1>8. /\ at'[h] = b
      /\ h # "vm" => at'["vm"] = at["vm"]
      /\ h # "primitives" => at'["primitives"] = at["primitives"]
      /\ h # "pools" => at'["pools"] = at["pools"]
      /\ h # "lef" => at'["lef"] = at["lef"]
      /\ h # "body" => at'["body"] = at["body"]
      /\ h # "globals" => at'["globals"] = at["globals"]
      /\ h # "stack" => at'["stack"] = at["stack"]
      /\ h # "entry" => at'["entry"] = at["entry"]
  BY <1>6 DEF Pointed, Holder
<1>9. UNCHANGED <<vm, names, objects, lef, bc, sizes, constants>>
  BY DEF TakeBlock, TakePrimitives
<1> HIDE DEF c, h
<1>10. Held'
  <2>1. StackHeld' /\ GlobalsHeld' /\ BodyHeld' /\ NodesHeld' /\ ObjectsHeld'
    BY <1>1, <1>3, <1>7, <1>8, <1>9
       DEF Sound, Held, StackHeld, GlobalsHeld, BodyHeld, NodesHeld, ObjectsHeld, Is
  <2>2. LefHeld'
    BY <1>1, <1>2, <1>3, <1>7, <1>8 DEF Sound, Held, LefHeld, HasLef, Is
  <2>3. EntryHeld'
    BY <1>1, <1>2, <1>3, <1>7, <1>8, <1>9 DEF Sound, Held, EntryHeld, Is
  <2>4. VmHeld'
    BY <1>2, <1>3 DEF Follows, VmHeld, Freeing
  <2> QED BY <2>1, <2>2, <2>3, <2>4 DEF Held
<1>11. /\ h \in {"vm", "primitives", "pools", "lef", "body", "stack"} => RunsCreated(Rest') /\ NoNames(Rest')
       /\ h \in {"lef", "body"} => Parsing \in Rest'
       /\ h = "entry" => NoNames(Rest')
       /\ h \in {"vm", "primitives", "pools", "globals", "stack"} => c \notin Rest'
       /\ h = "stack" => Dealloc("stack") \notin Rest'
       /\ h = "globals" => /\ NoFile(Rest') /\ Run \in Rest'
                           /\ Clean \in Rest' => Dealloc("globals") \in Rest'
  BY <1>2, <1>3 DEF Follows, Boot, Restarting, Loading, SetUp, RunsCreated
<1>12. FileInv'
  BY <1>1, <1>2, <1>3, <1>7, <1>8, <1>9, <1>11
     DEF Sound, Held, BodyHeld, Is, FileInv, BodyMatches, NoWayBack, CheckedIsGarbage, Measured,
         WayBack, StoresProgram, Loaded, Stores
<1>13. NamesInv'
  BY <1>1, <1>2, <1>3, <1>8, <1>9, <1>11
     DEF Sound, NamesInv, NamesTime, NamesOfFile, EntryWanted, NoNames
<1>14. RunInv'
  BY <1>1, <1>2, <1>3, <1>7, <1>8, <1>9, <1>11
     DEF Sound, RunInv, CodeIsBody, GlobalsThere, HaltIsOld, ConstantsKept, NotYetRunning,
         Started, Loaded, RunsCreated
<1>15. PointersInv'
  BY <1>1, <1>2, <1>3, <1>8, <1>11
     DEF Sound, FileInv, WayBack, Loaded, NoFile, PointersInv, Unset, StackUnset, GlobalsEnd
<1> QED BY <1>10, <1>12, <1>13, <1>14, <1>15 DEF Sound

(* No memory for a block.                                                   *)
LEMMA NoBlockKeeps ==
  ASSUME SessionInv, NoBlock
  PROVE  SessionInv'
<1> DEFINE c == Head(todo)
           h == c.arg
<1>1. Running /\ todo # <<>> /\ Done /\ Sound
  BY DEF NoBlock, Doing, SessionInv
<1>2. OfOp(c) /\ Rest = {c} \cup Rest' /\ Follows(c, Rest') /\ OrderInv'
  BY <1>1, Heads, Advances DEF SessionInv, Done, Passed
<1>3. /\ c = Alloc(h)
      /\ h \in {"vm", "pools", "lef", "body", "globals", "stack", "entry"}
  BY <1>2 DEF NoBlock, Doing, OfOp
<1>4. /\ at' = [at EXCEPT ![h] = NULL] /\ stopped' \in {"no", "panic"}
      /\ stopped' = "no" => h \notin {"entry", "pools"}
      /\ UNCHANGED <<table, live, holds, vm, names, objects, lef, bc, sizes, left, constants, flash>>
  BY <1>1 DEF NoBlock, Arg, Running
<1>5. Pointed(h, NULL)
  BY <1>3, <1>4, Points DEF Holder
<1>6. Live' = Live /\ MemoryInv'
  <2>1. TrackerInv' /\ Live' = Live
    BY <1>1, <1>4 DEF SessionInv, MemoryInv, TrackerInv, TrackerTypeOK, TrackerExact, Live, Tracked, Running
  <2>2. LimitKept'
    BY <1>4, <2>1, LimitIs, LimitIsThen DEF SessionInv, MemoryInv
  <2> QED BY <2>1, <2>2 DEF MemoryInv
<1>7. ShapeInv'
  BY <1>3, <1>4, <1>6 DEF SessionInv, ShapeInv, TypeOK, TrackerTypeOK, Holder, Slot
<1>8. ASSUME Running' PROVE Sound'
  <2>1. /\ at'[h] = NULL
        /\ h # "vm" => at'["vm"] = at["vm"]
        /\ at'["primitives"] = at["primitives"] /\ at'["pools"] = at["pools"]
        /\ h # "lef" => at'["lef"] = at["lef"]
        /\ h # "body" => at'["body"] = at["body"]
        /\ h # "globals" => at'["globals"] = at["globals"]
        /\ h # "stack" => at'["stack"] = at["stack"]
        /\ at'["entry"] = at["entry"]
        /\ h \in {"vm", "lef", "body", "globals", "stack"}
    BY <1>3, <1>4, <1>5, <1>8 DEF Pointed, Holder, Running
  <2>2. UNCHANGED <<holds, vm, names, objects, lef, bc, sizes, left, constants>>
    BY <1>4
  <2>3. NULL \notin Live
    BY TrackerAssumption DEF Live
  <2> HIDE DEF c, h
  <2>4. /\ h \in {"vm", "lef", "body", "stack"} => RunsCreated(Rest') /\ NoNames(Rest')
        /\ h \in {"lef", "body"} => Parsing \in Rest'
        /\ h \in {"vm", "globals", "stack"} => c \notin Rest'
        /\ h = "globals" => /\ NoFile(Rest') /\ Run \in Rest' /\ InitEnvironment \in Rest'
    BY <1>2, <1>3, <2>1 DEF Follows, Boot, Restarting, Loading, SetUp, RunsCreated
  <2>5. Held'
    <3>1. StackHeld' /\ GlobalsHeld' /\ BodyHeld' /\ NodesHeld' /\ ObjectsHeld'
      BY <1>1, <1>6, <2>1, <2>2
         DEF Sound, Held, StackHeld, GlobalsHeld, BodyHeld, NodesHeld, ObjectsHeld, Is
    <3>2. LefHeld'
      BY <1>1, <1>2, <1>3, <1>6, <2>1, <2>2 DEF Sound, Held, LefHeld, HasLef, Is
    <3>3. EntryHeld'
      BY <1>1, <1>2, <1>3, <1>6, <2>1, <2>2 DEF Sound, Held, EntryHeld, Is
    <3>4. VmHeld'
      BY <1>2, <1>3, <2>1 DEF Follows, VmHeld, Freeing
    <3> QED BY <3>1, <3>2, <3>3, <3>4 DEF Held
  <2>6. FileInv'
    BY <1>1, <1>2, <1>3, <2>1, <2>2, <2>4
       DEF Sound, Held, BodyHeld, Is, FileInv, BodyMatches, NoWayBack, CheckedIsGarbage, Measured,
           WayBack, StoresProgram, Loaded, Stores
  <2>7. NamesInv'
    BY <1>1, <1>2, <1>3, <2>1, <2>2, <2>4
       DEF Sound, NamesInv, NamesTime, NamesOfFile, EntryWanted, NoNames
  <2>8. RunInv'
    BY <1>1, <1>2, <1>3, <2>1, <2>2, <2>4
       DEF Sound, RunInv, CodeIsBody, GlobalsThere, HaltIsOld, ConstantsKept, NotYetRunning,
           Started, Loaded, RunsCreated, NoFile
  <2>9. PointersInv'
    BY <1>1, <1>2, <1>3, <2>1, <2>4 DEF Sound, PointersInv, Unset, StackUnset, GlobalsEnd
  <2> QED BY <2>5, <2>6, <2>7, <2>8, <2>9 DEF Sound
<1> QED BY <1>2, <1>6, <1>7, <1>8 DEF SessionInv

(* Giving a block back.                                                     *)
LEMMA GiveBlockKeeps ==
  ASSUME SessionInv, GiveBlock
  PROVE  SessionInv'
<1> DEFINE c == Head(todo)
           h == c.arg
<1>1. Running /\ todo # <<>> /\ Done /\ Sound
  BY DEF GiveBlock, Doing, SessionInv
<1>2. OfOp(c) /\ Rest = {c} \cup Rest' /\ Follows(c, Rest') /\ OrderInv'
  BY <1>1, Heads, Advances DEF SessionInv, Done, Passed
<1>3. c = Dealloc(h) /\ h \in {"body", "lef", "stack", "globals", "vm"}
  BY <1>2 DEF GiveBlock, Doing, OfOp
<1>4. /\ OsFree(at[h]) /\ (h \in {"stack", "globals"} => VmUsable)
      /\ at' = IF h \in {"vm", "lef", "entry"} THEN at ELSE [at EXCEPT ![h] = NULL]
      /\ UNCHANGED <<holds, vm, names, objects, lef, bc, sizes, left, constants, flash>>
  BY DEF GiveBlock, Arg
<1>5. at[h] \in Block \cup {NULL}
  BY <1>3 DEF SessionInv, ShapeInv, TypeOK, Holder
<1>6. Gave(at[h])
  BY <1>1, <1>4, <1>5, Gives DEF SessionInv
<1>7. ShapeInv'
  <2>1. at' \in [Holder -> Block \cup {NULL}]
    BY <1>3, <1>4 DEF SessionInv, ShapeInv, TypeOK
  <2>2. TrackerTypeOK' /\ stopped' \in {"no", "free_of_NULL", "free_of_unknown"}
    BY <1>6 DEF Gave, MemoryInv, TrackerInv
  <2> HIDE DEF c, h
  <2> QED BY <1>4, <2>1, <2>2 DEF SessionInv, ShapeInv, TypeOK
<1>8. ASSUME Running' PROVE Sound'
  <2>1. at[h] \in Live /\ Live' = Live \ {at[h]} /\ at[h] # NULL
    BY <1>6, <1>8, TrackerAssumption DEF Gave, Running, Live
  <2>2. /\ h \in {"body", "stack", "globals"} => at'[h] = NULL
        /\ at'["vm"] = at["vm"] /\ at'["lef"] = at["lef"] /\ at'["entry"] = at["entry"]
        /\ at'["primitives"] = at["primitives"] /\ at'["pools"] = at["pools"]
        /\ h # "body" => at'["body"] = at["body"]
        /\ h # "globals" => at'["globals"] = at["globals"]
        /\ h # "stack" => at'["stack"] = at["stack"]
    BY <1>3, <1>4 DEF SessionInv, ShapeInv, TypeOK, Holder
  <2>3. UNCHANGED <<holds, vm, names, objects, lef, bc, sizes, left, constants>>
    BY <1>4
  <2> HIDE DEF c, h
  <2>4. /\ Rest' \subseteq Freeing \cup Restarting \cup {Leaving}
        /\ h = "lef" => c \notin Rest'
        /\ h = "vm" => Dealloc("vm") \notin Rest' /\ Dealloc("stack") \notin Rest'
    BY <1>2, <1>3 DEF Follows, Freeing
  <2>5. holds[at[h]].for = h
    <3>1. CASE h \in {"body", "stack", "globals"}
      BY <1>1, <2>1, <3>1 DEF Sound, Held, BodyHeld, StackHeld, GlobalsHeld, Is
    <3>2. CASE h = "lef"
      <4>1. HasLef(Rest) /\ Alloc("lef") \notin Rest
        BY <1>2, <1>3, <2>4, <3>2 DEF HasLef, Freeing, Restarting
      <4> QED BY <1>1, <2>1, <3>2, <4>1 DEF Sound, Held, LefHeld, Is
    <3>3. CASE h = "vm"
      <4>1. Dealloc("vm") \in Rest /\ Dealloc("stack") \notin Rest
        BY <1>2, <1>3, <2>4, <3>3
      <4> QED BY <1>1, <2>1, <3>3, <4>1 DEF Sound, Held, VmHeld, VmUsable
    <3> QED BY <1>3, <3>1, <3>2, <3>3
  <2>6. \A x \in Live : holds[x].for # h => x \in Live' /\ holds'[x] = holds[x]
    BY <2>1, <2>3, <2>5
  <2>7. Run \notin Rest' /\ Create \notin Rest' /\ Checking \notin Rest' /\ Rest' \cap Stores = {}
        /\ Alloc("entry") \notin Rest' /\ Keeping \notin Rest'
    BY <2>4 DEF Freeing, Restarting, Stores
  <2>8. Held'
    <3>1. StackHeld' /\ GlobalsHeld' /\ BodyHeld'
      BY <1>1, <1>3, <2>2, <2>6 DEF Sound, Held, StackHeld, GlobalsHeld, BodyHeld, Is
    <3>2. NodesHeld' /\ ObjectsHeld'
      BY <1>1, <1>3, <2>3, <2>6 DEF Sound, Held, NodesHeld, ObjectsHeld
    <3>3. LefHeld'
      BY <1>1, <1>2, <1>3, <2>2, <2>4, <2>6, <2>7 DEF Sound, Held, LefHeld, HasLef, Is
    <3>4. EntryHeld'
      BY <1>1, <1>2, <1>3, <2>2, <2>3, <2>6 DEF Sound, Held, EntryHeld, Is
    <3>5. VmHeld'
      <4>1. CASE h = "vm"
        BY <2>4, <4>1 DEF VmHeld
      <4>2. CASE h \in {"stack", "globals"}
        BY <1>4, <2>1, <2>2, <2>3, <4>2 DEF VmHeld, VmUsable
      <4>3. CASE h \in {"body", "lef"}
        BY <1>1, <1>2, <1>3, <2>1, <2>2, <2>3, <4>3 DEF Sound, Held, VmHeld, VmUsable
      <4> QED BY <1>3, <4>1, <4>2, <4>3
    <3> QED BY <3>1, <3>2, <3>3, <3>4, <3>5 DEF Held
  <2>9. FileInv'
    BY <2>7 DEF FileInv, BodyMatches, NoWayBack, CheckedIsGarbage, Measured, WayBack,
       StoresProgram, Loaded
  <2>10. NamesInv'
    BY <1>1, <1>2, <1>3, <2>3, <2>7 DEF Sound, NamesInv, NamesTime, NamesOfFile, EntryWanted
  <2>11. RunInv'
    BY <2>7 DEF RunInv, CodeIsBody, GlobalsThere, HaltIsOld, ConstantsKept, NotYetRunning,
       Started, Loaded
  <2>12. PointersInv'
    BY <1>1, <1>2, <1>3, <2>2 DEF Sound, PointersInv, Unset, StackUnset, GlobalsEnd
  <2> QED BY <2>8, <2>9, <2>10, <2>11, <2>12 DEF Sound
<1> QED BY <1>2, <1>6, <1>7, <1>8 DEF SessionInv, Gave

(* Steps that leave the memory alone.                                       *)
LEMMA MemoryKept ==
  ASSUME SessionInv, Running, UNCHANGED <<table, live>>
  PROVE  MemoryInv' /\ Live' = Live
<1>1. TrackerInv' /\ Live' = Live
  BY DEF SessionInv, MemoryInv, TrackerInv, TrackerTypeOK, TrackerExact, Live, Tracked, Running
<1>2. LimitKept'
  BY <1>1, LimitIs, LimitIsThen DEF SessionInv, MemoryInv
<1> QED BY <1>1, <1>2 DEF MemoryInv

LEMMA ReceiveKeeps ==
  ASSUME SessionInv, Receive
  PROVE  SessionInv'
<1> DEFINE c == Head(todo)
<1>1. Running /\ todo # <<>> /\ Done /\ Sound
  BY DEF Receive, Doing, SessionInv
<1>2. OfOp(c) /\ Rest = {c} \cup Rest' /\ Follows(c, Rest') /\ OrderInv'
  BY <1>1, Heads, Advances DEF SessionInv, Done, Passed
<1>3. c = Receiving(c.arg) /\ c.arg \in Program
  BY <1>2 DEF Receive, Doing, OfOp
<1>4. /\ UNCHANGED <<table, live, at, holds, vm, names, objects, bc, sizes, left, constants, flash>>
      /\ stopped' \in {"exit", "no"} /\ lef' \in {lef, c.arg}
      /\ stopped' = "no" => lef' = c.arg
  BY <1>1 DEF Receive, Arg, Running
<1>5. MemoryInv' /\ Live' = Live
  BY <1>1, <1>4, MemoryKept
<1>6. ShapeInv'
  <2>1. TrackerTypeOK' /\ lef' \in Program \cup {"garbage", "none"}
    BY <1>3, <1>4, <1>5 DEF MemoryInv, TrackerInv, SessionInv, ShapeInv, TypeOK
  <2> HIDE DEF c
  <2> QED BY <1>4, <2>1 DEF SessionInv, ShapeInv, TypeOK
<1>7. ASSUME Running' PROVE Sound'
  <2> DEFINE p == c.arg
  <2>1. c = Receiving(p) /\ p \in Program /\ lef' = p
    BY <1>3, <1>4, <1>7 DEF Running
  <2> HIDE DEF c, p
  <2>2. /\ RunsCreated(Rest') /\ NoNames(Rest') /\ Parsing \in Rest' /\ Checking \notin Rest'
        /\ Create \in Rest' => Clean \in Rest' \/ Leaving \in Rest'
        /\ Dealloc("vm") \in Rest' => Dealloc("stack") \in Rest'
    BY <1>2, <2>1 DEF Follows, Loading, Freeing, RunsCreated
  <2>3. Held'
    <3>1. StackHeld' /\ GlobalsHeld' /\ BodyHeld' /\ NodesHeld' /\ ObjectsHeld'
      BY <1>1, <1>4, <1>5
         DEF Sound, Held, StackHeld, GlobalsHeld, BodyHeld, NodesHeld, ObjectsHeld, Is
    <3>2. LefHeld' /\ EntryHeld' /\ VmHeld'
      BY <1>1, <1>2, <1>4, <1>5, <2>1, <2>2 DEF Sound, Held, LefHeld, EntryHeld, VmHeld, HasLef, Is
    <3> QED BY <3>1, <3>2 DEF Held
  <2>4. FileInv'
    BY <2>1, <2>2 DEF FileInv, BodyMatches, NoWayBack, CheckedIsGarbage, Measured, WayBack,
       StoresProgram, Loaded, RunsCreated
  <2>5. NamesInv'
    BY <1>1, <1>2, <1>4, <2>1, <2>2 DEF Sound, NamesInv, NamesTime, NamesOfFile, EntryWanted
  <2>6. RunInv'
    BY <2>2 DEF RunInv, CodeIsBody, GlobalsThere, HaltIsOld, ConstantsKept, NotYetRunning,
       Started, Loaded, RunsCreated
  <2>7. PointersInv'
    BY <1>1, <1>2, <1>4, <2>1 DEF Sound, PointersInv, Unset, StackUnset, GlobalsEnd
  <2> QED BY <2>3, <2>4, <2>5, <2>6, <2>7 DEF Sound
<1> QED BY <1>2, <1>5, <1>6, <1>7 DEF SessionInv

(* The sizes of a stored file are read from the wrong places.               *)
LEMMA Misread == ~FieldsAgree
<1>1. "msize" \in DOMAIN StoredAt /\ ReadAt["msize"] = 7 /\ StoredAt["msize"] = 6
  BY DEF ReadAt, StoredAt
<1> QED BY <1>1 DEF FieldsAgree

LEMMA ReadHeadKeeps ==
  ASSUME SessionInv, ReadHead
  PROVE  SessionInv'
<1> DEFINE c == Head(todo)
<1>1. Running /\ todo # <<>> /\ Done /\ Sound
  BY DEF ReadHead, Doing, SessionInv
<1>2. OfOp(c) /\ Rest = {c} \cup Rest' /\ Follows(c, Rest') /\ OrderInv'
  BY <1>1, Heads, Advances DEF SessionInv, Done, Passed
<1>3. c = Reading
  BY <1>2 DEF ReadHead, Doing, OfOp
<1>4. /\ UNCHANGED <<table, live, stopped, at, holds, vm, names, objects, bc, sizes, left, constants, flash>>
      /\ lef' = "garbage"
  BY Misread DEF ReadHead, trackerVars
<1>5. MemoryInv' /\ Live' = Live
  BY <1>1, <1>4, MemoryKept
<1>6. ShapeInv'
  <2>1. TrackerTypeOK'
    BY <1>5 DEF MemoryInv, TrackerInv
  <2> QED BY <1>4, <2>1 DEF SessionInv, ShapeInv, TypeOK
<1>7. Sound'
  <2> HIDE DEF c
  <2>2. /\ RunsCreated(Rest') /\ NoNames(Rest') /\ Parsing \in Rest' /\ Rest' \cap Stores = {}
        /\ Dealloc("vm") \in Rest' => Dealloc("stack") \in Rest'
    BY <1>2, <1>3 DEF Follows, Loading, Freeing, RunsCreated
  <2>3. Held'
    <3>1. StackHeld' /\ GlobalsHeld' /\ BodyHeld' /\ NodesHeld' /\ ObjectsHeld'
      BY <1>1, <1>4, <1>5
         DEF Sound, Held, StackHeld, GlobalsHeld, BodyHeld, NodesHeld, ObjectsHeld, Is
    <3>2. LefHeld' /\ EntryHeld' /\ VmHeld'
      BY <1>1, <1>2, <1>3, <1>4, <1>5, <2>2 DEF Sound, Held, LefHeld, EntryHeld, VmHeld, HasLef, Is
    <3> QED BY <3>1, <3>2 DEF Held
  <2>4. FileInv'
    BY <1>4, <2>2 DEF FileInv, BodyMatches, NoWayBack, CheckedIsGarbage, Measured, WayBack,
       StoresProgram, Loaded, RunsCreated
  <2>5. NamesInv'
    BY <1>1, <1>2, <1>3, <1>4, <2>2 DEF Sound, NamesInv, NamesTime, NamesOfFile, EntryWanted
  <2>6. RunInv'
    BY <2>2 DEF RunInv, CodeIsBody, GlobalsThere, HaltIsOld, ConstantsKept, NotYetRunning,
       Started, Loaded, RunsCreated
  <2>7. PointersInv'
    BY <1>1, <1>2, <1>3, <1>4 DEF Sound, PointersInv, Unset, StackUnset, GlobalsEnd
  <2> QED BY <2>3, <2>4, <2>5, <2>6, <2>7 DEF Sound
<1> QED BY <1>2, <1>5, <1>6, <1>7 DEF SessionInv

LEMMA ParseKeeps ==
  ASSUME SessionInv, Parse
  PROVE  SessionInv'
<1> DEFINE c == Head(todo)
<1>1. Running /\ todo # <<>> /\ Done /\ Sound
  BY DEF Parse, Doing, SessionInv
<1>2. OfOp(c) /\ Rest = {c} \cup Rest' /\ Follows(c, Rest') /\ OrderInv'
  BY <1>1, Heads, Advances DEF SessionInv, Done, Passed
<1>3. c = Parsing
  BY <1>2 DEF Parse, Doing, OfOp
<1>4. /\ UNCHANGED <<table, live, stopped, at, vm, names, objects, lef, bc, sizes, left, constants, flash>>
      /\ at["body"] # NULL \/ lef = "garbage"
      /\ holds' = IF at["body"] = NULL THEN holds
                  ELSE [holds EXCEPT ![at["body"]] = [for |-> "body", prog |-> lef]]
  BY DEF Parse, trackerVars
<1>5. MemoryInv' /\ Live' = Live
  BY <1>1, <1>4, MemoryKept
<1>6. at["body"] # NULL => at["body"] \in Block /\ holds[at["body"]].for = "body"
  BY <1>1 DEF Sound, Held, BodyHeld, Is, Live
<1>7. /\ holds' = [b \in Block |-> holds'[b]]
      /\ \A b \in Block : holds'[b].for = holds[b].for
      /\ at["body"] # NULL => holds'[at["body"]] = [for |-> "body", prog |-> lef]
  BY <1>4, <1>6 DEF SessionInv, ShapeInv
<1>8. ShapeInv'
  <2>1. TrackerTypeOK'
    BY <1>5 DEF MemoryInv, TrackerInv
  <2> QED BY <1>4, <1>7, <2>1 DEF SessionInv, ShapeInv, TypeOK
<1>9. Sound'
  <2> HIDE DEF c
  <2>1. \A x \in Live : holds'[x].for = holds[x].for
    BY <1>7 DEF Live
  <2>2. /\ RunsCreated(Rest') /\ NoNames(Rest')
        /\ Dealloc("vm") \in Rest' => Dealloc("stack") \in Rest'
    BY <1>2, <1>3 DEF Follows, Loading, Freeing, RunsCreated
  <2>3. Held'
    <3>1. StackHeld' /\ GlobalsHeld' /\ BodyHeld' /\ NodesHeld' /\ ObjectsHeld'
      BY <1>1, <1>4, <1>5, <2>1
         DEF Sound, Held, StackHeld, GlobalsHeld, BodyHeld, NodesHeld, ObjectsHeld, Is
    <3>2. LefHeld' /\ EntryHeld' /\ VmHeld'
      BY <1>1, <1>2, <1>3, <1>4, <1>5, <2>1, <2>2
         DEF Sound, Held, LefHeld, EntryHeld, VmHeld, HasLef, Is
    <3> QED BY <3>1, <3>2 DEF Held
  <2>4. FileInv'
    BY <1>1, <1>2, <1>3, <1>4, <1>7, <2>2
       DEF Sound, FileInv, BodyMatches, NoWayBack, CheckedIsGarbage, Measured, WayBack,
           StoresProgram, Loaded, RunsCreated, Stores
  <2>5. NamesInv'
    BY <1>1, <1>2, <1>3, <1>4, <2>2 DEF Sound, NamesInv, NamesTime, NamesOfFile, EntryWanted
  <2>6. RunInv'
    BY <2>2 DEF RunInv, CodeIsBody, GlobalsThere, HaltIsOld, ConstantsKept, NotYetRunning,
       Started, Loaded, RunsCreated
  <2>7. PointersInv'
    BY <1>1, <1>2, <1>3, <1>4 DEF Sound, PointersInv, Unset, StackUnset, GlobalsEnd
  <2> QED BY <2>3, <2>4, <2>5, <2>6, <2>7 DEF Sound
<1> QED BY <1>2, <1>5, <1>8, <1>9 DEF SessionInv

(* Steps that only go on with the row.                                      *)
GoesOn(c) == c \in {Call("store_head"), Call("store_body"), Filling, Keeping, Run}

LEMMA RowGoesOn ==
  ASSUME SessionInv, Running, todo # <<>>, GoesOn(Head(todo)), todo' = Tail(todo),
         UNCHANGED <<table, live, stopped, at, holds, vm, names, objects, lef, bc, sizes, constants>>
  PROVE  MemoryInv' /\ OrderInv' /\ Sound'
<1> DEFINE c == Head(todo)
<1>1. Sound
  BY DEF SessionInv
<1>2. Rest = {c} \cup Rest' /\ Follows(c, Rest') /\ OrderInv'
  BY Advances DEF SessionInv, Passed
<1>3. MemoryInv' /\ Live' = Live
  BY MemoryKept
<1>4. c \in {Call("store_head"), Call("store_body"), Filling, Keeping, Run}
  BY DEF GoesOn
<1> HIDE DEF c
<1>5. Dealloc("vm") \in Rest' => Dealloc("stack") \in Rest'
  BY <1>2, <1>4 DEF Follows, Freeing
<1>6. Held'
  <2>1. StackHeld' /\ GlobalsHeld' /\ BodyHeld' /\ NodesHeld' /\ ObjectsHeld'
    BY <1>1, <1>3 DEF Sound, Held, StackHeld, GlobalsHeld, BodyHeld, NodesHeld, ObjectsHeld, Is
  <2>2. LefHeld' /\ EntryHeld' /\ VmHeld'
    BY <1>1, <1>2, <1>3, <1>4, <1>5 DEF Sound, Held, LefHeld, EntryHeld, VmHeld, HasLef, Is
  <2> QED BY <2>1, <2>2 DEF Held
<1>7. FileInv'
  <2>1. /\ c \notin {Create, Clean, Leaving, Reading, Parsing, Checking}
        /\ \A p \in Program : c # Receiving(p)
    BY <1>4
  <2>2. BodyMatches' /\ NoWayBack' /\ CheckedIsGarbage'
    BY <1>1, <1>2, <2>1 DEF Sound, FileInv, BodyMatches, NoWayBack, CheckedIsGarbage
  <2>3. Measured' /\ WayBack'
    BY <1>1, <1>2, <2>1 DEF Sound, FileInv, Measured, WayBack, Loaded
  <2>4. StoresProgram'
    BY <1>1, <1>2, <2>1 DEF Sound, FileInv, StoresProgram
  <2> QED BY <2>2, <2>3, <2>4 DEF FileInv
<1>8. NamesInv'
  BY <1>1, <1>2, <1>4 DEF Sound, NamesInv, NamesTime, NamesOfFile, EntryWanted
<1>9. RunInv'
  BY <1>1, <1>2, <1>4
     DEF Sound, RunInv, CodeIsBody, GlobalsThere, HaltIsOld, ConstantsKept, NotYetRunning,
         Started, Loaded
<1>10. PointersInv'
  BY <1>1, <1>2, <1>4 DEF Sound, PointersInv, Unset, StackUnset, GlobalsEnd
<1> QED BY <1>2, <1>3, <1>6, <1>7, <1>8, <1>9, <1>10 DEF Sound

LEMMA StoreKeeps ==
  ASSUME SessionInv, StoreHead \/ StoreBody
  PROVE  SessionInv'
<1>1. Running /\ todo # <<>> /\ Done /\ Sound
  BY DEF StoreHead, StoreBody, Doing, SessionInv
<1>2. OfOp(Head(todo)) /\ Rest = {Head(todo)} \cup Rest' /\ Follows(Head(todo), Rest')
  BY <1>1, Heads, Advances DEF SessionInv, Done, Passed
<1>3. Head(todo) \in {Call("store_head"), Call("store_body")}
  BY <1>2 DEF StoreHead, StoreBody, Doing, OfOp
<1>4. GoesOn(Head(todo))
  BY <1>3 DEF GoesOn
<1>5. UNCHANGED <<table, live, stopped, at, holds, vm, names, objects, lef, bc, sizes, constants, left>>
  BY DEF StoreHead, StoreBody, trackerVars, ram
<1>6. MemoryInv' /\ OrderInv' /\ Sound'
  BY <1>1, <1>4, <1>5, RowGoesOn DEF Done
<1>7. lef \in Program
  <2>1. Rest \cap Stores # {}
    BY <1>2, <1>3 DEF Stores
  <2>2. \A p \in Program : Receiving(p) \notin Rest
    BY <1>2, <1>3 DEF Follows, Stores, Loading
  <2> QED BY <1>1, <2>1, <2>2 DEF Sound, FileInv, StoresProgram
<1>8. flash' \in [{"head", "body"} -> Program \cup {"erased", "mixed"}]
  <2>1. flash \in [{"head", "body"} -> Program \cup {"erased", "mixed"}]
    BY DEF SessionInv, ShapeInv, TypeOK
  <2>2. \A old \in Program \cup {"erased", "mixed"} : Over(old, lef) \in Program \cup {"erased", "mixed"}
    BY <1>7 DEF Over
  <2> QED BY <2>1, <2>2 DEF StoreHead, StoreBody
<1>9. ShapeInv'
  <2>1. TrackerTypeOK'
    BY <1>6 DEF MemoryInv, TrackerInv
  <2> QED BY <1>5, <1>8, <2>1 DEF SessionInv, ShapeInv, TypeOK
<1> QED BY <1>6, <1>9 DEF SessionInv

LEMMA ReceiveBodyKeeps ==
  ASSUME SessionInv, ReceiveBody
  PROVE  SessionInv'
<1>1. Running /\ todo # <<>> /\ Done
  BY DEF ReceiveBody, Doing
<1>2. OfOp(Head(todo))
  BY <1>1, Heads DEF SessionInv
<1>3. GoesOn(Head(todo))
  BY <1>2 DEF ReceiveBody, Doing, OfOp, GoesOn
<1>4. /\ UNCHANGED <<table, live, stopped, at, holds, vm, names, objects, lef, bc, sizes, constants>>
      /\ UNCHANGED <<left, flash>>
  BY DEF ReceiveBody, trackerVars, ram
<1>5. MemoryInv' /\ OrderInv' /\ Sound'
  BY <1>1, <1>3, <1>4, RowGoesOn DEF Done
<1>6. ShapeInv'
  <2>1. TrackerTypeOK'
    BY <1>5 DEF MemoryInv, TrackerInv
  <2> QED BY <1>4, <2>1 DEF SessionInv, ShapeInv, TypeOK
<1> QED BY <1>5, <1>6 DEF SessionInv

LEMMA KeepKeeps ==
  ASSUME SessionInv, Keep
  PROVE  SessionInv'
<1>1. Running /\ todo # <<>> /\ Done /\ Sound
  BY DEF Keep, Doing, SessionInv
<1>2. OfOp(Head(todo))
  BY <1>1, Heads DEF SessionInv
<1>3. GoesOn(Head(todo))
  BY <1>2 DEF Keep, Doing, OfOp, GoesOn
<1>4. /\ UNCHANGED <<table, live, stopped, at, holds, vm, names, objects, lef, bc, sizes, constants>>
      /\ left' = left \cup LefBlocks /\ UNCHANGED flash
  BY DEF Keep, trackerVars
<1>5. MemoryInv' /\ OrderInv' /\ Sound'
  BY <1>1, <1>3, <1>4, RowGoesOn DEF Done
<1>6. ShapeInv'
  <2>1. TrackerTypeOK'
    BY <1>5 DEF MemoryInv, TrackerInv
  <2>2. LefBlocks \subseteq Block
    BY DEF LefBlocks, SessionInv, ShapeInv, TypeOK, Holder
  <2> QED BY <1>4, <2>1, <2>2 DEF SessionInv, ShapeInv, TypeOK
<1> QED BY <1>5, <1>6 DEF SessionInv

LEMMA ReturnKeeps ==
  ASSUME SessionInv, Return
  PROVE  SessionInv'
<1>1. Running /\ todo # <<>> /\ Done /\ Sound
  BY DEF Return, Doing, SessionInv
<1>2. OfOp(Head(todo))
  BY <1>1, Heads DEF SessionInv
<1>3. GoesOn(Head(todo))
  BY <1>2 DEF Return, Doing, OfOp, GoesOn
<1>4. UNCHANGED <<table, live, stopped, at, holds, vm, names, objects, lef, bc, sizes, constants, left, flash>>
  BY DEF Return, trackerVars, ram
<1>5. MemoryInv' /\ OrderInv' /\ Sound'
  BY <1>1, <1>3, <1>4, RowGoesOn DEF Done
<1>6. ShapeInv'
  <2>1. TrackerTypeOK'
    BY <1>5 DEF MemoryInv, TrackerInv
  <2> QED BY <1>4, <2>1 DEF SessionInv, ShapeInv, TypeOK
<1> QED BY <1>5, <1>6 DEF SessionInv

(* Steps that end the session.                                              *)
LEMMA EndKeeps ==
  ASSUME SessionInv, Leave \/ Fault
  PROVE  SessionInv'
<1>1. Running /\ todo # <<>>
  BY DEF Leave, Fault, Doing
<1>2. UNCHANGED <<table, live, at, holds, vm, names, objects, lef, bc, sizes, constants, left, flash>>
  BY DEF Leave, Fault, ram
<1>3. stopped' \in {"exit", "panic", "fault"}
  BY DEF Leave, Fault
<1>4. MemoryInv'
  BY <1>1, <1>2, MemoryKept
<1>5. OrderInv'
  <2>1. CASE todo' = todo
    BY <2>1 DEF SessionInv, OrderInv, Rest
  <2>2. CASE todo' = Tail(todo)
    BY <1>1, <2>2, Advances DEF SessionInv, Passed
  <2> QED BY <2>1, <2>2 DEF Leave, Fault, Done
<1>6. ShapeInv'
  <2>1. TrackerTypeOK'
    BY <1>4 DEF MemoryInv, TrackerInv
  <2> QED BY <1>2, <1>3, <2>1 DEF SessionInv, ShapeInv, TypeOK
<1> QED BY <1>3, <1>4, <1>5, <1>6 DEF SessionInv, Running

(* animula_start goes on with the file of the flash, or with the shell.     *)
LEMMA CheckSignatureKeeps ==
  ASSUME SessionInv, CheckSignature
  PROVE  SessionInv'
<1>1. Running /\ todo # <<>> /\ Sound
  BY DEF CheckSignature, Doing, SessionInv
<1>2. PICK Q : Follows(Head(todo), Q) /\ Rest = {Head(todo)} \cup Q
  BY <1>1, FromFront DEF SessionInv, OrderInv
<1>3. Head(todo) = Checking
  BY <1>1, Heads DEF CheckSignature, Doing, OfOp, SessionInv
<1>4. Rest = {Checking}
  BY <1>2, <1>3 DEF Follows
<1>5. /\ UNCHANGED <<table, live, stopped, at, holds, vm, names, objects, lef, bc, sizes, constants, flash>>
      /\ left' \in {left, left \cup LefBlocks}
  BY DEF CheckSignature, trackerVars
<1>6. MemoryInv' /\ Live' = Live
  BY <1>1, <1>5, MemoryKept
<1>7. lef = "garbage" /\ names = {} /\ at["globals"] = NULL
  BY <1>1, <1>4 DEF Sound, FileInv, CheckedIsGarbage, NamesInv, NamesTime, PointersInv, GlobalsEnd
<1>8. \/ OrderInv' /\ Rest' = LoadCalls \cup FreeCalls \cup {Leaving}
      \/ OrderInv' /\ Rest' = {}
  <2>1. CASE flash.head # "erased"
    <3>1. todo' = LoadAndRun \o FreeLef \o << Leaving >>
      BY <2>1 DEF CheckSignature
    <3>2. Ordered(todo', LoadCalls \cup FreeCalls \cup {Leaving})
      BY <3>1, RunAndLeaveOrdered
    <3>3. Rest' = LoadCalls \cup FreeCalls \cup {Leaving}
      BY <3>2 DEF Ordered, Rest
    <3> QED BY <3>2, <3>3 DEF OrderInv
  <2>2. CASE flash.head = "erased"
    <3>1. todo' = <<>>
      BY <2>2 DEF CheckSignature
    <3>2. Rest' = {}
      BY <3>1, NoCalls DEF Ordered, Rest
    <3> QED BY <3>1, <3>2, NoCalls DEF OrderInv
  <2> QED BY <2>1, <2>2
<1>9. ShapeInv'
  <2>1. TrackerTypeOK'
    BY <1>6 DEF MemoryInv, TrackerInv
  <2>2. LefBlocks \subseteq Block
    BY DEF LefBlocks, SessionInv, ShapeInv, TypeOK, Holder
  <2> QED BY <1>5, <2>1, <2>2 DEF SessionInv, ShapeInv, TypeOK
<1>10. /\ Parsing \notin Rest' /\ Checking \notin Rest' /\ (Run \in Rest' => Create \in Rest')
       /\ (Create \in Rest' => Leaving \in Rest') /\ Dealloc("vm") \notin Rest'
       /\ Rest' \cap Stores = {} /\ Alloc("entry") \notin Rest'
       /\ Alloc("stack") \notin Rest'
       /\ Rest' \cap Boot = {} /\ Alloc("lef") \notin Rest'
  BY <1>8 DEF LoadCalls, FreeCalls, Boot, Stores
<1>11. Sound'
  <2>1. Held'
    <3>1. StackHeld' /\ GlobalsHeld' /\ BodyHeld' /\ NodesHeld' /\ ObjectsHeld' /\ EntryHeld'
      BY <1>1, <1>5, <1>6, <1>7
         DEF Sound, Held, StackHeld, GlobalsHeld, BodyHeld, NodesHeld, ObjectsHeld, EntryHeld, Is
    <3>2. LefHeld'
      BY <1>1, <1>4, <1>5, <1>6 DEF Sound, Held, LefHeld, HasLef, Is
    <3>3. VmHeld'
      BY <1>10 DEF VmHeld
    <3> QED BY <3>1, <3>2, <3>3 DEF Held
  <2>2. FileInv'
    BY <1>5, <1>7, <1>10
       DEF FileInv, BodyMatches, NoWayBack, CheckedIsGarbage, Measured, WayBack, StoresProgram, Loaded
  <2>3. NamesInv'
    BY <1>5, <1>7, <1>10 DEF NamesInv, NamesTime, NamesOfFile, EntryWanted
  <2>4. RunInv'
    BY <1>10 DEF RunInv, CodeIsBody, GlobalsThere, HaltIsOld, ConstantsKept, NotYetRunning,
       Started, Loaded
  <2>5. PointersInv'
    BY <1>5, <1>7, <1>10 DEF PointersInv, Unset, StackUnset, GlobalsEnd, Boot
  <2> QED BY <2>1, <2>2, <2>3, <2>4, <2>5 DEF Sound
<1> QED BY <1>6, <1>8, <1>9, <1>11 DEF SessionInv

LEMMA VmInitialiseKeeps ==
  ASSUME SessionInv, VmInitialise
  PROVE  SessionInv'
<1> DEFINE c == Head(todo)
<1>1. Running /\ todo # <<>> /\ Done /\ Sound
  BY DEF VmInitialise, Doing, SessionInv
<1>2. OfOp(c) /\ Rest = {c} \cup Rest' /\ Follows(c, Rest') /\ OrderInv'
  BY <1>1, Heads, Advances DEF SessionInv, Done, Passed
<1>3. c = VmIniting
  BY <1>2 DEF VmInitialise, Doing, OfOp
<1>4. /\ UNCHANGED <<table, live, stopped, holds, names, objects, lef, bc, sizes, left, constants, flash>>
      /\ at' = [at EXCEPT !["stack"] = NULL, !["globals"] = NULL]
      /\ vm' = [vm EXCEPT !.state = "VM_RUN", !.code = NULL, !.pc = 0]
  BY DEF VmInitialise, trackerVars
<1>5. MemoryInv' /\ Live' = Live
  BY <1>1, <1>4, MemoryKept
<1>6. /\ at'["stack"] = NULL /\ at'["globals"] = NULL
      /\ at'["vm"] = at["vm"] /\ at'["lef"] = at["lef"] /\ at'["body"] = at["body"]
      /\ at'["entry"] = at["entry"] /\ at'["primitives"] = at["primitives"]
      /\ at'["pools"] = at["pools"]
  BY <1>4 DEF SessionInv, ShapeInv, TypeOK, Holder
<1>7. ShapeInv'
  <2>1. TrackerTypeOK'
    BY <1>5 DEF MemoryInv, TrackerInv
  <2>2. vm' = [state |-> "VM_RUN", code |-> NULL, pc |-> 0]
    BY <1>4 DEF SessionInv, ShapeInv
  <2>3. at' \in [Holder -> Block \cup {NULL}]
    BY <1>4 DEF SessionInv, ShapeInv, TypeOK
  <2>4. UNCHANGED <<stopped, holds, names, objects, lef, left, constants, flash>>
    BY <1>4
  <2>5. TypeOK'
    BY <2>1, <2>2, <2>3, <2>4 DEF SessionInv, ShapeInv, TypeOK
  <2>6. vm' = [state |-> vm'.state, code |-> vm'.code, pc |-> vm'.pc] /\ vm'.pc \in Nat
    BY <2>2
  <2> QED BY <2>4, <2>5, <2>6 DEF SessionInv, ShapeInv
<1>8. Sound'
  <2> HIDE DEF c
  <2>1. /\ RunsCreated(Rest') /\ NoNames(Rest')
        /\ Dealloc("vm") \in Rest' => Dealloc("stack") \in Rest'
    BY <1>2, <1>3 DEF Follows, Restarting, Freeing, RunsCreated
  <2>2. Held'
    <3>1. StackHeld' /\ GlobalsHeld' /\ BodyHeld' /\ NodesHeld' /\ ObjectsHeld'
      BY <1>1, <1>4, <1>5, <1>6
         DEF Sound, Held, StackHeld, GlobalsHeld, BodyHeld, NodesHeld, ObjectsHeld, Is
    <3>2. LefHeld' /\ EntryHeld' /\ VmHeld'
      BY <1>1, <1>2, <1>3, <1>4, <1>5, <1>6, <2>1
         DEF Sound, Held, LefHeld, EntryHeld, VmHeld, HasLef, Is
    <3> QED BY <3>1, <3>2 DEF Held
  <2>3. FileInv'
    BY <1>1, <1>2, <1>3, <1>4, <1>6, <2>1
       DEF Sound, FileInv, BodyMatches, NoWayBack, CheckedIsGarbage, Measured, WayBack,
           StoresProgram, Loaded, RunsCreated, Stores
  <2>4. NamesInv'
    BY <1>1, <1>2, <1>3, <1>4, <1>6 DEF Sound, NamesInv, NamesTime, NamesOfFile, EntryWanted
  <2>5. RunInv'
    BY <2>1 DEF RunInv, CodeIsBody, GlobalsThere, HaltIsOld, ConstantsKept, NotYetRunning,
       Started, Loaded, RunsCreated
  <2>6. PointersInv'
    BY <1>1, <1>2, <1>3, <1>6 DEF Sound, PointersInv, Unset, StackUnset, GlobalsEnd
  <2> QED BY <2>2, <2>3, <2>4, <2>5, <2>6 DEF Sound
<1> QED BY <1>2, <1>5, <1>7, <1>8 DEF SessionInv

LEMMA VmInitGlobalsKeeps ==
  ASSUME SessionInv, VmInitGlobals
  PROVE  SessionInv'
<1> DEFINE c == Head(todo)
<1>1. Running /\ todo # <<>> /\ Done /\ Sound
  BY DEF VmInitGlobals, Doing, SessionInv
<1>2. OfOp(c) /\ Rest = {c} \cup Rest' /\ Follows(c, Rest') /\ OrderInv'
  BY <1>1, Heads, Advances DEF SessionInv, Done, Passed
<1>3. c = InitGlobals
  BY <1>2 DEF VmInitGlobals, Doing, OfOp
<1>4. /\ UNCHANGED <<table, live, stopped, at, holds, names, objects, lef, bc, sizes, left, flash>>
      /\ vm' = [state |-> "VM_INIT_GLOBALS", code |-> at["body"], pc |-> 0]
      /\ constants' = {}
  BY DEF VmInitGlobals, trackerVars
<1>5. MemoryInv' /\ Live' = Live
  BY <1>1, <1>4, MemoryKept
<1>6. ShapeInv'
  <2>1. TrackerTypeOK'
    BY <1>5 DEF MemoryInv, TrackerInv
  <2>2. at["body"] \in Block \cup {NULL}
    BY DEF SessionInv, ShapeInv, TypeOK, Holder
  <2> QED BY <1>4, <2>1, <2>2 DEF SessionInv, ShapeInv, TypeOK
<1>7. Sound'
  <2> HIDE DEF c
  <2>1. NoFile(Rest') /\ (Dealloc("vm") \in Rest' => Dealloc("stack") \in Rest')
    BY <1>2, <1>3 DEF Follows, SetUp, Freeing
  <2>2. Held'
    <3>1. StackHeld' /\ GlobalsHeld' /\ BodyHeld' /\ NodesHeld' /\ ObjectsHeld'
      BY <1>1, <1>4, <1>5
         DEF Sound, Held, StackHeld, GlobalsHeld, BodyHeld, NodesHeld, ObjectsHeld, Is
    <3>2. LefHeld' /\ EntryHeld' /\ VmHeld'
      BY <1>1, <1>2, <1>3, <1>4, <1>5, <2>1
         DEF Sound, Held, LefHeld, EntryHeld, VmHeld, HasLef, Is
    <3> QED BY <3>1, <3>2 DEF Held
  <2>3. FileInv'
    BY <1>1, <1>2, <1>3, <1>4
       DEF Sound, FileInv, BodyMatches, NoWayBack, CheckedIsGarbage, Measured, WayBack,
           StoresProgram, Loaded, Stores
  <2>4. NamesInv'
    BY <1>1, <1>2, <1>3, <1>4 DEF Sound, NamesInv, NamesTime, NamesOfFile, EntryWanted
  <2>5. RunInv'
    BY <1>4 DEF RunInv, CodeIsBody, GlobalsThere, HaltIsOld, ConstantsKept, NotYetRunning
  <2>6. PointersInv'
    BY <1>1, <1>2, <1>3, <1>4 DEF Sound, PointersInv, Unset, StackUnset, GlobalsEnd
  <2> QED BY <2>2, <2>3, <2>4, <2>5, <2>6 DEF Sound
<1> QED BY <1>2, <1>5, <1>6, <1>7 DEF SessionInv

LEMMA VmInitEnvironmentKeeps ==
  ASSUME SessionInv, VmInitEnvironment
  PROVE  SessionInv'
<1> DEFINE c == Head(todo)
<1>1. Running /\ todo # <<>> /\ Done /\ Sound
  BY DEF VmInitEnvironment, Doing, SessionInv
<1>2. OfOp(c) /\ Rest = {c} \cup Rest' /\ Follows(c, Rest') /\ OrderInv'
  BY <1>1, Heads, Advances DEF SessionInv, Done, Passed
<1>3. c = InitEnvironment
  BY <1>2 DEF VmInitEnvironment, Doing, OfOp
<1>4. /\ UNCHANGED <<table, live, stopped, at, holds, names, objects, lef, bc, sizes, left, constants, flash>>
      /\ vm' = [state |-> "VM_RUN", code |-> at["body"], pc |-> 0]
      /\ at["globals"] # NULL
  BY DEF VmInitEnvironment, trackerVars
<1>5. MemoryInv' /\ Live' = Live
  BY <1>1, <1>4, MemoryKept
<1>6. ShapeInv'
  <2>1. TrackerTypeOK'
    BY <1>5 DEF MemoryInv, TrackerInv
  <2>2. at["body"] \in Block \cup {NULL}
    BY DEF SessionInv, ShapeInv, TypeOK, Holder
  <2> QED BY <1>4, <2>1, <2>2 DEF SessionInv, ShapeInv, TypeOK
<1>7. Sound'
  <2> HIDE DEF c
  <2>1. /\ NoFile(Rest') /\ InitGlobals \notin Rest' /\ c \notin Rest'
        /\ Dealloc("vm") \in Rest' => Dealloc("stack") \in Rest'
    BY <1>2, <1>3 DEF Follows, SetUp, Freeing
  <2>2. Held'
    <3>1. StackHeld' /\ GlobalsHeld' /\ BodyHeld' /\ NodesHeld' /\ ObjectsHeld'
      BY <1>1, <1>4, <1>5
         DEF Sound, Held, StackHeld, GlobalsHeld, BodyHeld, NodesHeld, ObjectsHeld, Is
    <3>2. LefHeld' /\ EntryHeld' /\ VmHeld'
      BY <1>1, <1>2, <1>3, <1>4, <1>5, <2>1
         DEF Sound, Held, LefHeld, EntryHeld, VmHeld, HasLef, Is
    <3> QED BY <3>1, <3>2 DEF Held
  <2>3. FileInv'
    BY <1>1, <1>2, <1>3, <1>4
       DEF Sound, FileInv, BodyMatches, NoWayBack, CheckedIsGarbage, Measured, WayBack,
           StoresProgram, Loaded, Stores
  <2>4. NamesInv'
    BY <1>1, <1>2, <1>3, <1>4 DEF Sound, NamesInv, NamesTime, NamesOfFile, EntryWanted
  <2>5. RunInv'
    BY <1>1, <1>2, <1>3, <1>4, <2>1
       DEF Sound, RunInv, CodeIsBody, GlobalsThere, HaltIsOld, ConstantsKept, NotYetRunning,
           Started, Loaded
  <2>6. PointersInv'
    BY <1>1, <1>2, <1>3, <1>4 DEF Sound, PointersInv, Unset, StackUnset, GlobalsEnd
  <2> QED BY <2>2, <2>3, <2>4, <2>5, <2>6 DEF Sound
<1> QED BY <1>2, <1>5, <1>6, <1>7 DEF SessionInv

(* A name for the symbol table.                                             *)
LEMMA InternKeeps ==
  ASSUME SessionInv, Intern
  PROVE  SessionInv'
<1> DEFINE c == Head(todo)
<1>1. Running /\ todo # <<>> /\ Done /\ Sound
  BY DEF Intern, Doing, SessionInv
<1>2. OfOp(c) /\ Rest = {c} \cup Rest' /\ Follows(c, Rest') /\ OrderInv'
  BY <1>1, Heads, Advances DEF SessionInv, Done, Passed
<1>3. c = Interning(c.arg)
  BY <1>2 DEF Intern, Doing, OfOp
<1>4. PICK b \in Memory :
        /\ OsMalloc(1, b) /\ Take(b, "node")
        /\ names' = IF \E n \in names : n.name = Arg THEN names
                    ELSE names \cup {[name |-> Arg, of |-> lef, text |-> at["body"], node |-> b]}
  BY DEF Intern
<1>5. UNCHANGED <<at, vm, objects, lef, bc, sizes, left, constants, flash>>
  BY DEF Intern
<1>6. Filled(b, "node")
  BY <1>1, <1>4, Fills
<1>7. /\ b \in Block /\ b # NULL /\ b \in Live' /\ holds'[b].for = "node"
      /\ \A x \in Live : x \in Live' /\ x # b /\ holds'[x] = holds[x]
      /\ MemoryInv' /\ stopped' \in {"no", "used_up"}
      /\ holds' = [x \in Block |-> holds'[x]]
  BY <1>6, TrackerAssumption DEF Filled, Took, Live
<1>8. \A n \in names' : n \in names \/ (n.node = b /\ n.of = lef /\ n.text = at["body"])
  BY <1>4
<1>9. ShapeInv'
  <2>1. TrackerTypeOK'
    BY <1>7 DEF MemoryInv, TrackerInv
  <2>2. \A n \in names' : n.node \in Block
    BY <1>7, <1>8 DEF SessionInv, ShapeInv
  <2> QED BY <1>5, <1>7, <2>1, <2>2 DEF SessionInv, ShapeInv, TypeOK
<1>10. Sound'
  <2> DEFINE n0 == c.arg
  <2>1. c = Interning(n0)
    BY <1>3
  <2> HIDE DEF c, n0
  <2>2. /\ NoFile(Rest') /\ {Alloc("entry"), Run, InitGlobals} \subseteq Rest'
        /\ Dealloc("vm") \in Rest' => Dealloc("stack") \in Rest'
    BY <1>2, <2>1 DEF Follows, Freeing
  <2>3. Held'
    <3>1. StackHeld' /\ GlobalsHeld' /\ BodyHeld' /\ ObjectsHeld'
      BY <1>1, <1>5, <1>7 DEF Sound, Held, StackHeld, GlobalsHeld, BodyHeld, ObjectsHeld, Is
    <3>2. NodesHeld'
      BY <1>1, <1>7, <1>8 DEF Sound, Held, NodesHeld
    <3>3. LefHeld'
      BY <1>1, <1>2, <1>5, <1>7, <2>1 DEF Sound, Held, LefHeld, HasLef, Is
    <3>4. EntryHeld' /\ VmHeld'
      BY <2>2 DEF EntryHeld, VmHeld
    <3> QED BY <3>1, <3>2, <3>3, <3>4 DEF Held
  <2>4. FileInv'
    BY <1>1, <1>2, <1>5, <1>7, <2>1
       DEF Sound, Held, BodyHeld, Is, FileInv, BodyMatches, NoWayBack, CheckedIsGarbage, Measured,
           WayBack, StoresProgram, Loaded, Stores
  <2>5. NamesInv'
    <3>1. NamesTime'
      <4>1. Run \in Rest /\ Create \notin Rest
        BY <1>2, <2>1, <2>2 DEF NoFile
      <4>2. Clean \in Rest \/ Leaving \in Rest
        BY <1>1, <4>1 DEF Sound, FileInv, WayBack, Loaded
      <4> QED BY <1>2, <2>1, <2>2, <4>2 DEF NamesTime, NoFile, Loading
    <3>2. NamesOfFile'
      <4>1. Run \in Rest
        BY <1>2, <2>2
      <4> QED BY <1>1, <1>5, <1>8, <4>1 DEF Sound, NamesInv, NamesOfFile
    <3>3. EntryWanted'
      <4>1. names' # {}
        BY <1>4
      <4> QED BY <4>1 DEF EntryWanted
    <3> QED BY <3>1, <3>2, <3>3 DEF NamesInv
  <2>6. RunInv'
    BY <2>2 DEF RunInv, CodeIsBody, GlobalsThere, HaltIsOld, ConstantsKept, NotYetRunning, Started
  <2>7. PointersInv'
    BY <1>1, <1>2, <1>5, <2>1 DEF Sound, PointersInv, Unset, StackUnset, GlobalsEnd
  <2> QED BY <2>3, <2>4, <2>5, <2>6, <2>7 DEF Sound
<1> QED BY <1>2, <1>7, <1>9, <1>10 DEF SessionInv

(* The names of a program in front of what loads it.                        *)
Internings == {Interning(n) : n \in STRING}
EntryRow(p) == IF NamesOf[p] = <<>> THEN <<>> ELSE << Alloc("entry") >>

\* What create_symbol_table adds to the row R.
RowGrows(p, R, Q) ==
  \E A \in SUBSET Internings :
    \/ NamesOf[p] = <<>> /\ A = {} /\ Q = R
    \/ NamesOf[p] # <<>> /\ A # {} /\ Q = A \cup ({Alloc("entry")} \cup R)

LEMMA InternsAre ==
  ASSUME NEW p \in Program
  PROVE  /\ Interns(p) \in Seq(Internings) /\ Len(Interns(p)) = Len(NamesOf[p])
         /\ Len(NamesOf[p]) \in Nat
         /\ \A i \in 1 .. Len(NamesOf[p]) : Interns(p)[i] = Interning(NamesOf[p][i])
<1> DEFINE n == Len(NamesOf[p])
<1>1. NamesOf[p] \in Seq(STRING)
  BY SessionAssumption
<1>2. n \in Nat /\ \A i \in 1 .. n : NamesOf[p][i] \in STRING
  BY <1>1
<1>3. Interns(p) = [i \in 1 .. n |-> Interning(NamesOf[p][i])]
  BY DEF Interns
<1>4. \A i \in 1 .. n : Interning(NamesOf[p][i]) \in Internings
  BY <1>2 DEF Internings
<1> HIDE DEF n
<1>5. Interns(p) \in [1 .. n -> Internings]
  BY <1>3, <1>4
<1>6. Interns(p) \in Seq(Internings) /\ Len(Interns(p)) = n
  BY <1>2, <1>5
<1> QED BY <1>2, <1>3, <1>6 DEF n

LEMMA NamesRowOrdered ==
  ASSUME NEW p \in Program, NEW s, NEW R, Ordered(s, R), NoFile(R), NoNames(R), VmLast(R),
         {Run, InitGlobals} \subseteq R
  PROVE  \E Q : Ordered(Interns(p) \o EntryRow(p) \o s, Q) /\ RowGrows(p, R, Q)
<1> DEFINE a == Interns(p)
<1>1. a \in Seq(Internings) /\ Len(a) = Len(NamesOf[p]) /\ Len(a) \in Nat
  BY InternsAre
<1>2. NamesOf[p] \in Seq(STRING)
  BY SessionAssumption
<1> HIDE DEF a
<1>3. CASE NamesOf[p] = <<>>
  <2>1. a = <<>>
    BY <1>1, <1>3
  <2>2. s \in Seq(R)
    BY DEF Ordered
  <2>3. a \o EntryRow(p) \o s = s
    BY <1>3, <2>1, <2>2 DEF EntryRow
  <2>4. RowGrows(p, R, R)
    BY <1>3 DEF RowGrows
  <2> QED BY <2>3, <2>4 DEF a
<1>4. CASE NamesOf[p] # <<>>
  <2>1. PICK R1 : R1 = {Alloc("entry")} \cup R
    OBVIOUS
  <2>2. Ordered(<<Alloc("entry")>> \o s, R1)
    BY <2>1, TakeNames, InFront
  <2>3. NoFile(R1) /\ VmLast(R1) /\ {Alloc("entry"), Run, InitGlobals} \subseteq R1
    BY <2>1 DEF NoFile, VmLast, Loading
  <2>4. ASSUME NEW n \in STRING, NEW B \in SUBSET Internings
        PROVE  Follows(Interning(n), B \cup R1)
    <3>1. PICK R2 : R2 = B \cup R1
      OBVIOUS
    <3>2. /\ \A x \in Internings : x \notin Loading /\ x # Create /\ x # Dealloc("vm")
      BY DEF Internings, Loading
    <3>3. NoFile(R2) /\ VmLast(R2) /\ {Alloc("entry"), Run, InitGlobals} \subseteq R2
      BY <2>3, <3>1, <3>2 DEF NoFile, VmLast
    <3> QED BY <3>1, <3>3, MakeName
  <2>5. \A x \in Internings : \A B \in SUBSET Internings : Follows(x, B \cup R1)
    BY <2>4 DEF Internings
  <2>6. Ordered(a \o (<<Alloc("entry")>> \o s), CallsOf(a) \cup R1)
    BY <1>1, <2>2, <2>5, ManyInFront
  <2>7. CallsOf(a) # {} /\ CallsOf(a) \in SUBSET Internings
    <3>1. DOMAIN a = 1 .. Len(a) /\ \A i \in 1 .. Len(a) : a[i] \in Internings
      BY <1>1
    <3>2. Len(a) # 0
      BY <1>1, <1>2, <1>4
    <3>3. 1 \in DOMAIN a
      BY <1>1, <3>1, <3>2
    <3> QED BY <3>1, <3>3 DEF CallsOf
  <2>8. a \o <<Alloc("entry")>> \o s = a \o (<<Alloc("entry")>> \o s)
    <3> DEFINE S == Internings \cup {Alloc("entry")} \cup R
    <3>1. a \in Seq(S) /\ <<Alloc("entry")>> \in Seq(S) /\ s \in Seq(S)
      BY <1>1 DEF Ordered
    <3> HIDE DEF S
    <3>2. Grouped(a, <<Alloc("entry")>>, s)
      BY <3>1, Associates
    <3> QED BY <3>2 DEF Grouped
  <2>9. RowGrows(p, R, CallsOf(a) \cup R1)
    BY <1>4, <2>1, <2>7 DEF RowGrows
  <2> QED BY <1>4, <2>6, <2>8, <2>9 DEF EntryRow, a
<1> QED BY <1>3, <1>4

LEMMA CreateKeeps ==
  ASSUME SessionInv, CreateSymbolTable
  PROVE  SessionInv'
<1>1. Running /\ todo # <<>> /\ Sound /\ OfOp(Head(todo))
  BY Heads DEF CreateSymbolTable, Doing, SessionInv
<1>2. PICK R : Ordered(Tail(todo), R) /\ Follows(Head(todo), R) /\ Rest = {Head(todo)} \cup R
  BY <1>1, FromFront DEF SessionInv, OrderInv
<1>3. Head(todo) = Create
  BY <1>1 DEF CreateSymbolTable, Doing, OfOp
<1>4. /\ UNCHANGED <<table, live, stopped, at, holds, vm, names, objects, lef, bc, left, constants, flash>>
      /\ lef \in Program
      /\ sizes' = [code |-> Len(CodeOf[lef]), globals |-> Len(GlobalsOf[lef])]
      /\ todo' = Interns(lef) \o EntryRow(lef) \o Tail(todo)
  BY DEF CreateSymbolTable, trackerVars, EntryRow
<1>5. /\ Rest = {Create} \cup R /\ NoFile(R) /\ NoNames(R) /\ VmLast(R)
      /\ {Run, InitGlobals} \subseteq R
  BY <1>2, <1>3 DEF Follows, VmLast, Freeing
<1>6. PICK Q : Ordered(todo', Q) /\ RowGrows(lef, R, Q)
  BY <1>2, <1>4, <1>5, NamesRowOrdered
<1>7. Q = Rest' /\ OrderInv'
  BY <1>6 DEF Ordered, Rest, OrderInv
<1>8. PICK A \in SUBSET Internings : \/ A = {} /\ Rest' = R
                                     \/ A # {} /\ Rest' = A \cup ({Alloc("entry")} \cup R)
  BY <1>6, <1>7 DEF RowGrows
<1>9. \A x \in A : x.op = "intern"
  BY DEF Internings
<1>10. MemoryInv' /\ Live' = Live
  BY <1>1, <1>4, MemoryKept
<1>11. ShapeInv'
  <2>1. TrackerTypeOK'
    BY <1>10 DEF MemoryInv, TrackerInv
  <2> QED BY <1>4, <2>1 DEF SessionInv, ShapeInv, TypeOK
<1>12. /\ R \subseteq Rest'
       /\ \A x : x \in Rest' => x \in R \/ x.op = "intern" \/ x = Alloc("entry")
       /\ Alloc("entry") \in Rest' => \E x \in Rest' : x.op = "intern"
  BY <1>5, <1>8, <1>9 DEF NoNames
<1>13. names = {} /\ (Clean \in R \/ Leaving \in R)
  <2>1. Reading \notin Rest /\ lef # "garbage"
    BY <1>4, <1>5, SessionAssumption DEF NoFile, Loading
  <2>2. Clean \in Rest \/ Leaving \in Rest
    BY <1>1, <1>5, <2>1 DEF Sound, FileInv, NoWayBack
  <2> QED BY <1>1, <1>5, <2>2 DEF Sound, NamesInv, NamesTime
<1>14. Sound'
  <2>1. Held'
    <3>1. StackHeld' /\ GlobalsHeld' /\ BodyHeld' /\ NodesHeld' /\ ObjectsHeld'
      BY <1>1, <1>4, <1>10
         DEF Sound, Held, StackHeld, GlobalsHeld, BodyHeld, NodesHeld, ObjectsHeld, Is
    <3>2. LefHeld'
      BY <1>1, <1>4, <1>5, <1>10, <1>12 DEF Sound, Held, LefHeld, HasLef, Is
    <3>3. EntryHeld'
      BY <1>4, <1>13 DEF EntryHeld
    <3>4. VmHeld'
      BY <1>5, <1>12 DEF VmHeld, VmLast
    <3> QED BY <3>1, <3>2, <3>3, <3>4 DEF Held
  <2>2. FileInv'
    <3>1. BodyMatches'
      BY <1>1, <1>4, <1>5, <1>12 DEF Sound, FileInv, BodyMatches
    <3>2. NoWayBack' /\ CheckedIsGarbage' /\ StoresProgram'
      BY <1>1, <1>4, <1>5, <1>12, <1>13
         DEF Sound, FileInv, NoWayBack, CheckedIsGarbage, StoresProgram, Stores, NoFile
    <3>3. Measured' /\ WayBack'
      BY <1>4, <1>12, <1>13 DEF Measured, WayBack
    <3> QED BY <3>1, <3>2, <3>3 DEF FileInv
  <2>3. NamesInv'
    BY <1>4, <1>12, <1>13 DEF NamesInv, NamesTime, NamesOfFile, EntryWanted
  <2>4. RunInv'
    BY <1>5, <1>12 DEF RunInv, CodeIsBody, GlobalsThere, HaltIsOld, ConstantsKept, NotYetRunning,
       Started
  <2>5. PointersInv'
    BY <1>1, <1>4, <1>5, <1>12 DEF Sound, PointersInv, Unset, StackUnset, GlobalsEnd
  <2> QED BY <2>1, <2>2, <2>3, <2>4, <2>5 DEF Sound
<1> QED BY <1>7, <1>10, <1>11, <1>14 DEF SessionInv

(* Freeing the names.                                                       *)
LEMMA CleanKeeps ==
  ASSUME SessionInv, CleanSymbolTable
  PROVE  SessionInv'
<1> DEFINE c == Head(todo)
           bs == {n.node : n \in names} \cup {at["entry"]}
<1>1. Running /\ todo # <<>> /\ Done /\ Sound
  BY DEF CleanSymbolTable, Doing, SessionInv
<1>2. OfOp(c) /\ Rest = {c} \cup Rest' /\ Follows(c, Rest') /\ OrderInv'
  BY <1>1, Heads, Advances DEF SessionInv, Done, Passed
<1>3. c = Clean
  BY <1>2 DEF CleanSymbolTable, Doing, OfOp
<1>4. /\ UNCHANGED <<at, holds, vm, objects, lef, bc, sizes, left, constants, flash>>
      /\ names' = {}
      /\ \/ names = {} /\ UNCHANGED <<table, live, stopped>>
         \/ names # {} /\ OsFreeAll(bs)
  BY DEF CleanSymbolTable, trackerVars
<1>5. Rest' \subseteq Freeing \cup Restarting \cup {Leaving}
  BY <1>2, <1>3 DEF Follows, Freeing
<1>6. /\ Run \notin Rest' /\ Create \notin Rest' /\ Checking \notin Rest' /\ Rest' \cap Stores = {}
      /\ Alloc("entry") \notin Rest' /\ Keeping \notin Rest' /\ Alloc("entry") \notin Rest
  BY <1>2, <1>3, <1>5 DEF Freeing, Restarting, Stores
<1>7. /\ MemoryInv' /\ UNCHANGED stopped /\ Live' \subseteq Live
      /\ \A x \in Live : holds[x].for \notin {"node", "entry"} => x \in Live'
  <2>1. CASE names = {} /\ UNCHANGED <<table, live, stopped>>
    BY <1>1, <2>1, MemoryKept
  <2>2. CASE names # {} /\ OsFreeAll(bs)
    <3>1. GaveAll(bs)
      <4> HIDE DEF bs
      <4> QED BY <1>1, <2>2, GivesAll DEF SessionInv
    <3>2. \A x \in bs : holds[x].for \in {"node", "entry"}
      BY <1>1, <1>6, <2>2 DEF Sound, Held, EntryHeld, NodesHeld, Is
    <3> HIDE DEF bs
    <3> QED BY <3>1, <3>2 DEF GaveAll
  <2> QED BY <1>4, <2>1, <2>2
<1>8. ShapeInv'
  <2>1. TrackerTypeOK'
    BY <1>7 DEF MemoryInv, TrackerInv
  <2> QED BY <1>4, <1>7, <2>1 DEF SessionInv, ShapeInv, TypeOK
<1>9. Sound'
  <2> HIDE DEF c, bs
  <2>1. Held'
    <3>1. StackHeld' /\ GlobalsHeld' /\ BodyHeld' /\ ObjectsHeld'
      BY <1>1, <1>4, <1>7 DEF Sound, Held, StackHeld, GlobalsHeld, BodyHeld, ObjectsHeld, Is
    <3>2. NodesHeld' /\ EntryHeld'
      BY <1>4 DEF NodesHeld, EntryHeld
    <3>3. LefHeld'
      BY <1>1, <1>2, <1>3, <1>4, <1>6, <1>7 DEF Sound, Held, LefHeld, HasLef, Is
    <3>4. VmHeld'
      BY <1>1, <1>2, <1>3, <1>4, <1>7 DEF Sound, Held, VmHeld, VmUsable
    <3> QED BY <3>1, <3>2, <3>3, <3>4 DEF Held
  <2>2. FileInv'
    BY <1>6 DEF FileInv, BodyMatches, NoWayBack, CheckedIsGarbage, Measured, WayBack,
       StoresProgram, Loaded
  <2>3. NamesInv'
    BY <1>4, <1>6 DEF NamesInv, NamesTime, NamesOfFile, EntryWanted
  <2>4. RunInv'
    BY <1>6 DEF RunInv, CodeIsBody, GlobalsThere, HaltIsOld, ConstantsKept, NotYetRunning,
       Started, Loaded
  <2>5. PointersInv'
    BY <1>1, <1>2, <1>3, <1>4 DEF Sound, PointersInv, Unset, StackUnset, GlobalsEnd
  <2> QED BY <2>1, <2>2, <2>3, <2>4, <2>5 DEF Sound
<1> QED BY <1>2, <1>7, <1>8, <1>9 DEF SessionInv

(* The interpreter.                                                         *)

\* What it finds when it fetches.
AtWork == /\ Running /\ Sound /\ Started /\ VmLast(Rest) /\ Parsing \notin Rest
          /\ vm.state \in {"VM_RUN", "VM_INIT_GLOBALS"}

LEMMA Works ==
  ASSUME SessionInv, Interpreting
  PROVE  AtWork
<1>1. Running /\ todo # <<>> /\ Sound /\ OfOp(Head(todo))
  BY Heads DEF Interpreting, Doing, SessionInv
<1>2. PICK R : Follows(Head(todo), R) /\ Rest = {Head(todo)} \cup R
  BY <1>1, FromFront DEF SessionInv, OrderInv
<1>3. Head(todo) = Run
  BY <1>1 DEF Interpreting, Doing, OfOp
<1>4. Create \notin R /\ InitGlobals \notin R /\ VmLast(R) /\ Parsing \notin R
  BY <1>2, <1>3 DEF Follows, SetUp, Freeing, NoFile, Loading, VmLast
<1> QED BY <1>1, <1>2, <1>3, <1>4 DEF AtWork, Interpreting, Started, Loaded, VmLast

\* How the registers advance.
Advanced(state) ==
  /\ vm' = [state |-> state, code |-> vm.code, pc |-> vm'.pc] /\ vm'.pc \in Nat
  /\ vm'.state = state /\ vm'.code = vm.code /\ bc' = Fetched

LEMMA Moves ==
  ASSUME SessionInv, NEW state, Advance(state)
  PROVE  Advanced(state)
<1>1. vm = [state |-> vm.state, code |-> vm.code, pc |-> vm.pc] /\ vm.pc \in Nat
  BY DEF SessionInv, ShapeInv
<1>2. vm' = [vm EXCEPT !.pc = IF More THEN vm.pc + 1 ELSE vm.pc, !.state = state]
  BY DEF Advance
<1>3. vm' = [state |-> state, code |-> vm.code, pc |-> IF More THEN vm.pc + 1 ELSE vm.pc]
  BY <1>1, <1>2
<1>4. (IF More THEN vm.pc + 1 ELSE vm.pc) \in Nat
  BY <1>1
<1> QED BY <1>3, <1>4 DEF Advanced, Advance

\* A step of the interpreter touches nothing but objects and registers.
Quiet == /\ UNCHANGED <<at, names, lef, sizes, todo>>
         /\ \A x \in Live : holds[x].for # "object" => x \in Live' /\ holds'[x] = holds[x]

LEMMA InterpreterKeeps ==
  ASSUME SessionInv, AtWork, Quiet, ObjectsHeld', RunInv'
  PROVE  OrderInv' /\ Sound'
<1>1. Rest' = Rest /\ OrderInv' /\ Sound
  BY DEF Quiet, Rest, OrderInv, SessionInv, AtWork
<1>2. Held'
  <2>1. StackHeld' /\ GlobalsHeld' /\ BodyHeld' /\ NodesHeld'
    BY <1>1 DEF Quiet, Sound, Held, StackHeld, GlobalsHeld, BodyHeld, NodesHeld, Is
  <2>2. LefHeld' /\ EntryHeld'
    BY <1>1 DEF Quiet, Sound, Held, LefHeld, EntryHeld, Is
  <2>3. VmHeld'
    BY <1>1 DEF VmHeld, AtWork, VmLast
  <2> QED BY <2>1, <2>2, <2>3 DEF Held
<1>3. FileInv'
  <2>1. at["body"] # NULL => holds'[at["body"]] = holds[at["body"]]
    BY <1>1 DEF Quiet, Sound, Held, BodyHeld, Is
  <2>2. BodyMatches'
    BY <1>1, <2>1 DEF Quiet, Sound, FileInv, BodyMatches
  <2> QED BY <1>1, <2>2 DEF Quiet, Sound, FileInv, NoWayBack, CheckedIsGarbage, Measured, WayBack,
     StoresProgram, Loaded
<1>4. NamesInv' /\ PointersInv'
  BY <1>1 DEF Quiet, Sound, NamesInv, NamesTime, NamesOfFile, EntryWanted,
     PointersInv, Unset, StackUnset, GlobalsEnd
<1> QED BY <1>1, <1>2, <1>3, <1>4 DEF Sound

LEMMA StepKeeps ==
  ASSUME SessionInv, Step
  PROVE  SessionInv'
<1>1. AtWork
  BY Works DEF Step
<1>2. /\ UNCHANGED <<table, live, stopped, at, holds, names, objects, lef, sizes, left, constants, flash, todo>>
      /\ Advance(StateAfterFetch) /\ Fetched = "op"
  BY DEF Step, trackerVars
<1>3. Advanced(StateAfterFetch) /\ StateAfterFetch \in {vm.state, "VM_STOP"}
  BY <1>2, Moves DEF StateAfterFetch
<1>4. MemoryInv' /\ Live' = Live
  BY <1>1, <1>2, MemoryKept DEF AtWork
<1>5. ShapeInv'
  <2>1. TrackerTypeOK'
    BY <1>4 DEF MemoryInv, TrackerInv
  <2>2. vm'.state \in {"VM_RUN", "VM_STOP", "VM_INIT_GLOBALS"} /\ vm'.code \in Block \cup {NULL}
    BY <1>3 DEF Advanced, SessionInv, ShapeInv, TypeOK
  <2>3. vm' = [state |-> vm'.state, code |-> vm'.code, pc |-> vm'.pc] /\ vm'.pc \in Nat
    BY <1>3 DEF Advanced
  <2> QED BY <1>2, <2>1, <2>2, <2>3 DEF SessionInv, ShapeInv, TypeOK
<1>6. Quiet
  BY <1>2, <1>4 DEF Quiet
<1>7. ObjectsHeld'
  BY <1>1, <1>2, <1>4 DEF AtWork, Sound, Held, ObjectsHeld
<1>8. RunInv'
  <2>1. Rest' = Rest /\ RunInv
    BY <1>1, <1>2 DEF Rest, AtWork, Sound
  <2>2. UNCHANGED <<at, objects, constants>> /\ vm'.state \in {vm.state, "VM_STOP"} /\ vm'.code = vm.code
        /\ bc' = "op"
    BY <1>2, <1>3 DEF Advanced
  <2> QED BY <2>1, <2>2 DEF RunInv, CodeIsBody, GlobalsThere, HaltIsOld, ConstantsKept,
     NotYetRunning, Started, Loaded
<1> QED BY <1>1, <1>4, <1>5, <1>6, <1>7, <1>8, InterpreterKeeps DEF SessionInv

LEMMA NewObjectKeeps ==
  ASSUME SessionInv, NewObject
  PROVE  SessionInv'
<1>1. AtWork
  BY Works DEF NewObject
<1>2. PICK b \in Memory : OsMalloc(1, b) /\ Take(b, "object") /\ objects' = objects \cup {b}
                          /\ constants' = IF vm.state = "VM_INIT_GLOBALS" THEN constants \cup {b}
                                          ELSE constants
  BY DEF NewObject, NewObj
<1>3. UNCHANGED <<at, names, lef, sizes, left, todo, flash>> /\ Advance(StateAfterFetch) /\ Fetched = "new"
  BY DEF NewObject
<1>4. Advanced(StateAfterFetch) /\ StateAfterFetch \in {vm.state, "VM_STOP"}
  BY <1>3, Moves DEF StateAfterFetch
<1>5. Filled(b, "object")
  BY <1>1, <1>2, Fills DEF AtWork
<1>6. /\ b \in Block /\ b \in Live' /\ holds'[b].for = "object"
      /\ \A x \in Live : x \in Live' /\ x # b /\ holds'[x] = holds[x]
      /\ MemoryInv' /\ stopped' \in {"no", "used_up"}
      /\ holds' = [x \in Block |-> holds'[x]]
  BY <1>5 DEF Filled, Took, Live
<1>7. ShapeInv'
  <2>1. TrackerTypeOK'
    BY <1>6 DEF MemoryInv, TrackerInv
  <2>2. vm'.state \in {"VM_RUN", "VM_STOP", "VM_INIT_GLOBALS"} /\ vm'.code \in Block \cup {NULL}
    BY <1>4 DEF Advanced, SessionInv, ShapeInv, TypeOK
  <2>3. vm' = [state |-> vm'.state, code |-> vm'.code, pc |-> vm'.pc] /\ vm'.pc \in Nat
    BY <1>4 DEF Advanced
  <2>4. objects' \subseteq Block /\ constants' \subseteq Block
    BY <1>2, <1>6 DEF SessionInv, ShapeInv, TypeOK
  <2> QED BY <1>3, <1>6, <2>1, <2>2, <2>3, <2>4 DEF SessionInv, ShapeInv, TypeOK
<1>8. Quiet
  BY <1>3, <1>6 DEF Quiet
<1>9. ObjectsHeld'
  BY <1>1, <1>2, <1>6 DEF AtWork, Sound, Held, ObjectsHeld
<1>10. RunInv'
  <2>1. Rest' = Rest /\ RunInv
    BY <1>1, <1>3 DEF Rest, AtWork, Sound
  <2>2. UNCHANGED at /\ vm'.state \in {vm.state, "VM_STOP"} /\ vm'.code = vm.code /\ bc' = "new"
    BY <1>3, <1>4 DEF Advanced
  <2> QED BY <1>2, <2>1, <2>2 DEF RunInv, CodeIsBody, GlobalsThere, HaltIsOld, ConstantsKept,
     NotYetRunning, Started, Loaded
<1> QED BY <1>1, <1>6, <1>7, <1>8, <1>9, <1>10, InterpreterKeeps DEF SessionInv

LEMMA HaltKeeps ==
  ASSUME SessionInv, Halt
  PROVE  SessionInv'
<1>1. AtWork
  BY Works DEF Halt
<1>2. /\ UNCHANGED <<at, holds, names, lef, sizes, left, constants, todo, flash>>
      /\ Advance("VM_STOP") /\ Fetched = "halt"
      /\ \/ Cleans /\ OsFreeAll(objects) /\ objects' = {}
         \/ ~Cleans /\ UNCHANGED <<table, live, stopped, objects>>
  BY DEF Halt, trackerVars
<1>3. Advanced("VM_STOP")
  BY <1>2, Moves
<1>4. /\ MemoryInv' /\ UNCHANGED stopped /\ Live' \subseteq Live
      /\ \A x \in Live : x \in Live' \/ (x \in objects /\ objects' = {})
  <2>1. CASE Cleans /\ OsFreeAll(objects) /\ objects' = {}
    <3>1. GaveAll(objects)
      BY <1>1, <2>1, GivesAll DEF AtWork, SessionInv
    <3> QED BY <2>1, <3>1 DEF GaveAll
  <2>2. CASE ~Cleans /\ UNCHANGED <<table, live, stopped, objects>>
    BY <1>1, <2>2, MemoryKept DEF AtWork
  <2> QED BY <1>2, <2>1, <2>2
<1>5. ShapeInv'
  <2>1. TrackerTypeOK'
    BY <1>4 DEF MemoryInv, TrackerInv
  <2>2. vm'.state \in {"VM_RUN", "VM_STOP", "VM_INIT_GLOBALS"} /\ vm'.code \in Block \cup {NULL}
    BY <1>3 DEF Advanced, SessionInv, ShapeInv, TypeOK
  <2>3. vm' = [state |-> vm'.state, code |-> vm'.code, pc |-> vm'.pc] /\ vm'.pc \in Nat
    BY <1>3 DEF Advanced
  <2>4. objects' \subseteq Block
    BY <1>2 DEF SessionInv, ShapeInv, TypeOK
  <2> QED BY <1>2, <1>4, <2>1, <2>2, <2>3, <2>4 DEF SessionInv, ShapeInv, TypeOK
<1>6. ObjectsHeld
  BY <1>1 DEF AtWork, Sound, Held
<1>7. Quiet
  BY <1>2, <1>4, <1>6 DEF Quiet, ObjectsHeld
<1>8. ObjectsHeld'
  <2>1. CASE objects' = {}
    BY <2>1 DEF ObjectsHeld
  <2>2. CASE objects' # {}
    BY <1>2, <1>4, <1>6, <2>2 DEF ObjectsHeld
  <2> QED BY <2>1, <2>2
<1>9. RunInv'
  <2>1. Rest' = Rest /\ RunInv /\ Started
    BY <1>1, <1>2 DEF Rest, AtWork, Sound
  <2>2. UNCHANGED <<at, constants>> /\ vm'.state = "VM_STOP" /\ vm'.code = vm.code
    BY <1>2, <1>3 DEF Advanced
  <2>3. ASSUME InitEnvironment \in Rest PROVE constants \subseteq objects'
    <3>1. vm.state = "VM_INIT_GLOBALS" /\ constants \subseteq objects
      BY <1>1, <2>1, <2>3 DEF AtWork, RunInv, NotYetRunning, ConstantsKept
    <3>2. CASE More
      BY <1>2, <3>1, <3>2 DEF Cleans, StateAfterFetch
    <3>3. CASE ~More
      <4>1. bc = "halt"
        BY <1>2, <3>3 DEF Fetched
      <4> QED BY <2>1, <3>1, <4>1 DEF RunInv, HaltIsOld
    <3> QED BY <3>2, <3>3
  <2> QED BY <2>1, <2>2, <2>3 DEF RunInv, CodeIsBody, GlobalsThere, HaltIsOld, ConstantsKept,
     NotYetRunning, Started, Loaded
<1> QED BY <1>1, <1>4, <1>5, <1>7, <1>8, <1>9, InterpreterKeeps DEF SessionInv

(* A command of the shell, when there is nothing left to do.                *)
LEMMA CommandKeeps ==
  ASSUME SessionInv, Command
  PROVE  SessionInv'
<1>1. Running /\ todo = <<>> /\ Sound /\ todo' \in Rows
  BY DEF Command, Prompt, SessionInv
<1>2. UNCHANGED <<table, live, stopped, at, holds, vm, names, objects, lef, bc, sizes, left, constants, flash>>
  BY DEF Command, trackerVars, ram
<1>3. Rest = {}
  BY <1>1 DEF Rest, CallsOf
<1>4. PICK R : Ordered(todo', R) /\ AtPrompt(R)
  BY <1>1, RowsOrdered
<1>5. Rest' = R /\ OrderInv'
  BY <1>4 DEF Ordered, Rest, OrderInv
<1>6. MemoryInv' /\ Live' = Live
  BY <1>1, <1>2, MemoryKept
<1>7. ShapeInv'
  <2>1. TrackerTypeOK'
    BY <1>6 DEF MemoryInv, TrackerInv
  <2> QED BY <1>2, <2>1 DEF SessionInv, ShapeInv, TypeOK
<1>8. /\ NoNames(Rest') /\ RunsCreated(Rest') /\ VmLast(Rest') /\ Rest' \cap Boot = {}
      /\ {Parsing, Alloc("lef"), Alloc("body")} \subseteq Rest'
      /\ Create \in Rest' /\ Clean \notin Rest' /\ Leaving \notin Rest' => Reading \in Rest'
      /\ Checking \in Rest' => Reading \in Rest'
      /\ Rest' \cap Stores # {} => \E p \in Program : Receiving(p) \in Rest'
      /\ Alloc("stack") \in Rest' => Dealloc("stack") \in Rest'
  BY <1>4, <1>5 DEF AtPrompt, Begins
<1>9. names = {} /\ at["globals"] = NULL
  BY <1>1, <1>3 DEF Sound, NamesInv, NamesTime, PointersInv, GlobalsEnd
<1>10. Sound'
  <2>1. Held'
    <3>1. StackHeld' /\ GlobalsHeld' /\ BodyHeld' /\ NodesHeld' /\ ObjectsHeld'
      BY <1>1, <1>2, <1>6
         DEF Sound, Held, StackHeld, GlobalsHeld, BodyHeld, NodesHeld, ObjectsHeld, Is
    <3>2. LefHeld' /\ EntryHeld' /\ VmHeld'
      BY <1>2, <1>8, <1>9 DEF LefHeld, EntryHeld, VmHeld, VmLast
    <3> QED BY <3>1, <3>2 DEF Held
  <2>2. FileInv'
    BY <1>8 DEF FileInv, BodyMatches, NoWayBack, CheckedIsGarbage, Measured, WayBack,
       StoresProgram, Loaded, RunsCreated
  <2>3. NamesInv'
    BY <1>2, <1>8, <1>9 DEF NamesInv, NamesTime, NamesOfFile, EntryWanted, NoNames
  <2>4. RunInv'
    BY <1>8 DEF RunInv, CodeIsBody, GlobalsThere, HaltIsOld, ConstantsKept, NotYetRunning,
       Started, Loaded, RunsCreated
  <2>5. PointersInv'
    BY <1>2, <1>8, <1>9 DEF PointersInv, Unset, StackUnset, GlobalsEnd, Boot
  <2> QED BY <2>1, <2>2, <2>3, <2>4, <2>5 DEF Sound
<1> QED BY <1>5, <1>6, <1>7, <1>10 DEF SessionInv

(* The start of the board.                                                  *)
PoweredOn == /\ TrackerInit /\ RamInit /\ todo \in Starts
             /\ flash \in [{"head", "body"} -> Program \cup {"erased", "mixed"}]

LEMMA PoweredOnIsSound == PoweredOn => SessionInv
<1> SUFFICES ASSUME PoweredOn PROVE SessionInv
  OBVIOUS
<1> USE DEF PoweredOn
<1>1. PICK R : Ordered(todo, R) /\ Begins(R)
  BY StartsOrdered
<1>2. Rest = R /\ OrderInv
  BY <1>1 DEF Ordered, Rest, OrderInv
<1>3. MemoryInv
  BY TrackerAtStart, LimitAtStart DEF MemoryInv
<1>4. /\ at = NoPointers /\ holds = NothingHeld /\ vm = VmOff
      /\ names = {} /\ objects = {} /\ left = {} /\ constants = {} /\ lef = "none"
      /\ bc = "op"
  BY DEF RamInit
<1>5. \A h \in Holder : at[h] = NULL
  BY <1>4 DEF NoPointers
<1>6. ShapeInv
  <2>1. TrackerTypeOK /\ stopped = "no"
    BY <1>3 DEF MemoryInv, TrackerInv, TrackerInit
  <2>2. at \in [Holder -> Block \cup {NULL}]
    BY <1>4 DEF NoPointers
  <2>3. holds = [b \in Block |-> holds[b]]
    BY <1>4 DEF NothingHeld
  <2>4. vm = [state |-> vm.state, code |-> vm.code, pc |-> vm.pc] /\ vm.pc \in Nat
        /\ vm.state = "VM_STOP" /\ vm.code = NULL
    BY <1>4 DEF VmOff
  <2> QED BY <1>4, <2>1, <2>2, <2>3, <2>4 DEF ShapeInv, TypeOK
<1>7. /\ NoNames(Rest) /\ RunsCreated(Rest) /\ VmLast(Rest)
      /\ {Parsing, Alloc("lef"), Alloc("body")} \subseteq Rest
      /\ Create \in Rest /\ Clean \notin Rest /\ Leaving \notin Rest => Reading \in Rest
      /\ Checking \in Rest => Reading \in Rest
      /\ Rest \cap Stores # {} => \E p \in Program : Receiving(p) \in Rest
  BY <1>1, <1>2 DEF Begins
<1>8. Sound
  <2>1. Held
    <3>1. StackHeld /\ GlobalsHeld /\ BodyHeld /\ NodesHeld /\ ObjectsHeld
      BY <1>4, <1>5 DEF StackHeld, GlobalsHeld, BodyHeld, NodesHeld, ObjectsHeld, Holder
    <3>2. LefHeld /\ EntryHeld /\ VmHeld
      BY <1>4, <1>7 DEF LefHeld, EntryHeld, VmHeld, VmLast
    <3> QED BY <3>1, <3>2 DEF Held
  <2>2. FileInv
    BY <1>7 DEF FileInv, BodyMatches, NoWayBack, CheckedIsGarbage, Measured, WayBack,
       StoresProgram, Loaded, RunsCreated
  <2>3. NamesInv
    BY <1>4, <1>7 DEF NamesInv, NamesTime, NamesOfFile, EntryWanted, NoNames
  <2>4. RunInv
    BY <1>7 DEF RunInv, CodeIsBody, GlobalsThere, HaltIsOld, ConstantsKept, NotYetRunning,
       Started, Loaded, RunsCreated
  <2>5. PointersInv
    BY <1>5 DEF PointersInv, Unset, StackUnset, GlobalsEnd, Holder
  <2> QED BY <2>1, <2>2, <2>3, <2>4, <2>5 DEF Sound
<1> QED BY <1>2, <1>3, <1>6, <1>8 DEF SessionInv

LEMMA SessionStarts ==
  ASSUME Init
  PROVE  SessionInv
BY PoweredOnIsSound DEF Init, PoweredOn

LEMMA PoweredOnAgain == (PoweredOn => SessionInv)'
BY PoweredOnIsSound, PTL

LEMMA PowerLossKeeps ==
  ASSUME SessionInv, PowerLoss
  PROVE  SessionInv'
<1>1. TrackerInit' /\ RamInit' /\ todo' \in Starts
  BY DEF PowerLoss, TrackerInit, RamInit
<1>2. flash' \in [{"head", "body"} -> Program \cup {"erased", "mixed"}]
  BY DEF PowerLoss, SessionInv, ShapeInv, TypeOK
<1>3. PoweredOn'
  BY <1>1, <1>2 DEF PoweredOn
<1> QED BY <1>3, PoweredOnAgain

------------------------------------------------------------------------------
(* Every step keeps the invariant.                                          *)
LEMMA SessionStep ==
  ASSUME SessionInv, [Next]_vars
  PROVE  SessionInv'
<1>1. CASE UNCHANGED vars
  <2>1. /\ UNCHANGED <<table, live, stopped, at, holds, vm, names, objects, lef, bc, sizes>>
        /\ UNCHANGED <<left, constants, todo, flash>>
    BY <1>1 DEF vars, trackerVars, ram
  <2>2. TrackerInv' /\ Live' = Live
    BY <2>1 DEF SessionInv, MemoryInv, TrackerInv, TrackerTypeOK, TrackerExact, Live, Tracked
  <2>3. MemoryInv'
    BY <2>1, <2>2, LimitIs, LimitIsThen DEF SessionInv, MemoryInv, LimitKept
  <2>4. ShapeInv' /\ OrderInv' /\ Rest' = Rest
    <3>1. TrackerTypeOK'
      BY <2>2 DEF TrackerInv
    <3> QED BY <2>1, <3>1 DEF SessionInv, ShapeInv, TypeOK, OrderInv, Rest
  <2>5. Running' => Sound'
    <3> SUFFICES ASSUME Running' PROVE Sound'
      OBVIOUS
    <3>1. Sound
      BY <2>1 DEF SessionInv, Running
    <3>2. Held'
      BY <2>1, <2>2, <2>4, <3>1
         DEF Sound, Held, StackHeld, GlobalsHeld, BodyHeld, LefHeld, EntryHeld, NodesHeld,
             ObjectsHeld, VmHeld, VmUsable, Is
    <3>3. FileInv' /\ NamesInv'
      BY <2>1, <2>4, <3>1
         DEF Sound, FileInv, BodyMatches, NoWayBack, CheckedIsGarbage, Measured, WayBack,
             StoresProgram, Loaded, NamesInv, NamesTime, NamesOfFile, EntryWanted
    <3>4. RunInv' /\ PointersInv'
      BY <2>1, <2>4, <3>1
         DEF Sound, RunInv, CodeIsBody, GlobalsThere, HaltIsOld, ConstantsKept, NotYetRunning,
             Started, Loaded, PointersInv, Unset, StackUnset, GlobalsEnd
    <3> QED BY <3>2, <3>3, <3>4 DEF Sound
  <2> QED BY <2>3, <2>4, <2>5 DEF SessionInv
<1>2. CASE Memories
  <2>1. CASE TakeBlock \/ TakePrimitives
    BY <2>1, TakeBlockShape, TakeBlockSound DEF SessionInv
  <2>2. CASE NoBlock
    BY <2>2, NoBlockKeeps
  <2>3. CASE GiveBlock
    BY <2>3, GiveBlockKeeps
  <2> QED BY <1>2, <2>1, <2>2, <2>3 DEF Memories
<1>3. CASE Loaders
  BY <1>3, ReceiveKeeps, ReceiveBodyKeeps, ReadHeadKeeps, ParseKeeps, StoreKeeps, KeepKeeps, CheckSignatureKeeps, EndKeeps
     DEF Loaders
<1>4. CASE Machine
  <2>1. CASE Step \/ NewObject \/ Halt \/ Return
    BY <2>1, StepKeeps, NewObjectKeeps, HaltKeeps, ReturnKeeps
  <2>2. CASE CreateSymbolTable \/ Intern \/ CleanSymbolTable
    BY <2>2, CreateKeeps, InternKeeps, CleanKeeps
  <2>3. CASE VmInitialise \/ VmInitGlobals \/ VmInitEnvironment
    BY <2>3, VmInitialiseKeeps, VmInitGlobalsKeeps, VmInitEnvironmentKeeps
  <2> QED BY <1>4, <2>1, <2>2, <2>3 DEF Machine
<1>5. CASE Fault
  BY <1>5, EndKeeps
<1>6. CASE Command
  BY <1>6, CommandKeeps
<1>7. CASE PowerLoss
  BY <1>7, PowerLossKeeps
<1> QED BY <1>1, <1>2, <1>3, <1>4, <1>5, <1>6, <1>7 DEF Next, Work

(* The invariant is one: whatever the programs, the addresses that malloc   *)
(* answers with and the limits of the memory, and however often the user    *)
(* types and the power goes.                                                *)
THEOREM SessionIsSound == Spec => []SessionInv
<1>1. Init => SessionInv
  BY SessionStarts
<1>2. SessionInv /\ [Next]_vars => SessionInv'
  BY SessionStep
<1> QED BY <1>1, <1>2, PTL DEF Spec

(* Every register, pointer, node and stored file stays within its type: no  *)
(* step of a loader, of the shell or of the interpreter makes one from a    *)
(* value that is none (shell.c, loader.c, animula.c).                       *)
THEOREM SessionTypes == Spec => []TypeOK
<1>1. SessionInv => TypeOK
  BY DEF SessionInv, ShapeInv
<1> QED BY <1>1, SessionIsSound, PTL

(* The tracker stays exact when its callers are the ones the board has: the *)
(* rows of the shell never make it forget or invent a block (memory.c).     *)
THEOREM SessionTableExact == Spec => []TrackerExact
<1>1. SessionInv => TrackerExact
  BY DEF SessionInv, MemoryInv, TrackerInv
<1> QED BY <1>1, SessionIsSound, PTL

(* What is allocated stays within MEMORY_HARD_LIMIT in every session        *)
(* (memory.c).                                                              *)
THEOREM SessionLimitKept == Spec => []LimitKept
<1>1. SessionInv => LimitKept
  BY DEF SessionInv, MemoryInv
<1> QED BY <1>1, SessionIsSound, PTL

LEMMA BodyIsLoaded ==
  ASSUME Sound, Loaded, Parsing \notin Rest
  PROVE  /\ lef \in Program /\ at["body"] \in Live
         /\ holds[at["body"]] = [for |-> "body", prog |-> lef]
<1>1. lef \in Program
  BY DEF Sound, FileInv, Measured
<1>2. lef # "garbage"
  BY <1>1, SessionAssumption
<1>3. at["body"] # NULL /\ holds[at["body"]] = [for |-> "body", prog |-> lef]
  BY <1>2 DEF Sound, FileInv, BodyMatches, Loaded
<1> QED BY <1>1, <1>3 DEF Sound, Held, BodyHeld, Is

(* fetch_next_bytecode reads from a body that is still allocated, of the    *)
(* program whose sizes are in force, and within its segment: free_lef comes *)
(* behind the last vm_run of every row (animula.c, shell.c).                *)
THEOREM OwnCodeFetched == Spec => []FetchesOwnCode
<1>1. SessionInv => FetchesOwnCode
  <2> SUFFICES ASSUME SessionInv, Interpreting
               PROVE  /\ vm.code \in Live /\ holds[vm.code] = [for |-> "body", prog |-> lef]
                      /\ More => vm.pc + 1 \in DOMAIN Segment(lef)
    BY DEF FetchesOwnCode
  <2>1. AtWork
    BY Works
  <2>2. /\ lef \in Program /\ at["body"] \in Live
        /\ holds[at["body"]] = [for |-> "body", prog |-> lef]
    BY <2>1, BodyIsLoaded DEF AtWork, Started
  <2>3. vm.code = at["body"]
    BY <2>1 DEF AtWork, Sound, RunInv, CodeIsBody
  <2>4. SegmentSize = Len(Segment(lef)) /\ Segment(lef) \in Seq(Instruction)
    <3>1. sizes = [code |-> Len(CodeOf[lef]), globals |-> Len(GlobalsOf[lef])]
      BY <2>1 DEF AtWork, Started, Sound, FileInv, Measured
    <3> QED BY <2>2, <3>1, SessionAssumption DEF SegmentSize, Segment
  <2>5. vm.pc \in Nat
    BY DEF SessionInv, ShapeInv
  <2>6. More => vm.pc + 1 \in DOMAIN Segment(lef)
    <3> DEFINE s == Segment(lef)
    <3>1. s \in Seq(Instruction) /\ SegmentSize = Len(s)
      BY <2>4
    <3> HIDE DEF s
    <3> QED BY <2>5, <3>1 DEF More, s
  <2> QED BY <2>2, <2>3, <2>6
<1> QED BY <1>1, SessionIsSound, PTL

(* RB_INSERT in symbol.c compares with names whose text is in a body that   *)
(* is still allocated and holds their own file, since every run that leaves *)
(* names is followed by clean_symbol_table or by the end.                   *)
THEOREM NamesAreReadable == Spec => []NamesReadable
<1>1. SessionInv => NamesReadable
  <2> SUFFICES ASSUME SessionInv, Doing("intern"), NEW n \in names
               PROVE  n.text \in Live /\ holds[n.text] = [for |-> "body", prog |-> n.of]
    BY DEF NamesReadable
  <2>1. Running /\ todo # <<>> /\ Sound /\ OfOp(Head(todo))
    BY Heads DEF Doing, SessionInv
  <2>2. PICK R : Follows(Head(todo), R) /\ Rest = {Head(todo)} \cup R
    BY <2>1, FromFront DEF SessionInv, OrderInv
  <2>3. Head(todo) = Interning(Arg)
    BY <2>1 DEF Doing, OfOp, Arg
  <2>4. Loaded /\ Parsing \notin Rest
    BY <2>2, <2>3 DEF Follows, NoFile, Loading, Loaded
  <2>5. n.text = at["body"] /\ n.of = lef
    BY <2>1, <2>4 DEF Sound, NamesInv, NamesOfFile, Loaded
  <2> QED BY <2>1, <2>4, <2>5, BodyIsLoaded
<1> QED BY <1>1, SessionIsSound, PTL

(* While the code of a program runs, its globals are allocated and so is    *)
(* every object made when they were set up, although HALT ends both         *)
(* segments (vm.c): the HALT that is executed again behind the end of the   *)
(* globals, and frees all objects, is one from before they were set up.     *)
THEOREM GlobalsStayAlive == Spec => []GlobalsAlive
<1>1. SessionInv => GlobalsAlive
  <2> SUFFICES ASSUME SessionInv, Interpreting, vm.state = "VM_RUN"
               PROVE  /\ at["globals"] \in Live /\ holds[at["globals"]].for = "globals"
                      /\ \A b \in constants : b \in Live /\ holds[b].for = "object"
    BY DEF GlobalsAlive
  <2>1. AtWork
    BY Works
  <2> QED BY <2>1 DEF AtWork, Sound, RunInv, GlobalsThere, ConstantsKept, Held, GlobalsHeld,
     ObjectsHeld, Is
<1> QED BY <1>1, SessionIsSound, PTL

------------------------------------------------------------------------------
(* Nothing is lost.                                                         *)

\* No program's symbol table lists a name twice.
NamesOnce == \A p \in Program : \A i, j \in DOMAIN NamesOf[p] : NamesOf[p][i] = NamesOf[p][j] => i = j

\* No name is interned twice, and none that is already in the tree.
Once(s) == \A i, j \in DOMAIN s : s[i].op = "intern" /\ s[i] = s[j] => i = j
NamesNew == \A n \in names : Interning(n.name) \notin Rest

OwnInv == Running => AllOwned /\ NamesNew /\ Once(todo)

LEMMA OnceNoNames ==
  ASSUME NEW s, NEW R, Ordered(s, R), NoNames(R)
  PROVE  Once(s)
BY DEF Ordered, CallsOf, NoNames, Once

LEMMA RowPasses ==
  ASSUME OrderInv, todo # <<>>, Once(todo), NamesNew, Done, names' \subseteq names
  PROVE  NamesNew' /\ Once(todo')
<1>1. Rest' \subseteq Rest
  BY Advances DEF Passed, Done
<1>2. NamesNew'
  BY <1>1 DEF NamesNew
<1>3. todo \in Seq(Rest)
  BY DEF OrderInv, Ordered
<1>4. /\ todo' = Tail(todo) /\ DOMAIN todo = 1 .. Len(todo)
      /\ \A i \in DOMAIN todo' : i \in Nat /\ i + 1 \in DOMAIN todo /\ todo'[i] = todo[i + 1]
  BY <1>3 DEF Done
<1>5. Once(todo')
  BY <1>4 DEF Once
<1> QED BY <1>2, <1>5

LEMMA HeadIsOnce ==
  ASSUME OrderInv, todo # <<>>, Once(todo), Done, Head(todo).op = "intern"
  PROVE  Head(todo) \notin Rest'
<1>1. todo \in Seq(Rest)
  BY DEF OrderInv, Ordered
<1>2. /\ todo' = Tail(todo) /\ 1 \in DOMAIN todo /\ Head(todo) = todo[1]
      /\ \A i \in DOMAIN todo' : i \in Nat /\ i + 1 \in DOMAIN todo /\ todo'[i] = todo[i + 1] /\ i # 0
  BY <1>1 DEF Done
<1>3. ASSUME NEW i \in DOMAIN todo', todo'[i] = Head(todo) PROVE FALSE
  <2>1. i + 1 = 1
    BY <1>2, <1>3 DEF Once
  <2> QED BY <1>2, <2>1
<1> QED BY <1>3 DEF Rest, CallsOf

LEMMA OnceCreated ==
  ASSUME NamesOnce, NEW p \in Program, NEW s, NEW R, Ordered(s, R), NoNames(R)
  PROVE  Once(Interns(p) \o EntryRow(p) \o s)
<1> DEFINE a == Interns(p)
           e == EntryRow(p)
           k == Len(NamesOf[p])
           S == Internings \cup {Alloc("entry")} \cup R
           m == Len(e \o s)
           t == a \o (e \o s)
<1>1. /\ a \in Seq(Internings) /\ Len(a) = k /\ k \in Nat
      /\ \A i \in 1 .. k : a[i] = Interning(NamesOf[p][i])
  BY InternsAre
<1>2. e \in Seq(S) /\ s \in Seq(S) /\ a \in Seq(S)
  BY <1>1 DEF EntryRow, Ordered
<1>3. Interns(p) \o EntryRow(p) \o s = t
  <2> HIDE DEF a, e, S
  <2>1. Grouped(a, e, s)
    BY <1>2, Associates
  <2> QED BY <2>1 DEF Grouped, a, e
<1>4. DOMAIN NamesOf[p] = 1 .. k
  BY <1>1, SessionAssumption
<1>5. \A i \in DOMAIN (e \o s) : (e \o s)[i].op # "intern"
  <2>1. \A i \in DOMAIN s : s[i].op # "intern"
    BY DEF Ordered, CallsOf, NoNames
  <2>2. s \in Seq(R)
    BY DEF Ordered
  <2>3. CASE NamesOf[p] = <<>>
    <3>1. e \o s = s
      BY <2>2, <2>3 DEF EntryRow
    <3> QED BY <2>1, <3>1
  <2>4. CASE NamesOf[p] # <<>>
    <3>1. e \o s = <<Alloc("entry")>> \o s
      BY <2>4 DEF EntryRow
    <3> DEFINE u == <<Alloc("entry")>> \o s
    <3>2. /\ DOMAIN u = 1 .. 1 + Len(s) /\ Len(s) \in Nat /\ DOMAIN s = 1 .. Len(s) /\ u[1] = Alloc("entry")
          /\ \A i \in 1 .. Len(s) : u[1 + i] = s[i]
      BY <2>2
    <3> HIDE DEF u
    <3>3. ASSUME NEW i \in DOMAIN u PROVE u[i].op # "intern"
      <4>1. CASE i = 1
        BY <3>2, <4>1
      <4>2. CASE i # 1
        <5>1. i - 1 \in 1 .. Len(s) /\ i = 1 + (i - 1)
          BY <3>2, <4>2
        <5> QED BY <2>1, <3>2, <5>1
      <4> QED BY <4>1, <4>2
    <3>4. \A i \in DOMAIN u : u[i].op # "intern"
      BY <3>3
    <3>5. e \o s = u
      BY <3>1 DEF u
    <3> HIDE DEF e
    <3> QED BY <3>4, <3>5
  <2> QED BY <2>3, <2>4
<1>6. /\ DOMAIN t = 1 .. k + m /\ m \in Nat /\ DOMAIN (e \o s) = 1 .. m
      /\ \A i \in 1 .. k : t[i] = a[i]
      /\ \A i \in 1 .. m : t[k + i] = (e \o s)[i]
  <2>1. e \o s \in Seq(S)
    BY <1>2
  <2> DEFINE u == e \o s
  <2>2. u \in Seq(S) /\ m = Len(u) /\ t = a \o u
    BY <2>1
  <2> HIDE DEF e, a, S, u, k, t, m
  <2>3. /\ DOMAIN t = 1 .. k + m /\ m \in Nat /\ DOMAIN u = 1 .. m
        /\ \A i \in 1 .. k : t[i] = a[i]
        /\ \A i \in 1 .. m : t[k + i] = u[i]
    <3>1. Joins(a \o u, a, u, S)
      BY <1>2, <2>2, Joined
    <3>2. Len(u) \in Nat /\ DOMAIN u = 1 .. Len(u)
      BY <2>2
    <3> QED BY <1>1, <2>2, <3>1, <3>2 DEF Joins
  <2> QED BY <2>3 DEF u
<1>7. \A i \in 1 .. k + m : i \in 1 .. k \/ t[i].op # "intern"
  <2> HIDE DEF t, k, m
  <2> SUFFICES ASSUME NEW i \in 1 .. k + m, i \notin 1 .. k PROVE t[i].op # "intern"
    OBVIOUS
  <2>1. i - k \in 1 .. m /\ i = k + (i - k)
    BY <1>1, <1>6
  <2> QED BY <1>5, <1>6, <2>1
<1>8. Once(t)
  <2> HIDE DEF t, k, m, a, e
  <2> SUFFICES ASSUME NEW i \in 1 .. k + m, NEW j \in 1 .. k + m, t[i].op = "intern", t[i] = t[j]
               PROVE  i = j
    BY <1>6 DEF Once
  <2>1. i \in 1 .. k /\ j \in 1 .. k
    BY <1>7
  <2>2. NamesOf[p][i] = NamesOf[p][j]
    BY <1>1, <1>6, <2>1
  <2> QED BY <1>4, <2>1, <2>2 DEF NamesOnce
<1> QED BY <1>3, <1>8

LEMMA StillOwned ==
  ASSUME AllOwned, Live' \subseteq Live, UNCHANGED <<at, names, objects>>,
         left \subseteq left',
         EntryOwned => EntryOwned', LefOwned => LefOwned' \/ at["lef"] \in left',
         BodyOwned => BodyOwned' \/ at["body"] \in left'
  PROVE  AllOwned'
BY DEF AllOwned, Owned

\* A step that goes on with the row and touches no pointer.
LEMMA GoesOnOwned ==
  ASSUME SessionInv, OwnInv, Running, todo # <<>>, Done,
         Head(todo) \notin {Dealloc("lef"), Dealloc("body"), Keeping, Checking},
         UNCHANGED <<at, names, objects, left>>, Live' \subseteq Live
  PROVE  OwnInv'
<1>1. AllOwned /\ NamesNew /\ Once(todo) /\ OrderInv
  BY DEF OwnInv, SessionInv
<1>2. Rest = {Head(todo)} \cup Rest'
  BY <1>1, Advances DEF Done, Passed
<1>3. EntryOwned => EntryOwned'
  BY <1>2 DEF EntryOwned
<1>4. (LefOwned => LefOwned') /\ (BodyOwned => BodyOwned')
  BY <1>2 DEF LefOwned, BodyOwned, HasLef, HasBody
<1>5. AllOwned'
  BY <1>1, <1>3, <1>4, StillOwned
<1> QED BY <1>1, <1>5, RowPasses DEF OwnInv

(* Each call leaves every block with an owner.                              *)
LEMMA PlainOwned ==
  ASSUME SessionInv, OwnInv, Receive \/ ReceiveBody \/ ReadHead \/ Parse \/ StoreHead \/ StoreBody
                             \/ VmInitGlobals \/ VmInitEnvironment \/ Return, Running'
  PROVE  OwnInv'
<1>1. Running /\ todo # <<>> /\ Done
  BY DEF Receive, ReceiveBody, ReadHead, Parse, StoreHead, StoreBody, VmInitGlobals, VmInitEnvironment, Return, Doing
<1>2. OfOp(Head(todo))
  BY <1>1, Heads DEF SessionInv
<1>3. Head(todo).op \in {"receive", "receive_body", "read_flash", "parse", "store_head", "store_body",
                         "vm_init_globals", "vm_init_environment", "vm_run"}
  BY DEF Receive, ReceiveBody, ReadHead, Parse, StoreHead, StoreBody, VmInitGlobals, VmInitEnvironment, Return, Doing
<1>4. UNCHANGED <<at, names, objects, left>> /\ live' = live
  BY DEF Receive, ReceiveBody, ReadHead, Parse, StoreHead, StoreBody, VmInitGlobals, VmInitEnvironment, Return,
     trackerVars, ram
<1>5. Live' \subseteq Live
  BY <1>4 DEF Live
<1>6. Head(todo) \notin {Dealloc("lef"), Dealloc("body"), Keeping, Checking}
  BY <1>3
<1> QED BY <1>1, <1>4, <1>5, <1>6, GoesOnOwned

LEMMA StepOwned ==
  ASSUME SessionInv, OwnInv, Step \/ NewObject \/ Halt
  PROVE  OwnInv'
<1>1. AtWork /\ UNCHANGED <<at, names, left, todo>>
  BY Works DEF Step, NewObject, Halt
<1>2. AllOwned /\ NamesNew /\ Once(todo) /\ Rest' = Rest
  BY <1>1 DEF OwnInv, AtWork, Rest
<1>3. NamesNew' /\ Once(todo')
  BY <1>1, <1>2 DEF NamesNew
<1>4. \A x \in Live' : (x \in Live /\ (x \in objects => x \in objects')) \/ x \in objects'
  <2>1. CASE Step
    <3>1. live' = live /\ objects' = objects
      BY <2>1 DEF Step, trackerVars
    <3> QED BY <3>1 DEF Live
  <2>2. CASE NewObject
    <3>1. PICK b \in Memory : OsMalloc(1, b) /\ Take(b, "object") /\ objects' = objects \cup {b}
      BY <2>2 DEF NewObject, NewObj
    <3>2. Filled(b, "object")
      BY <1>1, <3>1, Fills DEF AtWork
    <3> QED BY <3>1, <3>2 DEF Filled, Took
  <2>3. CASE Halt
    <3>1. CASE UNCHANGED <<trackerVars, objects>>
      <4>1. live' = live /\ objects' = objects
        BY <3>1 DEF trackerVars
      <4> QED BY <4>1 DEF Live
    <3>2. CASE OsFreeAll(objects)
      <4>1. GaveAll(objects)
        BY <1>1, <3>2, GivesAll DEF AtWork, SessionInv
      <4> QED BY <4>1 DEF GaveAll
    <3> QED BY <2>3, <3>1, <3>2 DEF Halt
  <2> QED BY <2>1, <2>2, <2>3
<1>5. AllOwned'
  BY <1>1, <1>2, <1>4 DEF AllOwned, Owned, EntryOwned, LefOwned, BodyOwned
<1> QED BY <1>3, <1>5 DEF OwnInv

LEMMA TakeOwned ==
  ASSUME SessionInv, OwnInv, TakeBlock \/ TakePrimitives \/ NoBlock, Running'
  PROVE  OwnInv'
<1> DEFINE c == Head(todo)
           h == c.arg
<1>1. Running /\ todo # <<>> /\ Done /\ Sound
  BY DEF TakeBlock, TakePrimitives, NoBlock, Doing, SessionInv
<1>2. OfOp(c) /\ Rest = {c} \cup Rest' /\ Follows(c, Rest')
  BY <1>1, Heads, Advances DEF SessionInv, Done, Passed
<1>3. /\ c \in {Alloc(h), Primitives}
      /\ h \in {"vm", "primitives", "pools", "lef", "body", "globals", "stack", "entry"}
      /\ h = "primitives" <=> c = Primitives
  BY <1>2 DEF TakeBlock, TakePrimitives, NoBlock, Doing, OfOp
<1>4. UNCHANGED <<names, objects, left>>
  BY DEF TakeBlock, TakePrimitives, NoBlock
<1>5. PICK b : Pointed(h, b) /\ Live' \subseteq Live \cup {b}
  <2>1. h \in Holder
    BY <1>3 DEF Holder
  <2>2. CASE TakeBlock \/ TakePrimitives
    <3>1. PICK b \in Memory : (OsMalloc(1, b) \/ OsCalloc(1, 1, b)) /\ Take(b, h) /\ at' = [at EXCEPT ![h] = b]
      BY <2>2 DEF TakeBlock, TakePrimitives, Arg
    <3>2. Filled(b, h)
      BY <1>1, <3>1, Fills
    <3>3. Pointed(h, b)
      BY <2>1, <3>1, Points
    <3> QED BY <3>2, <3>3 DEF Filled, Took
  <2>3. CASE NoBlock
    <3>1. at' = [at EXCEPT ![h] = NULL] /\ live' = live
      BY <2>3 DEF NoBlock, Arg
    <3>2. Pointed(h, NULL)
      BY <2>1, <3>1, Points
    <3> QED BY <3>1, <3>2 DEF Live
  <2> QED BY <2>2, <2>3
<1>6. /\ at'[h] = b
      /\ h # "vm" => at'["vm"] = at["vm"]
      /\ h # "primitives" => at'["primitives"] = at["primitives"]
      /\ h # "pools" => at'["pools"] = at["pools"]
      /\ h # "lef" => at'["lef"] = at["lef"]
      /\ h # "body" => at'["body"] = at["body"]
      /\ h # "globals" => at'["globals"] = at["globals"]
      /\ h # "stack" => at'["stack"] = at["stack"]
      /\ h # "entry" => at'["entry"] = at["entry"]
  BY <1>5 DEF Pointed, Holder
<1>7. AllOwned /\ NamesNew /\ Once(todo)
  BY <1>1 DEF OwnInv
<1>8. NamesNew' /\ Once(todo')
  BY <1>1, <1>4, <1>7, RowPasses DEF SessionInv
<1> HIDE DEF c, h
<1>9. /\ h = "lef" => HasLef(Rest') /\ Alloc("lef") \notin Rest'
      /\ h = "body" => HasBody(Rest') /\ Alloc("body") \notin Rest'
      /\ h = "entry" => NoNames(Rest')
      /\ h = "stack" => Dealloc("stack") \notin Rest'
  BY <1>2, <1>3 DEF Follows
<1>10. h = "entry" => EntryOwned'
  <2> SUFFICES ASSUME h = "entry" PROVE EntryOwned'
    OBVIOUS
  <2>1. names # {}
    BY <1>1, <1>2, <1>3, <1>9 DEF Sound, NamesInv, EntryWanted, NoNames
  <2> QED BY <1>4, <1>9, <2>1 DEF EntryOwned, NoNames
<1>11. /\ h = "lef" => LefOwned'
       /\ h = "body" => BodyOwned'
  BY <1>9 DEF LefOwned, BodyOwned
<1>12. /\ EntryOwned => EntryOwned' /\ h # "entry"
       /\ LefOwned => LefOwned' /\ h # "lef"
       /\ BodyOwned => BodyOwned' /\ h # "body"
  BY <1>2, <1>3, <1>4 DEF EntryOwned, LefOwned, BodyOwned, HasLef, HasBody
<1>13. h \in {"vm", "primitives", "pools", "globals", "stack"} => at[h] = NULL
  BY <1>1, <1>2, <1>3, <1>9 DEF Sound, PointersInv, Unset, StackUnset
<1>14. ASSUME NEW x \in Live' PROVE Owned(x)'
  <2>1. CASE x = b
    BY <1>3, <1>6, <1>10, <1>11, <2>1 DEF Owned
  <2>2. CASE x # b
    <3>1. x \in Live /\ x # NULL
      BY <1>5, <2>2, TrackerAssumption DEF Live
    <3>2. Owned(x)
      BY <1>7, <3>1 DEF AllOwned
    <3> QED BY <1>4, <1>6, <1>12, <1>13, <3>1, <3>2 DEF Owned
  <2> QED BY <2>1, <2>2
<1>15. AllOwned'
  BY <1>14 DEF AllOwned
<1> QED BY <1>8, <1>15 DEF OwnInv

LEMMA GiveOwned ==
  ASSUME SessionInv, OwnInv, GiveBlock, Running'
  PROVE  OwnInv'
<1> DEFINE c == Head(todo)
           h == c.arg
<1>1. Running /\ todo # <<>> /\ Done /\ Sound
  BY DEF GiveBlock, Doing, SessionInv
<1>2. OfOp(c) /\ Rest = {c} \cup Rest'
  BY <1>1, Heads, Advances DEF SessionInv, Done, Passed
<1>3. c = Dealloc(h) /\ h \in {"body", "lef", "stack", "globals", "vm"}
  BY <1>2 DEF GiveBlock, Doing, OfOp
<1>4. /\ OsFree(at[h]) /\ UNCHANGED <<names, objects, left>>
      /\ at' = IF h \in {"vm", "lef", "entry"} THEN at ELSE [at EXCEPT ![h] = NULL]
  BY DEF GiveBlock, Arg
<1>5. at[h] \in Block \cup {NULL}
  BY <1>3 DEF SessionInv, ShapeInv, TypeOK, Holder
<1>6. Live' = Live \ {at[h]}
  BY <1>1, <1>4, <1>5, Gives DEF SessionInv, Gave, Running
<1>7. /\ at'["vm"] = at["vm"] /\ at'["lef"] = at["lef"] /\ at'["entry"] = at["entry"]
      /\ at'["primitives"] = at["primitives"] /\ at'["pools"] = at["pools"]
      /\ h # "body" => at'["body"] = at["body"]
      /\ h # "globals" => at'["globals"] = at["globals"]
      /\ h # "stack" => at'["stack"] = at["stack"]
  BY <1>3, <1>4 DEF SessionInv, ShapeInv, TypeOK, Holder
<1>8. AllOwned /\ NamesNew /\ Once(todo)
  BY <1>1 DEF OwnInv
<1>9. NamesNew' /\ Once(todo')
  BY <1>1, <1>4, <1>8, RowPasses DEF SessionInv
<1> HIDE DEF c, h
<1>10. /\ EntryOwned => EntryOwned'
       /\ LefOwned => LefOwned' \/ h = "lef"
       /\ BodyOwned => BodyOwned' \/ h = "body"
  BY <1>2, <1>3, <1>4 DEF EntryOwned, LefOwned, BodyOwned, HasLef, HasBody
<1>11. AllOwned'
  BY <1>4, <1>6, <1>7, <1>8, <1>10 DEF AllOwned, Owned
<1> QED BY <1>9, <1>11 DEF OwnInv

LEMMA KeepOwned ==
  ASSUME SessionInv, OwnInv, Keep
  PROVE  OwnInv'
<1>1. Running /\ todo # <<>> /\ Done /\ OfOp(Head(todo))
  BY Heads DEF Keep, Doing, SessionInv
<1>2. Head(todo) = Keeping
  BY <1>1 DEF Keep, Doing, OfOp
<1>3. UNCHANGED <<at, names, objects>> /\ live' = live /\ left' = left \cup LefBlocks
  BY DEF Keep, trackerVars
<1>4. Live' = Live
  BY <1>3 DEF Live
<1>5. AllOwned /\ NamesNew /\ Once(todo) /\ Rest = {Keeping} \cup Rest'
  BY <1>1, <1>2, Advances DEF OwnInv, Done, Passed, SessionInv
<1>6. NamesNew' /\ Once(todo')
  BY <1>1, <1>3, <1>5, RowPasses DEF SessionInv
<1>7. EntryOwned => EntryOwned'
  BY <1>3, <1>5 DEF EntryOwned
<1>8. \A x \in Live : x \in {at["lef"], at["body"]} => x \in left'
  BY <1>3, TrackerAssumption DEF LefBlocks, Live
<1>9. AllOwned'
  BY <1>3, <1>4, <1>5, <1>7, <1>8 DEF AllOwned, Owned
<1> QED BY <1>6, <1>9 DEF OwnInv

LEMMA CheckOwned ==
  ASSUME SessionInv, OwnInv, CheckSignature
  PROVE  OwnInv'
<1>1. Running /\ todo # <<>> /\ Sound
  BY DEF CheckSignature, Doing, SessionInv
<1>2. PICK Q : Follows(Head(todo), Q) /\ Rest = {Head(todo)} \cup Q
  BY <1>1, FromFront DEF SessionInv, OrderInv
<1>3. Head(todo) = Checking
  BY <1>1, Heads DEF CheckSignature, Doing, OfOp, SessionInv
<1>4. Rest = {Checking}
  BY <1>2, <1>3 DEF Follows
<1>5. UNCHANGED <<at, names, objects>> /\ live' = live
  BY DEF CheckSignature, trackerVars
<1>6. AllOwned /\ Live' = Live /\ names = {}
  BY <1>1, <1>4, <1>5 DEF OwnInv, Live, Sound, NamesInv, NamesTime
<1>7. CASE flash.head # "erased"
  <2>1. todo' = LoadAndRun \o FreeLef \o << Leaving >> /\ left' = left
    BY <1>7 DEF CheckSignature
  <2>2. Ordered(todo', LoadCalls \cup FreeCalls \cup {Leaving})
    BY <2>1, RunAndLeaveOrdered
  <2>3. Rest' = LoadCalls \cup FreeCalls \cup {Leaving}
    BY <2>2 DEF Ordered, Rest
  <2>4. NoNames(Rest') /\ LefOwned' /\ BodyOwned'
    BY <2>3 DEF LoadCalls, FreeCalls, NoNames, LefOwned, BodyOwned, HasLef, HasBody
  <2>5. Once(todo')
    BY <2>2, <2>3, <2>4, OnceNoNames
  <2>6. AllOwned'
    BY <1>5, <1>6, <2>1, <2>4 DEF AllOwned, Owned, EntryOwned
  <2> QED BY <1>5, <1>6, <2>5, <2>6 DEF OwnInv, NamesNew
<1>8. CASE flash.head = "erased"
  <2>1. todo' = <<>> /\ left' = left \cup LefBlocks
    BY <1>8 DEF CheckSignature
  <2>2. Once(todo')
    BY <2>1 DEF Once
  <2>3. \A x \in Live : x \in {at["lef"], at["body"]} => x \in left'
    BY <2>1, TrackerAssumption DEF LefBlocks, Live
  <2>4. AllOwned'
    BY <1>5, <1>6, <2>1, <2>3 DEF AllOwned, Owned, EntryOwned
  <2> QED BY <1>5, <1>6, <2>2, <2>4 DEF OwnInv, NamesNew
<1> QED BY <1>7, <1>8

LEMMA VmInitialiseOwned ==
  ASSUME SessionInv, OwnInv, VmInitialise
  PROVE  OwnInv'
<1> DEFINE c == Head(todo)
<1>1. Running /\ todo # <<>> /\ Done /\ Sound
  BY DEF VmInitialise, Doing, SessionInv
<1>2. OfOp(c) /\ Rest = {c} \cup Rest' /\ Follows(c, Rest')
  BY <1>1, Heads, Advances DEF SessionInv, Done, Passed
<1>3. c = VmIniting
  BY <1>2 DEF VmInitialise, Doing, OfOp
<1>4. /\ UNCHANGED <<names, objects, left>> /\ live' = live
      /\ at' = [at EXCEPT !["stack"] = NULL, !["globals"] = NULL]
  BY DEF VmInitialise, trackerVars
<1>5. /\ at'["vm"] = at["vm"] /\ at'["lef"] = at["lef"] /\ at'["body"] = at["body"]
      /\ at'["entry"] = at["entry"] /\ at'["primitives"] = at["primitives"]
      /\ at'["pools"] = at["pools"]
  BY <1>4 DEF SessionInv, ShapeInv, TypeOK, Holder
<1>6. AllOwned /\ NamesNew /\ Once(todo) /\ Live' = Live
  BY <1>1, <1>4 DEF OwnInv, Live
<1>7. NamesNew' /\ Once(todo')
  BY <1>1, <1>4, <1>6, RowPasses DEF SessionInv
<1> HIDE DEF c
<1>8. /\ Alloc("stack") \in Rest' /\ Dealloc("stack") \notin Rest'
      /\ Leaving \in Rest' \/ Dealloc("globals") \in Rest' => Alloc("globals") \in Rest'
  BY <1>2, <1>3 DEF Follows
<1>9. at["stack"] = NULL /\ at["globals"] = NULL
  BY <1>1, <1>2, <1>3, <1>8 DEF Sound, PointersInv, StackUnset, GlobalsEnd, Unset
<1>10. \A x \in Live : x # NULL
  BY TrackerAssumption DEF Live
<1>11. (EntryOwned => EntryOwned') /\ (LefOwned => LefOwned') /\ (BodyOwned => BodyOwned')
  BY <1>2, <1>3, <1>4 DEF EntryOwned, LefOwned, BodyOwned, HasLef, HasBody
<1>12. AllOwned'
  BY <1>4, <1>5, <1>6, <1>9, <1>10, <1>11 DEF AllOwned, Owned
<1> QED BY <1>7, <1>12 DEF OwnInv

LEMMA CreateOwned ==
  ASSUME NamesOnce, SessionInv, OwnInv, CreateSymbolTable
  PROVE  OwnInv'
<1>1. Running /\ todo # <<>> /\ Sound /\ OfOp(Head(todo))
  BY Heads DEF CreateSymbolTable, Doing, SessionInv
<1>2. PICK R : Ordered(Tail(todo), R) /\ Follows(Head(todo), R) /\ Rest = {Head(todo)} \cup R
  BY <1>1, FromFront DEF SessionInv, OrderInv
<1>3. Head(todo) = Create
  BY <1>1 DEF CreateSymbolTable, Doing, OfOp
<1>4. /\ UNCHANGED <<at, names, objects, left>> /\ live' = live
      /\ lef \in Program
      /\ todo' = Interns(lef) \o EntryRow(lef) \o Tail(todo)
  BY DEF CreateSymbolTable, trackerVars, EntryRow
<1>5. /\ Rest = {Create} \cup R /\ NoFile(R) /\ NoNames(R) /\ VmLast(R)
      /\ {Run, InitGlobals} \subseteq R
  BY <1>2, <1>3 DEF Follows, VmLast, Freeing
<1>6. PICK Q : Ordered(todo', Q) /\ RowGrows(lef, R, Q)
  BY <1>2, <1>4, <1>5, NamesRowOrdered
<1>7. Q = Rest'
  BY <1>6 DEF Ordered, Rest
<1>8. R \subseteq Rest' /\ \A x : x \in Rest' => x \in R \/ x.op = "intern" \/ x = Alloc("entry")
  BY <1>6, <1>7 DEF RowGrows, Internings
<1>9. names = {} /\ AllOwned /\ Live' = Live
  BY <1>1, <1>4, <1>5 DEF Sound, NamesInv, NamesTime, OwnInv, Live
<1>10. (LefOwned => LefOwned') /\ (BodyOwned => BodyOwned')
  BY <1>5, <1>8 DEF LefOwned, BodyOwned, HasLef, HasBody
<1>11. AllOwned'
  BY <1>4, <1>9, <1>10 DEF AllOwned, Owned, EntryOwned
<1>12. Once(todo')
  BY <1>2, <1>4, <1>5, OnceCreated
<1> QED BY <1>4, <1>9, <1>11, <1>12 DEF OwnInv, NamesNew

LEMMA InternOwned ==
  ASSUME SessionInv, OwnInv, Intern
  PROVE  OwnInv'
<1>1. Running /\ todo # <<>> /\ Done /\ Sound
  BY DEF Intern, Doing, SessionInv
<1>2. OfOp(Head(todo)) /\ Rest = {Head(todo)} \cup Rest' /\ Follows(Head(todo), Rest')
  BY <1>1, Heads, Advances DEF SessionInv, Done, Passed
<1>3. Head(todo) = Interning(Arg) /\ Head(todo).op = "intern"
  BY <1>2 DEF Intern, Doing, OfOp, Arg
<1>4. AllOwned /\ NamesNew /\ Once(todo)
  BY <1>1 DEF OwnInv
<1>5. \A n \in names : n.name # Arg
  BY <1>2, <1>3, <1>4 DEF NamesNew
<1>6. PICK b \in Memory :
        /\ OsMalloc(1, b) /\ Take(b, "node")
        /\ names' = names \cup {[name |-> Arg, of |-> lef, text |-> at["body"], node |-> b]}
  BY <1>5 DEF Intern
<1>7. UNCHANGED <<at, objects, left>>
  BY DEF Intern
<1>8. Filled(b, "node")
  BY <1>1, <1>6, Fills
<1>9. Live' = Live \cup {b}
  BY <1>8 DEF Filled, Took
<1>10. NamesNew'
  <2>1. Interning(Arg) \notin Rest'
    BY <1>1, <1>3, <1>4, HeadIsOnce DEF SessionInv
  <2>2. \A n \in names' : n \in names \/ n.name = Arg
    BY <1>6
  <2>3. Rest' \subseteq Rest
    BY <1>2
  <2> QED BY <1>4, <2>1, <2>2, <2>3 DEF NamesNew
<1>11. Once(todo')
  <2>1. todo \in Seq(Rest)
    BY DEF SessionInv, OrderInv, Ordered
  <2>2. /\ todo' = Tail(todo)
        /\ \A i \in DOMAIN todo' : i \in Nat /\ i + 1 \in DOMAIN todo /\ todo'[i] = todo[i + 1]
    BY <1>1, <2>1 DEF Done
  <2> QED BY <1>4, <2>2 DEF Once
<1>12. ~EntryOwned
  BY <1>2, <1>3 DEF Follows, EntryOwned
<1>13. (LefOwned => LefOwned') /\ (BodyOwned => BodyOwned')
  BY <1>2, <1>3 DEF LefOwned, BodyOwned, HasLef, HasBody
<1>14. ASSUME NEW x \in Live' PROVE Owned(x)'
  <2>1. CASE x = b
    <3> DEFINE n == [name |-> Arg, of |-> lef, text |-> at["body"], node |-> b]
    <3>1. n \in names' /\ n.node = x
      BY <1>6, <2>1
    <3> HIDE DEF n
    <3> QED BY <3>1 DEF Owned
  <2>2. CASE x # b
    <3>1. Owned(x)
      BY <1>4, <1>9, <2>2 DEF AllOwned
    <3>2. names \subseteq names'
      BY <1>6
    <3> QED BY <1>7, <1>12, <1>13, <3>1, <3>2 DEF Owned
  <2> QED BY <2>1, <2>2
<1>15. AllOwned'
  BY <1>14 DEF AllOwned
<1> QED BY <1>10, <1>11, <1>15 DEF OwnInv

LEMMA CleanOwned ==
  ASSUME SessionInv, OwnInv, CleanSymbolTable
  PROVE  OwnInv'
<1> DEFINE bs == {n.node : n \in names} \cup {at["entry"]}
<1>1. Running /\ todo # <<>> /\ Done
  BY DEF CleanSymbolTable, Doing
<1>2. OfOp(Head(todo)) /\ Rest = {Head(todo)} \cup Rest'
  BY <1>1, Heads, Advances DEF SessionInv, Done, Passed
<1>3. Head(todo) = Clean
  BY <1>2 DEF CleanSymbolTable, Doing, OfOp
<1>4. AllOwned /\ NamesNew /\ Once(todo)
  BY <1>1 DEF OwnInv
<1>5. UNCHANGED <<at, objects, left>> /\ names' = {}
  BY DEF CleanSymbolTable
<1>6. \A x \in Live' : x \in Live /\ (\A n \in names : x # n.node) /\ (x = at["entry"] => names = {})
  <2>1. CASE names = {} /\ live' = live
    BY <2>1 DEF Live
  <2>2. CASE names # {} /\ OsFreeAll(bs)
    <3>1. Live' = Live \ bs
      <4> HIDE DEF bs
      <4> QED BY <1>1, <2>2, GivesAll DEF SessionInv, GaveAll
    <3>2. \A n \in names : n.node \in bs
      OBVIOUS
    <3>3. at["entry"] \in bs
      OBVIOUS
    <3> HIDE DEF bs
    <3> QED BY <2>2, <3>1, <3>2, <3>3
  <2> QED BY <2>1, <2>2 DEF CleanSymbolTable, trackerVars
<1> HIDE DEF bs
<1>7. (LefOwned => LefOwned') /\ (BodyOwned => BodyOwned')
  BY <1>2, <1>3 DEF LefOwned, BodyOwned, HasLef, HasBody
<1>8. AllOwned'
  BY <1>4, <1>5, <1>6, <1>7 DEF AllOwned, Owned, EntryOwned
<1>9. NamesNew' /\ Once(todo')
  <2>1. names' \subseteq names
    BY <1>5
  <2> QED BY <1>1, <1>4, <2>1, RowPasses DEF SessionInv
<1> QED BY <1>8, <1>9 DEF OwnInv

LEMMA CommandOwned ==
  ASSUME SessionInv, OwnInv, Command
  PROVE  OwnInv'
<1>1. Running /\ todo = <<>> /\ Sound /\ todo' \in Rows
  BY DEF Command, Prompt, SessionInv
<1>2. UNCHANGED <<at, names, objects, left>> /\ live' = live
  BY DEF Command, trackerVars, ram
<1>3. Rest = {}
  BY <1>1 DEF Rest, CallsOf
<1>4. names = {} /\ AllOwned /\ Live' = Live
  BY <1>1, <1>2, <1>3 DEF Sound, NamesInv, NamesTime, OwnInv, Live
<1>5. AllOwned'
  BY <1>2, <1>3, <1>4 DEF AllOwned, Owned, EntryOwned, LefOwned, BodyOwned, HasLef, HasBody
<1>6. Once(todo')
  BY <1>1, RowsOrdered, OnceNoNames DEF AtPrompt, Begins
<1> QED BY <1>2, <1>4, <1>5, <1>6 DEF OwnInv, NamesNew

LEMMA PoweredOnOwned == PoweredOn => OwnInv
<1> SUFFICES ASSUME PoweredOn PROVE OwnInv
  OBVIOUS
<1>1. live = [b \in Block |-> NotLive] /\ names = {} /\ todo \in Starts
  BY DEF PoweredOn, TrackerInit, RamInit
<1>2. AllOwned
  BY <1>1 DEF AllOwned, Live
<1>3. Once(todo)
  BY <1>1, StartsOrdered, OnceNoNames DEF Begins
<1> QED BY <1>1, <1>2, <1>3 DEF OwnInv, NamesNew

LEMMA PoweredOnOwnedAgain == (PoweredOn => OwnInv)'
BY PoweredOnOwned, PTL

LEMMA OwnStep ==
  ASSUME NamesOnce, SessionInv, OwnInv, [Next]_vars
  PROVE  OwnInv'
<1>1. CASE UNCHANGED vars
  <2>1. UNCHANGED <<live, stopped, at, names, objects, left, todo>>
    BY <1>1 DEF vars, trackerVars, ram
  <2>2. Rest' = Rest /\ Live' = Live
    BY <2>1 DEF Rest, Live
  <2> QED BY <2>1, <2>2 DEF OwnInv, Running, AllOwned, Owned, EntryOwned, LefOwned, BodyOwned,
     NamesNew, Once
<1>2. CASE PowerLoss
  <2>1. TrackerInit' /\ RamInit' /\ todo' \in Starts
    BY <1>2 DEF PowerLoss, TrackerInit, RamInit
  <2>2. flash' \in [{"head", "body"} -> Program \cup {"erased", "mixed"}]
    BY <1>2 DEF PowerLoss, SessionInv, ShapeInv, TypeOK
  <2>3. PoweredOn'
    BY <2>1, <2>2 DEF PoweredOn
  <2> QED BY <2>3, PoweredOnOwnedAgain
<1>3. CASE Work
  <2>1. CASE ~Running'
    BY <2>1 DEF OwnInv
  <2>2. CASE Running'
    <3>1. CASE Memories
      BY <2>2, <3>1, TakeOwned, GiveOwned DEF Memories
    <3>2. CASE Loaders
      <4>1. CASE Leave
        BY <2>2, <4>1 DEF Leave, Running
      <4> QED BY <2>2, <3>2, <4>1, PlainOwned, KeepOwned, CheckOwned DEF Loaders
    <3>3. CASE Machine
      BY <2>2, <3>3, PlainOwned, StepOwned, VmInitialiseOwned, CreateOwned, InternOwned, CleanOwned
         DEF Machine
    <3>4. CASE Fault
      BY <2>2, <3>4 DEF Fault, Running
    <3> QED BY <1>3, <3>1, <3>2, <3>3, <3>4 DEF Work
  <2> QED BY <2>1, <2>2
<1>4. CASE Command
  BY <1>4, CommandOwned
<1> QED BY <1>1, <1>2, <1>3, <1>4 DEF Next

(* What is allocated at the prompt is the board's own, a file that was      *)
(* kept, or an object of a program that ended without HALT, provided no     *)
(* symbol table lists a name twice: intern in symbol.c forgets the node of  *)
(* a second one.                                                            *)
THEOREM NothingElseIsLost ==
  ASSUME NamesOnce
  PROVE  Spec => []NothingElseLost
<1>1. Init => SessionInv /\ OwnInv
  BY SessionStarts, PoweredOnOwned DEF Init, PoweredOn
<1>2. SessionInv /\ OwnInv /\ [Next]_vars => (SessionInv /\ OwnInv)'
  BY SessionStep, OwnStep
<1>3. SessionInv /\ OwnInv => NothingElseLost
  <2> SUFFICES ASSUME SessionInv, OwnInv, Running, todo = <<>>, NEW b \in Live
               PROVE  b \in {at[h] : h \in {"vm", "primitives", "stack", "pools"}} \cup left \cup objects
    BY DEF NothingElseLost, Prompt
  <2>1. Rest = {} /\ Sound /\ Owned(b) /\ b # NULL
    BY TrackerAssumption DEF Rest, CallsOf, SessionInv, OwnInv, AllOwned, Live
  <2>2. names = {} /\ at["globals"] = NULL
    BY <2>1 DEF Sound, NamesInv, NamesTime, PointersInv, GlobalsEnd
  <2> QED BY <2>1, <2>2 DEF Owned, EntryOwned, LefOwned, BodyOwned, HasLef, HasBody
<1> QED BY <1>1, <1>2, <1>3, PTL DEF Spec
==============================================================================
