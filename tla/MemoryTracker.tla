---------------------------- MODULE MemoryTracker ----------------------------
(***************************************************************************)
(* The allocator of the debug build: os_malloc, os_calloc and os_free of    *)
(* memory.c over the C library's malloc, with the table g_used_memory of    *)
(* MEMORY_TRACKER_ARRAY_LENGTH entries that lets a PC refuse memory beyond  *)
(* MEMORY_HARD_LIMIT.  The table is searched from its start for a slot      *)
(* whose pointer is NULL, so a slot is used again by whoever allocates      *)
(* next.                                                                    *)
(***************************************************************************)
EXTENDS Integers, FiniteSets, FiniteSetsExt

CONSTANTS Block,              \* addresses __malloc may return
          NULL,
          TrackerLength,      \* MEMORY_TRACKER_ARRAY_LENGTH
          MemoryHardLimit,    \* MEMORY_HARD_LIMIT, in the unit of the sizes
          Sizes               \* sizes the callers ask for

ASSUME TrackerAssumption ==
  /\ NULL \notin Block
  /\ TrackerLength \in Nat
  /\ MemoryHardLimit \in Nat
  /\ Sizes \subseteq Nat

VARIABLES table,     \* g_used_memory
          live,      \* live[b]: the bytes __malloc gave at b, or NotLive
          stopped    \* why the machine stopped: a PANIC, an exit, a fault; or "no"

trackerVars == <<table, live, stopped>>

NotLive == -1
Slot == 1 .. TrackerLength
EmptySlot == [ptr |-> NULL, size |-> 0]

TrackerInit == /\ table = [i \in Slot |-> EmptySlot]
               /\ live = [b \in Block |-> NotLive]
               /\ stopped = "no"

Live == {b \in Block : live[b] # NotLive}
Tracked(b) == {i \in Slot : table[i].ptr = b}
Used == MapThenSumSet(LAMBDA i : table[i].size, Slot)

\* Faulty variant: the request itself is left out of the comparison.
RefusesLate(size) == Used > MemoryHardLimit
Refuses(size) == Used + size > MemoryHardLimit

\* The first slot without a pointer; none when the table is used up.
FirstEmpty == {i \in Tracked(NULL) : \A j \in Tracked(NULL) : i <= j}

Record(b, size) ==
  IF FirstEmpty = {}
  THEN stopped' = "used_up" /\ table' = table
  ELSE /\ \E i \in FirstEmpty :
            table' = [table EXCEPT ![i] = [ptr |-> b, size |-> size]]
       /\ stopped' = stopped

(* os_malloc (size) returns b, or NULL when the limit or the library        *)
(* refuses.  A full table stops the machine after the library's malloc.     *)
OsMalloc(size, b) ==
  IF b = NULL
  THEN UNCHANGED trackerVars
  ELSE /\ ~Refuses(size)
       /\ live[b] = NotLive
       /\ live' = [live EXCEPT ![b] = size]
       /\ Record(b, size)

(* os_calloc (n, size) is refused by n * size but recorded as size.         *)
OsCalloc(n, size, b) ==
  IF b = NULL
  THEN UNCHANGED trackerVars
  ELSE /\ ~Refuses(n * size)
       /\ live[b] = NotLive
       /\ live' = [live EXCEPT ![b] = n * size]
       /\ Record(b, size)

\* Faulty variant: the slot keeps its pointer and loses only its size.
UnrecordSize(b) == table' = [i \in Slot |-> IF table[i].ptr = b
                                            THEN [table[i] EXCEPT !.size = 0]
                                            ELSE table[i]]

\* os_free clears the first slot with this pointer.
Unrecord(b) ==
  \E i \in Tracked(b) : /\ \A j \in Tracked(b) : i <= j
                        /\ table' = [table EXCEPT ![i] = EmptySlot]

(* os_free (b): NULL stops the machine, and so does a pointer the table     *)
(* does not know, after the library's free has seen it.                     *)
OsFree(b) ==
  IF b = NULL
  THEN stopped' = "free_of_NULL" /\ UNCHANGED <<table, live>>
  ELSE /\ live' = [live EXCEPT ![b] = NotLive]
       /\ IF Tracked(b) = {}
          THEN stopped' = "free_of_unknown" /\ table' = table
          ELSE Unrecord(b) /\ stopped' = stopped

\* A row of os_free calls for blocks the table knows.
OsFreeAll(bs) ==
  /\ live' = [b \in Block |-> IF b \in bs THEN NotLive ELSE live[b]]
  /\ table' = [i \in Slot |-> IF table[i].ptr \in bs THEN EmptySlot ELSE table[i]]
  /\ stopped' = stopped

------------------------------------------------------------------------------
(* The allocator with arbitrary callers.                                    *)
Malloc == /\ stopped = "no"
          /\ \E size \in Sizes, b \in Block \cup {NULL} : OsMalloc(size, b)

\* def_prim, the only caller, asks for one structure.
Calloc == /\ stopped = "no"
          /\ \E size \in Sizes, b \in Block \cup {NULL} : OsCalloc(1, size, b)

Free == /\ stopped = "no"
        /\ \E b \in Block \cup {NULL} : OsFree(b)

TrackerNext == Malloc \/ Calloc \/ Free

TrackerSpec == TrackerInit /\ [][TrackerNext]_trackerVars

TrackerTypeOK ==
  /\ table \in [Slot -> [ptr : Block \cup {NULL}, size : Nat]]
  /\ live \in [Block -> Nat \cup {NotLive}]

(* What the table says is what the library gave: as long as the machine     *)
(* runs, a block is in the table exactly when it is live, in one slot only, *)
(* with its bytes; a slot without a pointer counts nothing.  So os_free     *)
(* stops the machine exactly for pointers that are not live, and the limit  *)
(* is computed from the truth, whatever the order of calls.                 *)
TrackerExact ==
  stopped # "used_up" =>
    /\ \A i, j \in Slot : table[i].ptr = table[j].ptr /\ table[i].ptr # NULL => i = j
    /\ \A i \in Slot : table[i].ptr = NULL => table[i].size = 0
    /\ \A i \in Slot : table[i].ptr # NULL => live[table[i].ptr] = table[i].size
    /\ \A b \in Live : Tracked(b) # {}

(* The bytes in use never exceed MEMORY_HARD_LIMIT (os.h:144), the purpose  *)
(* of the debug build.                                                      *)
LimitKept == MapThenSumSet(LAMBDA b : live[b], Live) <= MemoryHardLimit
==============================================================================
