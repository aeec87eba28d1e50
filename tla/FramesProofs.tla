----------------------------- MODULE FramesProofs ----------------------------
(***************************************************************************)
(* The frames of the VM are where the registers say, every step of the VM   *)
(* is one of CallStack, and a return re-establishes the registers of the    *)
(* caller: for every size of the stack, every program and every number of   *)
(* objects, with the primitives that apply procedures included.             *)
(*                                                                          *)
(* The inductive invariant Inv says of every activation, not only of the    *)
(* newest, what the registers were when it last ran (FrameFits), that the   *)
(* activations do not overlap, that memory holds frames and objects, that   *)
(* every loop of apply_proc has a primitive's frame of its own, and that    *)
(* local stays inside the stack.                                            *)
(***************************************************************************)
EXTENDS HigherOrder, TLAPS

------------------------------------------------------------------------------
(* The layout of the stack: what a write leaves and keeps, where frames and *)
(* objects lie, and how that changes when one activation does.  Nothing     *)
(* here is about a particular instruction.  The invariant is stated of      *)
(* sequences A of activations and H of frame headers and of a memory m, so  *)
(* that a step can be taken apart into changes of each.                     *)

------------------------------------------------------------------------------
(* Memory.                                                                  *)

\* A byte array of the size of the stack.
IsMemory(m) == DOMAIN m = 0 .. STKSEG_SIZE - 1

(* A value that was written is read back.                                   *)
LEMMA GetHeld ==
  ASSUME NEW m, NEW o \in Int, NEW s \in Nat \ {0}, NEW v, Holds(m, o, s, v)
  PROVE  Get(m, o, s) = v
<1>1. m[o + 0].v = v
  BY DEF Holds
<1>2. m[o].v = v
  BY <1>1
<1> QED BY <1>2 DEF Get

\* The size of the stack is a number,
LEMMA Size == STKSEG_SIZE \in Nat
BY FramesAssumption

\* The sizes of what is on the stack (vm.h).
LEMMA Sizes ==
  /\ SizeReg = 2 /\ SizeAttr = 1 /\ SizePtr = 4 /\ SizeObject = 5 /\ FPS = 11
  /\ 2 * SizeReg = 4 /\ 3 * SizeReg = 6 /\ 3 * SizeReg + SizeAttr = 7
BY DEF SizeReg, SizeAttr, SizePtr, SizeObject, FPS

\* ... and not 0.
LEMMA Some == 0 < STKSEG_SIZE
BY FramesAssumption

\* The closures start with the captured variables they were made with.
LEMMA Captures == InitEnv \in [Closure -> Seq(Object)]
BY FramesAssumption

(* A write leaves the bytes it was given ...                                *)
LEMMA PutHolds ==
  ASSUME NEW m, IsMemory(m), NEW o \in Nat, NEW s \in Nat, NEW v,
         o + s <= STKSEG_SIZE
  PROVE  IsMemory(Put(m, o, s, v)) /\ Holds(Put(m, o, s, v), o, s, v)
<1>1. IsMemory(Put(m, o, s, v))
  BY DEF IsMemory, Put
<1>2. ASSUME NEW k \in 0 .. s - 1
      PROVE  Put(m, o, s, v)[o + k] = Byte(v, k, s)
  <2>1. o + k \in DOMAIN m /\ o + k \in o .. o + s - 1
    BY Size DEF IsMemory
  <2>2. Put(m, o, s, v)[o + k] = Byte(v, (o + k) - o, s)
    BY <2>1 DEF Put
  <2>3. (o + k) - o = k
    OBVIOUS
  <2> QED BY <2>2, <2>3
<1>3. ASSUME NEW k \in 0 .. s - 1
      PROVE  /\ Put(m, o, s, v)[o + k].s = s
             /\ Put(m, o, s, v)[o + k].k = k
             /\ Put(m, o, s, v)[o + k].v = v
  <2>1. Put(m, o, s, v)[o + k] = Byte(v, k, s)
    BY <1>2
  <2>2. Byte(v, k, s).s = s /\ Byte(v, k, s).k = k /\ Byte(v, k, s).v = v
    BY DEF Byte
  <2> QED BY <2>1, <2>2
<1> QED BY <1>1, <1>3 DEF Holds

(* ... and every value elsewhere.                                           *)
LEMMA PutKeeps ==
  ASSUME NEW m, IsMemory(m), NEW o \in Nat, NEW s \in Nat, NEW v,
         NEW p \in Nat, NEW t \in Nat, NEW w, p + t <= STKSEG_SIZE,
         p + t <= o \/ o + s <= p,
         Holds(m, p, t, w)
  PROVE  Holds(Put(m, o, s, v), p, t, w)
<1>1. ASSUME NEW k \in 0 .. t - 1
      PROVE  Put(m, o, s, v)[p + k] = m[p + k]
  <2>1. p + k \in DOMAIN m /\ p + k \notin o .. o + s - 1
    BY Size DEF IsMemory
  <2> QED BY <2>1 DEF Put
<1> QED BY <1>1 DEF Holds

\* m and n have the same bytes below o.
SameBelow(m, n, o) == \A i \in 0 .. o - 1 : m[i] = n[i]

\* A value below o is found in a memory that agrees below o,
LEMMA SameHolds ==
  ASSUME NEW m, NEW n, NEW o \in Nat, SameBelow(m, n, o),
         NEW p \in Nat, NEW t \in Nat, p + t <= o, NEW w, Holds(m, p, t, w)
  PROVE  Holds(n, p, t, w)
BY DEF SameBelow, Holds

\* ... from lo up to hi.
SameOn(m, n, lo, hi) == \A i \in lo .. hi - 1 : m[i] = n[i]

\* ... and one between lo and hi in a memory that agrees there.
LEMMA SameOnHolds ==
  ASSUME NEW m, NEW n, NEW lo \in Nat, NEW hi \in Nat, SameOn(m, n, lo, hi),
         NEW p \in Nat, NEW t \in Nat, lo <= p, p + t <= hi, NEW w, Holds(m, p, t, w)
  PROVE  Holds(n, p, t, w)
BY DEF SameOn, Holds

\* Memories that agree below w agree on every part of it.
LEMMA SameBelowOn ==
  ASSUME NEW m, NEW n, NEW w \in Nat, SameBelow(m, n, w), NEW lo \in Nat, NEW hi \in Nat, hi <= w
  PROVE  SameOn(m, n, lo, hi)
BY DEF SameOn, SameBelow

\* A write leaves the bytes before and after it,
LEMMA PutSameOn ==
  ASSUME NEW m, IsMemory(m), NEW o \in Nat, NEW s \in Nat, NEW v,
         NEW lo \in Nat, NEW hi \in Nat, hi <= STKSEG_SIZE, hi <= o \/ o + s <= lo
  PROVE  SameOn(m, Put(m, o, s, v), lo, hi)
<1>1. ASSUME NEW i \in lo .. hi - 1
      PROVE  Put(m, o, s, v)[i] = m[i]
  <2>1. i \in DOMAIN m /\ i \notin o .. o + s - 1
    BY Size DEF IsMemory
  <2> QED BY <2>1 DEF Put
<1> QED BY <1>1 DEF SameOn

\* ... in particular those below it.
LEMMA PutSame ==
  ASSUME NEW m, IsMemory(m), NEW o \in Nat, NEW s \in Nat, NEW v, o <= STKSEG_SIZE
  PROVE  IsMemory(Put(m, o, s, v)) /\ SameBelow(m, Put(m, o, s, v), o)
<1>1. IsMemory(Put(m, o, s, v))
  BY DEF IsMemory, Put
<1>2. ASSUME NEW i \in 0 .. o - 1
      PROVE  Put(m, o, s, v)[i] = m[i]
  <2>1. i \in DOMAIN m /\ i \notin o .. o + s - 1
    BY Size DEF IsMemory
  <2> QED BY <2>1 DEF Put
<1> QED BY <1>1, <1>2 DEF SameBelow

(* The moves of CopyShadow and call_closure_on_heap.                        *)
LEMMA ShiftHolds ==
  ASSUME NEW m, IsMemory(m), NEW to \in Nat, NEW from \in Nat, NEW n \in Nat,
         to + n <= STKSEG_SIZE, from + n <= STKSEG_SIZE,
         NEW d \in Nat, NEW t \in Nat, d + t <= n, NEW w, Holds(m, from + d, t, w)
  PROVE  Holds(Shift(m, to, from, n), to + d, t, w)
<1> SUFFICES ASSUME NEW k \in 0 .. t - 1
             PROVE  Shift(m, to, from, n)[to + d + k] = m[from + d + k]
  BY DEF Holds
<1>1. to + d + k \in DOMAIN m /\ to + d + k \in to .. to + n - 1
  BY Size DEF IsMemory
<1>2. Shift(m, to, from, n)[to + d + k] = m[(to + d + k) - to + from]
  BY <1>1 DEF Shift
<1>3. (to + d + k) - to + from = from + d + k
  OBVIOUS
<1> QED BY <1>2, <1>3

\* Moving bytes (memmove in CALL_PROCEDURE and in a tail call) leaves those below the target.
LEMMA ShiftSame ==
  ASSUME NEW m, IsMemory(m), NEW to \in Nat, NEW from \in Nat, NEW n \in Nat,
         to <= STKSEG_SIZE
  PROVE  IsMemory(Shift(m, to, from, n)) /\ SameBelow(m, Shift(m, to, from, n), to)
<1>1. IsMemory(Shift(m, to, from, n))
  BY DEF IsMemory, Shift
<1>2. ASSUME NEW i \in 0 .. to - 1
      PROVE  Shift(m, to, from, n)[i] = m[i]
  <2>1. i \in DOMAIN m /\ i \notin to .. to + n - 1
    BY Size DEF IsMemory
  <2> QED BY <2>1 DEF Shift
<1> QED BY <1>1, <1>2 DEF SameBelow

------------------------------------------------------------------------------
(* What the stack holds.                                                    *)

\* What an activation and the saved registers are made of.
Activation == [objs : Seq(Object), locs : Nat, phase : {"args", "body", "loop", "tail"},
               n : Nat, home : Nat, ret : Code \cup {NULL}, clo : Closure \cup {NULL},
               applied : BOOLEAN]

\* Where an activation begins and the registers its frame saved.
FrameHeader == [at : Nat, fp : Nat, local : Nat, attr : Attr]

\* The activation whose variables the code refers to while activation i is the newest.
ExecAt(A, i) == IF A[i].phase = "args" THEN A[i].home ELSE i

\* Where the objects of activation i end.
End(A, H, i) == H[i].at + SizeObject * Len(A[i].objs)

\* The registers while activation i is the newest.
Registers(A, H, i, s, f, l, t, c) ==
  /\ s = End(A, H, i)
  /\ f = IF i = 1 THEN 0 ELSE H[i].at - FPS
  /\ l = H[ExecAt(A, i)].at + SizeObject * A[ExecAt(A, i)].locs
  /\ A[i].phase \in {"args", "tail"} => t.shadow = 0
  /\ A[i].phase = "loop" => t.shadow = A[i].n
  /\ c = NULL => A[ExecAt(A, i)].locs = 0

\* Frame i saves the registers that were in force when it was pushed.
FrameFits(A, H, i) ==
  /\ Registers(A, H, i - 1, H[i].at - FPS, H[i].fp, H[i].local, H[i].attr, A[i].clo)
  /\ A[i].home = ExecAt(A, i - 1)
  /\ A[i].home \in 1 .. i - 1
  /\ A[i].phase = "args" => A[i].n = 0 /\ A[i].locs = 0
  /\ A[i].phase # "args" => A[i].ret \in Code

\* The activations lie one above the other, each above its frame.
Layout(A, H) ==
  /\ A \in Seq(Activation) /\ H \in Seq(FrameHeader)
  /\ Len(A) >= 1 /\ Len(H) = Len(A)
  /\ H[1].at = 0 /\ A[1].phase = "body"
  /\ \A i \in 2 .. Len(A) : FrameFits(A, H, i)
  /\ \A i, j \in 1 .. Len(A) : i < j => End(A, H, i) + FPS <= H[j].at

\* HeaderHeld and ObjectsHeld of any memory.  The frame of a primitive that applies
\* a procedure keeps the frame pointer as it is.
HeaderIn(m, A, H, i) ==
  LET o == H[i].at - FPS
  IN  /\ Holds(m, o, SizeReg, IF A[i].phase = "args" THEN NORMAL_JUMP ELSE A[i].ret)
      /\ Holds(m, o + SizeReg, SizeReg, H[i].local)
      /\ \/ Holds(m, o + 2 * SizeReg, SizeReg, H[i].fp) /\ H[i].fp # NO_PREV_FP
         \/ Holds(m, o + 2 * SizeReg, SizeReg, NO_PREV_FP) /\ H[i].fp = 0 /\ ~A[i].applied
      /\ Holds(m, o + 3 * SizeReg, SizeAttr, H[i].attr)
      /\ Holds(m, o + 3 * SizeReg + SizeAttr, SizePtr, A[i].clo)

\* A row of objects.
ObjectsAt(m, at, objs) ==
  \A k \in 1 .. Len(objs) : Holds(m, at + SizeObject * (k - 1), SizeObject, objs[k])

\* The objects of activation i.
ObjectsIn(m, A, H, i) == ObjectsAt(m, H[i].at, A[i].objs)

\* Memory holds the frames and the objects.
Contents(m, A, H) ==
  /\ IsMemory(m)
  /\ End(A, H, Len(A)) < STKSEG_SIZE
  /\ \A i \in 2 .. Len(A) : HeaderIn(m, A, H, i)
  /\ \A i \in 1 .. Len(A) : ObjectsIn(m, A, H, i)

\* The inductive invariant.
FrameInv ==
  /\ Layout(acts, hdr)
  /\ Contents(mem, acts, hdr)
  /\ Registers(acts, hdr, Len(acts), sp, fp, local, attr, closure)
  /\ attr \in Attr /\ closure \in Closure \cup {NULL} /\ pc \in Code
  /\ env \in [Closure -> Seq(Object)]
  /\ stopped \in BOOLEAN

\* A loop of apply_proc belongs to the frame of a primitive.
RunsFit ==
  /\ runs \in Seq([prim : {"map", "thunk", "VM_EXCPT", "VM_EXCPT_CONT"}, entry : Code,
                    left : Nat, depth : Nat])
  /\ \A r \in DOMAIN runs : /\ runs[r].depth \in 2 .. Len(acts)
                            /\ acts[runs[r].depth].applied
  /\ \A r, q \in DOMAIN runs : r < q => runs[r].depth < runs[q].depth

------------------------------------------------------------------------------
(* The objects of one activation.                                           *)

\* The k-th of len objects lies among the bytes of the len objects.
LEMMA Slots ==
  ASSUME NEW at \in Nat, NEW len \in Nat, NEW k \in 1 .. len
  PROVE  /\ at + SizeObject * (k - 1) \in Nat /\ SizeObject \in Nat \ {0}
         /\ at <= at + SizeObject * (k - 1)
         /\ (at + SizeObject * (k - 1)) + SizeObject <= at + SizeObject * len
BY DEF SizeObject, SizePtr

\* Objects are found in a memory that agrees where they lie.
LEMMA ObjectsSame ==
  ASSUME NEW m, NEW p, NEW at \in Nat, NEW objs \in Seq(Object), ObjectsAt(m, at, objs),
         NEW w \in Nat, SameOn(m, p, at, w), at + SizeObject * Len(objs) <= w
  PROVE  ObjectsAt(p, at, objs)
<1> SUFFICES ASSUME NEW k \in 1 .. Len(objs)
             PROVE  Holds(p, at + SizeObject * (k - 1), SizeObject, objs[k])
  BY DEF ObjectsAt
<1> DEFINE o == at + SizeObject * (k - 1)
           e == at + SizeObject * Len(objs)
<1>1. Holds(m, o, SizeObject, objs[k])
  BY DEF ObjectsAt
<1>2. o \in Nat /\ SizeObject \in Nat /\ o + SizeObject <= e /\ at <= o
  BY Slots
<1>3. e \in Int /\ e <= w
  BY DEF SizeObject, SizePtr
<1> HIDE DEF o, e
<1>4. o + SizeObject <= w
  BY <1>2, <1>3
<1> QED BY <1>1, <1>2, <1>4, SameOnHolds DEF o

\* PUSH_OBJ writes the next object above those that are there.
LEMMA ObjectPushed ==
  ASSUME NEW m, IsMemory(m), NEW at \in Nat, NEW objs \in Seq(Object),
         ObjectsAt(m, at, objs), NEW o \in Object, NEW s, s = at + SizeObject * Len(objs),
         s + SizeObject <= STKSEG_SIZE
  PROVE  /\ ObjectsAt(Put(m, s, SizeObject, o), at, Append(objs, o))
         /\ IsMemory(Put(m, s, SizeObject, o)) /\ SameBelow(m, Put(m, s, SizeObject, o), s)
         /\ s \in Nat /\ at <= s
<1> DEFINE p == Put(m, s, SizeObject, o)
           len == Len(objs)
<1>1. len \in Nat /\ s \in Nat /\ SizeObject \in Nat /\ at <= s /\ s <= STKSEG_SIZE
  BY Size DEF SizeObject, SizePtr
<1>2. IsMemory(p) /\ SameBelow(m, p, s)
  BY <1>1, PutSame
<1>3. Holds(p, s, SizeObject, o)
  BY <1>1, PutHolds
<1>4. ObjectsAt(p, at, objs)
  BY <1>1, <1>2, SameBelowOn, ObjectsSame
<1> HIDE DEF p
<1>5. ASSUME NEW k \in 1 .. Len(Append(objs, o))
      PROVE  Holds(p, at + SizeObject * (k - 1), SizeObject, Append(objs, o)[k])
  <2>1. CASE k = len + 1
    <3>1. k - 1 = len /\ Append(objs, o)[k] = o
      BY <2>1, <1>1
    <3> HIDE DEF len
    <3> QED BY <3>1, <1>3 DEF len
  <2>2. CASE k # len + 1
    <3>1. k \in 1 .. Len(objs) /\ Append(objs, o)[k] = objs[k]
      BY <2>2, <1>1
    <3> QED BY <3>1, <1>4 DEF ObjectsAt
  <2> QED BY <2>1, <2>2
<1> QED BY <1>1, <1>2, <1>5 DEF ObjectsAt, p

\* POP_OBJ leaves the objects below the popped one in memory.
LEMMA ObjectsDropped ==
  ASSUME NEW m, NEW at \in Nat, NEW objs \in Seq(Object), ObjectsAt(m, at, objs),
         NEW k \in 0 .. Len(objs)
  PROVE  ObjectsAt(m, at, SubSeq(objs, 1, k))
<1>1. ASSUME NEW i \in 1 .. Len(SubSeq(objs, 1, k))
      PROVE  i \in 1 .. Len(objs) /\ SubSeq(objs, 1, k)[i] = objs[i]
  OBVIOUS
<1> QED BY <1>1 DEF ObjectsAt

(* A tail recursion moves its last n objects over the first n variables.    *)
Rotated(objs, seq, l, n) ==
  /\ Len(seq) = l + n
  /\ \A k \in 1 .. l : seq[k] = objs[k]
  /\ \A k \in 1 .. n : seq[k + l] = objs[k + (l + n)]

\* What a tail recursion leaves alone: the captured part of the activation,
LEMMA RotatedLow ==
  ASSUME NEW objs, NEW seq, NEW l, NEW n, Rotated(objs, seq, l, n), NEW k \in 1 .. l
  PROVE  seq[k] = objs[k]
BY DEF Rotated

\* ... and what it replaces: its parameters, by the arguments above them.
LEMMA RotatedHigh ==
  ASSUME NEW objs, NEW seq, NEW l \in Nat, NEW n \in Nat, Rotated(objs, seq, l, n),
         NEW k \in l + 1 .. l + n
  PROVE  seq[k] = objs[k + n]
<1> DEFINE j == k - l
<1>1. j \in 1 .. n /\ j + l = k /\ j + (l + n) = k + n
  OBVIOUS
<1> HIDE DEF j
<1>2. seq[j + l] = objs[j + (l + n)]
  BY <1>1 DEF Rotated
<1> QED BY <1>1, <1>2, Zenon

\* Where the elements of a concatenation come from.
LEMMA ConcatElements ==
  ASSUME NEW S, NEW X \in Seq(S), NEW Y \in Seq(S)
  PROVE  /\ X \o Y \in Seq(S) /\ Len(X \o Y) = Len(X) + Len(Y)
         /\ \A k \in 1 .. Len(X) : (X \o Y)[k] = X[k]
         /\ \A k \in 1 .. Len(Y) : (X \o Y)[k + Len(X)] = Y[k]
<1>1. ASSUME NEW k \in 1 .. Len(X) PROVE (X \o Y)[k] = X[k]
  OBVIOUS
<1>2. ASSUME NEW k \in 1 .. Len(Y) PROVE (X \o Y)[k + Len(X)] = Y[k]
  <2>1. k + Len(X) \in Len(X) + 1 .. Len(X) + Len(Y) /\ k + Len(X) - Len(X) = k
    OBVIOUS
  <2> QED BY <2>1
<1> QED BY <1>1, <1>2

\* n elements after the i-th.
Piece(objs, i, n) == SubSeq(objs, i + 1, i + n)

\* The elements of n places after the i-th.
LEMMA SubSeqElements ==
  ASSUME NEW S, NEW objs \in Seq(S), NEW i \in Nat, NEW n \in Nat, i + n <= Len(objs),
         NEW X, X = Piece(objs, i, n)
  PROVE  /\ X \in Seq(S) /\ Len(X) = n
         /\ \A k \in 1 .. n : X[k] = objs[k + i]
BY DEF Piece

\* The first l objects, and the last n of the 2 n after them.
Slid(objs, l, n) == SubSeq(objs, 1, l) \o SubSeq(objs, l + n + 1, l + 2 * n)

\* The objects after a tail recursion, as a sequence, are the first l and the last n.
LEMMA ReplacedRotated ==
  ASSUME NEW objs \in Seq(Object), NEW l \in Nat, NEW n \in Nat, Len(objs) = l + 2 * n
  PROVE  Slid(objs, l, n) \in Seq(Object) /\ Rotated(objs, Slid(objs, l, n), l, n)
<1> DEFINE seq == Slid(objs, l, n)
<1> DEFINE X == SubSeq(objs, 1, l)
           Y == SubSeq(objs, l + n + 1, l + 2 * n)
<1>1. X \in Seq(Object) /\ Len(X) = l /\ \A k \in 1 .. l : X[k] = objs[k]
  OBVIOUS
<1>2. Y \in Seq(Object) /\ Len(Y) = n /\ \A k \in 1 .. n : Y[k] = objs[k + (l + n)]
  <2>1. Y = Piece(objs, l + n, n)
    BY DEF Piece
  <2>2. l + n \in Nat /\ (l + n) + n <= Len(objs)
    OBVIOUS
  <2> HIDE DEF Y
  <2> QED BY <2>1, <2>2, SubSeqElements
<1>3. seq = X \o Y
  BY DEF Slid
<1> HIDE DEF X, Y, seq
<1>4. /\ X \o Y \in Seq(Object) /\ Len(X \o Y) = l + n
      /\ \A k \in 1 .. l : (X \o Y)[k] = X[k]
      /\ \A k \in 1 .. n : (X \o Y)[k + l] = Y[k]
  <2>1. /\ X \o Y \in Seq(Object) /\ Len(X \o Y) = Len(X) + Len(Y)
        /\ \A k \in 1 .. Len(X) : (X \o Y)[k] = X[k]
        /\ \A k \in 1 .. Len(Y) : (X \o Y)[k + Len(X)] = Y[k]
    <3>1. X \in Seq(Object) /\ Y \in Seq(Object)
      BY <1>1, <1>2
    <3> QED BY <3>1, ConcatElements
  <2>2. Len(X) = l /\ Len(Y) = n
    BY <1>1, <1>2
  <2> QED BY <2>1, <2>2
<1>5. ASSUME NEW k \in 1 .. l PROVE seq[k] = objs[k]
  BY <1>1, <1>3, <1>4, Zenon
<1>6. ASSUME NEW k \in 1 .. n PROVE seq[k + l] = objs[k + (l + n)]
  BY <1>2, <1>3, <1>4, Zenon
<1>7. seq \in Seq(Object) /\ Rotated(objs, seq, l, n)
  BY <1>3, <1>4, <1>5, <1>6, Zenon DEF Rotated
<1> QED BY <1>7 DEF seq

\* Memories that agree below w agree below less.
LEMMA SameLess ==
  ASSUME NEW m, NEW p, NEW w \in Nat, SameBelow(m, p, w), NEW o \in Nat, o <= w
  PROVE  SameBelow(m, p, o)
BY DEF SameBelow

\* The move of CopyShadow from m to p: objs end at s, the first variable is at to.
Slides(m, p, at, objs, l, n, s, to, size) ==
  /\ Len(objs) = l + 2 * n /\ s = at + 5 * Len(objs) /\ s < STKSEG_SIZE
  /\ to = at + 5 * l /\ size = 5 * n
  /\ p = Shift(m, to, s - size, size)

\* CopyShadow moves the arguments of a tail recursion onto its parameters.
LEMMA ObjectsMoved ==
  ASSUME NEW m, IsMemory(m), NEW at \in Nat, NEW objs, NEW l \in Nat, NEW n \in Nat,
         ObjectsAt(m, at, objs), NEW s, NEW to, NEW size, NEW p,
         Slides(m, p, at, objs, l, n, s, to, size),
         NEW seq, Rotated(objs, seq, l, n), Len(seq) = l + n
  PROVE  /\ ObjectsAt(p, at, seq)
         /\ IsMemory(p) /\ SameBelow(m, p, at)
<1> DEFINE from == s - size
<1>a. /\ Len(objs) = l + 2 * n /\ s = at + 5 * Len(objs) /\ s < STKSEG_SIZE
      /\ to = at + 5 * l /\ size = 5 * n
  BY DEF Slides
<1>0. s = at + 5 * (l + 2 * n) /\ SizeObject = 5
  BY <1>a DEF SizeObject, SizePtr
<1>1. /\ to \in Nat /\ from \in Nat /\ size \in Nat /\ at <= to
      /\ to + size <= STKSEG_SIZE /\ from + size <= STKSEG_SIZE /\ to <= STKSEG_SIZE
      /\ from = at + 5 * (l + n)
  <2>1. from = at + 5 * (l + n)
    BY <1>0, <1>a
  <2>2. to + size <= s /\ from + size = s /\ s \in Nat
    BY <1>0, <1>a, <2>1
  <2> QED BY <1>0, <2>1, <2>2, <1>a, Size
<1>3. p = Shift(m, to, from, size)
  BY DEF Slides
<1> HIDE DEF from
<1>4. IsMemory(p) /\ SameBelow(m, p, to)
  <2>1. IsMemory(Shift(m, to, from, size)) /\ SameBelow(m, Shift(m, to, from, size), to)
    BY <1>1, ShiftSame
  <2> QED BY <2>1, <1>3
<1>5. SameBelow(m, p, at)
  BY <1>1, <1>4, SameLess
<1>6. ASSUME NEW k \in 1 .. l
      PROVE  Holds(p, at + SizeObject * (k - 1), SizeObject, seq[k])
  <2> DEFINE o == at + SizeObject * (k - 1)
  <2>1. k \in 1 .. Len(objs) /\ seq[k] = objs[k]
    BY <1>a, RotatedLow
  <2>2. Holds(m, o, SizeObject, objs[k])
    BY <2>1 DEF ObjectsAt
  <2>3. o \in Nat /\ SizeObject \in Nat /\ o + SizeObject <= to
    BY <1>0, <1>a
  <2> HIDE DEF o
  <2>4. Holds(p, o, SizeObject, seq[k])
    <3>1. Holds(p, o, SizeObject, objs[k])
      BY <2>2, <2>3, <1>1, <1>4, SameHolds
    <3> QED BY <2>1, <3>1
  <2> QED BY <2>4 DEF o
<1>7. ASSUME NEW k \in l + 1 .. l + n
      PROVE  Holds(p, at + SizeObject * (k - 1), SizeObject, seq[k])
  <2>0. seq[k] = objs[k + n]
    <3>1. /\ l \in Nat /\ n \in Nat /\ Rotated(objs, seq, l, n) /\ k \in l + 1 .. l + n
      OBVIOUS
    <3> QED BY <3>1, RotatedHigh
  <2> DEFINE d == 5 * (k - l - 1)
             j == k + n
  <2>1. d \in Nat /\ SizeObject \in Nat
    BY <1>0
  <2>a. d + SizeObject <= size
    BY <1>0, <1>a
  <2>2. /\ at + SizeObject * (j - 1) = from + d
        /\ at + SizeObject * (k - 1) = to + d
    BY <1>0, <1>1, <1>a
  <2>3. j \in 1 .. Len(objs)
    BY <1>a
  <2>b. seq[k] = objs[j]
    BY <2>0
  <2> HIDE DEF d, j
  <2>4. Holds(m, at + SizeObject * (j - 1), SizeObject, objs[j])
    BY <2>3, Zenon DEF ObjectsAt
  <2>5. Holds(m, from + d, SizeObject, seq[k])
    BY <2>2, <2>b, <2>4, Zenon
  <2>6. Holds(Shift(m, to, from, size), to + d, SizeObject, seq[k])
    BY <2>1, <2>a, <2>5, <1>1, ShiftHolds, Zenon
  <2> QED BY <2>2, <2>6, <1>3, Zenon
<1>8. ASSUME NEW k \in 1 .. Len(seq)
      PROVE  Holds(p, at + SizeObject * (k - 1), SizeObject, seq[k])
  <2>1. k \in 1 .. l \/ k \in l + 1 .. l + n
    OBVIOUS
  <2> QED BY <2>1, <1>6, <1>7, Zenon
<1>9. ObjectsAt(p, at, seq)
  BY <1>8, Zenon DEF ObjectsAt
<1> QED BY <1>4, <1>5, <1>9

\* LOCAL_ASSIGN overwrites one object and no other.
LEMMA ObjectAssignedAt ==
  ASSUME NEW m, IsMemory(m), NEW at \in Nat, NEW objs \in Seq(Object), ObjectsAt(m, at, objs),
         NEW k \in 1 .. Len(objs), NEW o \in Object, at + SizeObject * Len(objs) < STKSEG_SIZE
  PROVE  ObjectsAt(Put(m, at + SizeObject * (k - 1), SizeObject, o), at, [objs EXCEPT ![k] = o])
<1> DEFINE q == at + 5 * (k - 1)
           p == Put(m, q, 5, o)
           new == [objs EXCEPT ![k] = o]
<1>0. SizeObject = 5 /\ at + SizeObject * (k - 1) = q
  BY DEF SizeObject, SizePtr
<1>1. q \in Nat /\ at <= q /\ q + 5 <= STKSEG_SIZE
  BY Size, <1>0
<1>2. Len(new) = Len(objs) /\ Len(objs) \in Nat /\ new[k] = o
  OBVIOUS
<1>a. \A j \in 1 .. Len(objs) : j # k => new[j] = objs[j]
  OBVIOUS
<1> HIDE DEF new
<1>3. ASSUME NEW j \in 1 .. Len(objs)
      PROVE  Holds(p, at + SizeObject * (j - 1), SizeObject, new[j])
  <2>1. CASE j = k
    BY <2>1, <1>0, <1>1, <1>2, PutHolds
  <2>2. CASE j # k
    <3> DEFINE r == at + 5 * (j - 1)
    <3>1. Holds(m, at + SizeObject * (j - 1), SizeObject, objs[j])
      BY DEF ObjectsAt
    <3>2. at + SizeObject * (j - 1) = r
      BY <1>0
    <3>3. r \in Nat /\ r + 5 <= STKSEG_SIZE
      BY <1>0, Size
    <3>4. r + 5 <= q \/ q + 5 <= r
      BY <2>2
    <3>5. Holds(m, r, 5, objs[j])
      BY <3>1, <3>2, <1>0
    <3> HIDE DEF r, q
    <3>6. Holds(Put(m, q, 5, o), r, 5, objs[j])
      BY <3>3, <3>4, <3>5, <1>1, PutKeeps
    <3>7. new[j] = objs[j]
      BY <2>2, <1>a
    <3> QED BY <3>2, <3>6, <3>7, <1>0
  <2> QED BY <2>1, <2>2
<1>4. ObjectsAt(p, at, new)
  BY <1>2, <1>3, Zenon DEF ObjectsAt
<1> QED BY <1>0, <1>4 DEF new

------------------------------------------------------------------------------
(* How the layout changes.                                                  *)

\* The newest activation may change as it likes between its frame and the stack's end.
LEMMA TopLayout ==
  ASSUME NEW A, NEW H, Layout(A, H), NEW a \in Activation,
         a.home = A[Len(A)].home, a.clo = A[Len(A)].clo,
         Len(A) = 1 => a.phase = "body",
         Len(A) > 1 /\ a.phase = "args" => a.n = 0 /\ a.locs = 0,
         Len(A) > 1 /\ a.phase # "args" => a.ret \in Code,
         NEW B, B = [A EXCEPT ![Len(A)] = a]
  PROVE  Layout(B, H)
<1> DEFINE n == Len(A)
<1>1. /\ n \in Nat \ {0} /\ A \in Seq(Activation) /\ Len(H) = n
  BY DEF Layout
<1>2. /\ B \in Seq(Activation) /\ Len(B) = n /\ B[n] = a
      /\ \A i \in 1 .. n - 1 : B[i] = A[i]
  BY <1>1
<1>3. \A i, j \in 1 .. n : i < j => End(B, H, i) + FPS <= H[j].at
  BY <1>1, <1>2 DEF Layout, End
<1>4. ASSUME NEW i \in 2 .. n PROVE FrameFits(B, H, i)
  <2>1. FrameFits(A, H, i)
    BY <1>1 DEF Layout
  <2>2. i - 1 \in 1 .. n - 1 /\ B[i - 1] = A[i - 1]
    BY <1>2
  <2>3. /\ ExecAt(A, i - 1) \in 1 .. n - 1
        /\ ExecAt(B, i - 1) = ExecAt(A, i - 1)
    BY <2>1, <2>2 DEF FrameFits, ExecAt
  <2>4. B[ExecAt(A, i - 1)] = A[ExecAt(A, i - 1)]
    BY <2>3, <1>2
  <2>5. B[i].clo = A[i].clo /\ B[i].home = A[i].home
    BY <1>2
  <2>6. Registers(B, H, i - 1, H[i].at - FPS, H[i].fp, H[i].local, H[i].attr, B[i].clo)
    BY <2>1, <2>2, <2>3, <2>4, <2>5 DEF FrameFits, Registers, End
  <2>7. /\ B[i].phase = "args" => B[i].n = 0 /\ B[i].locs = 0
        /\ B[i].phase # "args" => B[i].ret \in Code
    <3>1. CASE i = n
      BY <3>1, <1>1, <1>2
    <3>2. CASE i # n
      BY <3>2, <2>1, <1>2 DEF FrameFits
    <3> QED BY <3>1, <3>2
  <2> QED BY <2>1, <2>3, <2>5, <2>6, <2>7 DEF FrameFits
<1>5. H[1].at = 0 /\ B[1].phase = "body"
  BY <1>1, <1>2 DEF Layout
<1>6. Len(B) = Len(A) /\ H \in Seq(FrameHeader) /\ Len(B) >= 1 /\ Len(H) = Len(B)
  BY <1>1, <1>2 DEF Layout
<1>7. \A i \in 2 .. Len(B) : FrameFits(B, H, i)
  BY <1>4, <1>6, Zenon
<1>8. \A i, j \in 1 .. Len(B) : i < j => End(B, H, i) + FPS <= H[j].at
  BY <1>3, <1>6, Zenon
<1> HIDE DEF n
<1> QED BY <1>2, <1>5, <1>6, <1>7, <1>8, Zenon DEF Layout

\* What the layout needs to know of an activation.
LEMMA ActivationTypes ==
  ASSUME NEW a \in Activation
  PROVE  a.objs \in Seq(Object) /\ a.locs \in Nat
BY DEF Activation

(* Frames lie one above the other.                                          *)
LEMMA LayoutOrder ==
  ASSUME NEW A, NEW H, Layout(A, H), NEW i \in 1 .. Len(A)
  PROVE  /\ Len(A) \in Nat /\ A[i] \in Activation /\ H[i] \in FrameHeader
         /\ A[i].objs \in Seq(Object) /\ Len(A[i].objs) \in Nat /\ A[i].locs \in Nat
         /\ H[i].at \in Nat /\ End(A, H, i) \in Nat /\ H[i].at <= End(A, H, i)
         /\ i > 1 => FPS <= H[i].at
         /\ ExecAt(A, i) \in 1 .. i
         /\ \A j \in 1 .. Len(A) : j < i => End(A, H, j) + FPS <= H[i].at
<1>1. /\ A[i] \in Activation /\ A[1] \in Activation /\ H[i] \in FrameHeader
      /\ Len(A) \in Nat /\ 1 \in 1 .. Len(A)
  <2>1. /\ A \in Seq(Activation) /\ H \in Seq(FrameHeader) /\ Len(H) = Len(A) /\ Len(A) >= 1
    BY DEF Layout
  <2> QED BY <2>1
<1>2. /\ A[i].objs \in Seq(Object) /\ Len(A[i].objs) \in Nat /\ H[i].at \in Nat
      /\ A[i].locs \in Nat /\ Len(A[1].objs) \in Nat
  <2>1. A[i].objs \in Seq(Object) /\ A[i].locs \in Nat
    BY <1>1, ActivationTypes
  <2>2. A[1].objs \in Seq(Object)
    BY <1>1, ActivationTypes
  <2>3. H[i].at \in Nat
    BY <1>1 DEF FrameHeader
  <2> QED BY <2>1, <2>2, <2>3
<1>7. H[1].at = 0
  BY DEF Layout
<1>3. End(A, H, i) \in Nat /\ H[i].at <= End(A, H, i) /\ End(A, H, 1) \in Nat
  <2>1. /\ End(A, H, i) = H[i].at + 5 * Len(A[i].objs)
        /\ End(A, H, 1) = 0 + 5 * Len(A[1].objs)
    BY <1>7, Sizes, Zenon DEF End
  <2>2. H[i].at \in Nat /\ Len(A[i].objs) \in Nat /\ Len(A[1].objs) \in Nat
    BY <1>2, Zenon
  <2> QED BY <2>1, <2>2
<1>4. \A j \in 1 .. Len(A) : j < i => End(A, H, j) + FPS <= H[i].at
  BY <1>1 DEF Layout
<1>5. i > 1 => FPS <= H[i].at
  BY <1>1, <1>2, <1>7, <1>3, <1>4 DEF FPS, SizeReg, SizeAttr, SizePtr
<1>6. ExecAt(A, i) \in 1 .. i
  <2>1. CASE i = 1
    BY <2>1 DEF Layout, ExecAt
  <2>2. CASE i # 1
    <3>1. FrameFits(A, H, i)
      BY <2>2, <1>1 DEF Layout
    <3> QED BY <3>1, <2>2 DEF FrameFits, ExecAt
  <2> QED BY <2>1, <2>2
<1> QED BY <1>1, <1>2, <1>3, <1>4, <1>5, <1>6

\* B is A but for the newest activation.
SameUnderTop(A, B) == Len(B) = Len(A) /\ \A i \in 1 .. Len(A) - 1 : B[i] = A[i]

\* Every object of activation i lies below the end of i.
LEMMA ObjectPlace ==
  ASSUME NEW A, NEW H, Layout(A, H), NEW i \in 1 .. Len(A), NEW k \in 1 .. Len(A[i].objs)
  PROVE  /\ H[i].at + SizeObject * (k - 1) \in Nat /\ SizeObject \in Nat \ {0}
         /\ H[i].at <= H[i].at + SizeObject * (k - 1)
         /\ (H[i].at + SizeObject * (k - 1)) + SizeObject <= End(A, H, i)
<1> DEFINE at == H[i].at
           len == Len(A[i].objs)
<1>1. at \in Nat /\ len \in Nat /\ k \in 1 .. len
  BY LayoutOrder
<1>2. End(A, H, i) = at + SizeObject * len
  BY DEF End
<1> HIDE DEF at, len
<1>3. /\ at + SizeObject * (k - 1) \in Nat /\ SizeObject \in Nat \ {0}
      /\ at <= at + SizeObject * (k - 1)
      /\ (at + SizeObject * (k - 1)) + SizeObject <= at + SizeObject * len
  BY <1>1, Slots
<1> QED BY <1>2, <1>3 DEF at

\* What the return address of an activation's frame is.
ReturnOf(a) == IF a.phase = "args" THEN NORMAL_JUMP ELSE a.ret
\* The return address in the frame of activation i.
ReturnField(A, i) == ReturnOf(A[i])

\* A frame is found in a memory that agrees where it lies.
LEMMA HeaderSame ==
  ASSUME NEW m, NEW p, NEW A, NEW H, NEW B, NEW K, NEW i, NEW j,
         H[i].at \in Nat, FPS <= H[i].at, SameOn(m, p, H[i].at - FPS, H[i].at), HeaderIn(m, A, H, i),
         K[j] = H[i], ReturnField(B, j) = ReturnField(A, i),
         B[j].clo = A[i].clo, B[j].applied = A[i].applied
  PROVE  HeaderIn(p, B, K, j)
<1> DEFINE o == H[i].at - FPS
           w == H[i].at
<1>1. o \in Nat /\ o + 11 <= w /\ w \in Nat
  BY DEF FPS, SizeReg, SizeAttr, SizePtr
<1>2. ASSUME NEW d \in Nat, NEW t \in Nat, NEW v, d + t <= 11, Holds(m, o + d, t, v)
      PROVE  Holds(p, o + d, t, v)
  <2>0. SameOn(m, p, o, w)
    OBVIOUS
  <2> HIDE DEF o, w
  <2>1. o + d \in Nat /\ (o + d) + t <= w /\ o <= o + d
    BY <1>1, <1>2
  <2> QED BY <2>0, <2>1, <1>1, <1>2, SameOnHolds
<1> HIDE DEF o
<1>3. ASSUME NEW v
      PROVE  /\ Holds(m, o, 2, v) => Holds(p, o, 2, v)
             /\ Holds(m, o + 2, 2, v) => Holds(p, o + 2, 2, v)
             /\ Holds(m, o + 4, 2, v) => Holds(p, o + 4, 2, v)
             /\ Holds(m, o + 6, 1, v) => Holds(p, o + 6, 1, v)
             /\ Holds(m, o + 7, 4, v) => Holds(p, o + 7, 4, v)
  <2>1. o + 0 = o
    BY <1>1
  <2>2. Holds(m, o + 0, 2, v) => Holds(p, o + 0, 2, v)
    BY <1>2
  <2>3. Holds(m, o + 2, 2, v) => Holds(p, o + 2, 2, v)
    BY <1>2
  <2>4. Holds(m, o + 4, 2, v) => Holds(p, o + 4, 2, v)
    BY <1>2
  <2>5. Holds(m, o + 6, 1, v) => Holds(p, o + 6, 1, v)
    BY <1>2
  <2>6. Holds(m, o + 7, 4, v) => Holds(p, o + 7, 4, v)
    BY <1>2
  <2> QED BY <2>1, <2>2, <2>3, <2>4, <2>5, <2>6
<1>5. /\ SizeReg = 2 /\ 2 * SizeReg = 4 /\ 3 * SizeReg = 6 /\ 3 * SizeReg + SizeAttr = 7
      /\ SizeAttr = 1 /\ SizePtr = 4 /\ o + 3 * SizeReg + SizeAttr = o + 7
  BY <1>1 DEF SizeReg, SizeAttr, SizePtr
<1>6. /\ Holds(m, o, 2, ReturnField(A, i)) /\ Holds(m, o + 2, 2, H[i].local)
      /\ \/ Holds(m, o + 4, 2, H[i].fp) /\ H[i].fp # NO_PREV_FP
         \/ Holds(m, o + 4, 2, NO_PREV_FP) /\ H[i].fp = 0 /\ ~A[i].applied
      /\ Holds(m, o + 6, 1, H[i].attr) /\ Holds(m, o + 7, 4, A[i].clo)
  BY <1>5, Zenon DEF HeaderIn, ReturnField, ReturnOf, o
<1>7. /\ Holds(p, o, 2, ReturnField(A, i)) /\ Holds(p, o + 2, 2, H[i].local)
      /\ \/ Holds(p, o + 4, 2, H[i].fp) /\ H[i].fp # NO_PREV_FP
         \/ Holds(p, o + 4, 2, NO_PREV_FP) /\ H[i].fp = 0 /\ ~A[i].applied
      /\ Holds(p, o + 6, 1, H[i].attr) /\ Holds(p, o + 7, 4, A[i].clo)
  BY <1>3, <1>6, Zenon
<1>8. K[j].at - FPS = o /\ K[j] = H[i]
  BY DEF o
<1> QED BY <1>5, <1>7, <1>8, Zenon DEF HeaderIn, ReturnField, ReturnOf

\* What lies below a write is still held, whatever becomes of the activations above.
LEMMA LowerHeld ==
  ASSUME NEW A, NEW H, Layout(A, H), NEW m, Contents(m, A, H),
         NEW i \in 1 .. Len(A), NEW w \in Nat, NEW p, SameBelow(m, p, w),
         End(A, H, i) <= w, NEW B, NEW K, B[i] = A[i], K[i] = H[i]
  PROVE  /\ i > 1 => HeaderIn(p, B, K, i)
         /\ ObjectsIn(p, B, K, i)
<1>1. /\ A[i].objs \in Seq(Object) /\ Len(A[i].objs) \in Nat
      /\ H[i].at \in Nat /\ End(A, H, i) \in Nat /\ H[i].at <= End(A, H, i)
      /\ i > 1 => FPS <= H[i].at
  BY LayoutOrder
<1>2. ASSUME i > 1 PROVE HeaderIn(p, B, K, i)
  <2>0. H[i].at - FPS \in Nat /\ H[i].at <= w
    BY <1>1, <1>2 DEF FPS, SizeReg, SizeAttr, SizePtr
  <2>1. SameOn(m, p, H[i].at - FPS, H[i].at)
    BY <1>1, <2>0, SameBelowOn
  <2>2. HeaderIn(m, A, H, i)
    BY <1>2 DEF Contents
  <2>3. ReturnField(B, i) = ReturnField(A, i)
    BY DEF ReturnField
  <2> QED BY <1>1, <1>2, <2>1, <2>2, <2>3, HeaderSame
<1>3. ObjectsIn(p, B, K, i)
  <2>1. ObjectsAt(m, H[i].at, A[i].objs)
    BY DEF Contents, ObjectsIn
  <2>2. H[i].at + SizeObject * Len(A[i].objs) <= w
    BY DEF End
  <2>a. SameOn(m, p, H[i].at, w)
    BY <1>1, SameBelowOn
  <2>3. ObjectsAt(p, H[i].at, A[i].objs)
    BY <1>1, <2>1, <2>2, <2>a, ObjectsSame
  <2> QED BY <2>3 DEF ObjectsIn
<1> QED BY <1>2, <1>3

(* The newest activation changes: memory below its frame stays, and what it *)
(* has above is what it says.                                               *)
LEMMA TopContents ==
  ASSUME NEW A, NEW H, Layout(A, H), NEW m, Contents(m, A, H),
         NEW B, SameUnderTop(A, B),
         NEW p, IsMemory(p), NEW w \in Nat, SameBelow(m, p, w),
         Len(A) > 1 => H[Len(A)].at - FPS <= w,
         Len(A) > 1 => HeaderIn(p, B, H, Len(A)),
         ObjectsIn(p, B, H, Len(A)),
         End(B, H, Len(A)) < STKSEG_SIZE
  PROVE  Contents(p, B, H)
<1>1. Len(A) \in Nat \ {0} /\ Len(B) = Len(A)
  BY DEF Layout, SameUnderTop
<1>2. ASSUME NEW i \in 1 .. Len(A) - 1
      PROVE  /\ i > 1 => HeaderIn(p, B, H, i)
             /\ ObjectsIn(p, B, H, i)
  <2>1. /\ i \in 1 .. Len(A) /\ Len(A) > 1 /\ i < Len(A) /\ Len(A) \in 1 .. Len(A)
        /\ B[i] = A[i]
    BY <1>1 DEF SameUnderTop
  <2>2. /\ End(A, H, i) + FPS <= H[Len(A)].at
        /\ End(A, H, i) \in Nat /\ H[Len(A)].at \in Nat
    BY <2>1, LayoutOrder
  <2>3. End(A, H, i) <= w
    BY <2>1, <2>2 DEF FPS, SizeReg, SizeAttr, SizePtr
  <2> QED BY <2>1, <2>3, LowerHeld
<1>3. \A i \in 2 .. Len(B) : HeaderIn(p, B, H, i)
  <2> SUFFICES ASSUME NEW i \in 2 .. Len(A) PROVE HeaderIn(p, B, H, i)
    BY <1>1
  <2>1. CASE i = Len(A)
    BY <2>1, <1>1
  <2>2. CASE i # Len(A)
    <3>1. i \in 1 .. Len(A) - 1 /\ i > 1
      BY <2>2, <1>1
    <3> QED BY <3>1, <1>2
  <2> QED BY <2>1, <2>2
<1>4. \A i \in 1 .. Len(B) : ObjectsIn(p, B, H, i)
  <2> SUFFICES ASSUME NEW i \in 1 .. Len(A) PROVE ObjectsIn(p, B, H, i)
    BY <1>1
  <2>1. CASE i = Len(A)
    BY <2>1
  <2>2. CASE i # Len(A)
    <3>1. i \in 1 .. Len(A) - 1
      BY <2>2, <1>1
    <3> QED BY <3>1, <1>2
  <2> QED BY <2>1, <2>2
<1> QED BY <1>1, <1>3, <1>4, Zenon DEF Contents

(* A frame is pushed behind the newest activation's objects.                *)
LEMMA PushLayout ==
  ASSUME NEW A, NEW H, Layout(A, H),
         NEW s, NEW f, NEW l, NEW t, NEW c, Registers(A, H, Len(A), s, f, l, t, c),
         NEW a \in Activation, NEW h \in FrameHeader,
         h.at = s + FPS, h.fp = f, h.local = l, h.attr = t,
         a.home = ExecAt(A, Len(A)), a.clo = c,
         a.phase = "args" => a.n = 0 /\ a.locs = 0,
         a.phase # "args" => a.ret \in Code
  PROVE  Layout(Append(A, a), Append(H, h))
<1> DEFINE n == Len(A)
           B == Append(A, a)
           K == Append(H, h)
<1>1. /\ n \in Nat \ {0} /\ A \in Seq(Activation) /\ H \in Seq(FrameHeader) /\ Len(H) = n
      /\ n \in 1 .. n /\ A[1].phase = "body" /\ H[1].at = 0
  BY DEF Layout
<1>2. /\ B \in Seq(Activation) /\ K \in Seq(FrameHeader) /\ Len(B) = n + 1 /\ Len(K) = n + 1
      /\ B[n + 1] = a /\ K[n + 1] = h
      /\ \A i \in 1 .. n : B[i] = A[i] /\ K[i] = H[i]
  BY <1>1
<1>3. /\ s = End(A, H, n) /\ s \in Nat
  BY <1>1, LayoutOrder DEF Registers
<1> HIDE DEF B, K
<1>4. ASSUME NEW i \in 1 .. n
      PROVE  /\ End(B, K, i) = End(A, H, i)
             /\ ExecAt(B, i) = ExecAt(A, i) /\ ExecAt(A, i) \in 1 .. i
             /\ B[ExecAt(A, i)] = A[ExecAt(A, i)] /\ K[ExecAt(A, i)] = H[ExecAt(A, i)]
  <2>1. ExecAt(A, i) \in 1 .. i
    BY LayoutOrder
  <2> QED BY <2>1, <1>2 DEF End, ExecAt
<1>5. ASSUME NEW i \in 1 .. n, NEW x, NEW y, NEW z, NEW u, NEW v
      PROVE  Registers(B, K, i, x, y, z, u, v) <=> Registers(A, H, i, x, y, z, u, v)
  BY <1>2, <1>4 DEF Registers
<1>6. ASSUME NEW i \in 2 .. n + 1 PROVE FrameFits(B, K, i)
  <2>1. CASE i = n + 1
    <3>1. i - 1 = n /\ K[i].at - FPS = s
      BY <2>1, <1>2, <1>3 DEF FPS, SizeReg, SizeAttr, SizePtr
    <3>2. Registers(B, K, n, s, f, l, t, c)
      BY <1>5, <1>1
    <3>3. K[i] = h /\ B[i] = a /\ ExecAt(B, n) = ExecAt(A, n) /\ ExecAt(A, n) \in 1 .. n
      BY <2>1, <1>1, <1>2, <1>4
    <3> QED BY <3>1, <3>2, <3>3 DEF FrameFits
  <2>2. CASE i # n + 1
    <3>1. i \in 2 .. n /\ i - 1 \in 1 .. n /\ i \in 1 .. n
      BY <2>2, <1>1
    <3>2. FrameFits(A, H, i)
      BY <3>1 DEF Layout
    <3>3. B[i] = A[i] /\ K[i] = H[i] /\ ExecAt(B, i - 1) = ExecAt(A, i - 1)
      BY <3>1, <1>2, <1>4
    <3>4. Registers(B, K, i - 1, H[i].at - FPS, H[i].fp, H[i].local, H[i].attr, A[i].clo)
      BY <3>1, <3>2, <1>5 DEF FrameFits
    <3> QED BY <3>2, <3>3, <3>4 DEF FrameFits
  <2> QED BY <2>1, <2>2
<1>7. ASSUME NEW i \in 1 .. n + 1, NEW j \in 1 .. n + 1, i < j
      PROVE  End(B, K, i) + FPS <= K[j].at
  <2>1. i \in 1 .. n /\ End(B, K, i) = End(A, H, i)
    BY <1>7, <1>1, <1>4
  <2>2. CASE j = n + 1
    <3>0. K[j].at = s + FPS
      BY <2>2, <1>2
    <3>1. CASE i = n
      <4>1. End(B, K, i) = s
        BY <3>1, <2>1, <1>3
      <4> QED BY <4>1, <3>0, <1>3 DEF FPS, SizeReg, SizeAttr, SizePtr
    <3>2. CASE i # n
      <4>1. i < n /\ K[j].at = s + FPS
        BY <3>2, <2>1, <2>2, <1>1, <1>2
      <4>2. /\ End(A, H, i) + FPS <= H[n].at /\ H[n].at <= End(A, H, n)
            /\ End(A, H, i) \in Nat /\ H[n].at \in Nat
        BY <4>1, <2>1, <1>1, LayoutOrder
      <4> QED BY <4>1, <4>2, <2>1, <1>3 DEF FPS, SizeReg, SizeAttr, SizePtr
    <3> QED BY <3>1, <3>2
  <2>3. CASE j # n + 1
    <3>1. j \in 1 .. n /\ K[j] = H[j]
      BY <2>3, <1>1, <1>2
    <3> QED BY <3>1, <2>1, <1>7, LayoutOrder
  <2> QED BY <2>2, <2>3
<1>8. Len(B) >= 1 /\ K[1].at = 0 /\ B[1].phase = "body"
  BY <1>1, <1>2
<1>9. /\ \A i \in 2 .. Len(B) : FrameFits(B, K, i)
      /\ \A i, j \in 1 .. Len(B) : i < j => End(B, K, i) + FPS <= K[j].at
  BY <1>2, <1>6, <1>7, Zenon
<1>10. Layout(B, K)
  BY <1>2, <1>8, <1>9, Zenon DEF Layout
<1> QED BY <1>10 DEF B, K

\* The first k activations and frames are the same.
Agree(A, H, B, K, k) == \A i \in 1 .. k : B[i] = A[i] /\ K[i] = H[i]

\* Stacks that agree up to activation k mean the same registers there.
LEMMA AgreeRegisters ==
  ASSUME NEW A, NEW H, Layout(A, H), NEW B, NEW K, NEW k \in 1 .. Len(A), Agree(A, H, B, K, k),
         NEW i \in 1 .. k
  PROVE  /\ i \in 1 .. Len(A) /\ B[i] = A[i] /\ K[i] = H[i]
         /\ End(B, K, i) = End(A, H, i)
         /\ ExecAt(B, i) = ExecAt(A, i) /\ ExecAt(A, i) \in 1 .. i
         /\ \A s, f, l, t, c : Registers(B, K, i, s, f, l, t, c) <=> Registers(A, H, i, s, f, l, t, c)
<1>1. i \in 1 .. Len(A) /\ Len(A) \in Nat
  BY DEF Layout
<1>2. ExecAt(A, i) \in 1 .. i
  BY <1>1, LayoutOrder
<1>3. ExecAt(A, i) \in 1 .. k
  BY <1>1, <1>2
<1>4. /\ B[i] = A[i] /\ K[i] = H[i]
      /\ B[ExecAt(A, i)] = A[ExecAt(A, i)] /\ K[ExecAt(A, i)] = H[ExecAt(A, i)]
  BY <1>3 DEF Agree
<1>5. ExecAt(B, i) = ExecAt(A, i) /\ End(B, K, i) = End(A, H, i)
  BY <1>4 DEF ExecAt, End
<1>6. ASSUME NEW s, NEW f, NEW l, NEW t, NEW c
      PROVE  Registers(B, K, i, s, f, l, t, c) <=> Registers(A, H, i, s, f, l, t, c)
  BY <1>4, <1>5, Zenon DEF Registers
<1> QED BY <1>1, <1>2, <1>4, <1>5, <1>6

\* A new frame above the others leaves what they hold.
LEMMA PushContents ==
  ASSUME NEW A, NEW H, Layout(A, H), NEW m, Contents(m, A, H),
         NEW B, NEW K, Len(B) = Len(A) + 1, Agree(A, H, B, K, Len(A)),
         NEW p, IsMemory(p), SameBelow(m, p, End(A, H, Len(A))),
         HeaderIn(p, B, K, Len(A) + 1), ObjectsIn(p, B, K, Len(A) + 1),
         End(B, K, Len(A) + 1) < STKSEG_SIZE
  PROVE  Contents(p, B, K)
<1> DEFINE n == Len(A)
<1>1. /\ n \in Nat \ {0} /\ A \in Seq(Activation) /\ H \in Seq(FrameHeader) /\ Len(H) = n
  BY DEF Layout
<1>2. /\ Len(B) = n + 1
      /\ \A i \in 1 .. n : B[i] = A[i] /\ K[i] = H[i]
  BY <1>1 DEF Agree
<1> HIDE DEF n
<1>3. ASSUME NEW i \in 1 .. n
      PROVE  /\ i > 1 => HeaderIn(p, B, K, i)
             /\ ObjectsIn(p, B, K, i)
  <2>0. SameBelow(m, p, End(A, H, n)) /\ i \in 1 .. Len(A)
    BY DEF n
  <2>1. End(A, H, i) \in Nat /\ End(A, H, n) \in Nat /\ n \in 1 .. n
    BY <1>1, LayoutOrder DEF n
  <2>2. End(A, H, i) <= End(A, H, n)
    <3>1. CASE i = n
      BY <2>1, <3>1
    <3>2. CASE i # n
      <4>1. i < n
        BY <3>2, <1>1
      <4>2. End(A, H, i) + FPS <= H[n].at /\ H[n].at <= End(A, H, n) /\ H[n].at \in Nat
        BY <2>1, <4>1, LayoutOrder DEF n
      <4> QED BY <2>1, <4>2 DEF FPS, SizeReg, SizeAttr, SizePtr
    <3> QED BY <3>1, <3>2
  <2>3. B[i] = A[i] /\ K[i] = H[i]
    BY <1>2
  <2> QED BY <2>0, <2>1, <2>2, <2>3, LowerHeld
<1>4. \A i \in 2 .. Len(B) : HeaderIn(p, B, K, i)
  <2> SUFFICES ASSUME NEW i \in 2 .. n + 1 PROVE HeaderIn(p, B, K, i)
    BY <1>2
  <2>0. HeaderIn(p, B, K, n + 1)
    BY DEF n
  <2>1. i = n + 1 \/ (i \in 1 .. n /\ i > 1)
    BY <1>1
  <2> QED BY <2>0, <2>1, <1>3
<1>5. \A i \in 1 .. Len(B) : ObjectsIn(p, B, K, i)
  <2> SUFFICES ASSUME NEW i \in 1 .. n + 1 PROVE ObjectsIn(p, B, K, i)
    BY <1>2
  <2>0. ObjectsIn(p, B, K, n + 1)
    BY DEF n
  <2>1. i = n + 1 \/ i \in 1 .. n
    BY <1>1
  <2> QED BY <2>0, <2>1, <1>3
<1>6. End(B, K, Len(B)) < STKSEG_SIZE
  BY <1>2 DEF n
<1> QED BY <1>4, <1>5, <1>6, Zenon DEF Contents

(* The newest frame is left.                                                *)
LEMMA Cut ==
  ASSUME NEW A, NEW H, Layout(A, H), Len(A) > 1, NEW m, Contents(m, A, H),
         NEW B \in Seq(Activation), NEW K \in Seq(FrameHeader),
         Len(B) = Len(A) - 1, Len(K) = Len(A) - 1, Agree(A, H, B, K, Len(A) - 1)
  PROVE  /\ Layout(B, K) /\ Contents(m, B, K)
         /\ Registers(B, K, Len(B), H[Len(A)].at - FPS, H[Len(A)].fp, H[Len(A)].local,
                      H[Len(A)].attr, A[Len(A)].clo)
<1> DEFINE n == Len(A)
<1>1. /\ n \in Nat \ {0} /\ A \in Seq(Activation) /\ H \in Seq(FrameHeader) /\ Len(H) = n
      /\ n - 1 \in 1 .. n /\ n \in 2 .. n /\ A[1].phase = "body" /\ H[1].at = 0
  BY DEF Layout
<1>2. Len(B) = n - 1 /\ Len(K) = n - 1
  OBVIOUS
<1>3. ASSUME NEW i \in 1 .. n - 1
      PROVE  /\ i \in 1 .. n /\ B[i] = A[i] /\ K[i] = H[i]
             /\ End(B, K, i) = End(A, H, i)
             /\ ExecAt(B, i) = ExecAt(A, i) /\ ExecAt(A, i) \in 1 .. i
             /\ \A s, f, l, t, c : Registers(B, K, i, s, f, l, t, c) <=> Registers(A, H, i, s, f, l, t, c)
  BY <1>1, AgreeRegisters
<1> HIDE DEF n
<1>5. ASSUME NEW i \in 2 .. n - 1 PROVE FrameFits(B, K, i)
  <2>1. i - 1 \in 1 .. n - 1 /\ i \in 1 .. n - 1 /\ i \in 2 .. n
    BY <1>1
  <2>2. FrameFits(A, H, i)
    BY <2>1 DEF Layout, n
  <2>3. B[i] = A[i] /\ K[i] = H[i] /\ ExecAt(B, i - 1) = ExecAt(A, i - 1)
    BY <2>1, <1>3
  <2>4. Registers(B, K, i - 1, H[i].at - FPS, H[i].fp, H[i].local, H[i].attr, A[i].clo)
    BY <2>1, <2>2, <1>3 DEF FrameFits
  <2> QED BY <2>2, <2>3, <2>4 DEF FrameFits
<1>6. ASSUME NEW i \in 1 .. n - 1, NEW j \in 1 .. n - 1, i < j
      PROVE  End(B, K, i) + FPS <= K[j].at
  <2>1. i \in 1 .. n /\ j \in 1 .. n /\ K[j] = H[j] /\ End(B, K, i) = End(A, H, i)
    BY <1>3
  <2> QED BY <2>1, <1>6, LayoutOrder DEF n
<1>7. Layout(B, K)
  <2>1. 1 \in 1 .. n - 1
    BY <1>1
  <2>2. Len(B) >= 1 /\ Len(K) = Len(B) /\ K[1].at = 0 /\ B[1].phase = "body"
    BY <2>1, <1>1, <1>2, <1>3
  <2>3. /\ \A i \in 2 .. Len(B) : FrameFits(B, K, i)
        /\ \A i, j \in 1 .. Len(B) : i < j => End(B, K, i) + FPS <= K[j].at
    BY <1>2, <1>5, <1>6, Zenon
  <2> QED BY <1>2, <2>2, <2>3, Zenon DEF Layout
<1>8. Contents(m, B, K)
  <2>1. ASSUME NEW i \in 1 .. n - 1
        PROVE  /\ i > 1 => HeaderIn(m, B, K, i)
               /\ ObjectsIn(m, B, K, i)
    <3>1. /\ i > 1 => HeaderIn(m, A, H, i)
          /\ ObjectsIn(m, A, H, i)
      BY <1>3 DEF Contents, n
    <3>2. B[i] = A[i] /\ K[i] = H[i]
      BY <1>3
    <3> QED BY <3>1, <3>2, Zenon DEF HeaderIn, ObjectsIn
  <2>2. End(B, K, n - 1) < STKSEG_SIZE
    <3>1. n - 1 \in 1 .. n - 1 /\ n \in 1 .. n /\ n - 1 < n
      BY <1>1
    <3>2. /\ End(A, H, n - 1) + FPS <= H[n].at /\ H[n].at <= End(A, H, n)
          /\ End(A, H, n - 1) \in Nat /\ H[n].at \in Nat /\ End(A, H, n) \in Nat
      BY <3>1, <1>3, LayoutOrder DEF n
    <3>3. End(A, H, n) < STKSEG_SIZE
      BY DEF Contents, n
    <3>4. End(B, K, n - 1) = End(A, H, n - 1)
      BY <3>1, <1>3
    <3> QED BY <3>2, <3>3, <3>4, Size DEF FPS, SizeReg, SizeAttr, SizePtr
  <2>3. ASSUME NEW i \in 2 .. n - 1 PROVE HeaderIn(m, B, K, i)
    <3>1. i \in 1 .. n - 1 /\ i > 1
      BY <1>1
    <3> QED BY <3>1, <2>1
  <2>4. IsMemory(m)
    BY DEF Contents
  <2>5. /\ \A i \in 2 .. Len(B) : HeaderIn(m, B, K, i)
        /\ \A i \in 1 .. Len(B) : ObjectsIn(m, B, K, i)
        /\ End(B, K, Len(B)) < STKSEG_SIZE
    BY <1>2, <2>1, <2>2, <2>3, Zenon
  <2> QED BY <2>4, <2>5, Zenon DEF Contents
<1>9. Registers(B, K, Len(B), H[n].at - FPS, H[n].fp, H[n].local, H[n].attr, A[n].clo)
  <2>1. n \in 2 .. n /\ n - 1 \in 1 .. n - 1
    BY <1>1
  <2>2. FrameFits(A, H, n)
    BY <2>1 DEF Layout, n
  <2>3. Registers(A, H, n - 1, H[n].at - FPS, H[n].fp, H[n].local, H[n].attr, A[n].clo)
    BY <2>2 DEF FrameFits
  <2> QED BY <2>1, <2>3, <1>2, <1>3, Zenon
<1> QED BY <1>7, <1>8, <1>9 DEF n

(* An assignment changes one object of one activation.                      *)
\* b is a but for the values of its objects.
SameShape(a, b) ==
  /\ Len(b.objs) = Len(a.objs) /\ b.locs = a.locs /\ b.phase = a.phase /\ b.n = a.n
  /\ b.home = a.home /\ b.ret = a.ret /\ b.clo = a.clo /\ b.applied = a.applied

\* Objects may be replaced one by one without moving anything.
LEMMA ShapeLayout ==
  ASSUME NEW A, NEW H, Layout(A, H), NEW B \in Seq(Activation), Len(B) = Len(A),
         \A i \in 1 .. Len(A) : SameShape(A[i], B[i])
  PROVE  /\ Layout(B, H)
         /\ \A i \in 1 .. Len(A) :
              /\ End(B, H, i) = End(A, H, i) /\ ReturnField(B, i) = ReturnField(A, i)
              /\ \A s, f, l, t, c : Registers(B, H, i, s, f, l, t, c)
                                      <=> Registers(A, H, i, s, f, l, t, c)
<1>1. /\ Len(A) \in Nat \ {0} /\ H \in Seq(FrameHeader) /\ Len(H) = Len(A) /\ H[1].at = 0
      /\ A[1].phase = "body" /\ 1 \in 1 .. Len(A)
  BY DEF Layout
<1>2. ASSUME NEW i \in 1 .. Len(A)
      PROVE  /\ End(B, H, i) = End(A, H, i) /\ ReturnField(B, i) = ReturnField(A, i)
             /\ ExecAt(B, i) = ExecAt(A, i) /\ B[i].clo = A[i].clo /\ B[i].home = A[i].home
             /\ B[i].phase = A[i].phase /\ B[i].n = A[i].n /\ B[i].locs = A[i].locs
             /\ B[i].ret = A[i].ret
  BY DEF SameShape, End, ReturnField, ReturnOf, ExecAt
<1>3. ASSUME NEW i \in 1 .. Len(A), NEW s, NEW f, NEW l, NEW t, NEW c
      PROVE  Registers(B, H, i, s, f, l, t, c) <=> Registers(A, H, i, s, f, l, t, c)
  <2>1. ExecAt(A, i) \in 1 .. i
    BY LayoutOrder
  <2>2. ExecAt(A, i) \in 1 .. Len(A)
    BY <2>1, <1>1
  <2>3. B[ExecAt(A, i)].locs = A[ExecAt(A, i)].locs
    BY <2>2, <1>2
  <2>4. /\ End(B, H, i) = End(A, H, i) /\ ExecAt(B, i) = ExecAt(A, i)
        /\ B[i].phase = A[i].phase /\ B[i].n = A[i].n
    BY <1>2
  <2> QED BY <2>3, <2>4, Zenon DEF Registers
<1>4. ASSUME NEW i \in 2 .. Len(B) PROVE FrameFits(B, H, i)
  <2>1. i - 1 \in 1 .. Len(A) /\ i \in 1 .. Len(A) /\ i \in 2 .. Len(A)
    BY <1>1
  <2>2. FrameFits(A, H, i)
    BY <2>1 DEF Layout
  <2>3. /\ ExecAt(B, i - 1) = ExecAt(A, i - 1) /\ B[i].clo = A[i].clo /\ B[i].home = A[i].home
        /\ B[i].phase = A[i].phase /\ B[i].n = A[i].n /\ B[i].locs = A[i].locs
        /\ B[i].ret = A[i].ret
    BY <2>1, <1>2
  <2>4. Registers(B, H, i - 1, H[i].at - FPS, H[i].fp, H[i].local, H[i].attr, A[i].clo)
    BY <2>1, <2>2, <1>3 DEF FrameFits
  <2> QED BY <2>2, <2>3, <2>4, Zenon DEF FrameFits
<1>5. ASSUME NEW i \in 1 .. Len(B), NEW j \in 1 .. Len(B), i < j
      PROVE  End(B, H, i) + FPS <= H[j].at
  BY <1>2, <1>5, LayoutOrder
<1>6. B[1].phase = "body" /\ Len(B) >= 1 /\ Len(H) = Len(B)
  BY <1>1, <1>2
<1>7. Layout(B, H)
  BY <1>1, <1>4, <1>5, <1>6, Zenon DEF Layout
<1> QED BY <1>2, <1>3, <1>7, Zenon

\* Replacing the objects of an activation changes nothing else of it.
LEMMA ActivationObjects ==
  ASSUME NEW a \in Activation, NEW objs \in Seq(Object)
  PROVE  /\ [a EXCEPT !.objs = objs] \in Activation
         /\ [a EXCEPT !.objs = objs].objs = objs
         /\ [a EXCEPT !.objs = objs].locs = a.locs
         /\ [a EXCEPT !.objs = objs].phase = a.phase
         /\ [a EXCEPT !.objs = objs].n = a.n
         /\ [a EXCEPT !.objs = objs].home = a.home
         /\ [a EXCEPT !.objs = objs].ret = a.ret
         /\ [a EXCEPT !.objs = objs].clo = a.clo
         /\ [a EXCEPT !.objs = objs].applied = a.applied
BY DEF Activation

\* B is A but for activation x.
SameBut(A, B, x) == \A i \in 1 .. Len(A) : i # x => B[i] = A[i]

\* Everything ends below the newest activation's end.
LEMMA EndOrder ==
  ASSUME NEW A, NEW H, Layout(A, H), NEW i \in 1 .. Len(A)
  PROVE  /\ End(A, H, i) <= End(A, H, Len(A)) /\ End(A, H, i) \in Nat
         /\ End(A, H, Len(A)) \in Nat /\ Len(A) \in 1 .. Len(A) /\ Len(A) \in Nat \ {0}
<1>1. Len(A) \in Nat \ {0} /\ Len(A) \in 1 .. Len(A)
  BY DEF Layout
<1>2. End(A, H, i) \in Nat /\ End(A, H, Len(A)) \in Nat /\ H[Len(A)].at \in Nat
  BY <1>1, LayoutOrder
<1>3. CASE i = Len(A)
  BY <1>1, <1>2, <1>3
<1>4. CASE i # Len(A)
  <2>1. i < Len(A)
    BY <1>1, <1>4
  <2>2. End(A, H, i) + FPS <= H[Len(A)].at /\ H[Len(A)].at <= End(A, H, Len(A))
    BY <2>1, <1>1, LayoutOrder
  <2> QED BY <1>1, <1>2, <2>2 DEF FPS, SizeReg, SizeAttr, SizePtr
<1> QED BY <1>3, <1>4

\* Replacing objects of activation x within its place leaves the others as they are.
LEMMA OneChanged ==
  ASSUME NEW A, NEW H, Layout(A, H), NEW m, Contents(m, A, H),
         NEW x \in 1 .. Len(A), NEW B \in Seq(Activation), Len(B) = Len(A),
         SameShape(A[x], B[x]), SameBut(A, B, x),
         NEW p, IsMemory(p), SameBelow(m, p, H[x].at),
         SameOn(m, p, End(A, H, x), STKSEG_SIZE),
         ObjectsAt(p, H[x].at, B[x].objs)
  PROVE  /\ Layout(B, H) /\ Contents(p, B, H)
         /\ \A i \in 1 .. Len(A) :
              \A s, f, l, t, c : Registers(B, H, i, s, f, l, t, c)
                                   <=> Registers(A, H, i, s, f, l, t, c)
<1>1. Len(A) \in Nat \ {0} /\ Len(A) \in 1 .. Len(A) /\ End(A, H, x) \in Nat
  BY EndOrder
<1>2. ASSUME NEW i \in 1 .. Len(A) PROVE SameShape(A[i], B[i])
  <2>1. i # x => B[i] = A[i]
    BY DEF SameBut
  <2>2. SameShape(A[i], A[i])
    BY DEF SameShape
  <2> QED BY <2>1, <2>2
<1>3. /\ Layout(B, H)
      /\ \A i \in 1 .. Len(A) :
           /\ End(B, H, i) = End(A, H, i) /\ ReturnField(B, i) = ReturnField(A, i)
           /\ \A s, f, l, t, c : Registers(B, H, i, s, f, l, t, c)
                                   <=> Registers(A, H, i, s, f, l, t, c)
  BY <1>2, ShapeLayout
<1>4. End(A, H, Len(A)) < STKSEG_SIZE
  BY DEF Contents
<1>5. ASSUME NEW lo \in Nat, NEW hi \in Nat, End(A, H, x) <= lo, hi <= STKSEG_SIZE
      PROVE  SameOn(m, p, lo, hi)
  BY <1>1, <1>5, Size DEF SameOn
<1>6. ASSUME NEW i \in 1 .. Len(A)
      PROVE  /\ i > 1 => HeaderIn(p, B, H, i)
             /\ ObjectsIn(p, B, H, i)
  <2>1. /\ H[i].at \in Nat /\ End(A, H, i) \in Nat /\ H[i].at <= End(A, H, i)
        /\ i > 1 => FPS <= H[i].at
        /\ A[i].objs \in Seq(Object) /\ H[x].at \in Nat
    BY LayoutOrder
  <2>2. /\ i > 1 => HeaderIn(m, A, H, i)
        /\ ObjectsIn(m, A, H, i)
    BY DEF Contents
  <2>3. /\ ReturnField(B, i) = ReturnField(A, i) /\ B[i].clo = A[i].clo
        /\ B[i].applied = A[i].applied
    BY <1>2, <1>3 DEF SameShape
  <2>4. CASE i < x
    <3>1. End(A, H, i) + FPS <= H[x].at
      BY <2>4, LayoutOrder
    <3>2. End(A, H, i) <= H[x].at
      BY <3>1, <2>1 DEF FPS, SizeReg, SizeAttr, SizePtr
    <3>3. B[i] = A[i]
      BY <2>4 DEF SameBut
    <3> QED BY <3>2, <3>3, <2>1, LowerHeld
  <2>5. CASE i = x
    <3>1. ASSUME i > 1 PROVE HeaderIn(p, B, H, i)
      <4>1. H[i].at - FPS \in Nat /\ H[i].at <= H[x].at
        BY <3>1, <2>1, <2>5 DEF FPS, SizeReg, SizeAttr, SizePtr
      <4>2. SameOn(m, p, H[i].at - FPS, H[i].at)
        BY <4>1, <2>1, SameBelowOn
      <4> QED BY <3>1, <4>2, <2>1, <2>2, <2>3, HeaderSame
    <3>2. ObjectsIn(p, B, H, i)
      BY <2>5 DEF ObjectsIn
    <3> QED BY <3>1, <3>2
  <2>6. CASE i > x
    <3>1. End(A, H, x) + FPS <= H[i].at
      BY <2>6, LayoutOrder
    <3>2. /\ End(A, H, x) <= H[i].at /\ End(A, H, x) <= H[i].at - FPS /\ H[i].at - FPS \in Nat
          /\ i > 1
      BY <3>1, <1>1, <2>1, <2>6 DEF FPS, SizeReg, SizeAttr, SizePtr
    <3>3. End(A, H, i) <= End(A, H, Len(A)) /\ End(A, H, Len(A)) \in Nat
      BY EndOrder
    <3>4. End(A, H, i) <= STKSEG_SIZE /\ H[i].at <= STKSEG_SIZE
      BY <3>3, <1>4, <2>1, Size
    <3>5. SameOn(m, p, H[i].at - FPS, H[i].at)
      BY <3>2, <3>4, <2>1, <1>5
    <3>6. SameOn(m, p, H[i].at, End(A, H, i))
      BY <3>2, <3>4, <2>1, <1>5
    <3>7. HeaderIn(p, B, H, i)
      BY <3>2, <3>5, <2>1, <2>2, <2>3, HeaderSame
    <3>8. ObjectsAt(m, H[i].at, A[i].objs) /\ H[i].at + SizeObject * Len(A[i].objs) <= End(A, H, i)
      BY <2>1, <2>2 DEF ObjectsIn, End
    <3>9. ObjectsAt(p, H[i].at, A[i].objs)
      BY <3>6, <3>8, <2>1, ObjectsSame
    <3>10. B[i] = A[i]
      BY <2>6 DEF SameBut
    <3> QED BY <3>7, <3>9, <3>10 DEF ObjectsIn
  <2> QED BY <2>4, <2>5, <2>6, <1>1
<1>7. \A i \in 2 .. Len(B) : HeaderIn(p, B, H, i)
  <2> SUFFICES ASSUME NEW i \in 2 .. Len(A) PROVE HeaderIn(p, B, H, i)
    OBVIOUS
  <2>1. i \in 1 .. Len(A) /\ i > 1
    BY <1>1
  <2> QED BY <2>1, <1>6
<1>8. \A i \in 1 .. Len(B) : ObjectsIn(p, B, H, i)
  BY <1>6
<1>9. End(B, H, Len(B)) < STKSEG_SIZE
  BY <1>1, <1>3, <1>4
<1>10. Contents(p, B, H)
  BY <1>7, <1>8, <1>9, Zenon DEF Contents
<1> QED BY <1>3, <1>10, Zenon

\* Object k of activation x replaced.
Assigned(A, x, k, o) == [A EXCEPT ![x].objs[k] = o]

\* LOCAL_ASSIGN of an object of any activation: the frames and the other objects hold.
LEMMA ObjectAssigned ==
  ASSUME NEW A, NEW H, Layout(A, H), NEW m, Contents(m, A, H),
         NEW x \in 1 .. Len(A), NEW k \in 1 .. Len(A[x].objs), NEW o \in Object
  PROVE  LET B == Assigned(A, x, k, o)
             p == Put(m, H[x].at + SizeObject * (k - 1), SizeObject, o)
         IN  /\ Layout(B, H) /\ Contents(p, B, H) /\ Len(B) = Len(A)
             /\ B \in Seq(Activation) /\ SameShape(A[x], B[x]) /\ SameBut(A, B, x)
             /\ \A i \in 1 .. Len(A) :
                  \A s, f, l, t, c : Registers(B, H, i, s, f, l, t, c)
                                       <=> Registers(A, H, i, s, f, l, t, c)
<1> DEFINE objs == [A[x].objs EXCEPT ![k] = o]
           b == [A[x] EXCEPT !.objs = objs]
           B == Assigned(A, x, k, o)
           q == H[x].at + SizeObject * (k - 1)
           p == Put(m, q, SizeObject, o)
<1>1. Len(A) \in Nat \ {0} /\ A \in Seq(Activation) /\ A[x] \in Activation
  BY DEF Layout
<1>2. A[x].objs \in Seq(Object)
  BY LayoutOrder
<1>3. objs \in Seq(Object) /\ Len(objs) = Len(A[x].objs)
  BY <1>2
<1>4. B = [A EXCEPT ![x] = b]
  BY DEF Assigned
<1>5. /\ q \in Nat /\ SizeObject \in Nat \ {0} /\ H[x].at <= q /\ q + SizeObject <= End(A, H, x)
      /\ H[x].at \in Nat /\ End(A, H, x) \in Nat
  BY ObjectPlace, LayoutOrder
<1>6. /\ IsMemory(m) /\ End(A, H, x) < STKSEG_SIZE /\ q <= STKSEG_SIZE
  <2>1. End(A, H, x) <= End(A, H, Len(A)) /\ End(A, H, Len(A)) \in Nat
    BY EndOrder
  <2>2. IsMemory(m) /\ End(A, H, Len(A)) < STKSEG_SIZE
    BY DEF Contents
  <2> HIDE DEF q
  <2> QED BY <2>1, <2>2, <1>5, Size
<1>7. ObjectsAt(p, H[x].at, objs)
  <2>1. ObjectsAt(m, H[x].at, A[x].objs)
    BY DEF Contents, ObjectsIn
  <2>2. H[x].at + SizeObject * Len(A[x].objs) < STKSEG_SIZE
    BY <1>6 DEF End
  <2>3. IsMemory(m) /\ H[x].at \in Nat
    BY <1>5, <1>6
  <2> QED BY <2>1, <2>2, <2>3, <1>2, ObjectAssignedAt, Zenon
<1> HIDE DEF B
<1>8. b \in Activation /\ b.objs = objs /\ SameShape(A[x], b)
  <2> HIDE DEF objs
  <2> QED BY <1>1, <1>3, ActivationObjects DEF SameShape
<1> HIDE DEF b, objs
<1>9. B \in Seq(Activation) /\ Len(B) = Len(A) /\ B[x] = b /\ SameBut(A, B, x)
  BY <1>1, <1>4, <1>8 DEF SameBut
<1> HIDE DEF q
<1>10. IsMemory(p) /\ SameBelow(m, p, H[x].at)
  <2>1. IsMemory(p) /\ SameBelow(m, p, q)
    BY <1>5, <1>6, PutSame
  <2> HIDE DEF p
  <2> QED BY <2>1, <1>5, SameLess
<1>11. SameOn(m, p, End(A, H, x), STKSEG_SIZE)
  BY <1>5, <1>6, Size, PutSameOn
<1> HIDE DEF p
<1>12. SameShape(A[x], B[x]) /\ ObjectsAt(p, H[x].at, B[x].objs)
  BY <1>7, <1>8, <1>9
<1>13. /\ Layout(B, H) /\ Contents(p, B, H)
       /\ \A i \in 1 .. Len(A) :
            \A s, f, l, t, c : Registers(B, H, i, s, f, l, t, c)
                                 <=> Registers(A, H, i, s, f, l, t, c)
  BY <1>9, <1>10, <1>11, <1>12, OneChanged
<1> QED BY <1>9, <1>12, <1>13, Zenon DEF B, p, q

\* A with a for its newest activation; A with objs for the objects of the newest.
WithNewest(A, a) == [A EXCEPT ![Len(A)] = a]
\* The objects of the newest activation replaced.
WithObjects(A, objs) == WithNewest(A, [A[Len(A)] EXCEPT !.objs = objs])

(* The newest activation becomes a.                                         *)
LEMMA TopChanged ==
  ASSUME NEW A, NEW H, Layout(A, H), NEW m, Contents(m, A, H), NEW a \in Activation,
         a.home = A[Len(A)].home, a.clo = A[Len(A)].clo,
         Len(A) = 1 => a.phase = "body",
         Len(A) > 1 /\ a.phase = "args" => a.n = 0 /\ a.locs = 0,
         Len(A) > 1 /\ a.phase # "args" => a.ret \in Code,
         NEW p, IsMemory(p), NEW w \in Nat, SameBelow(m, p, w),
         Len(A) > 1 => H[Len(A)].at - FPS <= w,
         Len(A) > 1 => HeaderIn(p, WithNewest(A, a), H, Len(A)),
         ObjectsAt(p, H[Len(A)].at, a.objs),
         H[Len(A)].at + SizeObject * Len(a.objs) < STKSEG_SIZE
  PROVE  LET B == WithNewest(A, a)
         IN  /\ Layout(B, H) /\ Contents(p, B, H)
             /\ B \in Seq(Activation) /\ Len(B) = Len(A) /\ B[Len(A)] = a /\ SameBut(A, B, Len(A))
             /\ End(B, H, Len(A)) = H[Len(A)].at + SizeObject * Len(a.objs)
<1> DEFINE n == Len(A)
           B == WithNewest(A, a)
<1>1. n \in Nat \ {0} /\ A \in Seq(Activation) /\ n \in 1 .. n
  BY DEF Layout
<1>2. Layout(B, H)
  BY TopLayout DEF WithNewest
<1>3. B \in Seq(Activation) /\ Len(B) = n /\ B[n] = a /\ SameBut(A, B, n)
  BY <1>1 DEF SameBut, WithNewest
<1>4. n > 1 => HeaderIn(p, B, H, n)
  OBVIOUS
<1> HIDE DEF B
<1>5. End(B, H, n) = H[n].at + SizeObject * Len(a.objs)
  BY <1>3 DEF End
<1>6. ObjectsIn(p, B, H, n)
  BY <1>3 DEF ObjectsIn
<1> HIDE DEF n
<1>7. SameUnderTop(A, B)
  BY <1>1, <1>3 DEF SameUnderTop, SameBut, n
<1>8. End(B, H, n) < STKSEG_SIZE
  BY <1>5 DEF n
<1>9. Contents(p, B, H)
  BY <1>4, <1>6, <1>7, <1>8, TopContents DEF n
<1> QED BY <1>2, <1>3, <1>5, <1>9 DEF B, n

(* ... of which only the objects are new.                                   *)
LEMMA TopObjects ==
  ASSUME NEW A, NEW H, Layout(A, H), NEW m, Contents(m, A, H), NEW objs \in Seq(Object),
         NEW p, IsMemory(p), SameBelow(m, p, H[Len(A)].at),
         ObjectsAt(p, H[Len(A)].at, objs),
         H[Len(A)].at + SizeObject * Len(objs) < STKSEG_SIZE
  PROVE  LET B == WithObjects(A, objs)
         IN  /\ Layout(B, H) /\ Contents(p, B, H)
             /\ B \in Seq(Activation) /\ Len(B) = Len(A) /\ SameBut(A, B, Len(A))
             /\ B[Len(A)].objs = objs
             /\ \A s, f, l, t, c :
                  Registers(A, H, Len(A), s, f, l, t, c)
                    => Registers(B, H, Len(A), H[Len(A)].at + SizeObject * Len(objs), f, l, t, c)
<1> DEFINE n == Len(A)
           a == [A[n] EXCEPT !.objs = objs]
           B == WithNewest(A, a)
<1>1. n \in Nat \ {0} /\ A \in Seq(Activation) /\ n \in 1 .. n /\ A[n] \in Activation
      /\ A[1].phase = "body"
  BY DEF Layout
<1>2. /\ a \in Activation /\ a.objs = objs /\ a.locs = A[n].locs /\ a.phase = A[n].phase
      /\ a.n = A[n].n /\ a.home = A[n].home /\ a.ret = A[n].ret /\ a.clo = A[n].clo
      /\ a.applied = A[n].applied
  BY <1>1, ActivationObjects
<1>3. n > 1 => FrameFits(A, H, n)
  BY <1>1 DEF Layout
<1>4. /\ n = 1 => a.phase = "body"
      /\ n > 1 /\ a.phase = "args" => a.n = 0 /\ a.locs = 0
      /\ n > 1 /\ a.phase # "args" => a.ret \in Code
  BY <1>1, <1>2, <1>3 DEF FrameFits
<1>a. WithObjects(A, objs) = B
  BY DEF WithObjects
<1> HIDE DEF a
<1>5. /\ B \in Seq(Activation) /\ Len(B) = n /\ B[n] = a /\ SameBut(A, B, n)
  BY <1>1, <1>2 DEF SameBut, WithNewest
<1> HIDE DEF B
<1>6. H[n].at \in Nat /\ (n > 1 => FPS <= H[n].at) /\ ExecAt(A, n) \in 1 .. n
  BY <1>1, LayoutOrder
<1>7. n > 1 => HeaderIn(p, B, H, n)
  <2> SUFFICES ASSUME n > 1 PROVE HeaderIn(p, B, H, n)
    OBVIOUS
  <2>1. HeaderIn(m, A, H, n)
    BY <1>1 DEF Contents
  <2>2. ReturnField(B, n) = ReturnField(A, n)
    BY <1>2, <1>5 DEF ReturnField, ReturnOf
  <2>3. H[n].at - FPS \in Nat
    BY <1>6 DEF FPS, SizeReg, SizeAttr, SizePtr
  <2>4. SameOn(m, p, H[n].at - FPS, H[n].at)
    BY <2>3, <1>6, SameBelowOn
  <2>5. B[n].clo = A[n].clo /\ B[n].applied = A[n].applied
    BY <1>2, <1>5
  <2> QED BY <2>1, <2>2, <2>4, <2>5, <1>6, HeaderSame
<1>8. n > 1 => H[n].at - FPS <= H[n].at
  BY <1>6 DEF FPS, SizeReg, SizeAttr, SizePtr
<1>9. ObjectsAt(p, H[n].at, a.objs) /\ H[n].at + SizeObject * Len(a.objs) < STKSEG_SIZE
  BY <1>2
<1>10. Layout(B, H) /\ Contents(p, B, H) /\ End(B, H, n) = H[n].at + SizeObject * Len(a.objs)
  BY <1>2, <1>4, <1>6, <1>7, <1>8, <1>9, TopChanged DEF B
<1>11. ASSUME NEW s, NEW f, NEW l, NEW t, NEW c, Registers(A, H, n, s, f, l, t, c)
       PROVE  Registers(B, H, n, H[n].at + SizeObject * Len(objs), f, l, t, c)
  <2>1. /\ ExecAt(B, n) = ExecAt(A, n) /\ B[n].phase = A[n].phase /\ B[n].n = A[n].n
        /\ End(B, H, n) = H[n].at + SizeObject * Len(objs)
    BY <1>2, <1>5, <1>10 DEF ExecAt
  <2>2. B[ExecAt(A, n)].locs = A[ExecAt(A, n)].locs
    <3>1. CASE ExecAt(A, n) = n
      BY <3>1, <1>2, <1>5
    <3>2. CASE ExecAt(A, n) # n
      BY <3>2, <1>5, <1>6 DEF SameBut
    <3> QED BY <3>1, <3>2
  <2> QED BY <2>1, <2>2, <1>11, Zenon DEF Registers
<1>12. B[n].objs = objs
  BY <1>2, <1>5
<1> QED BY <1>a, <1>5, <1>10, <1>11, <1>12, Zenon

------------------------------------------------------------------------------
(* The instructions preserve the invariant.                                 *)

\* PANIC leaves everything as it is.
LEMMA Overflowed ==
  ASSUME FrameInv, Overflow
  PROVE  FrameInv'
BY DEF FrameInv, Overflow, regs

\* What the invariant says of the newest activation and of the registers.
LEMMA TopFacts ==
  ASSUME FrameInv
  PROVE  /\ Layout(acts, hdr) /\ Contents(mem, acts, hdr) /\ IsMemory(mem)
         /\ Len(acts) \in Nat \ {0} /\ acts \in Seq(Activation) /\ Len(acts) \in 1 .. Len(acts)
         /\ Len(hdr) = Len(acts) /\ hdr \in Seq(FrameHeader) /\ Where = hdr[Len(acts)]
         /\ Top \in Activation /\ Top = acts[Len(acts)]
         /\ Top.objs \in Seq(Object) /\ Len(Top.objs) \in Nat
         /\ Where.at \in Nat /\ Where.at <= sp /\ sp \in Nat /\ sp < STKSEG_SIZE
         /\ sp = Where.at + SizeObject * Len(Top.objs) /\ sp = End(acts, hdr, Len(acts))
         /\ fp = (IF Len(acts) = 1 THEN 0 ELSE Where.at - FPS)
         /\ (Len(acts) > 1 => FPS <= Where.at) /\ fp \in Nat
         /\ ObjectsAt(mem, Where.at, Top.objs)
         /\ Stack!Exec = ExecAt(acts, Len(acts)) /\ Stack!Exec \in 1 .. Len(acts)
         /\ local = hdr[Stack!Exec].at + SizeObject * acts[Stack!Exec].locs
<1>1. /\ Layout(acts, hdr) /\ Contents(mem, acts, hdr)
      /\ Registers(acts, hdr, Len(acts), sp, fp, local, attr, closure)
  BY DEF FrameInv
<1>2. /\ Len(acts) \in Nat \ {0} /\ acts \in Seq(Activation) /\ Len(acts) \in 1 .. Len(acts)
      /\ Len(hdr) = Len(acts) /\ hdr \in Seq(FrameHeader) /\ acts[1].phase = "body"
      /\ hdr[1].at = 0
  BY <1>1 DEF Layout
<1>3. Where = hdr[Len(acts)] /\ Top = acts[Len(acts)]
  BY <1>2 DEF Where, Top
<1>4. /\ Top \in Activation /\ Top.objs \in Seq(Object) /\ Len(Top.objs) \in Nat
      /\ Where.at \in Nat /\ End(acts, hdr, Len(acts)) \in Nat
      /\ Where.at <= End(acts, hdr, Len(acts))
      /\ (Len(acts) > 1 => FPS <= Where.at)
      /\ ExecAt(acts, Len(acts)) \in 1 .. Len(acts)
  BY <1>1, <1>2, <1>3, LayoutOrder
<1>5. sp = End(acts, hdr, Len(acts)) /\ End(acts, hdr, Len(acts)) < STKSEG_SIZE /\ IsMemory(mem)
  BY <1>1 DEF Registers, Contents
<1>6. sp = Where.at + SizeObject * Len(Top.objs)
  BY <1>3, <1>5 DEF End
<1>7. Stack!Exec = ExecAt(acts, Len(acts))
  BY DEF Stack!Exec, Stack!Top, ExecAt
<1>8. /\ local = hdr[Stack!Exec].at + SizeObject * acts[Stack!Exec].locs
      /\ fp = (IF Len(acts) = 1 THEN 0 ELSE Where.at - FPS)
  BY <1>1, <1>3, <1>7 DEF Registers
<1>9. fp \in Nat
  BY <1>2, <1>4, <1>8 DEF FPS, SizeReg, SizeAttr, SizePtr
<1>10. ObjectsAt(mem, Where.at, Top.objs)
  BY <1>1, <1>2, <1>3 DEF Contents, ObjectsIn
<1> QED BY <1>1, <1>2, <1>3, <1>4, <1>5, <1>6, <1>7, <1>8, <1>9, <1>10

(* Where the stack ends, in numbers.                                        *)
LEMMA TopPlace ==
  ASSUME FrameInv
  PROVE  /\ sp = Where.at + 5 * Len(Top.objs) /\ sp \in Nat /\ sp < STKSEG_SIZE
         /\ Where.at \in Nat /\ Len(Top.objs) \in Nat
<1>1. /\ sp = Where.at + SizeObject * Len(Top.objs) /\ sp \in Nat /\ sp < STKSEG_SIZE
      /\ Where.at \in Nat /\ Len(Top.objs) \in Nat
  BY TopFacts, Zenon
<1> QED BY <1>1, Sizes, Zenon

\* Any change of the newest activation's objects that memory follows keeps the invariant.
LEMMA TopObjectsInv ==
  ASSUME FrameInv, NEW objs \in Seq(Object),
         IsMemory(mem'), SameBelow(mem, mem', Where.at), ObjectsAt(mem', Where.at, objs),
         sp' = Where.at + SizeObject * Len(objs), sp' < STKSEG_SIZE,
         acts' = WithObjects(acts, objs),
         pc' \in Code, env' \in [Closure -> Seq(Object)],
         UNCHANGED <<fp, local, attr, closure, stopped, hdr>>
  PROVE  FrameInv'
<1> DEFINE n == Len(acts)
           B == WithObjects(acts, objs)
<1>0. /\ acts' = B /\ hdr' = hdr /\ fp' = fp /\ local' = local /\ attr' = attr
      /\ closure' = closure /\ stopped' = stopped
  OBVIOUS
<1>1. /\ Layout(acts, hdr) /\ Contents(mem, acts, hdr) /\ Where = hdr[n]
  BY TopFacts
<1>2. /\ SameBelow(mem, mem', hdr[n].at) /\ ObjectsAt(mem', hdr[n].at, objs)
      /\ hdr[n].at + SizeObject * Len(objs) < STKSEG_SIZE
  BY <1>1
<1>3. /\ Layout(B, hdr) /\ Contents(mem', B, hdr) /\ Len(B) = n
      /\ \A s, f, l, t, c :
           Registers(acts, hdr, n, s, f, l, t, c)
             => Registers(B, hdr, n, hdr[n].at + SizeObject * Len(objs), f, l, t, c)
  BY <1>1, <1>2, TopObjects
<1>4. /\ Registers(acts, hdr, n, sp, fp, local, attr, closure)
      /\ attr \in Attr /\ closure \in Closure \cup {NULL} /\ stopped \in BOOLEAN
  BY DEF FrameInv
<1> HIDE DEF B
<1>5. Registers(B, hdr, n, sp', fp, local, attr, closure)
  BY <1>1, <1>3, <1>4
<1> QED BY <1>0, <1>3, <1>4, <1>5 DEF FrameInv

\* PUSH_OBJ keeps it,
LEMMA PushObjectInv ==
  ASSUME FrameInv, NEW o \in Object, PushObject(o)
  PROVE  FrameInv'
<1>1. CASE /\ Room(SizeObject)
           /\ mem' = Put(mem, sp, SizeObject, o)
           /\ sp' = sp + SizeObject
           /\ acts' = Stack!Pushed(o)
           /\ UNCHANGED <<fp, local, pc, attr, closure, env, stopped, hdr>>
  <2> DEFINE objs == Append(Top.objs, o)
  <2>1. objs \in Seq(Object) /\ Len(objs) = Len(Top.objs) + 1
    BY TopFacts
  <2>2. acts' = WithObjects(acts, objs)
    BY <1>1 DEF Stack!Pushed, Stack!WithTop, Stack!Top, Top, WithObjects, WithNewest
  <2>3. sp + SizeObject < STKSEG_SIZE /\ sp + SizeObject = Where.at + SizeObject * Len(objs)
    BY <1>1, <2>1, TopFacts DEF Room, SizeObject, SizePtr
  <2>4. /\ ObjectsAt(mem', Where.at, objs) /\ IsMemory(mem') /\ SameBelow(mem, mem', sp)
        /\ Where.at <= sp
    BY <1>1, <2>3, TopFacts, ObjectPushed, Size
  <2>5. SameBelow(mem, mem', Where.at)
    BY <2>4, TopFacts, SameLess
  <2>6. pc' \in Code /\ env' \in [Closure -> Seq(Object)]
    BY <1>1 DEF FrameInv
  <2>7. sp' = Where.at + SizeObject * Len(objs) /\ sp' < STKSEG_SIZE
    BY <1>1, <2>3
  <2> HIDE DEF objs
  <2> QED BY <1>1, <2>1, <2>2, <2>3, <2>4, <2>5, <2>6, <2>7, TopObjectsInv
<1>2. CASE ~Room(SizeObject) /\ Overflow
  BY <1>2, Overflowed
<1> QED BY <1>1, <1>2 DEF PushObject

\* ... and prim pop and F_JMP,
LEMMA DropInv ==
  ASSUME FrameInv, NEW l \in Code, Drop(l)
  PROVE  FrameInv'
<1> DEFINE objs == SubSeq(Top.objs, 1, Len(Top.objs) - 1)
<1>1. Top.objs # <<>> /\ Top.objs \in Seq(Object)
  BY TopFacts DEF Drop
<1>2. objs \in Seq(Object) /\ Len(objs) = Len(Top.objs) - 1 /\ Len(Top.objs) - 1 \in 0 .. Len(Top.objs)
  BY <1>1
<1>3. acts' = WithObjects(acts, objs)
  BY DEF Drop, Stack!WithTop, Stack!Popped, Stack!Top, Top,
     WithObjects, WithNewest
<1>4. sp' = Where.at + SizeObject * Len(objs) /\ sp' < STKSEG_SIZE
  <2>1. sp' = sp - 5
    BY Sizes, Zenon DEF Drop
  <2>2. sp' = Where.at + 5 * Len(objs) /\ sp' < STKSEG_SIZE
    BY <1>2, <2>1, TopPlace, Size
  <2> QED BY <2>2, Sizes, Zenon
<1>5. ObjectsAt(mem, Where.at, objs)
  BY <1>1, <1>2, TopFacts, ObjectsDropped
<1>6. /\ mem' = mem /\ pc' \in Code /\ env' \in [Closure -> Seq(Object)]
      /\ UNCHANGED <<fp, local, attr, closure, stopped, hdr>>
  BY DEF Drop, FrameInv
<1>7. IsMemory(mem') /\ SameBelow(mem, mem', Where.at) /\ ObjectsAt(mem', Where.at, objs)
  BY <1>5, <1>6, TopFacts DEF SameBelow
<1> HIDE DEF objs
<1> QED BY <1>2, <1>3, <1>4, <1>5, <1>6, <1>7, TopObjectsInv

\* ... and JMP.
LEMMA JumpInv ==
  ASSUME FrameInv, NEW l \in Code, Jump(l)
  PROVE  FrameInv'
BY DEF FrameInv, Jump

\* A captured variable, or the object where local says.
VarPlaced(k) == Stack!Slot(k) \in 1 .. Len(acts[Stack!Exec].objs)

\* LOCAL_OFFSET is the place of the variable in the activation being executed (vm.h).
LEMMA VarPlace ==
  ASSUME FrameInv, NEW k \in Nat, VarPlaced(k)
  PROVE  LocalOffset(k) = hdr[Stack!Exec].at + SizeObject * (Stack!Slot(k) - 1)
<1> DEFINE size == IF closure = NULL THEN 0 ELSE Len(env[closure])
           x == Stack!Exec
<1>1. /\ size \in Nat
  BY DEF FrameInv
<1>2. x \in 1 .. Len(acts) /\ local = hdr[x].at + SizeObject * acts[x].locs
      /\ Layout(acts, hdr)
  BY TopFacts
<1>3. hdr[x].at \in Nat /\ acts[x].locs \in Nat
  BY <1>2, LayoutOrder
<1>4. Stack!Slot(k) = acts[x].locs + 1 + (k - size)
  BY <1>1, <1>3 DEF Stack!Slot
<1>5. LocalOffset(k) = local + SizeObject * (k - size)
  BY DEF LocalOffset, FrameSize
<1> DEFINE at == hdr[x].at
           locs == acts[x].locs
<1>6. local = at + 5 * locs /\ at \in Nat /\ locs \in Nat
  BY <1>2, <1>3, Sizes
<1> HIDE DEF size, locs, at
<1>7. local + 5 * (k - size) = at + 5 * ((locs + 1 + (k - size)) - 1)
  BY <1>1, <1>6
<1> QED BY <1>4, <1>5, <1>7, Sizes, Zenon DEF at, locs

\* A variable read from the closure's env or from the stack is the program's variable.
LEMMA VarHeld ==
  ASSUME FrameInv, NEW k \in Nat, Stack!HasVar(k)
  PROVE  /\ (IF FromEnv(k) THEN env[closure][k + 1]
             ELSE Get(mem, LocalOffset(k), SizeObject)) = Stack!Var(k)
         /\ Stack!Var(k) \in Object
<1> DEFINE x == Stack!Exec
<1>1. FromEnv(k) <=> Stack!Captured(k)
  BY DEF FromEnv, Stack!Captured
<1>2. CASE FromEnv(k)
  <2>1. Stack!Var(k) = env[closure][k + 1]
    BY <1>1, <1>2 DEF Stack!Var
  <2>2. closure \in Closure /\ env[closure] \in Seq(Object)
    BY <1>2 DEF FrameInv, FromEnv
  <2>3. k + 1 \in 1 .. Len(env[closure])
    BY <1>2, <2>2 DEF FromEnv
  <2> QED BY <1>2, <2>1, <2>2, <2>3
<1>3. CASE ~FromEnv(k)
  <2>1. VarPlaced(k) /\ Stack!Var(k) = acts[x].objs[Stack!Slot(k)]
    BY <1>1, <1>3 DEF Stack!HasVar, Stack!Var, VarPlaced
  <2>2. x \in 1 .. Len(acts) /\ Layout(acts, hdr) /\ Contents(mem, acts, hdr)
    BY TopFacts
  <2>3. LocalOffset(k) = hdr[x].at + SizeObject * (Stack!Slot(k) - 1)
    BY <2>1, VarPlace
  <2> HIDE DEF x
  <2> DEFINE j == Stack!Slot(k)
  <2>4. j \in 1 .. Len(acts[x].objs)
    BY <2>1 DEF VarPlaced, x
  <2> HIDE DEF j
  <2>5. Holds(mem, hdr[x].at + SizeObject * (j - 1), SizeObject, acts[x].objs[j])
    BY <2>2, <2>4 DEF Contents, ObjectsIn, ObjectsAt
  <2>6. /\ hdr[x].at + SizeObject * (j - 1) \in Nat /\ SizeObject \in Nat \ {0}
        /\ acts[x].objs \in Seq(Object)
    BY <2>2, <2>4, ObjectPlace, LayoutOrder
  <2>7. Get(mem, hdr[x].at + SizeObject * (j - 1), SizeObject) = acts[x].objs[j]
    BY <2>5, <2>6, GetHeld
  <2>8. acts[x].objs[j] \in Object
    BY <2>4, <2>6
  <2> QED BY <1>3, <2>1, <2>3, <2>7, <2>8 DEF j
<1> QED BY <1>2, <1>3

\* POP_OBJ reads the last object of the newest activation.
LEMMA TopObject ==
  ASSUME FrameInv, Top.objs # <<>>
  PROVE  /\ Get(mem, sp - SizeObject, SizeObject) = Top.objs[Len(Top.objs)]
         /\ Top.objs[Len(Top.objs)] \in Object
         /\ Len(Top.objs) \in Nat \ {0}
<1> DEFINE len == Len(Top.objs)
<1>1. /\ Top.objs \in Seq(Object) /\ len \in Nat \ {0} /\ len \in 1 .. len
  BY TopFacts
<1>2. Top.objs[len] \in Object
  BY <1>1
<1> HIDE DEF len
<1>3. sp - SizeObject = Where.at + SizeObject * (len - 1) /\ sp - SizeObject \in Nat
  <2>1. sp = Where.at + 5 * len /\ Where.at \in Nat /\ sp \in Nat
    BY TopPlace, Zenon DEF len
  <2>2. sp - 5 = Where.at + 5 * (len - 1) /\ sp - 5 \in Nat
    BY <1>1, <2>1
  <2> QED BY <2>2, Sizes, Zenon
<1>4. Holds(mem, Where.at + SizeObject * (len - 1), SizeObject, Top.objs[len])
  BY <1>1, TopFacts DEF ObjectsAt, len
<1>5. SizeObject \in Nat \ {0}
  BY DEF SizeObject, SizePtr
<1> QED BY <1>1, <1>2, <1>3, <1>4, <1>5, GetHeld DEF len

\* LOCAL_REF pushes the variable the program means,
LEMMA LocalRefInv ==
  ASSUME FrameInv, NEW k \in Nat, LocalRef(k)
  PROVE  FrameInv' /\ PushObject(Stack!Var(k)) /\ Stack!Var(k) \in Object
<1>1. PushObject(Stack!Var(k)) /\ Stack!Var(k) \in Object
  BY VarHeld, Zenon DEF LocalRef
<1> QED BY <1>1, PushObjectInv

\* The assigned object leaves the stack.
LEMMA Taken ==
  ASSUME FrameInv, Top.objs # <<>>
  PROVE  /\ Stack!Popped \in Seq(Object) /\ Len(Stack!Popped) = Len(Top.objs) - 1
         /\ sp - SizeObject = Where.at + SizeObject * Len(Stack!Popped)
         /\ sp - SizeObject < STKSEG_SIZE
         /\ ObjectsAt(mem, Where.at, Stack!Popped)
         /\ SameBelow(mem, mem, Where.at)
<1>1. Top.objs \in Seq(Object) /\ Len(Top.objs) \in Nat \ {0}
  BY TopFacts
<1>2. Stack!Popped = SubSeq(Top.objs, 1, Len(Top.objs) - 1)
  BY DEF Stack!Popped, Stack!Top, Top
<1>3. /\ Stack!Popped \in Seq(Object) /\ Len(Stack!Popped) = Len(Top.objs) - 1
      /\ Len(Top.objs) - 1 \in 0 .. Len(Top.objs)
  BY <1>1, <1>2
<1>4. ObjectsAt(mem, Where.at, Stack!Popped)
  BY <1>1, <1>2, <1>3, TopFacts, ObjectsDropped
<1>5. sp \in Nat /\ Where.at \in Nat /\ sp = Where.at + 5 * Len(Top.objs) /\ sp < STKSEG_SIZE
  BY TopFacts DEF SizeObject, SizePtr
<1>6. SizeObject = 5
  BY DEF SizeObject, SizePtr
<1>7. sp - 5 = Where.at + 5 * Len(Stack!Popped) /\ sp - 5 < STKSEG_SIZE
  BY <1>1, <1>3, <1>5, Size
<1> QED BY <1>3, <1>4, <1>6, <1>7 DEF SameBelow

\* ... and LOCAL_ASSIGN assigns it, in the activation it belongs to.
LEMMA LocalAssignInv ==
  ASSUME FrameInv, NEW k \in Nat, LocalAssign(k)
  PROVE  FrameInv'
<1> DEFINE o == Get(mem, sp - SizeObject, SizeObject)
           objs == Stack!Popped
           rest == WithObjects(acts, objs)
           x == Stack!Exec
           j == Stack!Slot(k)
<1>1. /\ sp' = sp - SizeObject /\ fp' = fp /\ local' = local /\ pc' = pc /\ attr' = attr
      /\ closure' = closure /\ stopped' = stopped /\ hdr' = hdr /\ Top.objs # <<>>
  BY DEF LocalAssign
<1>2. o \in Object
  BY <1>1, TopObject
<1>3. Stack!WithTop([Top EXCEPT !.objs = Stack!Popped]) = rest
  BY DEF Stack!WithTop, Stack!Top, Top, WithObjects, WithNewest
<1>4. \/ FromEnv(k) /\ env' = [env EXCEPT ![closure][k + 1] = o] /\ acts' = rest /\ mem' = mem
      \/ /\ j \in 1 .. Len(rest[x].objs)
         /\ mem' = Put(mem, LocalOffset(k), SizeObject, o)
         /\ acts' = [rest EXCEPT ![x].objs[j] = o]
         /\ env' = env
  BY <1>3, Zenon DEF LocalAssign
<1>5. /\ objs \in Seq(Object) /\ sp - SizeObject = Where.at + SizeObject * Len(objs)
      /\ sp - SizeObject < STKSEG_SIZE /\ ObjectsAt(mem, Where.at, objs)
      /\ SameBelow(mem, mem, Where.at)
  BY <1>1, Taken
<1> HIDE DEF o, objs, rest, x, j
<1>6. CASE FromEnv(k) /\ env' = [env EXCEPT ![closure][k + 1] = o] /\ acts' = rest /\ mem' = mem
  <2>1. closure \in Closure /\ env \in [Closure -> Seq(Object)] /\ pc \in Code
    BY <1>6 DEF FromEnv, FrameInv
  <2>2. k + 1 \in 1 .. Len(env[closure])
    BY <1>6, <2>1 DEF FromEnv
  <2>3. env' \in [Closure -> Seq(Object)]
    BY <1>2, <1>6, <2>1, <2>2
  <2> QED BY <1>1, <1>5, <1>6, <2>1, <2>3, TopFacts, TopObjectsInv DEF rest
<1>7. CASE /\ j \in 1 .. Len(rest[x].objs)
           /\ mem' = Put(mem, LocalOffset(k), SizeObject, o)
           /\ acts' = [rest EXCEPT ![x].objs[j] = o]
           /\ env' = env
  <2> DEFINE n == Len(acts)
  <2>1. /\ Layout(acts, hdr) /\ Contents(mem, acts, hdr) /\ IsMemory(mem) /\ Where = hdr[n]
        /\ x \in 1 .. n
    BY TopFacts DEF x
  <2>2. /\ SameBelow(mem, mem, hdr[n].at) /\ ObjectsAt(mem, hdr[n].at, objs)
        /\ hdr[n].at + SizeObject * Len(objs) < STKSEG_SIZE
    BY <1>5, <2>1
  <2>3. /\ Layout(rest, hdr) /\ Contents(mem, rest, hdr) /\ Len(rest) = n
        /\ SameBut(acts, rest, n) /\ rest[n].objs = objs
        /\ \A s, f, l, t, c :
             Registers(acts, hdr, n, s, f, l, t, c)
               => Registers(rest, hdr, n, hdr[n].at + SizeObject * Len(objs), f, l, t, c)
    BY <1>5, <2>1, <2>2, TopObjects DEF rest
  <2>4. Registers(rest, hdr, n, sp - SizeObject, fp, local, attr, closure)
    BY <1>5, <2>1, <2>3 DEF FrameInv
  <2>5. VarPlaced(k)
    <3>1. CASE x = n
      <4>1. Len(objs) = Len(Top.objs) - 1 /\ Len(Top.objs) \in Nat /\ acts[x].objs = Top.objs
        BY <1>1, <3>1, Taken, TopFacts DEF objs
      <4>2. j \in 1 .. Len(acts[x].objs)
        BY <1>7, <2>3, <3>1, <4>1
      <4> QED BY <4>2 DEF VarPlaced, x, j
    <3>2. CASE x # n
      <4>1. rest[x] = acts[x]
        BY <2>1, <2>3, <3>2 DEF SameBut
      <4> QED BY <1>7, <4>1 DEF VarPlaced, x, j
    <3> QED BY <3>1, <3>2
  <2>6. LocalOffset(k) = hdr[x].at + SizeObject * (j - 1)
    BY <2>5, VarPlace DEF x, j
  <2>7. acts' = Assigned(rest, x, j, o)
    BY <1>7 DEF Assigned
  <2>8. mem' = Put(mem, hdr[x].at + SizeObject * (j - 1), SizeObject, o)
    BY <1>7, <2>6
  <2> HIDE DEF n
  <2>9. x \in 1 .. Len(rest) /\ n \in 1 .. Len(rest)
    BY <2>1, <2>3
  <2>10. /\ Layout(acts', hdr) /\ Contents(mem', acts', hdr) /\ Len(acts') = Len(rest)
         /\ Registers(acts', hdr, n, sp - SizeObject, fp, local, attr, closure)
    <3>1. /\ Layout(rest, hdr) /\ Contents(mem, rest, hdr) /\ j \in 1 .. Len(rest[x].objs)
          /\ o \in Object
      BY <1>2, <1>7, <2>3
    <3> DEFINE B == Assigned(rest, x, j, o)
               p == Put(mem, hdr[x].at + SizeObject * (j - 1), SizeObject, o)
    <3>2. /\ Layout(B, hdr) /\ Contents(p, B, hdr) /\ Len(B) = Len(rest)
          /\ \A i \in 1 .. Len(rest) :
               \A s, f, l, t, c : Registers(B, hdr, i, s, f, l, t, c)
                                    <=> Registers(rest, hdr, i, s, f, l, t, c)
      BY <2>9, <3>1, ObjectAssigned
    <3> HIDE DEF B, p
    <3> QED BY <2>4, <2>7, <2>8, <2>9, <3>2 DEF B, p
  <2>11. /\ attr \in Attr /\ closure \in Closure \cup {NULL} /\ pc \in Code
         /\ env \in [Closure -> Seq(Object)] /\ stopped \in BOOLEAN
    BY DEF FrameInv
  <2>12. Len(acts') = n
    BY <2>3, <2>10
  <2>13. env' = env
    BY <1>7
  <2> QED BY <1>1, <2>10, <2>11, <2>12, <2>13 DEF FrameInv
<1> QED BY <1>4, <1>6, <1>7

------------------------------------------------------------------------------
(* Frames.                                                                  *)

\* The five fields of a frame at o.
FrameHolds(m, o, ret, l, last, t, c) ==
  /\ Holds(m, o, SizeReg, ret)
  /\ Holds(m, o + SizeReg, SizeReg, l)
  /\ Holds(m, o + 2 * SizeReg, SizeReg, last)
  /\ Holds(m, o + 3 * SizeReg, SizeAttr, t)
  /\ Holds(m, o + 3 * SizeReg + SizeAttr, SizePtr, c)

(* SAVE_ENV writes a frame and leaves what is below it.                     *)
LEMMA HeaderWritten ==
  ASSUME NEW m, IsMemory(m), NEW o \in Nat, o + FPS <= STKSEG_SIZE, NEW ret, NEW last
  PROVE  /\ IsMemory(Header(m, o, ret, last)) /\ SameBelow(m, Header(m, o, ret, last), o)
         /\ FrameHolds(Header(m, o, ret, last), o, ret, local, last, attr, closure)
<1> DEFINE m1 == Put(m, o, 2, ret)
           m2 == Put(m1, o + 2, 2, local)
           m3 == Put(m2, o + 4, 2, last)
           m4 == Put(m3, o + 6, 1, attr)
           m5 == Put(m4, o + 7, 4, closure)
<1>1. Header(m, o, ret, last) = m5
  <2>1. o + 3 * SizeReg + SizeAttr = o + 7
    BY Sizes
  <2> QED BY <2>1, Sizes, Zenon DEF Header
<1>2. /\ o + 2 \in Nat /\ o + 4 \in Nat /\ o + 6 \in Nat /\ o + 7 \in Nat
      /\ o + 11 <= STKSEG_SIZE /\ o <= STKSEG_SIZE /\ 2 \in Nat /\ 1 \in Nat /\ 4 \in Nat
  BY Sizes, Size
<1>3. IsMemory(m1) /\ SameBelow(m, m1, o) /\ Holds(m1, o, 2, ret)
  BY <1>2, Size, PutHolds, PutSame
<1> HIDE DEF m1
<1>4. IsMemory(m2) /\ SameBelow(m1, m2, o + 2) /\ Holds(m2, o + 2, 2, local)
  BY <1>2, <1>3, Size, PutHolds, PutSame
<1> HIDE DEF m2
<1>5. IsMemory(m3) /\ SameBelow(m2, m3, o + 4) /\ Holds(m3, o + 4, 2, last)
  BY <1>2, <1>4, Size, PutHolds, PutSame
<1> HIDE DEF m3
<1>6. IsMemory(m4) /\ SameBelow(m3, m4, o + 6) /\ Holds(m4, o + 6, 1, attr)
  BY <1>2, <1>5, Size, PutHolds, PutSame
<1> HIDE DEF m4
<1>7. IsMemory(m5) /\ SameBelow(m4, m5, o + 7) /\ Holds(m5, o + 7, 4, closure)
  BY <1>2, <1>6, Size, PutHolds, PutSame
<1> HIDE DEF m5
<1>8. Holds(m5, o + 6, 1, attr)
  BY <1>2, <1>6, <1>7, SameHolds
<1>9. Holds(m4, o + 4, 2, last)
  BY <1>2, <1>5, <1>6, SameHolds
<1>10. Holds(m5, o + 4, 2, last)
  BY <1>2, <1>9, <1>7, SameHolds
<1>11. Holds(m3, o + 2, 2, local)
  BY <1>2, <1>4, <1>5, SameHolds
<1>12. Holds(m4, o + 2, 2, local)
  BY <1>2, <1>11, <1>6, SameHolds
<1>13. Holds(m5, o + 2, 2, local)
  BY <1>2, <1>12, <1>7, SameHolds
<1>14. Holds(m2, o, 2, ret)
  BY <1>2, <1>3, <1>4, SameHolds
<1>15. Holds(m3, o, 2, ret)
  BY <1>2, <1>14, <1>5, SameHolds
<1>16. Holds(m4, o, 2, ret)
  BY <1>2, <1>15, <1>6, SameHolds
<1>17. Holds(m5, o, 2, ret)
  BY <1>2, <1>16, <1>7, SameHolds
<1>18. SameBelow(m, m5, o)
  BY <1>2, <1>3, <1>4, <1>5, <1>6, <1>7 DEF SameBelow
<1>19. FrameHolds(m5, o, ret, local, last, attr, closure)
  <2>1. o + 3 * SizeReg + SizeAttr = o + 7
    BY Sizes
  <2> QED BY <2>1, <1>8, <1>10, <1>13, <1>17, <1>7, Sizes, Zenon DEF FrameHolds
<1> QED BY <1>1, <1>7, <1>18, <1>19

\* Frame h with activation a is pushed at s: A, H, m become Append(A, a), Append(H, h), p.
FrameOpens(A, H, m, s, f, l, t, c, a, h, p, last) ==
  /\ Layout(A, H) /\ Contents(m, A, H) /\ Registers(A, H, Len(A), s, f, l, t, c)
  /\ a \in Activation /\ h \in FrameHeader
  /\ h.at = s + FPS /\ h.fp = f /\ h.local = l /\ h.attr = t
  /\ a.home = ExecAt(A, Len(A)) /\ a.clo = c
  /\ (a.phase = "args" => a.n = 0 /\ a.locs = 0)
  /\ (a.phase # "args" => a.ret \in Code)
  /\ IsMemory(p) /\ SameBelow(m, p, s)
  /\ FrameHolds(p, s, ReturnOf(a), l, last, t, c)
  /\ \/ last = f /\ f # NO_PREV_FP
     \/ last = NO_PREV_FP /\ f = 0 /\ ~a.applied
  /\ ObjectsAt(p, s + FPS, a.objs)
  /\ s + FPS + SizeObject * Len(a.objs) < STKSEG_SIZE

\* One more activation, one more frame.
FramePushed(A, H, a, h, B, K) == B = Append(A, a) /\ K = Append(H, h)

\* A new activation with its frame written above the others makes a longer layout.
LEMMA FrameOpened ==
  ASSUME NEW A, NEW H, NEW m, NEW s, NEW f, NEW l, NEW t, NEW c, NEW a, NEW h, NEW p, NEW last,
         FrameOpens(A, H, m, s, f, l, t, c, a, h, p, last),
         NEW B, NEW K, FramePushed(A, H, a, h, B, K)
  PROVE  /\ Layout(B, K) /\ Contents(p, B, K) /\ Len(B) = Len(A) + 1
         /\ End(B, K, Len(A) + 1) = s + FPS + SizeObject * Len(a.objs)
         /\ B[Len(A) + 1] = a /\ K[Len(A) + 1] = h /\ Agree(A, H, B, K, Len(A))
<1> DEFINE n == Len(A)
<1>a. B = Append(A, a) /\ K = Append(H, h)
  BY DEF FramePushed
<1>0. /\ Layout(A, H) /\ Contents(m, A, H) /\ Registers(A, H, Len(A), s, f, l, t, c)
      /\ a \in Activation /\ h \in FrameHeader
      /\ h.at = s + FPS /\ h.fp = f /\ h.local = l /\ h.attr = t
      /\ a.clo = c /\ IsMemory(p) /\ SameBelow(m, p, s)
      /\ FrameHolds(p, s, ReturnOf(a), l, last, t, c)
      /\ \/ last = f /\ f # NO_PREV_FP
         \/ last = NO_PREV_FP /\ f = 0 /\ ~a.applied
      /\ ObjectsAt(p, s + FPS, a.objs) /\ s + FPS + SizeObject * Len(a.objs) < STKSEG_SIZE
  BY DEF FrameOpens
<1>1. Layout(B, K)
  BY <1>a, PushLayout DEF FrameOpens
<1>2. /\ n \in Nat \ {0} /\ A \in Seq(Activation) /\ H \in Seq(FrameHeader) /\ Len(H) = n
      /\ n \in 1 .. n
  BY <1>0 DEF Layout
<1>3. /\ Len(B) = n + 1 /\ B[n + 1] = a /\ K[n + 1] = h
      /\ \A i \in 1 .. n : B[i] = A[i] /\ K[i] = H[i]
  BY <1>2, <1>a
<1>4. Agree(A, H, B, K, n)
  BY <1>3, Zenon DEF Agree
<1>5. /\ s = End(A, H, n) /\ s \in Nat
  BY <1>0, <1>2, LayoutOrder DEF Registers
<1> HIDE DEF n
<1>6. K[n + 1].at - FPS = s
  BY <1>0, <1>3, <1>5, Sizes
<1>7. HeaderIn(p, B, K, n + 1)
  <2> DEFINE r == ReturnOf(a)
  <2>1. FrameHolds(p, s, r, l, last, t, c)
    BY <1>0
  <2>2. /\ B[n + 1].clo = c /\ B[n + 1].applied = a.applied /\ K[n + 1].local = l
        /\ K[n + 1].attr = t /\ K[n + 1].fp = f
        /\ (IF B[n + 1].phase = "args" THEN NORMAL_JUMP ELSE B[n + 1].ret) = r
    BY <1>0, <1>3 DEF ReturnOf
  <2>3. \/ last = K[n + 1].fp /\ K[n + 1].fp # NO_PREV_FP
        \/ last = NO_PREV_FP /\ K[n + 1].fp = 0 /\ ~B[n + 1].applied
    BY <1>0, <1>3
  <2> HIDE DEF r
  <2> QED BY <1>6, <2>1, <2>2, <2>3, Zenon DEF HeaderIn, FrameHolds
<1>8. ObjectsIn(p, B, K, n + 1)
  BY <1>0, <1>3, Zenon DEF ObjectsIn
<1>9. End(B, K, n + 1) = s + FPS + SizeObject * Len(a.objs)
  BY <1>0, <1>3, Zenon DEF End
<1>10. Contents(p, B, K)
  <2>1. End(B, K, n + 1) < STKSEG_SIZE
    BY <1>0, <1>9
  <2>2. SameBelow(m, p, End(A, H, n))
    BY <1>0, <1>5
  <2>3. Len(B) = n + 1
    BY <1>3
  <2> QED BY <1>0, <1>4, <1>7, <1>8, <2>1, <2>2, <2>3, PushContents, Zenon DEF n
<1> QED BY <1>1, <1>3, <1>4, <1>9, <1>10 DEF n

\* Return addresses are told from the mark NORMAL_JUMP, frame offsets from NO_PREV_FP.
LEMMA CodeNat ==
  /\ \A l \in Code : l \in Nat /\ l # NORMAL_JUMP
  /\ STKSEG_SIZE <= NO_PREV_FP /\ NO_PREV_FP \in Nat
<1>1. Code \subseteq 0 .. NORMAL_JUMP - 1
  BY FramesAssumption
<1>2. STKSEG_SIZE <= NO_PREV_FP
  BY FramesAssumption
<1>3. NORMAL_JUMP \in Nat /\ NO_PREV_FP \in Nat
  BY DEF NORMAL_JUMP, NO_PREV_FP
<1>4. ASSUME NEW l \in Code PROVE l \in Nat /\ l # NORMAL_JUMP
  BY <1>1, <1>3
<1> QED BY <1>2, <1>3, <1>4

\* The types of the registers.
LEMMA RegisterTypes ==
  ASSUME FrameInv
  PROVE  /\ local \in Nat /\ fp <= sp /\ attr \in Attr /\ closure \in Closure \cup {NULL}
         /\ pc \in Code /\ pc \in Nat /\ pc # NORMAL_JUMP /\ fp # NO_PREV_FP
         /\ env \in [Closure -> Seq(Object)] /\ stopped \in BOOLEAN
<1>1. /\ attr \in Attr /\ closure \in Closure \cup {NULL} /\ pc \in Code
      /\ env \in [Closure -> Seq(Object)] /\ stopped \in BOOLEAN
  BY DEF FrameInv
<1>2. pc \in Nat /\ pc # NORMAL_JUMP
  BY <1>1, CodeNat
<1>3. fp <= sp /\ fp # NO_PREV_FP
  <2>1. /\ fp = (IF Len(acts) = 1 THEN 0 ELSE Where.at - FPS) /\ fp \in Nat
        /\ Where.at \in Nat /\ Where.at <= sp /\ sp \in Nat /\ sp < STKSEG_SIZE
    BY TopFacts, Zenon
  <2>2. fp <= sp
    BY <2>1, Sizes
  <2>3. STKSEG_SIZE <= NO_PREV_FP /\ NO_PREV_FP \in Nat
    BY CodeNat, Zenon
  <2> QED BY <2>1, <2>2, <2>3, Size
<1>4. local \in Nat
  <2>1. Stack!Exec \in 1 .. Len(acts) /\ Layout(acts, hdr)
    BY TopFacts
  <2>2. hdr[Stack!Exec].at \in Nat /\ acts[Stack!Exec].locs \in Nat
    BY <2>1, LayoutOrder
  <2>3. local = hdr[Stack!Exec].at + 5 * acts[Stack!Exec].locs
    BY TopFacts, Sizes, Zenon
  <2> QED BY <2>2, <2>3
<1> QED BY <1>1, <1>2, <1>3, <1>4, Zenon

\* SAVE_ENV of a normal prelude writes a frame that can be found again.
LEMMA SaveEnvNormalInv ==
  ASSUME FrameInv, SaveEnvNormal
  PROVE  FrameInv'
<1>1. CASE ~Room(FPS) /\ Overflow
  BY <1>1, Overflowed
<1>2. CASE /\ Room(FPS)
           /\ mem' = Header(mem, sp, NORMAL_JUMP, LastFp)
           /\ sp' = sp + FPS
           /\ fp' = sp
           /\ attr' = FreshAttr
           /\ acts' = Append(acts, Stack!Opened)
           /\ hdr' = Append(hdr, HeaderAt(sp))
           /\ UNCHANGED <<local, pc, closure, env, stopped>>
  <2> DEFINE n == Len(acts)
             a == Stack!Opened
             h == HeaderAt(sp)
             x == Stack!Exec
  <2>1. /\ Layout(acts, hdr) /\ Contents(mem, acts, hdr) /\ IsMemory(mem) /\ n \in Nat \ {0}
        /\ sp \in Nat /\ x \in 1 .. n /\ x = ExecAt(acts, n) /\ fp \in Nat
    BY TopFacts
  <2>2. Registers(acts, hdr, n, sp, fp, local, attr, closure)
    BY DEF FrameInv
  <2>3. /\ a \in Activation /\ a.home = x /\ a.clo = closure /\ a.phase = "args" /\ a.n = 0
        /\ a.locs = 0 /\ a.objs = <<>> /\ a.applied = FALSE
    BY <2>1, RegisterTypes DEF Stack!Opened, Activation
  <2>4. /\ h \in FrameHeader /\ h.at = sp + FPS /\ h.fp = fp /\ h.local = local /\ h.attr = attr
    BY <2>1, RegisterTypes, Sizes DEF HeaderAt, FrameHeader
  <2>5. sp + FPS < STKSEG_SIZE
    BY <1>2 DEF Room
  <2>6. /\ IsMemory(mem') /\ SameBelow(mem, mem', sp)
        /\ FrameHolds(mem', sp, NORMAL_JUMP, local, LastFp, attr, closure)
    BY <1>2, <2>1, <2>5, HeaderWritten, Sizes, Size
  <2>7. \/ LastFp = fp /\ fp # NO_PREV_FP
        \/ LastFp = NO_PREV_FP /\ fp = 0 /\ ~a.applied
    BY <2>3, RegisterTypes DEF LastFp
  <2> HIDE DEF a, h
  <2>8. Len(a.objs) = 0 /\ ObjectsAt(mem', sp + FPS, a.objs)
    BY <2>3 DEF ObjectsAt
  <2>9. sp + FPS + SizeObject * Len(a.objs) = sp + FPS
    BY <2>1, <2>8, Sizes
  <2>10. acts' = Append(acts, a) /\ hdr' = Append(hdr, h)
    BY <1>2 DEF a, h
  <2>11. FrameHolds(mem', sp, ReturnOf(a), local, LastFp, attr, closure)
    BY <2>3, <2>6 DEF ReturnOf
  <2>a. sp + FPS + SizeObject * Len(a.objs) < STKSEG_SIZE
    BY <2>5, <2>9
  <2>b. /\ a.phase = "args" => a.n = 0 /\ a.locs = 0
        /\ a.phase # "args" => a.ret \in Code
    BY <2>3
  <2> HIDE DEF x
  <2>12. /\ Layout(acts', hdr') /\ Contents(mem', acts', hdr') /\ Len(acts') = n + 1
         /\ End(acts', hdr', n + 1) = sp + FPS
         /\ acts'[n + 1] = a /\ hdr'[n + 1] = h /\ Agree(acts, hdr, acts', hdr', n)
    <3>1. /\ Layout(acts', hdr') /\ Contents(mem', acts', hdr') /\ Len(acts') = n + 1
          /\ End(acts', hdr', n + 1) = sp + FPS + SizeObject * Len(a.objs)
          /\ acts'[n + 1] = a /\ hdr'[n + 1] = h /\ Agree(acts, hdr, acts', hdr', n)
      <4>1. FrameOpens(acts, hdr, mem, sp, fp, local, attr, closure, a, h, mem', LastFp)
        <5> HIDE DEF n
        <5>1. a.home = ExecAt(acts, n) /\ a.clo = closure
          BY <2>1, <2>3
        <5> QED BY <2>1, <2>2, <2>3, <2>4, <2>a, <2>b, <5>1, <2>6, <2>7, <2>8, <2>11, Zenon
                DEF FrameOpens, n
      <4>2. FramePushed(acts, hdr, a, h, acts', hdr')
        BY <2>10 DEF FramePushed
      <4> QED BY <4>1, <4>2, FrameOpened
    <3> QED BY <3>1, <2>9
  <2> HIDE DEF n
  <2>13. Registers(acts', hdr', n + 1, sp', fp', local', attr', closure')
    <3>1. /\ acts'[x] = acts[x] /\ hdr'[x] = hdr[x] /\ n + 1 # 1
      BY <2>1, <2>12 DEF Agree
    <3>2. /\ sp' = End(acts', hdr', n + 1) /\ fp' = hdr'[n + 1].at - FPS
      <4>1. hdr'[n + 1].at - FPS = sp
        BY <2>1, <2>4, <2>12, Sizes
      <4> QED BY <1>2, <2>12, <4>1
    <3>5. local' = local /\ attr'.shadow = 0 /\ closure' = closure
      BY <1>2 DEF FreshAttr
    <3>3. ExecAt(acts', n + 1) = x /\ acts'[n + 1].phase = "args"
      BY <2>3, <2>12 DEF ExecAt
    <3>4. /\ local = hdr[x].at + SizeObject * acts[x].locs
          /\ closure = NULL => acts[x].locs = 0
      BY <2>1, <2>2 DEF Registers
    <3> QED BY <3>1, <3>2, <3>3, <3>4, <3>5 DEF Registers
  <2>14. /\ attr' \in Attr /\ closure' \in Closure \cup {NULL} /\ pc' \in Code
         /\ env' \in [Closure -> Seq(Object)] /\ stopped' \in BOOLEAN
    BY <1>2, RegisterTypes DEF Attr, FreshAttr, NORMAL_CALL
  <2> QED BY <2>12, <2>13, <2>14 DEF FrameInv
<1> QED BY <1>1, <1>2 DEF SaveEnvNormal

(* What RESTORE and FIX_PC read in the newest frame.                        *)
SavedFp(last) ==
  \/ last = Where.fp /\ Where.fp # NO_PREV_FP
  \/ last = NO_PREV_FP /\ Where.fp = 0 /\ ~Top.applied

\* RESTORE and FIX_PC read from the newest frame what SAVE_ENV wrote.
LEMMA FrameReads ==
  ASSUME FrameInv, Len(acts) > 1
  PROVE  /\ fp = Where.at - FPS /\ fp \in Nat /\ fp + FPS = Where.at
         /\ \E last : /\ FrameHolds(mem, fp, ReturnOf(Top),
                                    Where.local, last, Where.attr, Top.clo)
                      /\ SavedFp(last)
         /\ Get(mem, fp, SizeReg) = ReturnOf(Top)
         /\ Get(mem, fp + SizeReg, SizeReg) = Where.local
         /\ PopFp = Where.fp
         /\ Top.applied => Get(mem, fp + 2 * SizeReg, SizeReg) = Where.fp
         /\ Get(mem, fp + 3 * SizeReg, SizeAttr) = Where.attr
         /\ Get(mem, fp + 3 * SizeReg + SizeAttr, SizePtr) = Top.clo
         /\ Top.phase # "args" => Top.ret \in Code /\ Top.ret # NORMAL_JUMP
         /\ Top.phase = "args" => Top.n = 0 /\ Top.locs = 0
         /\ Top.clo \in Closure \cup {NULL} /\ Where.attr \in Attr
<1> DEFINE n == Len(acts)
           r == ReturnOf(Top)
<1>1. /\ Layout(acts, hdr) /\ Contents(mem, acts, hdr) /\ n \in 2 .. n /\ Top = acts[n]
      /\ Where = hdr[n] /\ Top \in Activation /\ hdr \in Seq(FrameHeader) /\ Len(hdr) = n
      /\ n \in 1 .. n
  <2>1. /\ Layout(acts, hdr) /\ Contents(mem, acts, hdr) /\ Top = acts[n]
        /\ Where = hdr[n] /\ Top \in Activation /\ hdr \in Seq(FrameHeader) /\ Len(hdr) = n
        /\ n \in 1 .. n /\ n \in Nat
    BY TopFacts
  <2>2. n \in 2 .. n
    BY <2>1
  <2> QED BY <2>1, <2>2, Zenon
<1>2. fp = Where.at - FPS /\ fp \in Nat /\ fp + FPS = Where.at
  <2>1. fp = (IF n = 1 THEN 0 ELSE Where.at - FPS) /\ fp \in Nat /\ Where.at \in Nat
    BY TopFacts, Zenon DEF n
  <2> HIDE DEF n
  <2>2. n # 1
    BY <1>1
  <2> QED BY <2>1, <2>2, Sizes
<1>3. HeaderIn(mem, acts, hdr, n) /\ FrameFits(acts, hdr, n)
  BY <1>1 DEF Contents, Layout
<1>4. PICK last : FrameHolds(mem, fp, r, Where.local, last, Where.attr, Top.clo) /\ SavedFp(last)
  <2>1. hdr[n].at - FPS = fp
    BY <1>1, <1>2
  <2>2. \E last : FrameHolds(mem, fp, r, hdr[n].local, last, hdr[n].attr, acts[n].clo) /\ SavedFp(last)
    <3>1. CASE Holds(mem, fp + 2 * SizeReg, SizeReg, hdr[n].fp) /\ hdr[n].fp # NO_PREV_FP
      <4>1. FrameHolds(mem, fp, r, hdr[n].local, hdr[n].fp, hdr[n].attr, acts[n].clo)
        BY <1>1, <1>3, <2>1, <3>1, Zenon DEF HeaderIn, FrameHolds, ReturnOf
      <4>2. SavedFp(hdr[n].fp)
        BY <1>1, <3>1 DEF SavedFp
      <4> QED BY <4>1, <4>2
    <3>2. CASE /\ Holds(mem, fp + 2 * SizeReg, SizeReg, NO_PREV_FP) /\ hdr[n].fp = 0
               /\ ~acts[n].applied
      <4>1. FrameHolds(mem, fp, r, hdr[n].local, NO_PREV_FP, hdr[n].attr, acts[n].clo)
        BY <1>1, <1>3, <2>1, <3>2, Zenon DEF HeaderIn, FrameHolds, ReturnOf
      <4>2. SavedFp(NO_PREV_FP)
        BY <1>1, <3>2 DEF SavedFp
      <4> QED BY <4>1, <4>2
    <3> QED BY <1>3, <2>1, <3>1, <3>2, Zenon DEF HeaderIn
  <2> QED BY <2>2, <1>1
<1>5. /\ fp + 2 \in Int /\ fp + 4 \in Int /\ fp + 6 \in Int /\ fp + 7 \in Int /\ fp \in Int
      /\ 2 \in Nat \ {0} /\ 1 \in Nat \ {0} /\ 4 \in Nat \ {0}
      /\ fp + 3 * SizeReg + SizeAttr = fp + 7
  BY <1>2, Sizes
<1> HIDE DEF r
<1>6. /\ Holds(mem, fp, 2, r) /\ Holds(mem, fp + 2, 2, Where.local) /\ Holds(mem, fp + 4, 2, last)
      /\ Holds(mem, fp + 6, 1, Where.attr) /\ Holds(mem, fp + 7, 4, Top.clo)
  BY <1>4, <1>5, Sizes, Zenon DEF FrameHolds
<1>7. /\ Get(mem, fp, 2) = r /\ Get(mem, fp + 2, 2) = Where.local /\ Get(mem, fp + 4, 2) = last
      /\ Get(mem, fp + 6, 1) = Where.attr /\ Get(mem, fp + 7, 4) = Top.clo
  BY <1>5, <1>6, GetHeld
<1>8. /\ Get(mem, fp, SizeReg) = r
      /\ Get(mem, fp + SizeReg, SizeReg) = Where.local
      /\ Get(mem, fp + 2 * SizeReg, SizeReg) = last
      /\ Get(mem, fp + 3 * SizeReg, SizeAttr) = Where.attr
      /\ Get(mem, fp + 3 * SizeReg + SizeAttr, SizePtr) = Top.clo
  BY <1>5, <1>7, Sizes, Zenon
<1>9. PopFp = Where.fp /\ (Top.applied => last = Where.fp)
  BY <1>4, <1>8 DEF PopFp, SavedFp
<1>10. /\ Top.phase # "args" => Top.ret \in Code
       /\ Top.phase = "args" => Top.n = 0 /\ Top.locs = 0
  BY <1>1, <1>3 DEF FrameFits
<1>11. Top.phase # "args" => Top.ret # NORMAL_JUMP
  BY <1>10, CodeNat
<1>12. Top.clo \in Closure \cup {NULL}
  BY <1>1 DEF Activation
<1>13. Where.attr \in Attr
  <2>1. Where \in FrameHeader
    BY <1>1
  <2> QED BY <2>1 DEF FrameHeader
<1> QED BY <1>2, <1>4, <1>8, <1>9, <1>10, <1>11, <1>12, <1>13 DEF r

\* The newest activation becomes a, whose code runs.
BodyNext(a, last) ==
  /\ a \in Activation /\ a.home = Top.home /\ a.clo = Top.clo /\ a.applied = Top.applied
  /\ a.phase # "args" /\ a.ret \in Code
  /\ SavedFp(last) /\ FrameHolds(mem', fp, a.ret, Where.local, last, Where.attr, Top.clo)
  /\ IsMemory(mem') /\ SameBelow(mem, mem', fp)
  /\ ObjectsAt(mem', Where.at, a.objs)
  /\ sp' = Where.at + SizeObject * Len(a.objs) /\ sp' < STKSEG_SIZE
  /\ local' = Where.at + SizeObject * a.locs
  /\ (a.phase = "tail" => attr'.shadow = 0)
  /\ (a.phase = "loop" => attr'.shadow = a.n)
  /\ (closure' = NULL => a.locs = 0)
  /\ acts' = WithNewest(acts, a) /\ hdr' = hdr /\ fp' = fp

\* The types of the registers that no other conjunct bounds.
TypesNext ==
  /\ attr' \in Attr /\ closure' \in Closure \cup {NULL} /\ pc' \in Code
  /\ env' \in [Closure -> Seq(Object)] /\ stopped' \in BOOLEAN

\* A step within the newest frame: it is enough that its registers and objects fit.
LEMMA BodyInv ==
  ASSUME FrameInv, Len(acts) > 1, NEW a, NEW last, BodyNext(a, last), TypesNext
  PROVE  FrameInv'
<1> DEFINE n == Len(acts)
           B == WithNewest(acts, a)
<1>1. /\ Layout(acts, hdr) /\ Contents(mem, acts, hdr) /\ n \in Nat \ {0} /\ n \in 1 .. n
      /\ Where = hdr[n] /\ Top = acts[n] /\ acts \in Seq(Activation) /\ n > 1
  BY TopFacts
<1>2. fp = Where.at - FPS /\ fp \in Nat /\ Where.at \in Nat
  BY FrameReads, TopFacts
<1>3. /\ a \in Activation /\ a.home = Top.home /\ a.clo = Top.clo /\ a.applied = Top.applied
      /\ a.phase # "args" /\ a.ret \in Code
      /\ FrameHolds(mem', fp, a.ret, Where.local, last, Where.attr, Top.clo)
      /\ IsMemory(mem') /\ SameBelow(mem, mem', fp) /\ ObjectsAt(mem', Where.at, a.objs)
      /\ sp' = Where.at + SizeObject * Len(a.objs) /\ sp' < STKSEG_SIZE
      /\ local' = Where.at + SizeObject * a.locs
      /\ acts' = B /\ hdr' = hdr /\ fp' = fp
  BY DEF BodyNext
<1>4. B \in Seq(Activation) /\ B[n] = a
  BY <1>1, <1>3 DEF WithNewest
<1> HIDE DEF B, n
<1>5. HeaderIn(mem', B, hdr, n)
  <2>1. /\ B[n].clo = Top.clo /\ B[n].applied = Top.applied
        /\ (IF B[n].phase = "args" THEN NORMAL_JUMP ELSE B[n].ret) = a.ret
    BY <1>3, <1>4
  <2>2. \/ last = hdr[n].fp /\ hdr[n].fp # NO_PREV_FP
        \/ last = NO_PREV_FP /\ hdr[n].fp = 0 /\ ~B[n].applied
    BY <1>1, <2>1 DEF BodyNext, SavedFp
  <2>3. hdr[n].at - FPS = fp
    BY <1>1, <1>2
  <2> QED BY <1>1, <1>3, <2>1, <2>2, <2>3, Zenon DEF HeaderIn, FrameHolds
<1>6. /\ Layout(B, hdr) /\ Contents(mem', B, hdr) /\ Len(B) = n
      /\ End(B, hdr, n) = hdr[n].at + SizeObject * Len(a.objs)
  <2>1. /\ Len(acts) = 1 => a.phase = "body"
        /\ Len(acts) > 1 /\ a.phase = "args" => a.n = 0 /\ a.locs = 0
        /\ Len(acts) > 1 /\ a.phase # "args" => a.ret \in Code
    BY <1>1, <1>3 DEF n
  <2>2. /\ a.home = acts[Len(acts)].home /\ a.clo = acts[Len(acts)].clo
        /\ hdr[Len(acts)].at - FPS <= fp
        /\ HeaderIn(mem', WithNewest(acts, a), hdr, Len(acts))
        /\ ObjectsAt(mem', hdr[Len(acts)].at, a.objs)
        /\ hdr[Len(acts)].at + SizeObject * Len(a.objs) < STKSEG_SIZE
    BY <1>1, <1>2, <1>3, <1>5 DEF n, B
  <2> QED BY <1>1, <1>2, <1>3, <2>1, <2>2, TopChanged DEF n, B
<1>7. Registers(B, hdr, n, sp', fp', local', attr', closure')
  <2>1. ExecAt(B, n) = n /\ B[n].phase = a.phase /\ B[n].n = a.n /\ B[n].locs = a.locs
    BY <1>3, <1>4 DEF ExecAt
  <2>2. /\ (a.phase = "tail" => attr'.shadow = 0) /\ (a.phase = "loop" => attr'.shadow = a.n)
        /\ (closure' = NULL => a.locs = 0)
    BY DEF BodyNext
  <2>3. /\ sp' = End(B, hdr, n) /\ fp' = hdr[n].at - FPS /\ n # 1
        /\ local' = hdr[n].at + SizeObject * a.locs
    BY <1>1, <1>2, <1>3, <1>6
  <2> QED BY <1>3, <2>1, <2>2, <2>3, Zenon DEF Registers
<1>8. Len(acts') = n
  BY <1>3, <1>6
<1> QED BY <1>3, <1>6, <1>7, <1>8, Zenon DEF FrameInv, TypesNext

\* Activations, changed one field at a time.
LEMMA ActivationObjs ==
  ASSUME NEW a \in Activation, NEW x \in Seq(Object)
  PROVE  [a EXCEPT !.objs = x] \in Activation
BY DEF Activation

\* The first variable moves.
LEMMA ActivationLocs ==
  ASSUME NEW a \in Activation, NEW x \in Nat
  PROVE  [a EXCEPT !.locs = x] \in Activation
BY DEF Activation

\* The body is entered.
LEMMA ActivationInBody ==
  ASSUME NEW a \in Activation
  PROVE  [a EXCEPT !.phase = "body"] \in Activation
BY DEF Activation

\* The arguments of a tail recursion follow.
LEMMA ActivationInLoop ==
  ASSUME NEW a \in Activation
  PROVE  [a EXCEPT !.phase = "loop"] \in Activation
BY DEF Activation

\* The arguments of another tail call follow.
LEMMA ActivationInTail ==
  ASSUME NEW a \in Activation
  PROVE  [a EXCEPT !.phase = "tail"] \in Activation
BY DEF Activation

\* Their number.
LEMMA ActivationN ==
  ASSUME NEW a \in Activation, NEW x \in Nat
  PROVE  [a EXCEPT !.n = x] \in Activation
BY DEF Activation

\* The return address is fixed.
LEMMA ActivationRet ==
  ASSUME NEW a \in Activation, NEW x \in Code
  PROVE  [a EXCEPT !.ret = x] \in Activation
BY DEF Activation

\* An activation that is called.
AsCalled(a, objs, m, r) == [a EXCEPT !.objs = objs, !.locs = m, !.phase = "body", !.ret = r]

\* An activation that is called.
LEMMA ActivationCalled ==
  ASSUME NEW a \in Activation, NEW objs \in Seq(Object), NEW m \in Nat,
         NEW r \in Code
  PROVE  LET b == AsCalled(a, objs, m, r)
         IN  /\ b \in Activation /\ b.objs = objs /\ b.locs = m /\ b.phase = "body" /\ b.n = a.n
             /\ b.ret = r /\ b.home = a.home /\ b.clo = a.clo /\ b.applied = a.applied
<1> DEFINE b == AsCalled(a, objs, m, r)
           b1 == [a EXCEPT !.objs = objs]
           b2 == [b1 EXCEPT !.locs = m]
           b3 == [b2 EXCEPT !.phase = "body"]
           b4 == [b3 EXCEPT !.ret = r]
<1>0. b = b4
  BY DEF Activation, AsCalled
<1>1. /\ b.objs = objs /\ b.locs = m /\ b.phase = "body" /\ b.n = a.n
      /\ b.ret = r /\ b.home = a.home /\ b.clo = a.clo /\ b.applied = a.applied
  BY DEF Activation, AsCalled
<1> HIDE DEF b
<1>2. b1 \in Activation
  BY ActivationObjs
<1> HIDE DEF b1
<1>3. b2 \in Activation
  BY <1>2, ActivationLocs
<1> HIDE DEF b2
<1>4. b3 \in Activation
  BY <1>3, ActivationInBody
<1> HIDE DEF b3
<1>5. b4 \in Activation
  BY <1>4, ActivationRet
<1> HIDE DEF b4
<1>6. b \in Activation
  BY <1>0, <1>5
<1> QED BY <1>1, <1>6 DEF b

\* One that starts a tail recursion.
AsLoop(a, objs, k) == [a EXCEPT !.objs = objs, !.phase = "loop", !.n = k]

\* An activation that starts a tail recursion.
LEMMA ActivationLoop ==
  ASSUME NEW a \in Activation, NEW objs \in Seq(Object), NEW k \in Nat
  PROVE  LET b == AsLoop(a, objs, k)
         IN  /\ b \in Activation /\ b.objs = objs /\ b.locs = a.locs /\ b.phase = "loop" /\ b.n = k
             /\ b.ret = a.ret /\ b.home = a.home /\ b.clo = a.clo /\ b.applied = a.applied
<1> DEFINE b == AsLoop(a, objs, k)
           b1 == [a EXCEPT !.objs = objs]
           b2 == [b1 EXCEPT !.phase = "loop"]
           b3 == [b2 EXCEPT !.n = k]
<1>0. b = b3
  BY DEF Activation, AsLoop
<1>1. /\ b.objs = objs /\ b.locs = a.locs /\ b.phase = "loop" /\ b.n = k
      /\ b.ret = a.ret /\ b.home = a.home /\ b.clo = a.clo /\ b.applied = a.applied
  BY DEF Activation, AsLoop
<1> HIDE DEF b
<1>2. b1 \in Activation
  BY ActivationObjs
<1> HIDE DEF b1
<1>3. b2 \in Activation
  BY <1>2, ActivationInLoop
<1> HIDE DEF b2
<1>4. b3 \in Activation
  BY <1>3, ActivationN
<1> HIDE DEF b3
<1>5. b \in Activation
  BY <1>0, <1>4
<1> QED BY <1>1, <1>5 DEF b

\* One that starts another tail call.
AsTail(a, k) == [a EXCEPT !.phase = "tail", !.n = k]

\* An activation that starts another tail call.
LEMMA ActivationTail ==
  ASSUME NEW a \in Activation, NEW k \in Nat
  PROVE  LET b == AsTail(a, k)
         IN  /\ b \in Activation /\ b.objs = a.objs /\ b.locs = a.locs /\ b.phase = "tail" /\ b.n = k
             /\ b.ret = a.ret /\ b.home = a.home /\ b.clo = a.clo /\ b.applied = a.applied
<1> DEFINE b == AsTail(a, k)
           b1 == [a EXCEPT !.phase = "tail"]
           b2 == [b1 EXCEPT !.n = k]
<1>0. b = b2
  BY DEF Activation, AsTail
<1>1. /\ b.objs = a.objs /\ b.locs = a.locs /\ b.phase = "tail" /\ b.n = k
      /\ b.ret = a.ret /\ b.home = a.home /\ b.clo = a.clo /\ b.applied = a.applied
  BY DEF Activation, AsTail
<1> HIDE DEF b
<1>2. b1 \in Activation
  BY ActivationInTail
<1> HIDE DEF b1
<1>3. b2 \in Activation
  BY <1>2, ActivationN
<1> HIDE DEF b2
<1>4. b \in Activation
  BY <1>0, <1>3
<1> QED BY <1>1, <1>4 DEF b

\* One that a primitive uses once more.
AsAgain(a, objs, m) == [a EXCEPT !.objs = objs, !.locs = m]

\* An activation that apply_proc uses for the next element.
LEMMA ActivationAgain ==
  ASSUME NEW a \in Activation, NEW objs \in Seq(Object), NEW m \in Nat
  PROVE  LET b == AsAgain(a, objs, m)
         IN  /\ b \in Activation /\ b.objs = objs /\ b.locs = m /\ b.phase = a.phase /\ b.n = a.n
             /\ b.ret = a.ret /\ b.home = a.home /\ b.clo = a.clo /\ b.applied = a.applied
<1> DEFINE b == AsAgain(a, objs, m)
           b1 == [a EXCEPT !.objs = objs]
           b2 == [b1 EXCEPT !.locs = m]
<1>0. b = b2
  BY DEF Activation, AsAgain
<1>1. /\ b.objs = objs /\ b.locs = m /\ b.phase = a.phase /\ b.n = a.n
      /\ b.ret = a.ret /\ b.home = a.home /\ b.clo = a.clo /\ b.applied = a.applied
  BY DEF Activation, AsAgain
<1> HIDE DEF b
<1>2. b1 \in Activation
  BY ActivationObjs
<1> HIDE DEF b1
<1>3. b2 \in Activation
  BY <1>2, ActivationLocs
<1> HIDE DEF b2
<1>4. b \in Activation
  BY <1>0, <1>3
<1> QED BY <1>1, <1>4 DEF b

\* One that becomes that of a closure.
AsBecome(a, objs, m) == [a EXCEPT !.objs = objs, !.locs = m, !.phase = "body"]

\* An activation that becomes that of a closure.
LEMMA ActivationBecome ==
  ASSUME NEW a \in Activation, NEW objs \in Seq(Object), NEW m \in Nat
  PROVE  LET b == AsBecome(a, objs, m)
         IN  /\ b \in Activation /\ b.objs = objs /\ b.locs = m /\ b.phase = "body" /\ b.n = a.n
             /\ b.ret = a.ret /\ b.home = a.home /\ b.clo = a.clo /\ b.applied = a.applied
<1> DEFINE b == AsBecome(a, objs, m)
           b1 == [a EXCEPT !.objs = objs]
           b2 == [b1 EXCEPT !.locs = m]
           b3 == [b2 EXCEPT !.phase = "body"]
<1>0. b = b3
  BY DEF Activation, AsBecome
<1>1. /\ b.objs = objs /\ b.locs = m /\ b.phase = "body" /\ b.n = a.n
      /\ b.ret = a.ret /\ b.home = a.home /\ b.clo = a.clo /\ b.applied = a.applied
  BY DEF Activation, AsBecome
<1> HIDE DEF b
<1>2. b1 \in Activation
  BY ActivationObjs
<1> HIDE DEF b1
<1>3. b2 \in Activation
  BY <1>2, ActivationLocs
<1> HIDE DEF b2
<1>4. b3 \in Activation
  BY <1>3, ActivationInBody
<1> HIDE DEF b3
<1>5. b \in Activation
  BY <1>0, <1>4
<1> QED BY <1>1, <1>5 DEF b

\* In its body an activation is the one being executed: local finds its own objects.
LEMMA BodyLocal ==
  ASSUME FrameInv, Top.phase # "args"
  PROVE  /\ local = Where.at + SizeObject * Top.locs
         /\ closure = NULL => Top.locs = 0
         /\ Top.phase = "tail" => attr.shadow = 0
         /\ Top.phase = "loop" => attr.shadow = Top.n
<1>1. Top = acts[Len(acts)] /\ Where = hdr[Len(acts)]
  BY TopFacts
<1>2. Registers(acts, hdr, Len(acts), sp, fp, local, attr, closure)
  BY DEF FrameInv
<1>3. ExecAt(acts, Len(acts)) = Len(acts)
  BY <1>1 DEF ExecAt
<1> QED BY <1>1, <1>2, <1>3 DEF Registers

\* n objects end at s.
Extent(s, at, n) == s = at + 5 * n

\* Places on the stack, k objects further,
LEMMA Extends ==
  ASSUME NEW at \in Nat, NEW l \in Nat, NEW k \in Nat, NEW s, Extent(s, at, l)
  PROVE  Extent(s + k * 5, at, l + k)
BY DEF Extent

\* ... and their order.
LEMMA ExtentOrder ==
  ASSUME NEW at \in Nat, NEW k \in Nat, NEW n \in Nat, k <= n,
         NEW s, Extent(s, at, k), NEW t, Extent(t, at, n)
  PROVE  s <= t /\ s \in Nat /\ t \in Nat
BY DEF Extent

\* SAVE_ENV of a tail recursion of up to 31 arguments keeps the invariant,
LEMMA SaveEnvTailRecInv ==
  ASSUME FrameInv, NEW k \in 0 .. 31, SaveEnvTailRec(k)
  PROVE  FrameInv'
<1> DEFINE objs == SubSeq(Top.objs, 1, Top.locs + k)
           a == AsLoop(Top, objs, k)
<1>1. /\ sp' = local + k * SizeObject /\ attr' = [shadow |-> k % 32, mode |-> TAIL_REC]
      /\ mem' = mem /\ fp' = fp /\ local' = local /\ stopped' = stopped /\ hdr' = hdr
      /\ pc' = pc /\ closure' = closure /\ env' = env
      /\ Len(acts) > 1 /\ Top.phase = "body" /\ Len(Top.objs) >= Top.locs + k
      /\ acts' = WithNewest(acts, a)
  BY DEF SaveEnvTailRec, Stack!OpenLoop, Stack!InBody, Stack!Top, Top, Stack!WithTop,
     WithNewest, AsLoop
<1>2. /\ Top \in Activation /\ Top.objs \in Seq(Object) /\ Top.locs \in Nat
      /\ Len(Top.objs) \in Nat /\ Where.at \in Nat /\ ObjectsAt(mem, Where.at, Top.objs)
      /\ sp = Where.at + SizeObject * Len(Top.objs) /\ sp < STKSEG_SIZE /\ IsMemory(mem)
  BY TopFacts DEF Activation
<1>3. /\ Top.locs + k \in 0 .. Len(Top.objs)
      /\ objs \in Seq(Object) /\ Len(objs) = Top.locs + k
  <2>1. Len(Top.objs) >= Top.locs + k
    BY <1>1
  <2> QED BY <2>1, <1>2
<1>4. /\ ObjectsAt(mem, Where.at, objs)
  BY <1>2, <1>3, ObjectsDropped
<1>5. /\ local = Where.at + SizeObject * Top.locs
      /\ closure = NULL => Top.locs = 0
  BY <1>1, BodyLocal
<1> HIDE DEF objs
<1>6. /\ a \in Activation /\ a.objs = objs /\ a.locs = Top.locs /\ a.phase = "loop" /\ a.n = k
      /\ a.ret = Top.ret /\ a.home = Top.home /\ a.clo = Top.clo /\ a.applied = Top.applied
  <2>1. Top.ret \in Code \cup {NULL} /\ k \in Nat
    BY <1>2 DEF Activation
  <2> QED BY <1>2, <1>3, <2>1, ActivationLoop
<1> HIDE DEF a
<1>7. attr'.shadow = k /\ attr' \in Attr
  <2>1. k % 32 = k
    OBVIOUS
  <2> QED BY <1>1, <2>1 DEF Attr, TAIL_REC
<1>8. /\ sp' = Where.at + SizeObject * Len(objs) /\ sp' < STKSEG_SIZE
  <2>1. Extent(local, Where.at, Top.locs) /\ Extent(sp, Where.at, Len(Top.objs)) /\ SizeObject = 5
    BY <1>2, <1>5, Sizes DEF Extent
  <2>2. /\ Where.at \in Nat /\ Top.locs \in Nat /\ Len(Top.objs) \in Nat /\ k \in Nat
        /\ Top.locs + k \in Nat
    BY <1>2
  <2>3. sp' = local + k * 5 /\ Len(objs) = Top.locs + k /\ Top.locs + k <= Len(Top.objs)
    BY <1>1, <1>3, <2>1
  <2>4. Extent(sp', Where.at, Top.locs + k)
    BY <2>1, <2>2, <2>3, Extends
  <2>5. sp' <= sp /\ sp' \in Nat /\ sp \in Nat
    BY <2>1, <2>2, <2>3, <2>4, ExtentOrder
  <2>6. sp' = Where.at + SizeObject * Len(objs)
    BY <2>1, <2>3, <2>4, Zenon DEF Extent
  <2>7. sp < STKSEG_SIZE
    BY <1>2
  <2> QED BY <2>5, <2>6, <2>7, Size
<1>9. TypesNext
  BY <1>1, <1>7, RegisterTypes DEF TypesNext
<1>10. ReturnOf(Top) = Top.ret /\ Top.ret \in Code /\ fp \in Nat
  BY <1>1, FrameReads DEF ReturnOf
<1>11. PICK last : /\ FrameHolds(mem, fp, Top.ret, Where.local, last, Where.attr, Top.clo)
                   /\ SavedFp(last)
  BY <1>1, <1>10, FrameReads
<1>12. BodyNext(a, last)
  <2>1. SameBelow(mem, mem', fp) /\ IsMemory(mem') /\ ObjectsAt(mem', Where.at, a.objs)
    BY <1>1, <1>2, <1>4, <1>6 DEF SameBelow
  <2>2. FrameHolds(mem', fp, a.ret, Where.local, last, Where.attr, Top.clo) /\ a.ret \in Code
    BY <1>1, <1>6, <1>10, <1>11
  <2>3. /\ sp' = Where.at + SizeObject * Len(a.objs) /\ a.phase = "loop"
        /\ local' = Where.at + SizeObject * a.locs /\ (closure' = NULL => a.locs = 0)
        /\ attr'.shadow = a.n
    BY <1>1, <1>5, <1>6, <1>7, <1>8
  <2> QED BY <1>1, <1>6, <1>8, <1>11, <2>1, <2>2, <2>3 DEF BodyNext
<1> QED BY <1>1, <1>9, <1>12, BodyInv

\* ... and that of another tail call.
LEMMA SaveEnvTailCallInv ==
  ASSUME FrameInv, SaveEnvTailCall
  PROVE  FrameInv'
<1> DEFINE k == Len(Top.objs)
           a == AsTail(Top, k)
<1>1. /\ attr' = [attr EXCEPT !.mode = TAIL_CALL] /\ attr.shadow = 0
      /\ mem' = mem /\ sp' = sp /\ fp' = fp /\ local' = local /\ stopped' = stopped /\ hdr' = hdr
      /\ pc' = pc /\ closure' = closure /\ env' = env
      /\ Len(acts) > 1 /\ Top.phase = "body"
      /\ acts' = WithNewest(acts, a)
  BY DEF SaveEnvTailCall, Stack!OpenTail, Stack!InBody, Stack!Top, Top, Stack!WithTop,
     WithNewest, AsTail
<1>2. /\ Top \in Activation /\ Top.objs \in Seq(Object) /\ Top.locs \in Nat
      /\ Len(Top.objs) \in Nat /\ Where.at \in Nat /\ ObjectsAt(mem, Where.at, Top.objs)
      /\ sp = Where.at + SizeObject * Len(Top.objs) /\ sp < STKSEG_SIZE /\ IsMemory(mem)
  BY TopFacts DEF Activation
<1>5. /\ local = Where.at + SizeObject * Top.locs
      /\ closure = NULL => Top.locs = 0
  BY <1>1, BodyLocal
<1>6. /\ a \in Activation /\ a.objs = Top.objs /\ a.locs = Top.locs /\ a.phase = "tail"
      /\ a.ret = Top.ret /\ a.home = Top.home /\ a.clo = Top.clo /\ a.applied = Top.applied
  <2>1. Top \in Activation /\ k \in Nat
    BY <1>2
  <2> HIDE DEF k
  <2> QED BY <2>1, ActivationTail
<1> HIDE DEF a
<1>7. attr'.shadow = 0 /\ attr' \in Attr
  <2>1. attr \in Attr /\ attr' = [attr EXCEPT !.mode = 0] /\ attr.shadow = 0
    BY <1>1, RegisterTypes DEF TAIL_CALL
  <2> QED BY <2>1 DEF Attr
<1>9. TypesNext
  BY <1>1, <1>7, RegisterTypes DEF TypesNext
<1>10. ReturnOf(Top) = Top.ret /\ Top.ret \in Code /\ fp \in Nat
  BY <1>1, FrameReads DEF ReturnOf
<1>11. PICK last : /\ FrameHolds(mem, fp, Top.ret, Where.local, last, Where.attr, Top.clo)
                   /\ SavedFp(last)
  BY <1>1, <1>10, FrameReads
<1>12. BodyNext(a, last)
  <2>1. SameBelow(mem, mem', fp) /\ IsMemory(mem') /\ ObjectsAt(mem', Where.at, a.objs)
    BY <1>1, <1>2, <1>6 DEF SameBelow
  <2>2. FrameHolds(mem', fp, a.ret, Where.local, last, Where.attr, Top.clo) /\ a.ret \in Code
    BY <1>1, <1>6, <1>10, <1>11
  <2>3. /\ sp' = Where.at + SizeObject * Len(a.objs) /\ sp' < STKSEG_SIZE /\ a.phase = "tail"
        /\ local' = Where.at + SizeObject * a.locs /\ (closure' = NULL => a.locs = 0)
        /\ attr'.shadow = 0
    BY <1>1, <1>2, <1>5, <1>6, <1>7
  <2> QED BY <1>1, <1>6, <1>11, <2>1, <2>2, <2>3 DEF BodyNext
<1> QED BY <1>1, <1>9, <1>12, BodyInv

------------------------------------------------------------------------------
(* Calls.                                                                   *)

\* The return address after FIX_PC.
CallRet == IF Top.phase = "args" THEN pc ELSE Top.ret

\* FIX_PC completes the newest frame and changes nothing else.
LEMMA FixPcHeld ==
  ASSUME FrameInv, Len(acts) > 1
  PROVE  /\ CallRet \in Code
         /\ \E last : /\ FrameHolds(FixPc(mem), fp, CallRet, Where.local, last, Where.attr, Top.clo)
                      /\ SavedFp(last)
         /\ IsMemory(FixPc(mem)) /\ SameBelow(mem, FixPc(mem), fp)
         /\ ObjectsAt(FixPc(mem), Where.at, Top.objs)
<1> DEFINE p == Put(mem, fp, 2, pc)
<1>1. /\ IsMemory(mem) /\ fp \in Nat /\ Where.at = fp + 11 /\ Where.at \in Nat
      /\ Where.at <= STKSEG_SIZE /\ ObjectsAt(mem, Where.at, Top.objs) /\ Top.objs \in Seq(Object)
  <2>1. fp \in Nat /\ fp + FPS = Where.at
    BY FrameReads
  <2>2. /\ IsMemory(mem) /\ Where.at \in Nat /\ ObjectsAt(mem, Where.at, Top.objs)
        /\ Top.objs \in Seq(Object)
    BY TopFacts
  <2>3. Where.at <= sp /\ sp < STKSEG_SIZE /\ sp \in Nat
    BY TopFacts
  <2>4. Where.at <= STKSEG_SIZE
    BY <2>2, <2>3, Size
  <2> QED BY <2>1, <2>2, <2>4, Sizes
<1>2. PICK last : /\ FrameHolds(mem, fp, ReturnOf(Top), Where.local, last, Where.attr, Top.clo)
                  /\ SavedFp(last)
  BY FrameReads
<1>3. Get(mem, fp, SizeReg) = ReturnOf(Top)
  BY FrameReads
<1>4. CASE Top.phase = "args"
  <2>1. FixPc(mem) = p /\ CallRet = pc /\ pc \in Code
    BY <1>3, <1>4, Sizes, RegisterTypes DEF FixPc, ReturnOf, CallRet
  <2>2. /\ fp + 2 \in Nat /\ fp + 4 \in Nat /\ fp + 6 \in Nat /\ fp + 7 \in Nat
        /\ fp + 3 * SizeReg + SizeAttr = fp + 7 /\ fp + 2 <= STKSEG_SIZE
        /\ 2 \in Nat /\ 1 \in Nat /\ 4 \in Nat /\ fp <= STKSEG_SIZE
        /\ (fp + 2) + 2 <= STKSEG_SIZE /\ (fp + 4) + 2 <= STKSEG_SIZE
        /\ (fp + 6) + 1 <= STKSEG_SIZE /\ (fp + 7) + 4 <= STKSEG_SIZE
    BY <1>1, Sizes, Size
  <2>3. /\ Holds(mem, fp + 2, 2, Where.local) /\ Holds(mem, fp + 4, 2, last)
        /\ Holds(mem, fp + 6, 1, Where.attr) /\ Holds(mem, fp + 7, 4, Top.clo)
    BY <1>2, <2>2, Sizes, Zenon DEF FrameHolds
  <2>4. IsMemory(p) /\ Holds(p, fp, 2, pc)
    BY <1>1, <2>2, PutHolds
  <2>5. SameBelow(mem, p, fp)
    BY <1>1, <2>2, PutSame
  <2>6. /\ Holds(p, fp + 2, 2, Where.local) /\ Holds(p, fp + 4, 2, last)
        /\ Holds(p, fp + 6, 1, Where.attr) /\ Holds(p, fp + 7, 4, Top.clo)
    BY <1>1, <2>2, <2>3, PutKeeps
  <2>7. SameOn(mem, p, Where.at, STKSEG_SIZE)
    BY <1>1, <2>2, Size, PutSameOn
  <2>8. ObjectsAt(p, Where.at, Top.objs)
    <3> HIDE DEF p
    <3>1. Where.at + SizeObject * Len(Top.objs) <= STKSEG_SIZE
      <4>1. sp = Where.at + SizeObject * Len(Top.objs) /\ sp < STKSEG_SIZE /\ sp \in Nat
        BY TopFacts
      <4> QED BY <4>1, Size
    <3> QED BY <1>1, <2>7, <3>1, Size, ObjectsSame
  <2> HIDE DEF p
  <2>9. FrameHolds(p, fp, pc, Where.local, last, Where.attr, Top.clo)
    BY <2>2, <2>4, <2>6, Sizes, Zenon DEF FrameHolds
  <2> QED BY <1>2, <2>1, <2>4, <2>5, <2>8, <2>9
<1>5. CASE Top.phase # "args"
  <2>1. /\ ReturnOf(Top) = Top.ret /\ CallRet = Top.ret
    BY <1>5 DEF ReturnOf, CallRet
  <2>2. Top.ret \in Code /\ Top.ret # NORMAL_JUMP
    BY <1>5, FrameReads
  <2>3. FixPc(mem) = mem
    BY <1>3, <2>1, <2>2 DEF FixPc
  <2>4. SameBelow(mem, mem, fp)
    BY DEF SameBelow
  <2> QED BY <1>1, <1>2, <2>1, <2>2, <2>3, <2>4
<1> QED BY <1>4, <1>5

\* A frame is found in a memory that agrees up to its end.
LEMMA FrameSame ==
  ASSUME NEW m, NEW p, NEW o \in Nat, SameBelow(m, p, o + 11),
         NEW r, NEW l, NEW last, NEW t, NEW c, FrameHolds(m, o, r, l, last, t, c)
  PROVE  FrameHolds(p, o, r, l, last, t, c)
<1>1. /\ o + 2 \in Nat /\ o + 4 \in Nat /\ o + 6 \in Nat /\ o + 7 \in Nat /\ o + 11 \in Nat
      /\ o + 3 * SizeReg + SizeAttr = o + 7 /\ 2 \in Nat /\ 1 \in Nat /\ 4 \in Nat
  BY Sizes
<1>2. /\ Holds(m, o, 2, r) /\ Holds(m, o + 2, 2, l) /\ Holds(m, o + 4, 2, last)
      /\ Holds(m, o + 6, 1, t) /\ Holds(m, o + 7, 4, c)
  BY <1>1, Sizes, Zenon DEF FrameHolds
<1>3. /\ Holds(p, o, 2, r) /\ Holds(p, o + 2, 2, l) /\ Holds(p, o + 4, 2, last)
      /\ Holds(p, o + 6, 1, t) /\ Holds(p, o + 7, 4, c)
  BY <1>1, <1>2, SameHolds
<1> QED BY <1>1, <1>3, Sizes, Zenon DEF FrameHolds

\* While a normal call collects its arguments, attr has no count of a tail recursion.
LEMMA ArgsShadow ==
  ASSUME FrameInv, Top.phase = "args"
  PROVE  attr.shadow = 0
<1>1. Top = acts[Len(acts)]
  BY TopFacts
<1>2. Registers(acts, hdr, Len(acts), sp, fp, local, attr, closure)
  BY DEF FrameInv
<1> QED BY <1>1, <1>2 DEF Registers

(* A tail recursion's arguments slide down to the variables.                *)
LEMMA LoopMoved ==
  ASSUME FrameInv, LoopDone, NEW m, IsMemory(m), ObjectsAt(m, Where.at, Top.objs)
  PROVE  /\ Stack!Replaced \in Seq(Object) /\ Len(Stack!Replaced) = Top.locs + Top.n
         /\ ObjectsAt(CopyShadow(m), Where.at, Stack!Replaced)
         /\ IsMemory(CopyShadow(m)) /\ SameBelow(m, CopyShadow(m), Where.at)
         /\ attr.shadow = Top.n /\ local = Where.at + 5 * Top.locs
         /\ sp = Where.at + 5 * (Top.locs + 2 * Top.n)
         /\ IsShadowFrame <=> Top.n # 0
<1> DEFINE l == Top.locs
           n == Top.n
           objs == Top.objs
           seq == Stack!Replaced
           at == Where.at
<1>1. /\ l \in Nat /\ n \in Nat /\ objs \in Seq(Object) /\ Len(objs) = l + 2 * n /\ at \in Nat
      /\ Top.phase = "loop" /\ sp < STKSEG_SIZE
  BY TopFacts DEF LoopDone, Activation
<1>2. seq = Slid(objs, l, n)
  BY DEF Stack!Replaced, Stack!Top, Top, Slid
<1>3. /\ attr.shadow = n /\ local = at + 5 * l /\ SizeObject = 5 /\ sp = at + 5 * Len(objs)
  BY <1>1, BodyLocal, TopFacts, Sizes
<1>4. sp = at + 5 * (l + 2 * n)
  BY <1>1, <1>3
<1> HIDE DEF l, n, objs, seq, at
<1>5. seq \in Seq(Object) /\ Rotated(objs, seq, l, n)
  BY <1>1, <1>2, ReplacedRotated
<1>6. Len(seq) = l + n
  BY <1>5 DEF Rotated
<1>7. IsShadowFrame <=> n # 0
  BY <1>1, <1>3, <1>4 DEF IsShadowFrame
<1>8. /\ ObjectsAt(CopyShadow(m), at, seq)
      /\ IsMemory(CopyShadow(m)) /\ SameBelow(m, CopyShadow(m), at)
  <2>1. CASE n # 0
    <3>1. CopyShadow(m) = Shift(m, local, sp - 5 * n, 5 * n)
      BY <1>3, <1>7, <2>1, Zenon DEF CopyShadow
    <3>2. ObjectsAt(m, at, objs)
      BY DEF at, objs
    <3> DEFINE size == 5 * n
    <3>3. Slides(m, CopyShadow(m), at, objs, l, n, sp, local, size)
      BY <1>1, <1>3, <3>1 DEF Slides
    <3> HIDE DEF size
    <3> QED BY <1>1, <1>3, <1>5, <1>6, <3>2, <3>3, ObjectsMoved
  <2>2. CASE n = 0
    <3>1. CopyShadow(m) = m
      BY <1>7, <2>2 DEF CopyShadow
    <3>2. Len(seq) = l /\ Len(objs) = l
      BY <1>1, <1>6, <2>2
    <3>3. ASSUME NEW k \in 1 .. l
          PROVE  Holds(m, at + SizeObject * (k - 1), SizeObject, seq[k])
      <4>1. seq[k] = objs[k]
        BY <1>5, RotatedLow
      <4>2. ObjectsAt(m, at, objs) /\ k \in 1 .. Len(objs)
        BY <3>2 DEF at, objs
      <4>3. Holds(m, at + SizeObject * (k - 1), SizeObject, objs[k])
        BY <4>2, Zenon DEF ObjectsAt
      <4> QED BY <4>1, <4>3, Zenon
    <3>4. ObjectsAt(m, at, seq)
      BY <3>2, <3>3, Zenon DEF ObjectsAt
    <3>5. SameBelow(m, m, at)
      BY DEF SameBelow
    <3> QED BY <3>1, <3>4, <3>5
  <2> QED BY <2>1, <2>2
<1> QED BY <1>3, <1>4, <1>5, <1>6, <1>7, <1>8 DEF l, n, objs, seq, at

\* What a call leaves: memory holds objs, the frame has its return address.
CallMem(objs, last) ==
  /\ objs \in Seq(Object) /\ CallRet \in Code
  /\ SavedFp(last) /\ FrameHolds(mem', fp, CallRet, Where.local, last, Where.attr, Top.clo)
  /\ IsMemory(mem') /\ SameBelow(mem, mem', fp)
  /\ ObjectsAt(mem', Where.at, objs)

\* A call that is no tail recursion moves nothing.
LEMMA StraightCall ==
  ASSUME FrameInv, Len(acts) > 1, Top.phase \in {"args", "tail"}, mem' = CopyShadow(FixPc(mem))
  PROVE  (\E last : CallMem(Top.objs, last)) /\ ~IsShadowFrame
<1>1. attr.shadow = 0
  BY ArgsShadow, BodyLocal
<1>2. ~IsShadowFrame /\ mem' = FixPc(mem)
  BY <1>1 DEF IsShadowFrame, CopyShadow
<1> QED BY <1>2, FixPcHeld, TopFacts DEF CallMem

\* A tail recursion moves its arguments onto the parameters.
LEMMA LoopCall ==
  ASSUME FrameInv, Len(acts) > 1, LoopDone, mem' = CopyShadow(FixPc(mem))
  PROVE  \E last : CallMem(Stack!Replaced, last)
<1> DEFINE m == FixPc(mem)
<1>1. PICK last : /\ FrameHolds(m, fp, CallRet, Where.local, last, Where.attr, Top.clo)
                  /\ SavedFp(last)
  BY FixPcHeld
<1>2. /\ CallRet \in Code /\ IsMemory(m) /\ SameBelow(mem, m, fp)
      /\ ObjectsAt(m, Where.at, Top.objs)
  BY FixPcHeld
<1>3. fp \in Nat /\ Where.at = fp + 11
  BY FrameReads, Sizes
<1> HIDE DEF m
<1>4. /\ Stack!Replaced \in Seq(Object) /\ ObjectsAt(CopyShadow(m), Where.at, Stack!Replaced)
      /\ IsMemory(CopyShadow(m)) /\ SameBelow(m, CopyShadow(m), Where.at)
  BY <1>2, LoopMoved
<1>5. FrameHolds(CopyShadow(m), fp, CallRet, Where.local, last, Where.attr, Top.clo)
  BY <1>1, <1>3, <1>4, FrameSame
<1>6. SameBelow(mem, CopyShadow(m), fp)
  BY <1>2, <1>3, <1>4 DEF SameBelow
<1>7. mem' = CopyShadow(m)
  BY DEF m
<1> QED BY <1>1, <1>2, <1>4, <1>5, <1>6, <1>7 DEF CallMem

\* A call, once its objects are in place, starts a body that fits its frame.
LEMMA CalledInv ==
  ASSUME FrameInv, Len(acts) > 1, NEW objs, NEW last, CallMem(objs, last), TypesNext,
         NEW k \in Nat, Called(k, objs),
         sp' = Where.at + SizeObject * Len(objs), sp' < STKSEG_SIZE,
         local' = Where.at + SizeObject * k,
         closure' = NULL => k = 0, hdr' = hdr, fp' = fp
  PROVE  FrameInv'
<1> DEFINE a == AsCalled(Top, objs, k, CallRet)
<1>1. objs \in Seq(Object) /\ CallRet \in Code /\ Top \in Activation
  BY TopFacts DEF CallMem
<1>2. acts' = WithNewest(acts, a)
  BY DEF Called, Stack!WithTop, Stack!Top, Top, WithNewest, AsCalled, CallRet
<1>3. /\ a \in Activation /\ a.objs = objs /\ a.locs = k /\ a.phase = "body"
      /\ a.ret = CallRet /\ a.home = Top.home /\ a.clo = Top.clo /\ a.applied = Top.applied
  <2> HIDE DEF a
  <2>1. Top \in Activation /\ objs \in Seq(Object) /\ k \in Nat /\ CallRet \in Code
    BY <1>1
  <2> QED BY <2>1, ActivationCalled DEF a
<1> HIDE DEF a
<1>4. BodyNext(a, last)
  <2>1. /\ SavedFp(last) /\ FrameHolds(mem', fp, CallRet, Where.local, last, Where.attr, Top.clo)
        /\ IsMemory(mem') /\ SameBelow(mem, mem', fp) /\ ObjectsAt(mem', Where.at, objs)
    BY DEF CallMem
  <2>2. a.phase # "args" /\ a.phase # "tail" /\ a.phase # "loop"
    BY <1>3
  <2> QED BY <1>1, <1>2, <1>3, <2>1, <2>2 DEF BodyNext
<1> QED BY <1>4, BodyInv

\* CALL_PROCEDURE keeps the invariant,
LEMMA CallProcInv ==
  ASSUME FrameInv, NEW entry \in Code, CallProc(entry)
  PROVE  FrameInv'
<1>1. /\ Len(acts) > 1 /\ mem' = CopyShadow(FixPc(mem))
      /\ sp' = (IF IsShadowFrame THEN local + SizeObject * attr.shadow ELSE sp)
      /\ local' = fp + FPS /\ closure' = NULL /\ pc' = entry
      /\ fp' = fp /\ attr' = attr /\ env' = env /\ stopped' = stopped /\ hdr' = hdr
  BY DEF CallProc, Calls
<1>2. TypesNext
  BY <1>1, RegisterTypes DEF TypesNext
<1>3. local' = Where.at + SizeObject * 0
  <2>1. local' = fp + FPS /\ fp + FPS = Where.at
    BY <1>1, FrameReads, Zenon
  <2>2. Where.at \in Nat
    BY TopPlace, Zenon
  <2> QED BY <2>1, <2>2, Sizes
<1>4. /\ sp = Where.at + SizeObject * Len(Top.objs) /\ sp < STKSEG_SIZE /\ sp \in Nat
      /\ Where.at \in Nat /\ Top \in Activation
  BY TopFacts
<1>5. CASE /\ Top.phase = "args" \/ (Top.phase = "tail" /\ Top.n = 0)
           /\ Called(0, Top.objs)
  <2>1. (\E last : CallMem(Top.objs, last)) /\ ~IsShadowFrame
    BY <1>1, <1>5, StraightCall
  <2>2. sp' = Where.at + SizeObject * Len(Top.objs) /\ sp' < STKSEG_SIZE
    BY <1>1, <1>4, <2>1
  <2> QED BY <1>1, <1>2, <1>3, <1>5, <2>1, <2>2, CalledInv
<1>6. CASE LoopDone /\ closure = NULL /\ Top.locs = 0 /\ Called(0, Stack!Replaced)
  <2>1. \E last : CallMem(Stack!Replaced, last)
    BY <1>1, <1>6, LoopCall
  <2>2. /\ Len(Stack!Replaced) = Top.locs + Top.n /\ attr.shadow = Top.n
        /\ local = Where.at + 5 * Top.locs /\ sp = Where.at + 5 * (Top.locs + 2 * Top.n)
        /\ IsShadowFrame <=> Top.n # 0
    <3>1. IsMemory(FixPc(mem)) /\ ObjectsAt(FixPc(mem), Where.at, Top.objs)
      BY <1>1, FixPcHeld
    <3> QED BY <1>6, <3>1, LoopMoved
  <2>3. Top.n \in Nat
    BY <1>4 DEF Activation
  <2>4. /\ Len(Stack!Replaced) = Top.n /\ local = Where.at /\ sp = Where.at + 5 * (2 * Top.n)
    BY <1>4, <1>6, <2>2, <2>3
  <2>5. sp' = Where.at + 5 * Top.n
    <3>1. CASE Top.n = 0
      BY <3>1, <1>1, <1>4, <2>2, <2>4
    <3>2. CASE Top.n # 0
      BY <3>2, <1>1, <2>2, <2>4, Sizes
    <3> QED BY <3>1, <3>2
  <2>6. sp' <= sp /\ sp' \in Nat
    <3>1. sp = Where.at + 5 * (2 * Top.n) /\ Where.at \in Nat
      BY <2>4, TopPlace, Zenon
    <3> QED BY <2>3, <2>5, <3>1
  <2>7. sp' = Where.at + SizeObject * Len(Stack!Replaced) /\ sp' < STKSEG_SIZE
    BY <1>4, <2>4, <2>5, <2>6, Size, Sizes
  <2> QED BY <1>1, <1>2, <1>3, <1>6, <2>1, <2>7, CalledInv
<1> QED BY <1>5, <1>6 DEF CallProc

\* Closures have an entry and an arity.
LEMMA ClosureTypes ==
  ASSUME NEW c \in Closure
  PROVE  c # NULL /\ ClosureEntry[c] \in Code /\ ClosureArity[c] \in Nat
<1>1. c # NULL
  BY FramesAssumption
<1>2. ClosureEntry[c] \in Code
  <2>1. ClosureEntry \in [Closure -> Code]
    BY FramesAssumption
  <2> QED BY <2>1
<1>3. ClosureArity[c] \in Nat
  <2>1. ClosureArity \in [Closure -> 0 .. 15]
    BY FramesAssumption
  <2> QED BY <2>1
<1> QED BY <1>1, <1>2, <1>3

(* Between the end of a tail recursion's objects and what they become.      *)
LoopEnd(s, at, l, n) == s = at + 5 * (l + 2 * n)

\* The end of the stack after the arguments of a tail recursion have moved.
LEMMA LoopEnds ==
  ASSUME NEW at \in Nat, NEW l \in Nat, NEW n \in Nat, NEW s, LoopEnd(s, at, l, n)
  PROVE  s - 5 * n = at + 5 * (l + n) /\ s - 5 * n <= s /\ s - 5 * n \in Nat
BY DEF LoopEnd

\* ... and CALL_CLOSURE, which skips the captured variables (vm.c).
LEMMA CallClosureInv ==
  ASSUME FrameInv, NEW c \in Closure, CallClosure(c)
  PROVE  FrameInv'
<1> DEFINE k == ClosureArity[c]
<1>1. /\ Len(acts) > 1 /\ mem' = CopyShadow(FixPc(mem))
      /\ closure' = c /\ pc' = ClosureEntry[c]
      /\ fp' = fp /\ attr' = attr /\ env' = env /\ stopped' = stopped /\ hdr' = hdr
  BY DEF CallClosure, Calls
<1>2. /\ IF IsShadowFrame
         THEN sp' = sp - SizeObject * attr.shadow /\ local' = local
         ELSE local' = sp - SizeObject * k /\ sp' = sp
  BY DEF CallClosure
<1>3. c # NULL /\ ClosureEntry[c] \in Code /\ k \in Nat
  BY ClosureTypes
<1> HIDE DEF k
<1>4. TypesNext
  BY <1>1, <1>3, RegisterTypes DEF TypesNext
<1>5. /\ sp = Where.at + 5 * Len(Top.objs) /\ sp < STKSEG_SIZE /\ sp \in Nat
      /\ Where.at \in Nat /\ Top \in Activation /\ SizeObject = 5
      /\ Top.n \in Nat /\ Top.locs \in Nat
  <2>1. Top \in Activation
    BY TopFacts, Zenon
  <2>2. Top.n \in Nat /\ Top.locs \in Nat
    BY <2>1 DEF Activation
  <2> QED BY <2>1, <2>2, TopPlace, Sizes, Zenon
<1>6. CASE /\ Top.phase \in {"args", "tail"}
           /\ Len(Top.objs) = Top.n + k
           /\ Called(Top.n, Top.objs)
  <2>1. (\E last : CallMem(Top.objs, last)) /\ ~IsShadowFrame
    BY <1>1, <1>6, StraightCall
  <2>2. sp' = Where.at + SizeObject * Len(Top.objs) /\ sp' < STKSEG_SIZE
    BY <1>2, <1>5, <2>1
  <2>3. local' = Where.at + SizeObject * Top.n
    <3>1. local' = sp - 5 * k /\ sp = Where.at + 5 * (Top.n + k)
      BY <1>2, <1>5, <1>6, <2>1, Zenon
    <3>2. Where.at \in Nat /\ Top.n \in Nat
      BY <1>5, Zenon
    <3> QED BY <1>3, <3>1, <3>2, Sizes
  <2>4. closure' = NULL => Top.n = 0
    BY <1>1, <1>3
  <2> QED BY <1>1, <1>4, <1>5, <1>6, <2>1, <2>2, <2>3, <2>4, CalledInv
<1>7. CASE LoopDone /\ Top.n = k /\ Called(Top.locs, Stack!Replaced)
  <2>1. \E last : CallMem(Stack!Replaced, last)
    BY <1>1, <1>7, LoopCall
  <2>2. /\ Len(Stack!Replaced) = Top.locs + Top.n /\ attr.shadow = Top.n
        /\ local = Where.at + 5 * Top.locs /\ sp = Where.at + 5 * (Top.locs + 2 * Top.n)
        /\ IsShadowFrame <=> Top.n # 0
    <3>1. IsMemory(FixPc(mem)) /\ ObjectsAt(FixPc(mem), Where.at, Top.objs)
      BY <1>1, FixPcHeld
    <3> QED BY <1>7, <3>1, LoopMoved
  <2>e. /\ sp - 5 * Top.n = Where.at + 5 * (Top.locs + Top.n) /\ sp - 5 * Top.n <= sp
        /\ sp - 5 * Top.n \in Nat
    <3>1. LoopEnd(sp, Where.at, Top.locs, Top.n)
      BY <2>2 DEF LoopEnd
    <3>2. Where.at \in Nat /\ Top.locs \in Nat /\ Top.n \in Nat
      BY <1>5
    <3> QED BY <3>1, <3>2, LoopEnds
  <2>3. sp' = Where.at + 5 * (Top.locs + Top.n) /\ local' = Where.at + 5 * Top.locs
    <3>1. CASE Top.n = 0
      BY <3>1, <1>2, <1>5, <1>7, <2>2
    <3>2. CASE Top.n # 0
      <4>1. sp' = sp - 5 * Top.n /\ local' = local
        BY <3>2, <1>2, <1>5, <2>2
      <4> QED BY <4>1, <2>2, <2>e
    <3> QED BY <3>1, <3>2
  <2>4. sp' <= sp /\ sp' \in Nat
    <3>1. sp - 5 * Top.n = sp'
      BY <2>3, <2>e
    <3> QED BY <3>1, <2>e
  <2>5. sp' = Where.at + SizeObject * Len(Stack!Replaced) /\ sp' < STKSEG_SIZE
    BY <1>5, <2>2, <2>3, <2>4, Size
  <2>6. closure' = NULL => Top.locs = 0
    BY <1>1, <1>3
  <2>7. local' = Where.at + SizeObject * Top.locs
    BY <1>5, <2>3
  <2> QED BY <1>1, <1>4, <1>5, <1>7, <2>1, <2>5, <2>6, <2>7, CalledInv
<1>8. \/ /\ Top.phase \in {"args", "tail"}
         /\ Len(Top.objs) = Top.n + k
         /\ Called(Top.n, Top.objs)
      \/ LoopDone /\ Top.n = k /\ Called(Top.locs, Stack!Replaced)
  BY DEF CallClosure, k
<1> QED BY <1>6, <1>7, <1>8

------------------------------------------------------------------------------
(* Returns.                                                                 *)

\* The newest frame is left with result o, the registers become what it saved.
Closes(o) ==
  /\ mem' = Put(mem, fp, SizeObject, o) /\ sp' = fp + SizeObject
  /\ acts' = Stack!Closed(o) /\ hdr' = SubSeq(hdr, 1, Len(hdr) - 1)
  /\ closure' = Top.clo /\ attr' = Where.attr /\ fp' = Where.fp /\ local' = Where.local
  /\ pc' = Top.ret /\ env' = env /\ stopped' = stopped

\* Leaving an activation with its result pushed for the caller keeps the invariant.
LEMMA ClosesInv ==
  ASSUME FrameInv, Len(acts) > 1, Top.phase # "args", NEW o \in Object, Closes(o)
  PROVE  FrameInv'
<1> DEFINE n == Len(acts)
           B == SubSeq(acts, 1, n - 1)
           K == SubSeq(hdr, 1, n - 1)
           objs == Append(B[n - 1].objs, o)
<1>1. /\ Layout(acts, hdr) /\ Contents(mem, acts, hdr) /\ n \in Nat /\ n > 1
      /\ acts \in Seq(Activation) /\ hdr \in Seq(FrameHeader) /\ Len(hdr) = n
      /\ Where = hdr[n] /\ Top = acts[n] /\ IsMemory(mem)
  BY TopFacts
<1>2. /\ B \in Seq(Activation) /\ K \in Seq(FrameHeader) /\ Len(B) = n - 1 /\ Len(K) = n - 1
      /\ \A i \in 1 .. n - 1 : B[i] = acts[i] /\ K[i] = hdr[i]
  BY <1>1
<1>3. acts' = WithObjects(B, objs) /\ hdr' = K
  <2>1. acts' = [B EXCEPT ![n - 1].objs = Append(@, o)] /\ hdr' = SubSeq(hdr, 1, Len(hdr) - 1)
    BY Zenon DEF Closes, Stack!Closed
  <2>2. Len(B) = n - 1 /\ Len(hdr) = n
    BY <1>1, <1>2
  <2>3. hdr' = K
    BY <2>1, <2>2
  <2> HIDE DEF B, n
  <2>4. WithObjects(B, objs) = [B EXCEPT ![n - 1] = [B[n - 1] EXCEPT !.objs = Append(B[n - 1].objs, o)]]
    BY <2>2, Zenon DEF WithObjects, WithNewest
  <2>5. [B EXCEPT ![n - 1].objs = Append(@, o)]
          = [B EXCEPT ![n - 1] = [B[n - 1] EXCEPT !.objs = Append(B[n - 1].objs, o)]]
    OBVIOUS
  <2> QED BY <2>1, <2>3, <2>4, <2>5, Zenon
<1> HIDE DEF B, K, n
<1>4. Agree(acts, hdr, B, K, n - 1)
  BY <1>2 DEF Agree
<1>5. /\ Layout(B, K) /\ Contents(mem, B, K)
      /\ Registers(B, K, Len(B), hdr[n].at - FPS, hdr[n].fp, hdr[n].local, hdr[n].attr, acts[n].clo)
  BY <1>1, <1>2, <1>4, Cut DEF n
<1>6. fp = Where.at - FPS /\ fp \in Nat /\ fp + FPS = Where.at
  BY <1>1, FrameReads DEF n
<1>7. Registers(B, K, n - 1, fp, Where.fp, Where.local, Where.attr, Top.clo)
  BY <1>1, <1>2, <1>5, <1>6
<1>8. /\ n - 1 \in 1 .. Len(B) /\ B[n - 1].objs \in Seq(Object) /\ K[n - 1].at \in Nat
  <2>1. n - 1 \in 1 .. Len(B)
    BY <1>1, <1>2
  <2> QED BY <2>1, <1>5, LayoutOrder
<1>9. fp = K[n - 1].at + SizeObject * Len(B[n - 1].objs)
  BY <1>7 DEF Registers, End
<1>10. fp + SizeObject < STKSEG_SIZE
  <2>1. Where.at <= sp /\ sp < STKSEG_SIZE /\ Where.at \in Nat /\ sp \in Nat
    BY TopFacts
  <2> QED BY <2>1, <1>6, Sizes, Size
<1>11. ObjectsAt(mem, K[n - 1].at, B[n - 1].objs)
  BY <1>5, <1>8 DEF Contents, ObjectsIn
<1>12. /\ ObjectsAt(mem', K[n - 1].at, objs) /\ IsMemory(mem') /\ SameBelow(mem, mem', K[n - 1].at)
  <2> DEFINE p == Put(mem, fp, SizeObject, o)
             at == K[n - 1].at
  <2>1. ObjectsAt(p, at, objs) /\ IsMemory(p) /\ SameBelow(mem, p, fp) /\ at <= fp
    <3>1. fp + SizeObject <= STKSEG_SIZE
      BY <1>10, <1>6, Size, Sizes
    <3> QED BY <1>1, <1>8, <1>9, <1>11, <3>1, ObjectPushed
  <2>2. SameBelow(mem, p, at)
    BY <2>1, <1>6, <1>8, SameLess
  <2>3. mem' = p
    BY DEF Closes
  <2> QED BY <2>1, <2>2, <2>3
<1>13. objs \in Seq(Object) /\ Len(objs) = Len(B[n - 1].objs) + 1 /\ Len(B[n - 1].objs) \in Nat
  BY <1>8
<1> HIDE DEF objs
<1>14. sp' = K[n - 1].at + SizeObject * Len(objs) /\ sp' < STKSEG_SIZE
  <2>1. sp' = fp + 5
    BY Sizes DEF Closes
  <2>2. fp = K[n - 1].at + 5 * Len(B[n - 1].objs)
    BY <1>9, Sizes
  <2>3. sp' = K[n - 1].at + 5 * Len(objs)
    <3>1. K[n - 1].at \in Nat /\ Len(B[n - 1].objs) \in Nat
      BY <1>8, <1>13, Zenon
    <3>2. Len(objs) = Len(B[n - 1].objs) + 1
      BY <1>13, Zenon
    <3> QED BY <2>1, <2>2, <3>1, <3>2
  <2> QED BY <2>1, <2>3, <1>10, Sizes
<1>15. Len(B) = n - 1
  BY <1>2
<1>16. /\ Layout(acts', K) /\ Contents(mem', acts', K) /\ Len(acts') = n - 1
       /\ \A s, f, l, t, c :
            Registers(B, K, n - 1, s, f, l, t, c)
              => Registers(acts', K, n - 1, K[n - 1].at + SizeObject * Len(objs), f, l, t, c)
  <2>1. K[n - 1].at + SizeObject * Len(objs) < STKSEG_SIZE
    BY <1>14
  <2>a. /\ SameBelow(mem, mem', K[Len(B)].at) /\ ObjectsAt(mem', K[Len(B)].at, objs)
        /\ K[Len(B)].at + SizeObject * Len(objs) < STKSEG_SIZE
    BY <1>12, <1>15, <2>1
  <2>b. /\ Layout(WithObjects(B, objs), K) /\ Contents(mem', WithObjects(B, objs), K)
        /\ Len(WithObjects(B, objs)) = Len(B)
        /\ \A s, f, l, t, c :
            Registers(B, K, Len(B), s, f, l, t, c)
              => Registers(WithObjects(B, objs), K, Len(B), K[Len(B)].at + SizeObject * Len(objs), f, l, t, c)
    <3>1. Layout(B, K) /\ Contents(mem, B, K) /\ objs \in Seq(Object) /\ IsMemory(mem')
      BY <1>5, <1>12, <1>13
    <3> QED BY <3>1, <2>a, TopObjects
  <2>2. /\ Layout(WithObjects(B, objs), K) /\ Contents(mem', WithObjects(B, objs), K)
        /\ Len(WithObjects(B, objs)) = n - 1
        /\ \A s, f, l, t, c :
            Registers(B, K, n - 1, s, f, l, t, c)
              => Registers(WithObjects(B, objs), K, n - 1, K[n - 1].at + SizeObject * Len(objs), f, l, t, c)
    BY <1>15, <2>b
  <2> HIDE DEF n
  <2>3. acts' = WithObjects(B, objs)
    BY <1>3
  <2> QED BY <2>2, <2>3
<1>17. Registers(acts', K, n - 1, sp', fp', local', attr', closure')
  <2>1. Registers(acts', K, n - 1, sp', Where.fp, Where.local, Where.attr, Top.clo)
    BY <1>7, <1>14, <1>16
  <2> QED BY <2>1 DEF Closes
<1>18. /\ attr' \in Attr /\ closure' \in Closure \cup {NULL} /\ pc' \in Code
       /\ env' \in [Closure -> Seq(Object)] /\ stopped' \in BOOLEAN
  BY FrameReads, RegisterTypes DEF Closes
<1> QED BY <1>3, <1>16, <1>17, <1>18 DEF FrameInv

\* RESTORE leaves the newest activation,
LEMMA RestoreInv ==
  ASSUME FrameInv, Restore
  PROVE  /\ FrameInv'
         /\ Len(acts) > 1 /\ Top.phase = "body" /\ Top.objs # <<>>
         /\ Closes(Top.objs[Len(Top.objs)])
<1>1. Len(acts) > 1 /\ Top.phase = "body" /\ Top.objs # <<>>
  BY DEF Restore, Stack!InBody, Stack!Top, Top
<1>2. /\ Get(mem, fp, SizeReg) = Top.ret /\ Get(mem, fp + SizeReg, SizeReg) = Where.local
      /\ PopFp = Where.fp /\ Get(mem, fp + 3 * SizeReg, SizeAttr) = Where.attr
      /\ Get(mem, fp + 3 * SizeReg + SizeAttr, SizePtr) = Top.clo
  BY <1>1, FrameReads DEF ReturnOf
<1>3. /\ Get(mem, sp - SizeObject, SizeObject) = Top.objs[Len(Top.objs)]
      /\ Top.objs[Len(Top.objs)] \in Object
  BY <1>1, TopObject
<1>4. Closes(Top.objs[Len(Top.objs)])
  BY <1>2, <1>3, Zenon DEF Restore, Closes
<1> QED BY <1>1, <1>3, <1>4, ClosesInv

\* ... and so does RESTORE_SIMPLE in that of a primitive.
LEMMA RestoreSimpleInv ==
  ASSUME FrameInv, Len(acts) > 1, Top.phase = "body", Top.applied, NEW o \in Object,
         RestoreSimple(o)
  PROVE  FrameInv' /\ Closes(o)
<1>2. /\ Get(mem, fp, SizeReg) = Top.ret /\ Get(mem, fp + SizeReg, SizeReg) = Where.local
      /\ Get(mem, fp + 2 * SizeReg, SizeReg) = Where.fp
      /\ Get(mem, fp + 3 * SizeReg, SizeAttr) = Where.attr
      /\ Get(mem, fp + 3 * SizeReg + SizeAttr, SizePtr) = Top.clo
  BY FrameReads DEF ReturnOf
<1>4. Closes(o)
  BY <1>2, Zenon DEF RestoreSimple, Closes
<1> QED BY <1>4, ClosesInv

------------------------------------------------------------------------------
(* The primitives that apply procedures.                                    *)

\* objs written from at on.
Filled(m, at, objs) ==
  [i \in DOMAIN m |->
     IF i \in at .. at + SizeObject * Len(objs) - 1
     THEN Byte(objs[(i - at) \div SizeObject + 1], (i - at) % SizeObject, SizeObject)
     ELSE m[i]]

\* The bytes of the k-th object.
LEMMA Division ==
  ASSUME NEW k \in Nat, NEW j \in 0 .. 4
  PROVE  (5 * k + j) \div 5 = k /\ (5 * k + j) % 5 = j
OBVIOUS

\* Pushing objects one after another.
LEMMA FilledObjects ==
  ASSUME NEW m, IsMemory(m), NEW at \in Nat, NEW objs \in Seq(Object),
         at + SizeObject * Len(objs) <= STKSEG_SIZE
  PROVE  /\ ObjectsAt(Filled(m, at, objs), at, objs) /\ IsMemory(Filled(m, at, objs))
         /\ SameBelow(m, Filled(m, at, objs), at)
<1> DEFINE p == Filled(m, at, objs)
           n == Len(objs)
<1>1. n \in Nat /\ SizeObject = 5 /\ at + 5 * n <= STKSEG_SIZE
  BY Sizes
<1>2. IsMemory(p)
  BY DEF IsMemory, Filled
<1>3. p = [i \in DOMAIN m |->
             IF i \in at .. at + 5 * n - 1
             THEN Byte(objs[(i - at) \div 5 + 1], (i - at) % 5, 5) ELSE m[i]]
  BY <1>1, Zenon DEF Filled
<1> HIDE DEF p, n
<1>4. ASSUME NEW k \in 1 .. n, NEW j \in 0 .. 4
      PROVE  p[(at + 5 * (k - 1)) + j] = Byte(objs[k], j, 5)
  <2> DEFINE i == (at + 5 * (k - 1)) + j
             d == 5 * (k - 1) + j
  <2>1. i - at = d
    OBVIOUS
  <2>2. i \in at .. at + 5 * n - 1 /\ i \in DOMAIN m
    BY <1>1, Size DEF IsMemory
  <2>3. d \div 5 = k - 1 /\ d % 5 = j
    <3>1. k - 1 \in Nat
      BY <1>1
    <3> QED BY <3>1, Division
  <2> HIDE DEF i, d
  <2>4. p[i] = Byte(objs[(i - at) \div 5 + 1], (i - at) % 5, 5)
    BY <1>3, <2>2
  <2>5. p[i] = Byte(objs[(k - 1) + 1], j, 5)
    BY <2>1, <2>3, <2>4
  <2>6. (k - 1) + 1 = k
    BY <1>1
  <2> QED BY <2>5, <2>6 DEF i
<1>5. ASSUME NEW k \in 1 .. n
      PROVE  Holds(p, at + SizeObject * (k - 1), SizeObject, objs[k])
  <2> DEFINE o == at + 5 * (k - 1)
  <2>0. \A j \in 0 .. 4 : p[o + j] = Byte(objs[k], j, 5)
    BY <1>4, Zenon
  <2> HIDE DEF o
  <2>1. ASSUME NEW j \in 0 .. 4
        PROVE  p[o + j].s = 5 /\ p[o + j].k = j /\ p[o + j].v = objs[k]
    <3>1. p[o + j] = Byte(objs[k], j, 5)
      BY <2>0
    <3>2. /\ Byte(objs[k], j, 5).s = 5 /\ Byte(objs[k], j, 5).k = j
          /\ Byte(objs[k], j, 5).v = objs[k]
      BY DEF Byte
    <3> QED BY <3>1, <3>2
  <2>2. Holds(p, o, 5, objs[k])
    <3>1. 5 - 1 = 4
      OBVIOUS
    <3> QED BY <2>1, <3>1 DEF Holds
  <2> QED BY <2>2, <1>1 DEF o
<1>6. SameBelow(m, p, at)
  <2> SUFFICES ASSUME NEW i \in 0 .. at - 1 PROVE p[i] = m[i]
    BY DEF SameBelow
  <2>1. i \in DOMAIN m /\ i \notin at .. at + 5 * n - 1
    BY <1>1, Size DEF IsMemory
  <2> QED BY <2>1, <1>3
<1> QED BY <1>2, <1>5, <1>6 DEF ObjectsAt, p, n

\* Where the stack ends without the operands of a primitive.
LEMMA OperandsTaken ==
  ASSUME FrameInv, NEW k \in 1 .. 2, Operands(k)
  PROVE  /\ Stack!Without(k) \in Seq(Object) /\ Len(Stack!Without(k)) = Len(Top.objs) - k
         /\ Base(k) = Where.at + SizeObject * Len(Stack!Without(k))
         /\ Base(k) \in Nat /\ Where.at <= Base(k) /\ Base(k) + SizeObject <= sp
         /\ Base(k) + SizeObject < STKSEG_SIZE
         /\ ObjectsAt(mem, Where.at, Stack!Without(k))
<1> DEFINE w == Stack!Without(k)
           n == Len(Top.objs)
<1>1. Top.objs \in Seq(Object) /\ n \in Nat /\ n - k \in 0 .. n
  BY TopFacts DEF Operands
<1>2. w = SubSeq(Top.objs, 1, n - k)
  BY DEF Stack!Without, Stack!Top, Top
<1>3. w \in Seq(Object) /\ Len(w) = n - k
  BY <1>1, <1>2
<1>4. ObjectsAt(mem, Where.at, w)
  BY <1>1, <1>2, ObjectsDropped, TopFacts
<1>5. sp = Where.at + 5 * n /\ Where.at \in Nat /\ sp < STKSEG_SIZE /\ SizeObject = 5
  BY TopFacts, Sizes
<1>6. Base(k) = sp - k * 5
  BY <1>5, Zenon DEF Base
<1> HIDE DEF w, n
<1>7. Base(k) = Where.at + 5 * (n - k)
  BY <1>1, <1>5, <1>6
<1>8. Base(k) \in Nat /\ Where.at <= Base(k) /\ Base(k) + 5 <= sp /\ sp \in Nat
  BY <1>1, <1>5, <1>7
<1>9. Base(k) + 5 < STKSEG_SIZE
  BY <1>5, <1>8, Size
<1> QED BY <1>3, <1>4, <1>5, <1>7, <1>8, <1>9 DEF w, n

\* A primitive that pops its operands and pushes a result.
LEMMA LeavesInv ==
  ASSUME FrameInv, NEW k \in 1 .. 2, Operands(k), NEW o \in Object, Leaves(k, o)
  PROVE  FrameInv'
<1> DEFINE w == Stack!Without(k)
           objs == Append(w, o)
           b == Base(k)
<1>1. /\ w \in Seq(Object) /\ b = Where.at + SizeObject * Len(w) /\ b \in Nat /\ Where.at <= b
      /\ b + SizeObject < STKSEG_SIZE /\ ObjectsAt(mem, Where.at, w)
  BY OperandsTaken
<1>2. /\ mem' = Put(mem, b, SizeObject, o) /\ sp' = b + SizeObject
      /\ acts' = WithObjects(acts, objs)
      /\ fp' = fp /\ local' = local /\ pc' = pc /\ attr' = attr /\ closure' = closure
      /\ env' = env /\ stopped' = stopped /\ hdr' = hdr
  BY DEF Leaves, Stack!WithTop, Stack!Top, Top, WithObjects, WithNewest
<1> HIDE DEF w, b
<1>3. /\ ObjectsAt(mem', Where.at, objs) /\ IsMemory(mem') /\ SameBelow(mem, mem', b)
  <2>1. b + SizeObject <= STKSEG_SIZE /\ IsMemory(mem) /\ Where.at \in Nat
    BY <1>1, TopFacts, Sizes, Size
  <2> QED BY <1>1, <1>2, <2>1, ObjectPushed
<1>4. SameBelow(mem, mem', Where.at)
  BY <1>1, <1>3, TopFacts, SameLess
<1>5. objs \in Seq(Object) /\ Len(objs) = Len(w) + 1 /\ Len(w) \in Nat
  BY <1>1
<1> HIDE DEF objs
<1>6. sp' = Where.at + SizeObject * Len(objs) /\ sp' < STKSEG_SIZE
  <2>1. sp' = b + 5 /\ b = Where.at + 5 * Len(w) /\ SizeObject = 5 /\ b + 5 < STKSEG_SIZE
    BY <1>1, <1>2, Sizes
  <2>2. Where.at \in Nat
    BY TopFacts
  <2>3. sp' = Where.at + 5 * Len(objs)
    BY <2>1, <2>2, <1>5
  <2> QED BY <2>1, <2>3
<1> QED BY <1>2, <1>3, <1>4, <1>5, <1>6, RegisterTypes, TopObjectsInv

\* What SAVE_ENV starts.
LEMMA OpenedActivation ==
  ASSUME Stack!Exec \in Nat, closure \in Closure \cup {NULL}
  PROVE  /\ Stack!Opened \in Activation
         /\ Stack!Opened.home = Stack!Exec /\ Stack!Opened.clo = closure
         /\ Stack!Opened.n = 0 /\ Stack!Opened.locs = 0
BY DEF Stack!Opened, Activation

\* An activation opened by a primitive is marked.
LEMMA ActivationApplied ==
  ASSUME NEW a \in Activation, NEW x \in BOOLEAN
  PROVE  [a EXCEPT !.applied = x] \in Activation
BY DEF Activation

\* What a primitive that applies a procedure starts.
LEMMA AppliedActivation ==
  ASSUME Stack!Exec \in Nat, closure \in Closure \cup {NULL}, pc \in Code,
         NEW objs \in Seq(Object)
  PROVE  LET a == Stack!AppliedTo(objs)
         IN  /\ a \in Activation /\ a.home = Stack!Exec /\ a.clo = closure /\ a.phase = "body"
             /\ a.n = 0 /\ a.locs = 0 /\ a.objs = objs /\ a.ret = pc /\ a.applied = TRUE
<1> DEFINE z == Stack!Opened
           y == [z EXCEPT !.objs = objs]
           x == [y EXCEPT !.phase = "body"]
           v == [x EXCEPT !.ret = pc]
           u == [v EXCEPT !.applied = TRUE]
<1>1. z \in Activation /\ z.home = Stack!Exec /\ z.clo = closure /\ z.n = 0 /\ z.locs = 0
  BY OpenedActivation
<1>2. Stack!AppliedTo(objs) = u
  BY DEF Stack!AppliedTo
<1> HIDE DEF z
<1>3. /\ y \in Activation /\ y.objs = objs /\ y.home = z.home /\ y.clo = z.clo
      /\ y.n = z.n /\ y.locs = z.locs
  BY <1>1, ActivationObjects
<1> HIDE DEF y
<1>4. /\ x \in Activation /\ x.objs = y.objs /\ x.home = y.home /\ x.clo = y.clo
      /\ x.n = y.n /\ x.locs = y.locs /\ x.phase = "body"
  <2>1. x \in Activation
    BY <1>3, ActivationInBody
  <2> QED BY <1>3, <2>1 DEF Activation
<1> HIDE DEF x
<1>5. /\ v \in Activation /\ v.objs = x.objs /\ v.home = x.home /\ v.clo = x.clo
      /\ v.n = x.n /\ v.locs = x.locs /\ v.phase = x.phase /\ v.ret = pc
  <2>1. v \in Activation
    BY <1>4, ActivationRet
  <2> QED BY <1>4, <2>1 DEF Activation
<1> HIDE DEF v
<1>6. /\ u \in Activation /\ u.objs = v.objs /\ u.home = v.home /\ u.clo = v.clo
      /\ u.n = v.n /\ u.locs = v.locs /\ u.phase = v.phase /\ u.ret = v.ret
      /\ u.applied = TRUE
  <2>1. u \in Activation
    <3>1. TRUE \in BOOLEAN
      OBVIOUS
    <3> QED BY <1>5, <3>1, ActivationApplied, Zenon
  <2>2. u.applied = TRUE
    BY <1>5, Zenon DEF Activation
  <2>3. /\ u.objs = v.objs /\ u.home = v.home /\ u.clo = v.clo
        /\ u.n = v.n /\ u.locs = v.locs /\ u.phase = v.phase /\ u.ret = v.ret
    BY <1>5 DEF Activation
  <2> QED BY <2>1, <2>2, <2>3
<1> HIDE DEF u
<1> QED BY <1>1, <1>2, <1>3, <1>4, <1>5, <1>6

\* VM_SAVE_ENV_SIMPLE in a primitive, with the arguments of the applied procedure.
LEMMA EntersInv ==
  ASSUME FrameInv, NEW k \in 1 .. 2, Operands(k), NEW objs \in Seq(Object), NEW entry \in Code,
         Fits(k, objs), Enters(k, objs, entry)
  PROVE  FrameInv'
<1> DEFINE w == Stack!Without(k)
           b == Base(k)
           n == Len(acts)
           A == WithObjects(acts, w)
           a == Stack!AppliedTo(objs)
           h == HeaderAt(b)
           m == Header(mem, b, pc, fp)
<1>1. /\ w \in Seq(Object) /\ b = Where.at + SizeObject * Len(w) /\ b \in Nat
      /\ Where.at <= b /\ ObjectsAt(mem, Where.at, w) /\ b + SizeObject < STKSEG_SIZE
  BY OperandsTaken
<1>2. /\ mem' = Filled(m, b + FPS, objs)
      /\ sp' = (b + FPS) + SizeObject * Len(objs) /\ fp' = b /\ local' = b + FPS
      /\ pc' = entry
      /\ acts' = Append(A, a) /\ hdr' = Append(hdr, h)
      /\ attr' = attr /\ closure' = closure /\ env' = env /\ stopped' = stopped
  BY DEF Enters, Filled, Stack!WithTop, Stack!Top, Top, WithObjects, WithNewest
<1>3. b + FPS + SizeObject * Len(objs) < STKSEG_SIZE
  BY DEF Fits
<1>4. /\ Layout(acts, hdr) /\ Contents(mem, acts, hdr) /\ IsMemory(mem) /\ n \in Nat \ {0}
      /\ Where = hdr[n] /\ n \in 1 .. n
      /\ Stack!Exec = ExecAt(acts, n) /\ Stack!Exec \in 1 .. n /\ fp \in Nat
  BY TopFacts
<1>5. /\ a \in Activation /\ a.home = ExecAt(acts, n) /\ a.clo = closure /\ a.phase = "body"
      /\ a.n = 0 /\ a.locs = 0 /\ a.objs = objs /\ a.ret = pc /\ a.applied = TRUE
  <2>2. Stack!Exec \in Nat /\ pc \in Code /\ closure \in Closure \cup {NULL}
    BY <1>4, RegisterTypes
  <2> HIDE DEF a
  <2>3. /\ a \in Activation /\ a.home = Stack!Exec /\ a.clo = closure /\ a.phase = "body"
        /\ a.n = 0 /\ a.locs = 0 /\ a.objs = objs /\ a.ret = pc /\ a.applied = TRUE
    BY <2>2, AppliedActivation, Zenon DEF a
  <2> QED BY <1>4, <2>3, Zenon
<1>6. /\ h \in FrameHeader /\ h.at = b + FPS /\ h.fp = fp /\ h.local = local /\ h.attr = attr
  BY <1>1, <1>4, RegisterTypes, Sizes DEF HeaderAt, FrameHeader
<1> HIDE DEF w, a, h, n
<1>7. /\ Layout(A, hdr) /\ Contents(mem, A, hdr) /\ Len(A) = n /\ SameBut(acts, A, n)
      /\ A[n].objs = w
      /\ Registers(A, hdr, n, b, fp, local, attr, closure)
  <2>1. /\ SameBelow(mem, mem, hdr[n].at) /\ ObjectsAt(mem, hdr[n].at, w)
        /\ hdr[n].at + SizeObject * Len(w) < STKSEG_SIZE
    <3>1. b < STKSEG_SIZE
      BY <1>1, Sizes, Size
    <3> QED BY <1>1, <1>4, <3>1 DEF SameBelow
  <2>2. Registers(acts, hdr, n, sp, fp, local, attr, closure)
    BY DEF FrameInv, n
  <2>3. b = hdr[n].at + SizeObject * Len(w)
    BY <1>1, <1>4
  <2> HIDE DEF A, b
  <2>4. /\ Layout(A, hdr) /\ Contents(mem, A, hdr) /\ Len(A) = n /\ SameBut(acts, A, n)
        /\ A[n].objs = w
        /\ \A s, f, l, t, c :
             Registers(acts, hdr, n, s, f, l, t, c)
               => Registers(A, hdr, n, hdr[n].at + SizeObject * Len(w), f, l, t, c)
    BY <1>1, <1>4, <2>1, TopObjects DEF A, n
  <2> QED BY <2>2, <2>3, <2>4
<1>8. ExecAt(A, n) = ExecAt(acts, n)
  <2>1. A[n].phase = acts[n].phase /\ A[n].home = acts[n].home
    <3>1. acts[n] \in Activation /\ acts \in Seq(Activation) /\ n \in 1 .. Len(acts)
      BY TopFacts DEF n
    <3>2. A[n] = [acts[n] EXCEPT !.objs = w]
      BY <3>1 DEF WithObjects, WithNewest, n
    <3> QED BY <1>1, <3>1, <3>2, ActivationObjects
  <2> QED BY <2>1 DEF ExecAt
<1> HIDE DEF A, b, m
<1>9. /\ IsMemory(m) /\ SameBelow(mem, m, b)
      /\ FrameHolds(m, b, pc, local, fp, attr, closure)
  <2>1. b + FPS <= STKSEG_SIZE
    <3>1. Len(objs) \in Nat
      OBVIOUS
    <3>2. b + 11 + 5 * Len(objs) < STKSEG_SIZE /\ b \in Nat
      BY <1>1, <1>3, Sizes, Zenon
    <3> QED BY <3>1, <3>2, Sizes, Size
  <2> QED BY <1>1, <1>4, <2>1, HeaderWritten DEF m
<1>10. /\ ObjectsAt(mem', b + FPS, objs) /\ IsMemory(mem') /\ SameBelow(m, mem', b + FPS)
  <2>1. b + FPS \in Nat /\ (b + FPS) + SizeObject * Len(objs) <= STKSEG_SIZE
    BY <1>1, <1>3, Sizes, Size
  <2> QED BY <1>2, <1>9, <2>1, FilledObjects
<1>11. FrameHolds(mem', b, pc, local, fp, attr, closure)
  <2>1. SameBelow(m, mem', b + 11)
    BY <1>10, Sizes
  <2> QED BY <1>1, <1>9, <2>1, FrameSame
<1>12. SameBelow(mem, mem', b)
  BY <1>1, <1>9, <1>10, Sizes DEF SameBelow
<1>13. FrameOpens(A, hdr, mem, b, fp, local, attr, closure, a, h, mem', fp)
  <2>1. /\ FrameHolds(mem', b, ReturnOf(a), local, fp, attr, closure) /\ a.ret \in Code
        /\ a.phase # "args" /\ a.home = ExecAt(A, Len(A))
    BY <1>5, <1>7, <1>8, <1>11, RegisterTypes DEF ReturnOf
  <2>2. /\ Registers(A, hdr, Len(A), b, fp, local, attr, closure)
        /\ ObjectsAt(mem', b + FPS, a.objs) /\ b + FPS + SizeObject * Len(a.objs) < STKSEG_SIZE
        /\ fp # NO_PREV_FP
    BY <1>3, <1>5, <1>7, <1>10, RegisterTypes
  <2> QED BY <1>5, <1>6, <1>7, <1>10, <1>12, <2>1, <2>2, Zenon DEF FrameOpens
<1>14. FramePushed(A, hdr, a, h, acts', hdr')
  BY <1>2 DEF FramePushed
<1>15. /\ Layout(acts', hdr') /\ Contents(mem', acts', hdr') /\ Len(acts') = n + 1
       /\ End(acts', hdr', n + 1) = b + FPS + SizeObject * Len(a.objs)
       /\ acts'[n + 1] = a /\ hdr'[n + 1] = h
  <2>1. /\ Layout(acts', hdr') /\ Contents(mem', acts', hdr') /\ Len(acts') = Len(A) + 1
        /\ End(acts', hdr', Len(A) + 1) = b + FPS + SizeObject * Len(a.objs)
        /\ acts'[Len(A) + 1] = a /\ hdr'[Len(A) + 1] = h
    BY <1>13, <1>14, FrameOpened
  <2> QED BY <1>7, <2>1
<1>16. Registers(acts', hdr', n + 1, sp', fp', local', attr', closure')
  <2>1. ExecAt(acts', n + 1) = n + 1 /\ acts'[n + 1].phase = "body" /\ acts'[n + 1].locs = 0
    BY <1>5, <1>15 DEF ExecAt
  <2>2. /\ sp' = End(acts', hdr', n + 1) /\ hdr'[n + 1].at = b + FPS
    BY <1>2, <1>5, <1>6, <1>15
  <2>b. attr' = attr /\ closure' = closure
    BY <1>2
  <2>a. b + 11 - 11 = b /\ b + 11 + 5 * 0 = b + 11 /\ n + 1 # 1
    BY <1>1, <1>4
  <2>3. /\ fp' = hdr'[n + 1].at - FPS /\ n + 1 # 1
        /\ local' = hdr'[n + 1].at + SizeObject * 0
    <3>1. fp' = b /\ local' = b + 11
      BY <1>2, Sizes
    <3>2. hdr'[n + 1].at = b + 11
      BY <2>2, Sizes
    <3> DEFINE z == hdr'[n + 1].at
    <3> HIDE DEF z
    <3>3. b \in Nat /\ z = b + 11
      BY <1>1, <3>2 DEF z
    <3>4. b = z - 11 /\ b + 11 = z + 5 * 0
      BY <3>3
    <3>5. fp' = z - FPS /\ local' = z + SizeObject * 0
      BY <3>1, <3>4, Sizes, Zenon
    <3> QED BY <3>5, <2>a DEF z
  <2>4. /\ fp' = (IF n + 1 = 1 THEN 0 ELSE hdr'[n + 1].at - FPS)
        /\ local' = hdr'[n + 1].at + SizeObject * acts'[n + 1].locs
    BY <2>1, <2>3, Zenon
  <2> QED BY <2>1, <2>2, <2>4, Zenon DEF Registers
<1>17. /\ attr' \in Attr /\ closure' \in Closure \cup {NULL} /\ pc' \in Code
       /\ env' \in [Closure -> Seq(Object)] /\ stopped' \in BOOLEAN
  BY <1>2, RegisterTypes
<1> QED BY <1>15, <1>16, <1>17 DEF FrameInv

\* The newest loop of apply_proc has an entry and a number of elements left.
LEMMA RunTypes ==
  ASSUME RunsFit, InRun
  PROVE  Run.entry \in Code /\ Run.left \in Nat /\ Len(runs) \in DOMAIN runs
<1> DEFINE R == [prim : {"map", "thunk", "VM_EXCPT", "VM_EXCPT_CONT"}, entry : Code,
                 left : Nat, depth : Nat]
<1>1. runs \in Seq(R) /\ runs # <<>>
  BY DEF InRun, RunsFit
<1>2. Run \in R /\ Len(runs) \in DOMAIN runs
  <2> HIDE DEF R
  <2> QED BY <1>1 DEF Run
<1>3. Run.entry \in Code /\ Run.left \in Nat
  BY <1>2
<1> QED BY <1>2, <1>3

\* The frame that such a loop waits for is the newest, and a primitive's.
LEMMA OwnFrame ==
  ASSUME FrameInv, RunsFit, Own
  PROVE  Len(acts) > 1 /\ Top.applied /\ Run.entry \in Code /\ Run.left \in Nat
<1>1. /\ runs # <<>> /\ Len(acts) = Run.depth
      /\ runs \in Seq([prim : {"map", "thunk", "VM_EXCPT", "VM_EXCPT_CONT"}, entry : Code,
                       left : Nat, depth : Nat])
  BY DEF Own, InRun, RunsFit
<1>2. Len(runs) \in DOMAIN runs
  BY <1>1
<1>3. Run.depth \in 2 .. Len(acts) /\ acts[Run.depth].applied
  BY <1>2 DEF RunsFit, Run
<1>4. Len(acts) > 1
  BY <1>3, TopFacts
<1>5. Top.applied
  BY <1>1, <1>3 DEF Top
<1>6. Run.entry \in Code /\ Run.left \in Nat
  BY <1>1, RunTypes DEF Own
<1> QED BY <1>4, <1>5, <1>6

\* The elements of a sequence with one more.
LEMMA Appended ==
  ASSUME NEW S, NEW seq \in Seq(S), NEW y \in S
  PROVE  /\ Append(seq, y) \in Seq(S) /\ Len(Append(seq, y)) = Len(seq) + 1
         /\ Append(seq, y)[Len(seq) + 1] = y
         /\ \A i \in 1 .. Len(seq) : Append(seq, y)[i] = seq[i]
OBVIOUS

\* A sequence of two.
LEMMA PairAppended ==
  ASSUME NEW S, NEW x \in S, NEW y \in S
  PROVE  Append(<<x>>, y) = <<x, y>>
<1> DEFINE one == <<x>>
           two == <<x, y>>
           end == Append(one, y)
<1>1. one \in Seq(S) /\ Len(one) = 1 /\ one[1] = x
  OBVIOUS
<1>2. two \in Seq(S) /\ Len(two) = 2 /\ two[1] = x /\ two[2] = y
  OBVIOUS
<1> HIDE DEF one, two
<1>3. /\ end \in Seq(S) /\ Len(end) = Len(one) + 1 /\ end[Len(one) + 1] = y
      /\ \A i \in 1 .. Len(one) : end[i] = one[i]
  <2>1. one \in Seq(S) /\ y \in S
    BY <1>1
  <2> QED BY <2>1, Appended
<1> HIDE DEF end
<1>4. \A i \in 1 .. 2 : end[i] = two[i]
  BY <1>1, <1>2, <1>3
<1>5. end = two
  BY <1>1, <1>2, <1>3, <1>4
<1> QED BY <1>5 DEF end, one, two

\* Pushing two objects.
LEMMA TwoObjects ==
  ASSUME NEW m, IsMemory(m), NEW at \in Nat, NEW x \in Object, NEW y \in Object,
         at + 10 <= STKSEG_SIZE
  PROVE  LET p == Put(Put(m, at, SizeObject, x), at + SizeObject, SizeObject, y)
         IN  ObjectsAt(p, at, <<x, y>>) /\ IsMemory(p) /\ SameBelow(m, p, at)
<1> DEFINE q == Put(m, at, SizeObject, x)
           none == <<>>
           one == <<x>>
           up == at + SizeObject
           p == Put(q, up, SizeObject, y)
<1>1. /\ ObjectsAt(m, at, none) /\ none \in Seq(Object) /\ Len(none) = 0
      /\ Append(none, x) = one /\ one \in Seq(Object) /\ Len(one) = 1
      /\ Append(one, y) = <<x, y>>
  <2>1. ObjectsAt(m, at, none)
    BY DEF ObjectsAt
  <2>2. none \in Seq(Object) /\ Len(none) = 0 /\ one \in Seq(Object) /\ Len(one) = 1
    OBVIOUS
  <2>3. Append(none, x) = one
    OBVIOUS
  <2>4. Append(one, y) = <<x, y>>
    BY PairAppended DEF one
  <2> HIDE DEF none, one
  <2> QED BY <2>1, <2>2, <2>3, <2>4
<1>2. /\ at = at + 5 * 0 /\ at + 5 = at + 5 * 1 /\ SizeObject = 5 /\ up = at + 5
      /\ at + SizeObject <= STKSEG_SIZE /\ up + SizeObject <= STKSEG_SIZE /\ up \in Nat
  BY Sizes, Size
<1> HIDE DEF q, none, one, up
<1>3. at = at + SizeObject * Len(none) /\ up = at + SizeObject * Len(one)
  BY <1>1, <1>2, Zenon
<1>4. ObjectsAt(q, at, Append(none, x)) /\ IsMemory(q) /\ SameBelow(m, q, at)
  <2>1. /\ none \in Seq(Object) /\ ObjectsAt(m, at, none)
        /\ at = at + SizeObject * Len(none) /\ at + SizeObject <= STKSEG_SIZE
    BY <1>1, <1>2, <1>3
  <2> QED BY <2>1, ObjectPushed DEF q
<1>5. ObjectsAt(q, at, one)
  BY <1>1, <1>4, Zenon
<1>6. ObjectsAt(p, at, Append(one, y)) /\ IsMemory(p) /\ SameBelow(q, p, up)
  <2>1. /\ one \in Seq(Object) /\ ObjectsAt(q, at, one) /\ IsMemory(q)
        /\ up = at + SizeObject * Len(one) /\ up + SizeObject <= STKSEG_SIZE
    BY <1>1, <1>2, <1>3, <1>4, <1>5
  <2> QED BY <2>1, ObjectPushed
<1>7. SameBelow(m, p, at)
  BY <1>2, <1>4, <1>6 DEF SameBelow
<1>8. ObjectsAt(p, at, <<x, y>>)
  BY <1>1, <1>6, Zenon
<1> QED BY <1>6, <1>7, <1>8 DEF q, up

\* The next element of map: the procedure is applied again in the same frame.
LEMMA MapRoundInv ==
  ASSUME FrameInv, RunsFit, NEW e \in Listed, MapRound(e)
  PROVE  FrameInv'
<1>1. CASE RoundAt + 2 * SizeObject >= STKSEG_SIZE
  BY <1>1, Overflowed DEF MapRound, Exhausted
<1>2. CASE ~(RoundAt + 2 * SizeObject >= STKSEG_SIZE)
  <2> DEFINE two == <<Prim, e>>
             a == AsAgain(Top, two, 0)
  <2>1. /\ Len(acts) > 1 /\ Top.phase = "body" /\ Run.entry \in Code
        /\ closure = NULL
    BY OwnFrame DEF MapRound, Ends, Plain, Stack!InBody, Top, Stack!Top
  <2>2. /\ mem' = Put(Put(mem, local, SizeObject, Prim), local + SizeObject, SizeObject, e)
        /\ sp' = local + 2 * SizeObject /\ pc' = Run.entry
        /\ fp' = fp /\ local' = local /\ attr' = attr /\ closure' = closure /\ env' = env
        /\ stopped' = stopped /\ hdr' = hdr
    BY <1>2 DEF MapRound, RoundAt
  <2>3. acts' = WithNewest(acts, a)
    BY <1>2 DEF MapRound, Stack!WithTop, WithNewest, AsAgain, Top, Stack!Top
  <2>4. Top.locs = 0 /\ local = Where.at /\ Where.at \in Nat /\ Where.at + 10 < STKSEG_SIZE
    <3>1. local = Where.at + SizeObject * Top.locs /\ Top.locs = 0
      BY <2>1, BodyLocal
    <3>2. Where.at \in Nat /\ Where.at = Where.at + 5 * 0
      BY TopFacts
    <3>3. local = Where.at
      BY <3>1, <3>2, Sizes, Zenon
    <3>4. local + 10 < STKSEG_SIZE
      BY <1>2, <3>2, <3>3, Sizes, Size DEF RoundAt
    <3> QED BY <3>1, <3>2, <3>3, <3>4
  <2>5. Prim \in Object /\ e \in Object /\ two \in Seq(Object) /\ Len(two) = 2
    BY HigherOrderAssumption
  <2>6. /\ ObjectsAt(mem', Where.at, two) /\ IsMemory(mem') /\ SameBelow(mem, mem', Where.at)
    <3>1. Where.at + 10 <= STKSEG_SIZE /\ IsMemory(mem)
      BY <2>4, Size, TopFacts
    <3> QED BY <2>2, <2>4, <2>5, <3>1, TwoObjects
  <2> HIDE DEF two
  <2>7. Top \in Activation
    BY TopFacts
  <2>8. /\ a \in Activation /\ a.objs = two /\ a.locs = 0 /\ a.phase = "body" /\ a.ret = Top.ret
        /\ a.home = Top.home /\ a.clo = Top.clo /\ a.applied = Top.applied
    BY <2>1, <2>5, <2>7, ActivationAgain
  <2> HIDE DEF a
  <2>9. /\ Top.ret \in Code /\ fp \in Nat /\ fp + 11 = Where.at /\ ReturnOf(Top) = Top.ret
        /\ \E last : /\ FrameHolds(mem, fp, Top.ret, Where.local, last, Where.attr, Top.clo)
                     /\ SavedFp(last)
    BY <2>1, FrameReads, Sizes DEF ReturnOf
  <2>10. PICK last : /\ FrameHolds(mem, fp, Top.ret, Where.local, last, Where.attr, Top.clo)
                     /\ SavedFp(last)
    BY <2>9
  <2>11. /\ FrameHolds(mem', fp, Top.ret, Where.local, last, Where.attr, Top.clo)
         /\ SameBelow(mem, mem', fp)
    <3>1. SameBelow(mem, mem', fp + 11)
      BY <2>6, <2>9
    <3>2. FrameHolds(mem', fp, Top.ret, Where.local, last, Where.attr, Top.clo)
      BY <2>9, <2>10, <3>1, FrameSame
    <3>3. SameBelow(mem, mem', fp)
      BY <2>4, <2>6, <2>9, SameLess
    <3> QED BY <3>2, <3>3
  <2>12. sp' = Where.at + SizeObject * Len(a.objs) /\ sp' < STKSEG_SIZE
    <3>1. sp' = Where.at + 5 * 2 /\ sp' < STKSEG_SIZE
      BY <2>2, <2>4, Sizes
    <3> QED BY <3>1, <2>5, <2>8, Sizes, Zenon
  <2>13. local' = Where.at + SizeObject * a.locs
    <3>1. Where.at = Where.at + 5 * 0
      BY <2>4
    <3> QED BY <3>1, <2>2, <2>4, <2>8, Sizes
  <2>14. BodyNext(a, last)
    BY <2>2, <2>3, <2>6, <2>8, <2>9, <2>10, <2>11, <2>12, <2>13, Zenon DEF BodyNext
  <2>15. TypesNext
    BY <2>1, <2>2, RegisterTypes DEF TypesNext
  <2> QED BY <2>1, <2>14, <2>15, BodyInv
<1> QED BY <1>1, <1>2

\* A primitive that applies a procedure keeps the invariant: it panics, or enters the frame.
LEMMA AppliesInv ==
  ASSUME FrameInv, NEW k \in 1 .. 2, Operands(k), NEW objs \in Seq(Object), NEW entry \in Code,
         NEW run, Applies(k, objs, entry, run)
  PROVE  FrameInv'
<1>1. CASE Fits(k, objs)
  BY <1>1, EntersInv DEF Applies
<1>2. CASE ~Fits(k, objs)
  BY <1>2, Overflowed DEF Applies, Exhausted
<1> QED BY <1>1, <1>2

\* map and for-each with their first element,
LEMMA MapInv ==
  ASSUME FrameInv, NEW n \in Nat, NEW entry \in Entry, NEW e \in Listed, Map(n, entry, e)
  PROVE  FrameInv'
<1>1. /\ Operands(2) /\ 2 \in 1 .. 2 /\ entry \in Code /\ e \in Object
      /\ <<Prim, e>> \in Seq(Object)
  BY HigherOrderAssumption DEF Map
<1>2. CASE n = 0
  BY <1>1, <1>2, LeavesInv, Overflowed DEF Map, Exhausted
<1>3. CASE n # 0
  <2> DEFINE run == [prim |-> "map", entry |-> entry, left |-> n - 1, depth |-> Len(acts) + 1]
             two == <<Prim, e>>
  <2>1. Applies(2, two, entry, run)
    BY <1>3 DEF Map
  <2> HIDE DEF run, two
  <2>2. two \in Seq(Object)
    BY <1>1 DEF two
  <2> QED BY <1>1, <2>1, <2>2, AppliesInv
<1> QED BY <1>2, <1>3

\* ... with-exception-handler,
LEMMA WithExceptionHandlerInv ==
  ASSUME FrameInv, NEW h \in Entry, NEW t \in Entry, WithExceptionHandler(h, t)
  PROVE  FrameInv'
<1> DEFINE run == [prim |-> "thunk", entry |-> h, left |-> 0, depth |-> Len(acts) + 1]
           one == <<Prim>>
<1>1. Operands(2) /\ 2 \in 1 .. 2 /\ t \in Code /\ one \in Seq(Object)
  BY HigherOrderAssumption DEF WithExceptionHandler
<1>2. Applies(2, one, t, run)
  BY DEF WithExceptionHandler
<1> HIDE DEF run, one
<1> QED BY <1>1, <1>2, AppliesInv

\* ... raise, which applies the handler,
LEMMA RaiseInv ==
  ASSUME FrameInv, RunsFit, NEW excpt, Raise(excpt)
  PROVE  FrameInv'
<1>1. CASE ~InRun
  <2>1. /\ mem' = mem /\ sp' = sp /\ fp' = fp /\ local' = local /\ pc' = pc /\ attr' = attr
        /\ closure' = closure /\ env' = env /\ stopped' = stopped /\ acts' = acts /\ hdr' = hdr
    BY <1>1 DEF Raise, vars, regs
  <2> QED BY <2>1 DEF FrameInv
<1>2. CASE InRun
  <2> DEFINE o == Get(mem, sp - SizeObject, SizeObject)
             two == <<Prim, o>>
             run == [prim |-> excpt, entry |-> Run.entry, left |-> 0, depth |-> Len(acts) + 1]
  <2>1. Top.objs # <<>> /\ Applies(1, two, Run.entry, run)
    BY <1>2 DEF Raise
  <2>2. o \in Object /\ Operands(1) /\ 1 \in 1 .. 2
    BY <2>1, TopObject DEF Operands
  <2>3. two \in Seq(Object)
    <3> HIDE DEF o
    <3> QED BY <2>2, HigherOrderAssumption
  <2> HIDE DEF two, run
  <2>4. Run.entry \in Code
    BY <1>2, RunTypes
  <2> QED BY <2>1, <2>2, <2>3, <2>4, AppliesInv
<1> QED BY <1>1, <1>2

\* ... map at its last element, which leaves its frame with the list,
LEMMA MapEndInv ==
  ASSUME FrameInv, RunsFit, NEW e \in Listed, MapEnd(e)
  PROVE  FrameInv' /\ (Exhausted \/ Closes(e))
<1>1. CASE local + SizeObject >= STKSEG_SIZE
  BY <1>1, Overflowed DEF MapEnd, Exhausted
<1>2. CASE ~(local + SizeObject >= STKSEG_SIZE)
  <2>1. /\ Len(acts) > 1 /\ Top.phase = "body" /\ Top.applied /\ RestoreSimple(e)
        /\ e \in Object
    BY <1>2, OwnFrame, HigherOrderAssumption
       DEF MapEnd, Ends, Stack!InBody, Top, Stack!Top
  <2> QED BY <2>1, RestoreSimpleInv
<1> QED BY <1>1, <1>2

\* ... the end of a thunk, whose result is the primitive's,
LEMMA ThunkEndInv ==
  ASSUME FrameInv, RunsFit, ThunkEnd
  PROVE  FrameInv' /\ Closes(Top.objs[Len(Top.objs)])
<1>1. /\ Len(acts) > 1 /\ Top.phase = "body" /\ Top.applied /\ Top.objs # <<>>
      /\ RestoreSimple(Get(mem, sp - SizeObject, SizeObject))
  BY OwnFrame DEF ThunkEnd, Ends, Stack!InBody, Top, Stack!Top
<1>2. /\ Get(mem, sp - SizeObject, SizeObject) = Top.objs[Len(Top.objs)]
      /\ Top.objs[Len(Top.objs)] \in Object
  BY <1>1, TopObject
<1>3. RestoreSimple(Top.objs[Len(Top.objs)])
  BY <1>1, <1>2, Zenon
<1> QED BY <1>1, <1>2, <1>3, RestoreSimpleInv

\* ... apply of a primitive.
LEMMA ApplyPrimitiveInv ==
  ASSUME FrameInv, NEW e \in Listed, ApplyPrimitive(e)
  PROVE  FrameInv'
<1>1. Operands(2) /\ 2 \in 1 .. 2 /\ Leaves(2, e) /\ e \in Object
  BY HigherOrderAssumption DEF ApplyPrimitive
<1> QED BY <1>1, LeavesInv

\* Which object a byte belongs to.
LEMMA Quotient ==
  ASSUME NEW n \in Nat, NEW d \in 0 .. 5 * n - 1
  PROVE  d \div 5 + 1 \in 1 .. n
OBVIOUS

\* n times the object e.
Copies(e, n) == [k \in 1 .. n |-> e]

\* What ApplyClosure makes of memory.
Pasted(m, at, e, n) ==
  [i \in DOMAIN m |->
     IF i \in at .. at + SizeObject * n - 1
     THEN Byte(e, (i - at) % SizeObject, SizeObject) ELSE m[i]]

\* The arguments of apply, pushed at once.
LEMMA FilledCopies ==
  ASSUME NEW m, NEW at \in Nat, NEW n \in Nat, NEW e \in Object
  PROVE  /\ Filled(m, at, Copies(e, n)) = Pasted(m, at, e, n)
         /\ Copies(e, n) \in Seq(Object) /\ Len(Copies(e, n)) = n
<1> DEFINE args == Copies(e, n)
<1>1. args \in Seq(Object) /\ Len(args) = n /\ \A k \in 1 .. n : args[k] = e
  BY DEF Copies
<1> HIDE DEF args
<1>2. ASSUME NEW i \in DOMAIN m, i \in at .. at + 5 * n - 1
      PROVE  args[(i - at) \div 5 + 1] = e
  <2> DEFINE d == i - at
  <2>1. d \in 0 .. 5 * n - 1
    BY <1>2
  <2> HIDE DEF d
  <2>2. d \div 5 + 1 \in 1 .. n
    BY <2>1, Quotient
  <2>3. args[d \div 5 + 1] = e
    BY <1>1, <2>2
  <2> QED BY <2>3 DEF d
<1>3. [i \in DOMAIN m |->
         IF i \in at .. at + 5 * n - 1
         THEN Byte(args[(i - at) \div 5 + 1], (i - at) % 5, 5) ELSE m[i]]
      = [i \in DOMAIN m |->
           IF i \in at .. at + 5 * n - 1 THEN Byte(e, (i - at) % 5, 5) ELSE m[i]]
  BY <1>2, Zenon
<1>4. Filled(m, at, args)
        = [i \in DOMAIN m |->
             IF i \in at .. at + 5 * n - 1
             THEN Byte(args[(i - at) \div 5 + 1], (i - at) % 5, 5) ELSE m[i]]
  BY <1>1, Sizes, Zenon DEF Filled
<1>5. Filled(m, at, args) = Pasted(m, at, e, n)
  BY <1>3, <1>4, Sizes, Zenon DEF Pasted
<1> QED BY <1>1, <1>5 DEF args

\* Objects above objects are one row of objects.
LEMMA ObjectsJoined ==
  ASSUME NEW m, NEW at \in Nat, NEW x \in Seq(Object), NEW y \in Seq(Object),
         ObjectsAt(m, at, x), NEW b, Extent(b, at, Len(x)), ObjectsAt(m, b, y)
  PROVE  /\ ObjectsAt(m, at, x \o y) /\ x \o y \in Seq(Object)
         /\ b + SizeObject * Len(y) = at + SizeObject * Len(x \o y)
<1> DEFINE z == x \o y
           p == Len(x)
           q == Len(y)
<1>1. /\ z \in Seq(Object) /\ Len(z) = p + q /\ p \in Nat /\ q \in Nat
      /\ \A k \in 1 .. p : z[k] = x[k]
      /\ \A k \in 1 .. q : z[k + p] = y[k]
  BY ConcatElements
<1> HIDE DEF z, p, q
<1>2. SizeObject = 5 /\ b = at + 5 * p
  BY Sizes DEF p, Extent
<1>3. b + 5 * q = at + 5 * (p + q)
  BY <1>1, <1>2
<1>4. ASSUME NEW k \in 1 .. p + q
      PROVE  Holds(m, at + 5 * (k - 1), 5, z[k])
  <2>1. CASE k \in 1 .. p
    BY <2>1, <1>1, <1>2 DEF ObjectsAt, p
  <2>2. CASE k \notin 1 .. p
    <3> DEFINE j == k - p
    <3>1. j \in 1 .. q /\ j + p = k
      BY <2>2, <1>1
    <3>2. b + 5 * (j - 1) = at + 5 * (k - 1)
      BY <3>1, <1>1, <1>2
    <3> HIDE DEF j
    <3>3. Holds(m, b + 5 * (j - 1), 5, y[j])
      BY <3>1, <1>2 DEF ObjectsAt, q
    <3>4. z[k] = y[j]
      BY <3>1, <1>1
    <3> QED BY <3>2, <3>3, <3>4, Zenon
  <2> QED BY <2>1, <2>2
<1>5. ObjectsAt(m, at, z)
  BY <1>1, <1>2, <1>4 DEF ObjectsAt
<1>6. b + SizeObject * Len(y) = at + SizeObject * Len(z)
  BY <1>1, <1>2, <1>3, Zenon DEF q
<1> QED BY <1>1, <1>5, <1>6 DEF z

\* apply of a closure, in the frame of its caller.
LEMMA ApplyClosureInv ==
  ASSUME FrameInv, NEW c \in Closure, NEW e \in Listed, ApplyClosure(c, e)
  PROVE  FrameInv'
<1> DEFINE n == ClosureArity[c]
           at == Base(2)
           args == Copies(e, n)
           w == Stack!Without(2)
           objs == w \o args
           m == Len(Top.objs) - 2
           a == AsBecome(Top, objs, m)
<1>1. CASE at + SizeObject * n >= STKSEG_SIZE
  BY <1>1, Overflowed DEF ApplyClosure, Exhausted
<1>2. CASE ~(at + SizeObject * n >= STKSEG_SIZE)
  <2>1. /\ Operands(2) /\ 2 \in 1 .. 2 /\ Len(acts) > 1 /\ Top.phase \in {"body", "tail"}
        /\ attr.shadow = 0 /\ n \in Nat /\ e \in Object /\ c # NULL /\ ClosureEntry[c] \in Code
    BY ClosureTypes, HigherOrderAssumption DEF ApplyClosure
  <2>2. /\ sp' = at + SizeObject * n /\ local' = at /\ closure' = c /\ pc' = ClosureEntry[c]
        /\ fp' = fp /\ attr' = attr /\ env' = env /\ stopped' = stopped /\ hdr' = hdr
    BY <1>2 DEF ApplyClosure
  <2>3. acts' = WithNewest(acts, a)
    BY <1>2 DEF ApplyClosure, Stack!WithTop, Stack!Top, Top, WithNewest, AsBecome, Copies
  <2>4. mem' = Pasted(mem, at, e, n)
    BY <1>2 DEF ApplyClosure, Pasted
  <2>5. /\ w \in Seq(Object) /\ Len(w) = m /\ at = Where.at + SizeObject * Len(w)
        /\ at \in Nat /\ Where.at <= at /\ ObjectsAt(mem, Where.at, w)
        /\ Where.at \in Nat /\ IsMemory(mem) /\ Top \in Activation
    BY <2>1, OperandsTaken, TopFacts
  <2>6. m \in Nat
    BY <2>5
  <2> HIDE DEF n, at, w, m
  <2>7. mem' = Filled(mem, at, args) /\ args \in Seq(Object) /\ Len(args) = n
    <3>1. /\ Filled(mem, at, args) = Pasted(mem, at, e, n)
          /\ args \in Seq(Object) /\ Len(args) = n
      BY <2>1, <2>5, FilledCopies
    <3> HIDE DEF args
    <3>2. mem' = Filled(mem, at, args)
      BY <2>4, <3>1, Zenon
    <3> QED BY <3>1, <3>2
  <2> HIDE DEF args
  <2>8. /\ ObjectsAt(mem', at, args) /\ IsMemory(mem') /\ SameBelow(mem, mem', at)
    <3>1. at + SizeObject * Len(args) <= STKSEG_SIZE
      BY <1>2, <2>1, <2>5, <2>7, Sizes, Size DEF n, at
    <3> QED BY <2>5, <2>7, <3>1, FilledObjects
  <2>9. ObjectsAt(mem', Where.at, w)
    <3>1. SameOn(mem, mem', Where.at, at) /\ Where.at + SizeObject * Len(w) <= at
      BY <2>5, <2>8, SameBelowOn
    <3> QED BY <2>5, <3>1, ObjectsSame
  <2>10. /\ ObjectsAt(mem', Where.at, objs) /\ objs \in Seq(Object)
         /\ at + SizeObject * Len(args) = Where.at + SizeObject * Len(objs)
    <3>1. Extent(at, Where.at, Len(w))
      BY <2>5, Sizes DEF Extent
    <3> QED BY <2>5, <2>7, <2>8, <2>9, <3>1, ObjectsJoined
  <2> HIDE DEF objs
  <2>11. /\ a \in Activation /\ a.objs = objs /\ a.locs = m /\ a.phase = "body"
         /\ a.ret = Top.ret /\ a.home = Top.home /\ a.clo = Top.clo /\ a.applied = Top.applied
    BY <2>5, <2>6, <2>10, ActivationBecome
  <2> HIDE DEF a
  <2>12. /\ Top.ret \in Code /\ fp \in Nat /\ fp + 11 = Where.at /\ ReturnOf(Top) = Top.ret
         /\ \E last : /\ FrameHolds(mem, fp, Top.ret, Where.local, last, Where.attr, Top.clo)
                      /\ SavedFp(last)
    BY <2>1, FrameReads, Sizes DEF ReturnOf
  <2>13. PICK last : /\ FrameHolds(mem, fp, Top.ret, Where.local, last, Where.attr, Top.clo)
                     /\ SavedFp(last)
    BY <2>12
  <2>14. /\ FrameHolds(mem', fp, Top.ret, Where.local, last, Where.attr, Top.clo)
         /\ SameBelow(mem, mem', fp)
    <3>1. SameBelow(mem, mem', fp + 11) /\ SameBelow(mem, mem', fp)
      BY <2>5, <2>8, <2>12, SameLess
    <3>2. FrameHolds(mem', fp, Top.ret, Where.local, last, Where.attr, Top.clo)
      BY <2>12, <2>13, <3>1, FrameSame
    <3> QED BY <3>1, <3>2
  <2>15. sp' = Where.at + SizeObject * Len(a.objs) /\ local' = Where.at + SizeObject * a.locs
    BY <2>2, <2>5, <2>7, <2>10, <2>11, Zenon
  <2>16. sp' < STKSEG_SIZE
    BY <1>2, <2>1, <2>2, <2>5, Sizes, Size DEF n, at
  <2>17. BodyNext(a, last)
    <3>1. a.phase # "args" /\ a.phase # "tail" /\ a.phase # "loop" /\ closure' # NULL
      BY <2>1, <2>2, <2>11
    <3> QED BY <2>2, <2>3, <2>8, <2>10, <2>11, <2>12, <2>13, <2>14, <2>15, <2>16, <3>1, Zenon
            DEF BodyNext
  <2>18. TypesNext
    BY <2>1, <2>2, RegisterTypes DEF TypesNext
  <2> QED BY <2>1, <2>17, <2>18, BodyInv
<1> QED BY <1>1, <1>2

------------------------------------------------------------------------------
(* Every step.                                                              *)

\* Every instruction keeps the invariant.
LEMMA InstructionInv ==
  ASSUME FrameInv, TailArities \subseteq 0 .. 31, Instruction
  PROVE  FrameInv'
<1>1. CASE \E o \in Object : PushConst(o)
  BY <1>1, PushObjectInv DEF PushConst
<1>2. CASE \E k \in 0 .. MaxVar : LocalRef(k) \/ LocalAssign(k)
  <2>1. PICK k \in 0 .. MaxVar : LocalRef(k) \/ LocalAssign(k)
    BY <1>2, Zenon
  <2>2. k \in Nat
    BY <2>1, FramesAssumption
  <2> QED BY <2>1, <2>2, LocalRefInv, LocalAssignInv
<1>3. CASE \E l \in Code : Drop(l) \/ Jump(l) \/ CallProc(l)
  BY <1>3, DropInv, JumpInv, CallProcInv
<1>4. CASE SaveEnvNormal \/ SaveEnvTailCall
  BY <1>4, SaveEnvNormalInv, SaveEnvTailCallInv
<1>5. CASE \E n \in TailArities : SaveEnvTailRec(n)
  BY <1>5, SaveEnvTailRecInv
<1>6. CASE \E c \in Closure : CallClosure(c)
  BY <1>6, CallClosureInv
<1> QED BY <1>1, <1>2, <1>3, <1>4, <1>5, <1>6, Zenon DEF Instruction

------------------------------------------------------------------------------
(* Every step is one of the abstract machine.                               *)

\* Steps that leave no activation.
Forward ==
  \/ \E o \in Object : Stack!Push(o)
  \/ \E k \in 0 .. MaxVar : Stack!Ref(k) \/ Stack!Assign(k)
  \/ \E l \in Code : Stack!Drop(l) \/ Stack!Jump(l) \/ Stack!CallProc(l)
  \/ Stack!Open \/ Stack!OpenTail
  \/ \E n \in TailArities : Stack!OpenLoop(n)
  \/ \E c \in Closure : Stack!CallClosure(c)
  \/ \E m \in 1 .. Stack!MaxOperands, o, p \in Object, l \in Code :
       \/ Stack!Apply(m, <<o>>, l) \/ Stack!Apply(m, <<o, p>>, l) \/ Stack!ApplyAgain(<<o, p>>, l)
       \/ Stack!Compute(m, o)
       \/ \E c \in Closure : Stack!Become(m, c, [k \in 1 .. ClosureArity[c] |-> o])

\* The program sees nothing.
Still == UNCHANGED Stack!vars

\* PANIC is no step of the program.
LEMMA OverflowStill ==
  ASSUME Overflow
  PROVE  Still
BY DEF Overflow, Still, Stack!vars, regs

\* A push is the program's, or PANIC.
LEMMA PushRefines ==
  ASSUME NEW o, PushObject(o)
  PROVE  Stack!Push(o) \/ Still
<1>1. CASE Room(SizeObject)
  BY <1>1 DEF PushObject, Stack!Push, Overflow
<1>2. CASE ~Room(SizeObject)
  BY <1>2, OverflowStill DEF PushObject
<1> QED BY <1>1, <1>2

\* A variable reference reads what the program means,
LEMMA LocalRefRefines ==
  ASSUME FrameInv, NEW k \in Nat, LocalRef(k)
  PROVE  Stack!Ref(k) \/ Still
<1>1. PushObject(Stack!Var(k)) /\ Stack!HasVar(k)
  BY LocalRefInv DEF LocalRef
<1> QED BY <1>1, PushRefines DEF Stack!Ref

\* ... and an assignment changes what it means.
LEMMA LocalAssignRefines ==
  ASSUME FrameInv, NEW k \in Nat, LocalAssign(k)
  PROVE  Stack!Assign(k)
<1> DEFINE o == Get(mem, sp - SizeObject, SizeObject)
           p == Top.objs[Len(Top.objs)]
           rest == Stack!WithTop([Top EXCEPT !.objs = Stack!Popped])
<1>1. /\ Top.objs # <<>>
      /\ \/ /\ FromEnv(k)
            /\ env' = [env EXCEPT ![closure][k + 1] = o]
            /\ acts' = rest
         \/ /\ ~FromEnv(k)
            /\ Stack!Slot(k) \in 1 .. Len(rest[Stack!Exec].objs)
            /\ acts' = [rest EXCEPT ![Stack!Exec].objs[Stack!Slot(k)] = o]
            /\ env' = env
      /\ pc' = pc /\ closure' = closure
  BY Zenon DEF LocalAssign
<1>2. o = p
  BY <1>1, TopObject
<1>3. FromEnv(k) <=> Stack!Captured(k)
  BY DEF FromEnv, Stack!Captured
<1>4. Top = Stack!Top
  BY DEF Top, Stack!Top
<1> HIDE DEF o, rest
<1>5. /\ Top.objs # <<>>
      /\ \/ /\ Stack!Captured(k)
            /\ env' = [env EXCEPT ![closure][k + 1] = p]
            /\ acts' = rest
         \/ /\ ~Stack!Captured(k)
            /\ Stack!Slot(k) \in 1 .. Len(rest[Stack!Exec].objs)
            /\ acts' = [rest EXCEPT ![Stack!Exec].objs[Stack!Slot(k)] = p]
            /\ env' = env
      /\ pc' = pc /\ closure' = closure
  <2> HIDE DEF p
  <2> QED BY <1>1, <1>2, <1>3, Zenon
<1>6. /\ Stack!Top.objs # <<>>
      /\ p = Stack!Top.objs[Len(Stack!Top.objs)]
      /\ rest = Stack!WithTop([Stack!Top EXCEPT !.objs = Stack!Popped])
  BY <1>4, <1>5, Zenon DEF rest
<1> HIDE DEF p
<1> QED BY <1>5, <1>6, Zenon DEF Stack!Assign

\* What Called makes of the newest activation.
LEMMA CalledStarts ==
  ASSUME NEW k, NEW objs, Called(k, objs)
  PROVE  Stack!Start(k, objs, CallRet)
BY Zenon DEF Called, Stack!Start, CallRet, Top, Stack!Top

\* A call of a procedure calls it with the arguments the program pushed,
LEMMA CallProcRefines ==
  ASSUME FrameInv, NEW l \in Code, CallProc(l)
  PROVE  Stack!CallProc(l)
<1>0. Top = Stack!Top
  BY DEF Top, Stack!Top
<1>1. closure' = NULL /\ pc' = l /\ env' = env
  BY DEF CallProc, Calls
<1>2. \/ Top.phase = "args" /\ Called(0, Top.objs)
      \/ Top.phase = "tail" /\ Top.n = 0 /\ Called(0, Top.objs)
      \/ /\ Top.phase = "loop" /\ Len(Top.objs) = Top.locs + 2 * Top.n
         /\ Top.locs = 0 /\ Called(0, Stack!Replaced)
  BY Zenon DEF CallProc, LoopDone
<1>3. Top.phase # "args" => CallRet = Top.ret
  BY DEF CallRet
<1>4. Top.phase = "args" => CallRet = pc
  BY DEF CallRet
<1>5. \/ Top.phase = "args" /\ Stack!Start(0, Top.objs, pc)
      \/ Top.phase = "tail" /\ Stack!Start(Top.n, Top.objs, Top.ret)
      \/ /\ Top.phase = "loop"
         /\ Len(Top.objs) = Top.locs + 2 * Top.n
         /\ Stack!Start(Top.locs, Stack!Replaced, Top.ret)
  <2>1. CASE Top.phase = "args" /\ Called(0, Top.objs)
    BY <2>1, <1>4, CalledStarts
  <2>2. CASE Top.phase = "tail" /\ Top.n = 0 /\ Called(0, Top.objs)
    BY <2>2, <1>3, CalledStarts
  <2>3. CASE /\ Top.phase = "loop" /\ Len(Top.objs) = Top.locs + 2 * Top.n
             /\ Top.locs = 0 /\ Called(0, Stack!Replaced)
    <3>1. Stack!Start(Top.locs, Stack!Replaced, Top.ret)
      BY <2>3, <1>3, CalledStarts
    <3> QED BY <2>3, <3>1, Zenon
  <2> QED BY <1>2, <2>1, <2>2, <2>3, Zenon
<1> QED BY <1>0, <1>1, <1>5, Zenon DEF Stack!CallProc

\* ... and so does a call of a closure.
LEMMA CallClosureRefines ==
  ASSUME FrameInv, NEW c \in Closure, CallClosure(c)
  PROVE  Stack!CallClosure(c)
<1>0. Top = Stack!Top
  BY DEF Top, Stack!Top
<1>1. closure' = c /\ pc' = ClosureEntry[c] /\ env' = env /\ Len(acts) > 1
  BY DEF CallClosure, Calls
<1>2. \/ /\ Top.phase = "args" /\ Len(Top.objs) = Top.n + ClosureArity[c]
         /\ Called(Top.n, Top.objs)
      \/ /\ Top.phase = "tail" /\ Len(Top.objs) = Top.n + ClosureArity[c]
         /\ Called(Top.n, Top.objs)
      \/ /\ Top.phase = "loop" /\ Len(Top.objs) = Top.locs + 2 * Top.n
         /\ Called(Top.locs, Stack!Replaced)
  BY Zenon DEF CallClosure, LoopDone
<1>3. Top.phase # "args" => CallRet = Top.ret
  BY DEF CallRet
<1>4. Top.phase = "args" => CallRet = pc /\ Top.n = 0 /\ 0 + ClosureArity[c] = ClosureArity[c]
  BY <1>1, ClosureTypes, FrameReads DEF CallRet
<1>5. \/ /\ Top.phase = "args" /\ Len(Top.objs) = ClosureArity[c]
         /\ Stack!Start(0, Top.objs, pc)
      \/ /\ Top.phase = "tail" /\ Len(Top.objs) = Top.n + ClosureArity[c]
         /\ Stack!Start(Top.n, Top.objs, Top.ret)
      \/ /\ Top.phase = "loop"
         /\ Len(Top.objs) = Top.locs + 2 * Top.n
         /\ Stack!Start(Top.locs, Stack!Replaced, Top.ret)
  <2>1. CASE /\ Top.phase = "args" /\ Len(Top.objs) = Top.n + ClosureArity[c]
             /\ Called(Top.n, Top.objs)
    <3>1. Stack!Start(0, Top.objs, pc) /\ Len(Top.objs) = ClosureArity[c]
      BY <2>1, <1>4, CalledStarts
    <3> QED BY <2>1, <3>1
  <2>2. CASE /\ Top.phase = "tail" /\ Len(Top.objs) = Top.n + ClosureArity[c]
             /\ Called(Top.n, Top.objs)
    <3>1. Stack!Start(Top.n, Top.objs, Top.ret)
      BY <2>2, <1>3, CalledStarts
    <3> QED BY <2>2, <3>1, Zenon
  <2>3. CASE /\ Top.phase = "loop" /\ Len(Top.objs) = Top.locs + 2 * Top.n
             /\ Called(Top.locs, Stack!Replaced)
    <3>1. Stack!Start(Top.locs, Stack!Replaced, Top.ret)
      BY <2>3, <1>3, CalledStarts
    <3> QED BY <2>3, <3>1, Zenon
  <2> QED BY <1>2, <2>1, <2>2, <2>3, Zenon
<1> QED BY <1>0, <1>1, <1>5, Zenon DEF Stack!CallClosure

\* A normal prelude opens an activation.
LEMMA SaveEnvRefines ==
  ASSUME SaveEnvNormal
  PROVE  Stack!Open \/ Still
<1>1. CASE Room(FPS)
  BY <1>1 DEF SaveEnvNormal, Stack!Open, Overflow
<1>2. CASE ~Room(FPS)
  BY <1>2, OverflowStill, Zenon DEF SaveEnvNormal
<1> QED BY <1>1, <1>2

\* Every instruction is a step of the program.
LEMMA InstructionRefines ==
  ASSUME FrameInv, Instruction
  PROVE  Forward \/ Still
<1>1. CASE \E o \in Object : PushConst(o)
  BY <1>1, PushRefines DEF PushConst, Forward
<1>2. CASE \E k \in 0 .. MaxVar : LocalRef(k) \/ LocalAssign(k)
  <2>1. PICK k \in 0 .. MaxVar : LocalRef(k) \/ LocalAssign(k)
    BY <1>2, Zenon
  <2>2. k \in Nat
    BY <2>1, FramesAssumption
  <2>3. Stack!Ref(k) \/ Stack!Assign(k) \/ Still
    BY <2>1, <2>2, LocalRefRefines, LocalAssignRefines
  <2> QED BY <2>1, <2>3 DEF Forward
<1>3. CASE \E l \in Code : Drop(l) \/ Jump(l) \/ CallProc(l)
  <2>1. PICK l \in Code : Drop(l) \/ Jump(l) \/ CallProc(l)
    BY <1>3
  <2>2. Drop(l) => Stack!Drop(l)
    BY DEF Drop, Stack!Drop, Top, Stack!Top
  <2>3. Jump(l) => Stack!Jump(l)
    BY DEF Jump, Stack!Jump
  <2> QED BY <2>1, <2>2, <2>3, CallProcRefines DEF Forward
<1>4. CASE SaveEnvNormal
  BY <1>4, SaveEnvRefines DEF Forward
<1>5. CASE SaveEnvTailCall
  <2>1. Stack!OpenTail
    BY <1>5 DEF SaveEnvTailCall
  <2> QED BY <2>1 DEF Forward
<1>6. CASE \E n \in TailArities : SaveEnvTailRec(n)
  <2>1. \E n \in TailArities : Stack!OpenLoop(n)
    BY <1>6 DEF SaveEnvTailRec
  <2> QED BY <2>1 DEF Forward
<1>7. CASE \E c \in Closure : CallClosure(c)
  BY <1>7, CallClosureRefines DEF Forward
<1> QED BY <1>1, <1>2, <1>3, <1>4, <1>5, <1>6, <1>7, Zenon DEF Instruction

\* A primitive that applies nothing computes its result.
LEMMA LeavesRefines ==
  ASSUME NEW k, NEW o, Operands(k), Leaves(k, o)
  PROVE  Stack!Compute(k, o)
BY DEF Operands, Leaves, Stack!Compute, Top, Stack!Top

\* One that applies a procedure does so with the operands it popped,
LEMMA AppliesRefines ==
  ASSUME NEW k, NEW objs, NEW entry, NEW run, Operands(k), Applies(k, objs, entry, run)
  PROVE  \/ Stack!Apply(k, objs, entry) /\ Fits(k, objs) /\ Enters(k, objs, entry)
                /\ runs' = Append(runs, run)
         \/ Still /\ runs' = runs
<1>1. CASE Fits(k, objs)
  <2>1. Enters(k, objs, entry) /\ closure = NULL /\ runs' = Append(runs, run)
    BY <1>1 DEF Applies, Plain
  <2>2. Stack!Apply(k, objs, entry)
    BY <2>1 DEF Enters, Stack!Apply, Operands, Top, Stack!Top
  <2> QED BY <1>1, <2>1, <2>2
<1>2. CASE ~Fits(k, objs)
  BY <1>2, OverflowStill DEF Applies, Exhausted, runVars
<1> QED BY <1>1, <1>2

\* ... and map does so again, with the next element.
LEMMA MapRoundRefines ==
  ASSUME FrameInv, RunsFit, NEW e, MapRound(e)
  PROVE  \/ /\ Stack!ApplyAgain(<<Prim, e>>, Run.entry) /\ Run.left > 0 /\ InRun
            /\ runs' = [runs EXCEPT ![Len(runs)].left = @ - 1]
         \/ Still /\ runs' = runs
<1>1. CASE RoundAt + 2 * SizeObject >= STKSEG_SIZE
  BY <1>1, OverflowStill DEF MapRound, Exhausted, runVars
<1>2. CASE ~(RoundAt + 2 * SizeObject >= STKSEG_SIZE)
  <2>1. Stack!InBody /\ Top.applied /\ closure = NULL /\ Run.left > 0 /\ InRun
    BY OwnFrame DEF MapRound, Ends, Plain, Own
  <2>2. /\ acts' = Stack!WithTop([Top EXCEPT !.objs = <<Prim, e>>, !.locs = 0])
        /\ closure' = closure /\ pc' = Run.entry /\ env' = env
        /\ runs' = [runs EXCEPT ![Len(runs)].left = @ - 1]
    BY <1>2 DEF MapRound
  <2>3. Stack!ApplyAgain(<<Prim, e>>, Run.entry)
    BY <2>1, <2>2 DEF Stack!ApplyAgain, Top, Stack!Top
  <2> QED BY <2>1, <2>2, <2>3
<1> QED BY <1>1, <1>2

\* An activation keeps its return address when it becomes another's.
LEMMA SameRet ==
  ASSUME NEW a \in Activation
  PROVE  [a EXCEPT !.ret = a.ret] = a
BY DEF Activation

\* apply of a closure continues as that closure.
LEMMA ApplyClosureRefines ==
  ASSUME FrameInv, NEW c \in Closure, NEW e \in Object, ApplyClosure(c, e)
  PROVE  /\ Stack!Become(2, c, [k \in 1 .. ClosureArity[c] |-> e]) \/ Still
         /\ runs' = runs
<1>1. CASE Base(2) + SizeObject * ClosureArity[c] >= STKSEG_SIZE
  BY <1>1, OverflowStill DEF ApplyClosure, Exhausted, runVars
<1>2. CASE ~(Base(2) + SizeObject * ClosureArity[c] >= STKSEG_SIZE)
  <2> DEFINE args == [k \in 1 .. ClosureArity[c] |-> e]
  <2>1. Len(Top.objs) >= 2 /\ Len(acts) > 1 /\ Top.phase \in {"body", "tail"}
    BY DEF ApplyClosure, Operands
  <2>2. /\ acts' = Stack!WithTop([Top EXCEPT !.objs = Stack!Without(2) \o args,
                                             !.locs = Len(Top.objs) - 2, !.phase = "body"])
        /\ closure' = c /\ pc' = ClosureEntry[c] /\ env' = env /\ runs' = runs
    BY <1>2 DEF ApplyClosure, runVars
  <2> HIDE DEF args
  <2>3. Top = Stack!Top
    BY DEF Top, Stack!Top
  <2>4. [Top EXCEPT !.objs = Stack!Without(2) \o args, !.locs = Len(Top.objs) - 2, !.phase = "body"]
          = [Top EXCEPT !.objs = Stack!Without(2) \o args, !.locs = Len(Top.objs) - 2,
                        !.phase = "body", !.ret = Top.ret]
    <3> DEFINE objs == Stack!Without(2) \o args
               b == AsBecome(Top, objs, Len(Top.objs) - 2)
    <3>1. Stack!Without(2) \in Seq(Object) /\ 2 \in 1 .. 2
      BY OperandsTaken DEF ApplyClosure
    <3>2. args \in Seq(Object)
      BY ClosureTypes DEF args
    <3>3. objs \in Seq(Object)
      BY <3>1, <3>2
    <3> HIDE DEF objs
    <3>4. b \in Activation /\ b.ret = Top.ret
      <4>1. Top \in Activation /\ Len(Top.objs) - 2 \in Nat
        BY <2>1, TopFacts
      <4> QED BY <3>3, <4>1, ActivationBecome
    <3>5. [b EXCEPT !.ret = Top.ret] = b
      <4> HIDE DEF b
      <4> QED BY <3>4, SameRet, Zenon
    <3> QED BY <3>5, Zenon DEF b, objs, AsBecome
  <2>5. Stack!Start(Len(Top.objs) - 2, Stack!Without(2) \o args, Top.ret)
    BY <2>2, <2>3, <2>4, Zenon DEF Stack!Start
  <2>6. Stack!Become(2, c, args)
    BY <2>1, <2>2, <2>3, <2>5, Zenon DEF Stack!Become
  <2> QED BY <2>2, <2>6 DEF args
<1> QED BY <1>1, <1>2

\* Leaving an activation returns its result to the caller.
LEMMA ClosesRefines ==
  ASSUME NEW o, Stack!InBody, Closes(o)
  PROVE  Stack!Returns(o)
BY DEF Closes, Stack!Returns, Top, Stack!Top

------------------------------------------------------------------------------
(* The frames of apply_proc stay where they are.                            *)

\* No frame is closed, and none changes hands.
Keeps ==
  /\ Len(acts') \in Nat /\ Len(acts') >= Len(acts)
  /\ \A i \in 1 .. Len(acts) : acts'[i].applied = acts[i].applied
  /\ \A i \in 1 .. Len(acts) : i < Len(acts') => acts'[i].locs = acts[i].locs

\* A change of the newest activation closes no frame,
LEMMA NewestKeeps ==
  ASSUME FrameInv, NEW a, a.applied = Top.applied, acts' = Stack!WithTop(a)
  PROVE  Keeps
<1>1. acts \in Seq(Activation) /\ Len(acts) \in 1 .. Len(acts) /\ Top = acts[Len(acts)]
  BY TopFacts
<1>2. acts' = [acts EXCEPT ![Len(acts)] = a]
  BY DEF Stack!WithTop
<1>3. Len(acts') = Len(acts) /\ \A i \in 1 .. Len(acts) : acts'[i] = IF i = Len(acts) THEN a ELSE acts[i]
  BY <1>1, <1>2
<1> QED BY <1>1, <1>3 DEF Keeps

\* ... since none of the changes touches the mark of a primitive's frame.
LEMMA AppliedKept ==
  ASSUME NEW a \in Activation, NEW x, NEW y, NEW z, NEW r
  PROVE  /\ [a EXCEPT !.objs = x].applied = a.applied /\ [a EXCEPT !.objs = x].locs = a.locs
         /\ [a EXCEPT !.objs = x, !.phase = y, !.n = z].applied = a.applied
         /\ [a EXCEPT !.phase = y, !.n = z].applied = a.applied
         /\ [a EXCEPT !.objs = x, !.locs = z].applied = a.applied
         /\ [a EXCEPT !.objs = x, !.locs = z, !.phase = y, !.ret = r].applied = a.applied
BY DEF Activation

\* Opening an activation closes no frame,
LEMMA AppendKeeps ==
  ASSUME FrameInv, NEW A, NEW a, NEW b, A = Stack!WithTop(b), b.applied = Top.applied, b.locs = Top.locs,
         acts' = Append(A, a)
  PROVE  Keeps /\ Len(acts') = Len(acts) + 1 /\ acts'[Len(acts) + 1] = a
<1>1. acts \in Seq(Activation) /\ Len(acts) \in 1 .. Len(acts) /\ Top = acts[Len(acts)]
  BY TopFacts
<1>2. A = [acts EXCEPT ![Len(acts)] = b]
  BY DEF Stack!WithTop
<1>3. /\ A \in Seq(Activation \cup {b}) /\ Len(A) = Len(acts)
      /\ \A i \in 1 .. Len(acts) : A[i] = IF i = Len(acts) THEN b ELSE acts[i]
  BY <1>1, <1>2
<1>4. /\ Len(acts') = Len(acts) + 1 /\ acts'[Len(acts) + 1] = a
      /\ \A i \in 1 .. Len(acts) : acts'[i] = A[i]
  <2> DEFINE S == Activation \cup {b, a}
  <2>1. A \in Seq(S) /\ a \in S
    BY <1>3
  <2> HIDE DEF S
  <2> QED BY <1>3, <2>1, Appended
<1> QED BY <1>1, <1>3, <1>4 DEF Keeps

\* ... nor does an assignment to an object,
LEMMA AssignedKeeps ==
  ASSUME NEW A \in Seq(Activation), NEW x \in 1 .. Len(A), NEW j, NEW o,
         NEW B, B = Assigned(A, x, j, o)
  PROVE  /\ Len(B) = Len(A)
         /\ \A i \in 1 .. Len(A) : B[i].applied = A[i].applied /\ B[i].locs = A[i].locs
<1> DEFINE objs == [A[x].objs EXCEPT ![j] = o]
           b == [A[x] EXCEPT !.objs = objs]
<1>1. B = [A EXCEPT ![x] = b]
  BY DEF Assigned
<1>2. b.applied = A[x].applied /\ b.locs = A[x].locs
  <2> HIDE DEF objs
  <2>1. A[x] \in Activation
    OBVIOUS
  <2> QED BY <2>1, AppliedKept
<1> HIDE DEF b
<1> QED BY <1>1, <1>2

\* ... nor LOCAL_ASSIGN.
LEMMA AssignKeeps ==
  ASSUME FrameInv, NEW k, Stack!Assign(k)
  PROVE  Keeps
<1> DEFINE b == [Top EXCEPT !.objs = Stack!Popped]
           rest == Stack!WithTop(b)
           x == Stack!Exec
<1>1. /\ acts \in Seq(Activation) /\ Len(acts) \in 1 .. Len(acts) /\ Top \in Activation
      /\ Len(acts) \in Nat /\ x \in 1 .. Len(acts)
  BY TopFacts
<1>2. Top.objs # <<>>
  BY DEF Stack!Assign, Top, Stack!Top
<1>3. b.applied = Top.applied /\ b.locs = Top.locs /\ b \in Activation
  <2>1. Stack!Popped \in Seq(Object)
    BY <1>2, Taken
  <2> QED BY <1>1, <2>1, AppliedKept, ActivationObjs
<1>4. \/ acts' = rest
      \/ acts' = Assigned(rest, x, Stack!Slot(k), Top.objs[Len(Top.objs)])
  BY Zenon DEF Stack!Assign, Assigned, Top, Stack!Top
<1> HIDE DEF b
<1>5. CASE acts' = rest
  BY <1>3, <1>5, NewestKeeps
<1>6. CASE acts' = Assigned(rest, x, Stack!Slot(k), Top.objs[Len(Top.objs)])
  <2>1. rest \in Seq(Activation) /\ Len(rest) = Len(acts)
    BY <1>1, <1>3 DEF Stack!WithTop
  <2>2. \A i \in 1 .. Len(acts) : rest[i].applied = acts[i].applied /\ rest[i].locs = acts[i].locs
    <3>1. rest = [acts EXCEPT ![Len(acts)] = b] /\ Top = acts[Len(acts)]
      BY DEF Stack!WithTop, Top
    <3> HIDE DEF rest
    <3>2. \A i \in 1 .. Len(acts) : rest[i] = IF i = Len(acts) THEN b ELSE acts[i]
      BY <1>1, <3>1
    <3> QED BY <1>1, <1>3, <3>1, <3>2
  <2> HIDE DEF rest, x
  <2>3. /\ Len(acts') = Len(rest)
        /\ \A i \in 1 .. Len(rest) : acts'[i].applied = rest[i].applied /\ acts'[i].locs = rest[i].locs
    <3>1. x \in 1 .. Len(rest)
      BY <1>1, <2>1
    <3> QED BY <1>6, <2>1, <3>1, AssignedKeeps
  <2> QED BY <1>1, <2>1, <2>2, <2>3 DEF Keeps
<1> QED BY <1>4, <1>5, <1>6

\* The objects of the newest activation replaced, in the abstract machine.
WithTopObjects(objs) == Stack!WithTop([Top EXCEPT !.objs = objs])

\* No step but a return closes a frame.
LEMMA ForwardKeeps ==
  ASSUME FrameInv, Forward \/ Still
  PROVE  Keeps
<1>1. /\ acts \in Seq(Activation) /\ Len(acts) \in Nat /\ Top \in Activation
      /\ Top = Stack!Top
  BY TopFacts DEF Top, Stack!Top
<1>2. CASE Still
  <2>1. acts' = acts
    BY <1>2 DEF Still, Stack!vars
  <2> QED BY <1>1, <2>1 DEF Keeps
<1>3. ASSUME NEW objs, acts' = WithTopObjects(objs)
      PROVE  Keeps
  <2> DEFINE a == [Top EXCEPT !.objs = objs]
  <2>1. a.applied = Top.applied
    BY <1>1, AppliedKept
  <2>2. acts' = Stack!WithTop(a)
    BY <1>3 DEF WithTopObjects
  <2> HIDE DEF a
  <2> QED BY <2>1, <2>2, NewestKeeps
<1>4. ASSUME NEW o, Stack!Push(o) PROVE Keeps
  <2>1. acts' = WithTopObjects(Append(Top.objs, o))
    BY <1>1, <1>4, Zenon DEF Stack!Push, Stack!Pushed, WithTopObjects
  <2> QED BY <1>3, <2>1
<1>5. ASSUME NEW k, NEW objs, NEW r, Stack!Start(k, objs, r) PROVE Keeps
  <2> DEFINE a == [Top EXCEPT !.objs = objs, !.locs = k, !.phase = "body", !.ret = r]
  <2>1. acts' = Stack!WithTop(a)
    BY <1>1, <1>5, Zenon DEF Stack!Start
  <2>2. a.applied = Top.applied
    BY <1>1, AppliedKept
  <2> HIDE DEF a
  <2> QED BY <2>1, <2>2, NewestKeeps
<1>6. CASE \E o \in Object : Stack!Push(o)
  BY <1>6, <1>4
<1>7. CASE \E k \in 0 .. MaxVar : Stack!Ref(k) \/ Stack!Assign(k)
  BY <1>7, <1>4, AssignKeeps DEF Stack!Ref
<1>8. CASE \E l \in Code : Stack!Drop(l) \/ Stack!Jump(l) \/ Stack!CallProc(l)
  <2>1. PICK l \in Code : Stack!Drop(l) \/ Stack!Jump(l) \/ Stack!CallProc(l)
    BY <1>8
  <2>2. CASE Stack!Drop(l)
    <3>1. acts' = WithTopObjects(Stack!Popped)
      BY <1>1, <2>2, Zenon DEF Stack!Drop, WithTopObjects
    <3> QED BY <1>3, <3>1
  <2>3. CASE Stack!Jump(l)
    <3>1. acts' = acts
      BY <2>3 DEF Stack!Jump
    <3> QED BY <1>1, <3>1 DEF Keeps
  <2>4. CASE Stack!CallProc(l)
    BY <2>4, <1>5 DEF Stack!CallProc
  <2> QED BY <2>1, <2>2, <2>3, <2>4
<1>9. CASE Stack!Open
  <2>1. acts' = Append(acts, Stack!Opened)
    BY <1>9 DEF Stack!Open
  <2>2. Stack!Opened \in Activation
    <3>1. Stack!Exec \in Nat /\ closure \in Closure \cup {NULL}
      BY TopFacts, RegisterTypes
    <3> QED BY <3>1, OpenedActivation
  <2> HIDE <1>9
  <2>3. /\ Len(acts') = Len(acts) + 1 /\ \A i \in 1 .. Len(acts) : acts'[i] = acts[i]
    BY <1>1, <2>1, <2>2, Appended
  <2> QED BY <1>1, <2>3 DEF Keeps
<1>10. CASE Stack!OpenTail
  <2> DEFINE a == [Top EXCEPT !.phase = "tail", !.n = Len(Top.objs)]
  <2>1. acts' = Stack!WithTop(a)
    BY <1>1, <1>10, Zenon DEF Stack!OpenTail
  <2>2. a.applied = Top.applied
    BY <1>1, AppliedKept
  <2> HIDE DEF a
  <2> QED BY <2>1, <2>2, NewestKeeps
<1>11. CASE \E n \in TailArities : Stack!OpenLoop(n)
  <2>1. PICK n \in TailArities : Stack!OpenLoop(n)
    BY <1>11
  <2> DEFINE objs == SubSeq(Top.objs, 1, Top.locs + n)
             a == [Top EXCEPT !.objs = objs, !.phase = "loop", !.n = n]
  <2>2. acts' = Stack!WithTop(a)
    BY <1>1, <2>1, Zenon DEF Stack!OpenLoop
  <2> HIDE DEF objs
  <2>3. a.applied = Top.applied
    BY <1>1, AppliedKept
  <2> HIDE DEF a
  <2> QED BY <2>2, <2>3, NewestKeeps
<1>12. CASE \E c \in Closure : Stack!CallClosure(c)
  BY <1>12, <1>5 DEF Stack!CallClosure
<1>13. ASSUME NEW m, NEW objs, NEW l, Stack!Apply(m, objs, l) PROVE Keeps
  <2> DEFINE b == [Top EXCEPT !.objs = Stack!Without(m)]
  <2>1. acts' = Append(Stack!WithTop(b), Stack!AppliedTo(objs))
    BY <1>1, <1>13, Zenon DEF Stack!Apply
  <2>2. b.applied = Top.applied /\ b.locs = Top.locs
    BY <1>1, AppliedKept
  <2> HIDE DEF b
  <2> QED BY <2>1, <2>2, AppendKeeps
<1>14. ASSUME NEW objs, NEW l, Stack!ApplyAgain(objs, l) PROVE Keeps
  <2> DEFINE a == [Top EXCEPT !.objs = objs, !.locs = 0]
  <2>1. acts' = Stack!WithTop(a)
    BY <1>1, <1>14, Zenon DEF Stack!ApplyAgain
  <2>2. a.applied = Top.applied
    BY <1>1, AppliedKept
  <2> HIDE DEF a
  <2> QED BY <2>1, <2>2, NewestKeeps
<1>15. ASSUME NEW m, NEW o, Stack!Compute(m, o) PROVE Keeps
  <2>1. acts' = WithTopObjects(Append(Stack!Without(m), o))
    BY <1>1, <1>15, Zenon DEF Stack!Compute, WithTopObjects
  <2> QED BY <1>3, <2>1
<1>16. CASE \E m \in 1 .. Stack!MaxOperands, o, p \in Object, l \in Code :
              \/ Stack!Apply(m, <<o>>, l) \/ Stack!Apply(m, <<o, p>>, l) \/ Stack!ApplyAgain(<<o, p>>, l)
              \/ Stack!Compute(m, o)
              \/ \E c \in Closure : Stack!Become(m, c, [k \in 1 .. ClosureArity[c] |-> o])
  <2>1. PICK m \in 1 .. Stack!MaxOperands, o \in Object, p \in Object, l \in Code :
              \/ Stack!Apply(m, <<o>>, l) \/ Stack!Apply(m, <<o, p>>, l) \/ Stack!ApplyAgain(<<o, p>>, l)
              \/ Stack!Compute(m, o)
              \/ \E c \in Closure : Stack!Become(m, c, [k \in 1 .. ClosureArity[c] |-> o])
    BY <1>16, Zenon
  <2>2. CASE \E c \in Closure : Stack!Become(m, c, [k \in 1 .. ClosureArity[c] |-> o])
    BY <2>2, <1>5, Zenon DEF Stack!Become
  <2> QED BY <2>1, <2>2, <1>13, <1>14, <1>15, Zenon
<1> QED BY <1>2, <1>6, <1>7, <1>8, <1>9, <1>10, <1>11, <1>12, <1>16, Zenon DEF Forward

\* The calls of apply_proc, as RunsFit says.
RunRecord == [prim : {"map", "thunk", "VM_EXCPT", "VM_EXCPT_CONT"}, entry : Code,
              left : Nat, depth : Nat]

\* A primitive's frame that was there is there,
LEMMA KeepsDepth ==
  ASSUME Keeps, Len(acts) \in Nat, NEW d \in 2 .. Len(acts), acts[d].applied
  PROVE  d \in 2 .. Len(acts') /\ acts'[d].applied
<1>1. d \in 2 .. Len(acts') /\ d \in 1 .. Len(acts)
  BY DEF Keeps
<1>2. acts'[d].applied = acts[d].applied
  BY <1>1, Zenon DEF Keeps
<1> QED BY <1>1, <1>2

\* ... so the loops of apply_proc keep their frames,
LEMMA RunsKept ==
  ASSUME RunsFit, Keeps, Len(acts) \in Nat, runs' = runs
  PROVE  RunsFit'
<1>1. ASSUME NEW i \in DOMAIN runs
      PROVE  runs[i].depth \in 2 .. Len(acts') /\ acts'[runs[i].depth].applied
  <2>1. runs[i].depth \in 2 .. Len(acts) /\ acts[runs[i].depth].applied
    BY DEF RunsFit
  <2> QED BY <2>1, KeepsDepth
<1> QED BY <1>1, Zenon DEF RunsFit

(* One element less to do.                                                  *)
LEMMA RunShortened ==
  ASSUME NEW r \in RunRecord, NEW n \in Nat
  PROVE  [r EXCEPT !.left = n] \in RunRecord /\ [r EXCEPT !.left = n].depth = r.depth
BY DEF RunRecord

\* ... as they do when one goes on to its next element,
LEMMA RunsAgain ==
  ASSUME RunsFit, Keeps, Len(acts) \in Nat, InRun, Run.left > 0,
         runs' = [runs EXCEPT ![Len(runs)].left = @ - 1]
  PROVE  RunsFit'
<1> DEFINE r == [Run EXCEPT !.left = Run.left - 1]
<1>1. runs \in Seq(RunRecord) /\ Len(runs) \in DOMAIN runs /\ Run.left \in Nat
  BY RunTypes DEF RunsFit, RunRecord
<1>2. Run \in RunRecord
  BY <1>1 DEF Run
<1>3. r \in RunRecord /\ r.depth = Run.depth
  <2>1. Run.left - 1 \in Nat
    BY <1>1
  <2> QED BY <1>2, <2>1, RunShortened
<1>4. runs' = [runs EXCEPT ![Len(runs)] = r]
  BY DEF Run
<1> HIDE DEF r
<1>5. /\ runs' \in Seq(RunRecord) /\ DOMAIN runs' = DOMAIN runs
      /\ \A i \in DOMAIN runs : runs'[i].depth = runs[i].depth
  BY <1>1, <1>3, <1>4 DEF Run
<1>6. /\ \A i \in DOMAIN runs : runs[i].depth \in 2 .. Len(acts) /\ acts[runs[i].depth].applied
      /\ \A i, j \in DOMAIN runs : i < j => runs[i].depth < runs[j].depth
  BY DEF RunsFit
<1>7. ASSUME NEW i \in DOMAIN runs'
      PROVE  runs'[i].depth \in 2 .. Len(acts') /\ acts'[runs'[i].depth].applied
  <2>1. runs[i].depth \in 2 .. Len(acts) /\ acts[runs[i].depth].applied
    BY <1>5, <1>6
  <2>2. runs'[i].depth = runs[i].depth
    BY <1>5
  <2> QED BY <2>1, <2>2, KeepsDepth
<1>8. \A i, j \in DOMAIN runs' : i < j => runs'[i].depth < runs'[j].depth
  BY <1>5, <1>6
<1> QED BY <1>5, <1>7, <1>8, Zenon DEF RunsFit, RunRecord

\* ... when a new one starts in a new frame,
LEMMA RunsPushed ==
  ASSUME RunsFit, Keeps, Len(acts) \in Nat \ {0}, Len(acts') = Len(acts) + 1,
         acts'[Len(acts) + 1].applied,
         NEW run \in RunRecord, run.depth = Len(acts) + 1, runs' = Append(runs, run)
  PROVE  RunsFit'
<1>1. runs \in Seq(RunRecord)
  BY DEF RunsFit, RunRecord
<1>2. /\ runs' \in Seq(RunRecord) /\ Len(runs') = Len(runs) + 1 /\ runs'[Len(runs) + 1] = run
      /\ \A i \in 1 .. Len(runs) : runs'[i] = runs[i]
  BY <1>1, Appended
<1>3. /\ \A i \in 1 .. Len(runs) : runs[i].depth \in 2 .. Len(acts) /\ acts[runs[i].depth].applied
      /\ \A i, j \in 1 .. Len(runs) : i < j => runs[i].depth < runs[j].depth
  <2>1. DOMAIN runs = 1 .. Len(runs)
    BY <1>1
  <2> QED BY <2>1, Zenon DEF RunsFit
<1>4. Len(runs) \in Nat /\ DOMAIN runs' = 1 .. Len(runs) + 1
  BY <1>1, <1>2
<1>5. ASSUME NEW i \in DOMAIN runs'
      PROVE  runs'[i].depth \in 2 .. Len(acts') /\ acts'[runs'[i].depth].applied
  <2>1. CASE i = Len(runs) + 1
    <3>1. runs'[i].depth = Len(acts) + 1 /\ Len(acts) + 1 \in 2 .. Len(acts')
      BY <1>2, <2>1
    <3> QED BY <3>1, Zenon
  <2>2. CASE i # Len(runs) + 1
    <3>1. i \in 1 .. Len(runs)
      BY <1>4, <2>2
    <3>2. runs[i].depth \in 2 .. Len(acts) /\ acts[runs[i].depth].applied
      BY <1>3, <3>1
    <3>3. runs'[i].depth = runs[i].depth
      BY <1>2, <3>1
    <3> QED BY <3>2, <3>3, KeepsDepth
  <2> QED BY <2>1, <2>2
<1>6. ASSUME NEW i \in DOMAIN runs', NEW j \in DOMAIN runs', i < j
      PROVE  runs'[i].depth < runs'[j].depth
  BY <1>2, <1>3, <1>4, <1>6
<1> QED BY <1>2, <1>5, <1>6, Zenon DEF RunsFit, RunRecord

\* A sequence without its last element.
LEMMA Shortened ==
  ASSUME NEW S, NEW seq \in Seq(S), Len(seq) \in Nat \ {0}
  PROVE  /\ SubSeq(seq, 1, Len(seq) - 1) \in Seq(S)
         /\ Len(SubSeq(seq, 1, Len(seq) - 1)) = Len(seq) - 1
         /\ \A i \in 1 .. Len(seq) - 1 : SubSeq(seq, 1, Len(seq) - 1)[i] = seq[i]
<1> DEFINE n == Len(seq) - 1
           X == Piece(seq, 0, n)
<1>1. n \in Nat /\ 0 + n <= Len(seq) /\ 0 \in Nat /\ 0 + 1 = 1 /\ 0 + n = n
  OBVIOUS
<1> HIDE DEF n
<1>2. X = SubSeq(seq, 1, n)
  BY <1>1, Zenon DEF Piece
<1> HIDE DEF X
<1>3. X \in Seq(S) /\ Len(X) = n /\ \A k \in 1 .. n : X[k] = seq[k + 0]
  BY <1>1, SubSeqElements DEF X
<1>4. \A k \in 1 .. n : X[k] = seq[k]
  BY <1>1, <1>3
<1> QED BY <1>2, <1>3, <1>4, Zenon DEF n

\* ... and when the newest ends with its frame.
LEMMA RunsPopped ==
  ASSUME FrameInv, RunsFit, Own, NEW o, Closes(o), runs' = SubSeq(runs, 1, Len(runs) - 1)
  PROVE  RunsFit'
<1> DEFINE n == Len(acts)
           B == SubSeq(acts, 1, n - 1)
<1>1. /\ acts \in Seq(Activation) /\ n \in Nat /\ n > 1 /\ runs \in Seq(RunRecord)
      /\ Len(runs) \in DOMAIN runs /\ runs[Len(runs)].depth = n
  BY TopFacts, OwnFrame, RunTypes DEF RunsFit, RunRecord, Own, Run
<1>2. /\ B \in Seq(Activation) /\ Len(B) = n - 1 /\ \A i \in 1 .. n - 1 : B[i] = acts[i]
  BY <1>1
<1>3. acts' = [B EXCEPT ![n - 1].objs = Append(@, o)]
  BY Zenon DEF Closes, Stack!Closed
<1> HIDE DEF n, B
<1>4. Len(acts') = n - 1 /\ \A i \in 1 .. n - 1 : acts'[i].applied = acts[i].applied
  <2> DEFINE b == [B[n - 1] EXCEPT !.objs = Append(B[n - 1].objs, o)]
  <2>1. n - 1 \in 1 .. Len(B) /\ B[n - 1] \in Activation
    BY <1>1, <1>2
  <2>2. b.applied = B[n - 1].applied
    BY <2>1, AppliedKept
  <2>3. acts' = [B EXCEPT ![n - 1] = b]
    BY <1>3
  <2> HIDE DEF b
  <2> QED BY <1>1, <1>2, <2>1, <2>2, <2>3
<1>5. /\ runs' \in Seq(RunRecord) /\ Len(runs') = Len(runs) - 1 /\ Len(runs) \in Nat \ {0}
      /\ \A i \in 1 .. Len(runs) - 1 : runs'[i] = runs[i]
  <2> DEFINE R == RunRecord
  <2>1. runs \in Seq(R) /\ Len(runs) \in Nat \ {0}
    BY <1>1
  <2> HIDE DEF R
  <2>2. /\ SubSeq(runs, 1, Len(runs) - 1) \in Seq(R)
        /\ Len(SubSeq(runs, 1, Len(runs) - 1)) = Len(runs) - 1
        /\ \A i \in 1 .. Len(runs) - 1 : SubSeq(runs, 1, Len(runs) - 1)[i] = runs[i]
    BY <2>1, Shortened
  <2>3. runs' = SubSeq(runs, 1, Len(runs) - 1)
    OBVIOUS
  <2>4. Len(runs') = Len(runs) - 1 /\ \A i \in 1 .. Len(runs) - 1 : runs'[i] = runs[i]
    BY <2>2, <2>3, Zenon
  <2>5. runs' \in Seq(RunRecord)
    BY <2>2, <2>3, Zenon DEF R
  <2> QED BY <2>1, <2>4, <2>5
<1>6. /\ \A i \in 1 .. Len(runs) : runs[i].depth \in 2 .. n /\ acts[runs[i].depth].applied
      /\ \A i, j \in 1 .. Len(runs) : i < j => runs[i].depth < runs[j].depth
  <2>1. DOMAIN runs = 1 .. Len(runs)
    BY <1>1
  <2> QED BY <2>1, Zenon DEF RunsFit, n
<1>7. DOMAIN runs' = 1 .. Len(runs) - 1
  BY <1>5
<1>8. ASSUME NEW i \in DOMAIN runs'
      PROVE  runs'[i].depth \in 2 .. Len(acts') /\ acts'[runs'[i].depth].applied
  <2>1. /\ i \in 1 .. Len(runs) /\ i < Len(runs) /\ Len(runs) \in 1 .. Len(runs)
        /\ runs'[i] = runs[i]
    BY <1>5, <1>7
  <2>2. runs[i].depth < n /\ runs[i].depth \in 2 .. n /\ acts[runs[i].depth].applied
    <3>1. runs[i].depth < runs[Len(runs)].depth
      BY <1>6, <2>1
    <3>2. runs[i].depth \in 2 .. n /\ acts[runs[i].depth].applied
      BY <1>6, <2>1
    <3> QED BY <1>1, <3>1, <3>2
  <2>3. runs[i].depth \in 1 .. n - 1
    BY <1>1, <2>2
  <2>4. n - 1 = Len(acts') /\ acts'[runs[i].depth].applied = acts[runs[i].depth].applied
    BY <1>1, <1>4, <2>3
  <2>5. runs[i].depth \in 2 .. n - 1
    BY <1>1, <2>2, <2>3
  <2> QED BY <2>1, <2>2, <2>4, <2>5, Zenon
<1>9. ASSUME NEW i \in DOMAIN runs', NEW j \in DOMAIN runs', i < j
      PROVE  runs'[i].depth < runs'[j].depth
  BY <1>5, <1>6, <1>7, <1>9
<1> QED BY <1>5, <1>8, <1>9, Zenon DEF RunsFit, RunRecord

------------------------------------------------------------------------------
(* local stays inside the stack, whatever is popped beneath it.             *)

\* The first variable of every activation is inside the stack.
LocalsFit == \A i \in 1 .. Len(acts) : hdr[i].at + SizeObject * acts[i].locs < STKSEG_SIZE

\* local is inside the stack.
LEMMA LocalInside ==
  ASSUME FrameInv, LocalsFit
  PROVE  local < STKSEG_SIZE
<1>1. /\ Stack!Exec \in 1 .. Len(acts)
      /\ local = hdr[Stack!Exec].at + SizeObject * acts[Stack!Exec].locs
  BY TopFacts
<1> QED BY <1>1, Zenon DEF LocalsFit

\* When local is inside the stack, so is the first variable of every activation below.
LEMMA LocalsBound ==
  ASSUME NEW A, NEW H, Layout(A, H), NEW m, Contents(m, A, H),
         NEW s, NEW f, NEW l, NEW t, NEW c, Registers(A, H, Len(A), s, f, l, t, c),
         l < STKSEG_SIZE,
         \A i \in 1 .. Len(A) : i < Len(A) => H[i].at + SizeObject * A[i].locs < STKSEG_SIZE
  PROVE  \A i \in 1 .. Len(A) : H[i].at + SizeObject * A[i].locs < STKSEG_SIZE
<1> DEFINE n == Len(A)
<1>1. /\ n \in Nat \ {0} /\ n \in 1 .. n /\ H[n].at \in Nat /\ H[n].at <= End(A, H, n)
      /\ End(A, H, n) \in Nat /\ End(A, H, n) < STKSEG_SIZE
  <2>1. n \in 1 .. n /\ n \in Nat \ {0}
    BY DEF Layout
  <2> QED BY <2>1, LayoutOrder DEF Contents
<1>2. H[n].at + SizeObject * A[n].locs < STKSEG_SIZE
  <2>1. CASE A[n].phase = "args"
    <3>1. n # 1
      BY <2>1 DEF Layout
    <3>2. A[n].locs = 0
      BY <1>1, <2>1, <3>1 DEF Layout, FrameFits
    <3>3. H[n].at + 5 * 0 < STKSEG_SIZE
      BY <1>1, Size
    <3> QED BY <3>2, <3>3, Sizes
  <2>2. CASE A[n].phase # "args"
    <3>1. l = H[n].at + SizeObject * A[n].locs
      BY <2>2 DEF Registers, ExecAt
    <3> QED BY <3>1
  <2> QED BY <2>1, <2>2
<1>3. ASSUME NEW i \in 1 .. n, i # n PROVE i < n
  BY <1>1, <1>3
<1> QED BY <1>2, <1>3, Zenon

\* Frames are only added.
HeadersKept == hdr' = hdr \/ \E h : hdr' = Append(hdr, h)

\* It stays so in a step that closes no frame,
LEMMA LocalsNext ==
  ASSUME FrameInv, LocalsFit, FrameInv', Keeps, HeadersKept, local' < STKSEG_SIZE
  PROVE  LocalsFit'
<1>1. /\ Layout(acts', hdr') /\ Contents(mem', acts', hdr')
      /\ Registers(acts', hdr', Len(acts'), sp', fp', local', attr', closure')
  BY DEF FrameInv
<1>2. /\ Len(acts) \in Nat /\ Len(hdr) = Len(acts) /\ hdr \in Seq(FrameHeader)
      /\ Len(hdr') = Len(acts') /\ Len(acts') \in Nat
  BY <1>1, TopFacts DEF Layout
<1>3. /\ \A i \in 1 .. Len(acts') : i < Len(acts') => i \in 1 .. Len(acts)
      /\ \A i \in 1 .. Len(acts) : hdr'[i] = hdr[i]
  <2>1. CASE hdr' = hdr
    BY <1>2, <2>1
  <2>2. CASE \E h : hdr' = Append(hdr, h)
    <3>1. PICK h : hdr' = Append(hdr, h)
      BY <2>2
    <3> DEFINE S == FrameHeader \cup {h}
    <3>2. hdr \in Seq(S) /\ h \in S
      BY <1>2
    <3> HIDE DEF S
    <3>3. Len(hdr') = Len(hdr) + 1 /\ \A i \in 1 .. Len(hdr) : hdr'[i] = hdr[i]
      BY <3>1, <3>2, Appended
    <3> QED BY <1>2, <3>3
  <2> QED BY <2>1, <2>2 DEF HeadersKept
<1>4. ASSUME NEW i \in 1 .. Len(acts'), i < Len(acts')
      PROVE  hdr'[i].at + SizeObject * acts'[i].locs < STKSEG_SIZE
  <2>1. i \in 1 .. Len(acts)
    BY <1>3, <1>4, Zenon
  <2>2. hdr'[i] = hdr[i] /\ acts'[i].locs = acts[i].locs
    BY <1>3, <1>4, <2>1, Zenon DEF Keeps
  <2>3. hdr[i].at + SizeObject * acts[i].locs < STKSEG_SIZE
    BY <2>1, Zenon DEF LocalsFit
  <2> QED BY <2>2, <2>3, Zenon
<1>5. \A i \in 1 .. Len(acts') : hdr'[i].at + SizeObject * acts'[i].locs < STKSEG_SIZE
  BY <1>1, <1>4, LocalsBound
<1> QED BY <1>5, Zenon DEF LocalsFit

\* PANIC moves no register.
LEMMA OverflowMoves ==
  ASSUME Overflow
  PROVE  hdr' = hdr /\ local' = local
BY DEF Overflow, regs

\* The places local moves to are below sp.
LEMMA InstructionMoves ==
  ASSUME FrameInv, LocalsFit, Instruction
  PROVE  HeadersKept /\ local' < STKSEG_SIZE
<1>0. local < STKSEG_SIZE
  BY LocalInside
<1>1. ASSUME NEW o, PushObject(o) PROVE hdr' = hdr /\ local' = local
  BY <1>1, OverflowMoves DEF PushObject
<1>2. CASE \E o \in Object : PushConst(o)
  BY <1>0, <1>1, <1>2 DEF PushConst, HeadersKept
<1>3. CASE \E k \in 0 .. MaxVar : LocalRef(k) \/ LocalAssign(k)
  <2>1. PICK k \in 0 .. MaxVar : LocalRef(k) \/ LocalAssign(k)
    BY <1>3
  <2>2. hdr' = hdr /\ local' = local
    BY <2>1, <1>1, Zenon DEF LocalRef, LocalAssign
  <2> QED BY <2>2, <1>0 DEF HeadersKept
<1>4. CASE \E l \in Code : Drop(l) \/ Jump(l) \/ CallProc(l)
  <2>1. PICK l \in Code : Drop(l) \/ Jump(l) \/ CallProc(l)
    BY <1>4
  <2>2. CASE Drop(l) \/ Jump(l)
    BY <1>0, <2>2 DEF Drop, Jump, HeadersKept
  <2>3. CASE CallProc(l)
    <3>1. hdr' = hdr /\ local' = fp + FPS /\ Len(acts) > 1
      BY <2>3 DEF CallProc, Calls
    <3>2. fp + FPS = Where.at /\ Where.at < STKSEG_SIZE
      BY <3>1, FrameReads, TopFacts, Size
    <3> QED BY <3>1, <3>2 DEF HeadersKept
  <2> QED BY <2>1, <2>2, <2>3
<1>5. CASE SaveEnvNormal
  <2>1. local' = local /\ (hdr' = hdr \/ hdr' = Append(hdr, HeaderAt(sp)))
    BY <1>5, OverflowMoves DEF SaveEnvNormal
  <2> QED BY <1>0, <2>1 DEF HeadersKept
<1>6. CASE SaveEnvTailCall \/ \E n \in TailArities : SaveEnvTailRec(n)
  BY <1>0, <1>6 DEF SaveEnvTailCall, SaveEnvTailRec, HeadersKept
<1>7. CASE \E c \in Closure : CallClosure(c)
  <2>1. PICK c \in Closure : CallClosure(c)
    BY <1>7
  <2>2. hdr' = hdr /\ (local' = local \/ local' = sp - SizeObject * ClosureArity[c])
    BY <2>1 DEF CallClosure, Calls
  <2>3. sp - 5 * ClosureArity[c] < STKSEG_SIZE
    BY ClosureTypes, TopFacts, Size
  <2> QED BY <1>0, <2>2, <2>3, Sizes DEF HeadersKept
<1> QED BY <1>2, <1>3, <1>4, <1>5, <1>6, <1>7, Zenon DEF Instruction

\* ... and in one that closes one: what RESTORE returns to was inside when it was left.
LEMMA ClosesLocals ==
  ASSUME FrameInv, LocalsFit, Len(acts) > 1, NEW o, Closes(o)
  PROVE  LocalsFit' /\ Len(acts') < Len(acts)
<1> DEFINE n == Len(acts)
           B == SubSeq(acts, 1, n - 1)
<1>1. /\ acts \in Seq(Activation) /\ n \in Nat /\ n > 1 /\ hdr \in Seq(FrameHeader)
      /\ Len(hdr) = n
  BY TopFacts
<1>2. /\ B \in Seq(Activation) /\ Len(B) = n - 1 /\ \A i \in 1 .. n - 1 : B[i] = acts[i]
  BY <1>1
<1>3. acts' = [B EXCEPT ![n - 1].objs = Append(@, o)] /\ hdr' = SubSeq(hdr, 1, n - 1)
  BY <1>1, Zenon DEF Closes, Stack!Closed
<1> HIDE DEF n, B
<1>4. Len(acts') = n - 1 /\ \A i \in 1 .. n - 1 : acts'[i].locs = acts[i].locs
  <2> DEFINE b == [B[n - 1] EXCEPT !.objs = Append(B[n - 1].objs, o)]
  <2>1. n - 1 \in 1 .. Len(B) /\ B[n - 1] \in Activation
    BY <1>1, <1>2
  <2>2. b.locs = B[n - 1].locs
    BY <2>1, AppliedKept
  <2>3. acts' = [B EXCEPT ![n - 1] = b]
    BY <1>3
  <2> HIDE DEF b
  <2> QED BY <1>1, <1>2, <2>1, <2>2, <2>3
<1>5. \A i \in 1 .. n - 1 : hdr'[i] = hdr[i]
  BY <1>1, <1>3
<1>6. ASSUME NEW i \in 1 .. n - 1
      PROVE  hdr'[i].at + SizeObject * acts'[i].locs < STKSEG_SIZE
  <2>1. i \in 1 .. Len(acts)
    BY <1>1 DEF n
  <2>2. hdr[i].at + SizeObject * acts[i].locs < STKSEG_SIZE
    BY <2>1, Zenon DEF LocalsFit
  <2> QED BY <1>4, <1>5, <2>2, Zenon
<1> QED BY <1>1, <1>4, <1>6 DEF LocalsFit, n

------------------------------------------------------------------------------
(* The invariant is inductive, every step is a step of the abstract machine *)
(* or none, and an activation that is left restores the registers.          *)

\* The inductive invariant.
Inv == FrameInv /\ RunsFit /\ LocalsFit

\* A return re-establishes what the frame saved.
Restored ==
  /\ fp' = Where.fp /\ local' = Where.local /\ attr' = Where.attr
  /\ closure' = Top.clo /\ pc' = Top.ret

\* What is proved of every step.
StepGood ==
  /\ Inv'
  /\ Stack!Next \/ Still
  /\ Len(acts') < Len(acts) => Restored

\* The steps of the program that close no frame are steps of the abstract machine.
LEMMA ForwardNext ==
  ASSUME Forward
  PROVE  Stack!Next
BY Zenon DEF Forward, Stack!Next

\* PANIC in a loop of apply_proc ends the loops.
LEMMA NoRuns ==
  ASSUME runs' = <<>>
  PROVE  RunsFit'
<1>1. runs' \in Seq(RunRecord) /\ DOMAIN runs' = {}
  OBVIOUS
<1> QED BY <1>1, Zenon DEF RunsFit, RunRecord

\* A step that closes no frame is good when it keeps the invariant of the frames.
LEMMA ForwardGood ==
  ASSUME Inv, FrameInv', Forward \/ Still, HeadersKept, local' < STKSEG_SIZE, Keeps => RunsFit'
  PROVE  StepGood
<1>1. Keeps
  BY ForwardKeeps DEF Inv
<1>2. LocalsFit'
  BY <1>1, LocalsNext DEF Inv
<1>3. ~(Len(acts') < Len(acts))
  BY <1>1, TopFacts DEF Keeps, Inv
<1> QED BY <1>1, <1>2, <1>3, ForwardNext DEF StepGood, Inv

\* One that closes a frame is good when the loops lose theirs.
LEMMA ClosesGood ==
  ASSUME Inv, FrameInv', RunsFit', Len(acts) > 1, NEW o, Closes(o), Stack!Next
  PROVE  StepGood
<1>1. LocalsFit'
  BY ClosesLocals DEF Inv
<1>2. Restored
  BY DEF Closes, Restored
<1> QED BY <1>1, <1>2 DEF StepGood, Inv

\* Steps that change nothing the program sees are good,
LEMMA StillGood ==
  ASSUME Inv, UNCHANGED vars, runs' = runs \/ runs' = <<>>
  PROVE  StepGood
<1>1. /\ mem' = mem /\ sp' = sp /\ fp' = fp /\ local' = local /\ pc' = pc /\ attr' = attr
      /\ closure' = closure /\ env' = env /\ stopped' = stopped /\ acts' = acts /\ hdr' = hdr
  BY DEF vars, regs
<1>2. FrameInv'
  BY <1>1 DEF FrameInv, Inv
<1>3. Still /\ HeadersKept /\ local' < STKSEG_SIZE
  BY <1>1, LocalInside DEF Still, Stack!vars, HeadersKept, Inv
<1>4. Keeps => RunsFit'
  <2>1. CASE runs' = runs
    BY <2>1, RunsKept, TopFacts DEF Inv
  <2>2. CASE runs' = <<>>
    BY <2>2, NoRuns
  <2> QED BY <2>1, <2>2
<1> QED BY <1>2, <1>3, <1>4, ForwardGood

\* ... running out of memory in a primitive among them.
LEMMA ExhaustedGood ==
  ASSUME Inv, Exhausted
  PROVE  StepGood
<1>1. FrameInv' /\ Still /\ hdr' = hdr /\ local' = local /\ runs' = runs
  BY Overflowed, OverflowStill, OverflowMoves DEF Exhausted, runVars, Inv
<1>2. HeadersKept /\ local' < STKSEG_SIZE
  BY <1>1, LocalInside DEF HeadersKept, Inv
<1>3. Keeps => RunsFit'
  BY <1>1, RunsKept, TopFacts DEF Inv
<1> QED BY <1>1, <1>2, <1>3, ForwardGood

\* Every instruction is good,
LEMMA InstructionGood ==
  ASSUME Inv, TailArities \subseteq 0 .. 31, Instruction, UNCHANGED runVars
  PROVE  StepGood
<1>1. FrameInv' /\ (Forward \/ Still) /\ HeadersKept /\ local' < STKSEG_SIZE
  BY InstructionInv, InstructionRefines, InstructionMoves DEF Inv
<1>2. Keeps => RunsFit'
  BY RunsKept, TopFacts DEF Inv, runVars
<1> QED BY <1>1, <1>2, ForwardGood

\* ... RESTORE,
LEMMA RestoreGood ==
  ASSUME Inv, Restore, ~InRun, UNCHANGED runVars
  PROVE  StepGood
<1>1. /\ FrameInv' /\ Len(acts) > 1 /\ Top.objs # <<>>
      /\ Closes(Top.objs[Len(Top.objs)]) /\ Stack!InBody
  BY RestoreInv DEF Inv, Restore
<1>2. RunsFit'
  <2>1. runs' = <<>>
    BY DEF InRun, runVars
  <2> QED BY <2>1, NoRuns
<1>3. Stack!Return
  BY <1>1, ClosesRefines DEF Stack!Return, Top, Stack!Top
<1>4. Stack!Next
  BY <1>3, Zenon DEF Stack!Next
<1> QED BY <1>1, <1>2, <1>4, ClosesGood

\* ... the primitives that apply nothing,
LEMMA LeavesGood ==
  ASSUME Inv, NEW k \in 1 .. 2, NEW o \in Object, Operands(k), Leaves(k, o), UNCHANGED runVars
  PROVE  StepGood
<1>1. FrameInv'
  BY LeavesInv DEF Inv
<1>2. Stack!Compute(k, o)
  BY LeavesRefines
<1>3. k \in 1 .. Stack!MaxOperands /\ pc \in Code
  BY RegisterTypes DEF Stack!MaxOperands, Inv
<1>4. Forward
  BY <1>2, <1>3, Zenon DEF Forward
<1>5. HeadersKept /\ local' < STKSEG_SIZE
  BY LocalInside DEF Leaves, HeadersKept, Inv
<1>6. Keeps => RunsFit'
  BY RunsKept, TopFacts DEF Inv, runVars
<1> QED BY <1>1, <1>4, <1>5, <1>6, ForwardGood

\* ... and those that apply a procedure:
LEMMA AppliesGood ==
  ASSUME Inv, NEW k \in 1 .. 2, Operands(k), NEW objs \in Seq(Object), NEW entry \in Code,
         NEW run \in RunRecord, run.depth = Len(acts) + 1, Applies(k, objs, entry, run),
         Stack!Apply(k, objs, entry) => Forward
  PROVE  StepGood
<1>1. FrameInv'
  BY AppliesInv DEF Inv
<1>2. \/ Stack!Apply(k, objs, entry) /\ Fits(k, objs) /\ Enters(k, objs, entry)
                /\ runs' = Append(runs, run)
      \/ Still /\ runs' = runs
  BY AppliesRefines
<1>3. HeadersKept /\ local' < STKSEG_SIZE
  <2>1. CASE Fits(k, objs)
    <3>1. Enters(k, objs, entry)
      BY <2>1 DEF Applies
    <3>2. local' = Base(k) + FPS /\ hdr' = Append(hdr, HeaderAt(Base(k)))
      BY <3>1 DEF Enters
    <3>3. Base(k) \in Nat /\ Len(objs) \in Nat
      BY OperandsTaken DEF Inv
    <3>4. Base(k) + FPS < STKSEG_SIZE
      BY <2>1, <3>3, Sizes, Size DEF Fits
    <3> QED BY <3>2, <3>4 DEF HeadersKept
  <2>2. CASE ~Fits(k, objs)
    <3>1. hdr' = hdr /\ local' = local
      BY <2>2, OverflowMoves DEF Applies, Exhausted
    <3> QED BY <3>1, LocalInside DEF HeadersKept, Inv
  <2> QED BY <2>1, <2>2
<1>4. Keeps => RunsFit'
  <2>1. SUFFICES ASSUME Keeps PROVE RunsFit'
    OBVIOUS
  <2>2. CASE runs' = runs
    BY <2>1, <2>2, RunsKept, TopFacts DEF Inv
  <2>3. CASE Stack!Apply(k, objs, entry) /\ runs' = Append(runs, run)
    <3> DEFINE b == [Top EXCEPT !.objs = Stack!Without(k)]
               a == Stack!AppliedTo(objs)
    <3>1. acts' = Append(Stack!WithTop(b), a)
      BY <2>3, Zenon DEF Stack!Apply, Top, Stack!Top
    <3>2. b.applied = Top.applied /\ b.locs = Top.locs
      BY TopFacts, AppliedKept DEF Inv
    <3>3. a.applied = TRUE
      <4>1. Stack!Exec \in Nat /\ closure \in Closure \cup {NULL} /\ pc \in Code
        BY TopFacts, RegisterTypes DEF Inv
      <4> QED BY <4>1, AppliedActivation, Zenon
    <3> HIDE DEF a, b
    <3>4. Len(acts') = Len(acts) + 1 /\ acts'[Len(acts) + 1] = a
      BY <3>1, <3>2, AppendKeeps DEF Inv
    <3>5. acts'[Len(acts) + 1].applied
      BY <3>3, <3>4
    <3>6. Len(acts) \in Nat \ {0}
      BY TopFacts DEF Inv
    <3> QED BY <2>1, <2>3, <3>4, <3>5, <3>6, RunsPushed DEF Inv
  <2> QED BY <1>2, <2>2, <2>3
<1> QED BY <1>1, <1>2, <1>3, <1>4, ForwardGood

\* ... map,
LEMMA MapGood ==
  ASSUME Inv, NEW n \in Nat, NEW l \in Entry, NEW e \in Listed, Map(n, l, e)
  PROVE  StepGood
<1>1. Operands(2) /\ 2 \in 1 .. 2 /\ l \in Code /\ e \in Object /\ Prim \in Object
  BY HigherOrderAssumption DEF Map
<1>2. CASE n = 0 /\ Base(2) + FPS + SizeObject < STKSEG_SIZE
  <2>1. Leaves(2, e) /\ UNCHANGED runVars
    BY <1>2 DEF Map
  <2> QED BY <1>1, <2>1, LeavesGood
<1>3. CASE n = 0 /\ ~(Base(2) + FPS + SizeObject < STKSEG_SIZE)
  <2>1. Exhausted
    BY <1>3 DEF Map
  <2> QED BY <2>1, ExhaustedGood
<1>4. CASE n # 0
  <2> DEFINE run == [prim |-> "map", entry |-> l, left |-> n - 1, depth |-> Len(acts) + 1]
             two == <<Prim, e>>
  <2>1. Applies(2, two, l, run)
    BY <1>4 DEF Map
  <2>2. run \in RunRecord /\ run.depth = Len(acts) + 1
    <3>1. n - 1 \in Nat /\ Len(acts) + 1 \in Nat
      BY <1>4, TopFacts DEF Inv
    <3> QED BY <1>1, <3>1 DEF RunRecord
  <2>3. two \in Seq(Object)
    BY <1>1
  <2>4. Stack!Apply(2, two, l) => Forward
    <3>1. 2 \in 1 .. Stack!MaxOperands
      BY DEF Stack!MaxOperands
    <3> QED BY <1>1, <3>1, Zenon DEF Forward
  <2> HIDE DEF run, two
  <2> QED BY <1>1, <2>1, <2>2, <2>3, <2>4, AppliesGood
<1> QED BY <1>2, <1>3, <1>4

\* ... with-exception-handler,
LEMMA WithExceptionHandlerGood ==
  ASSUME Inv, NEW h \in Entry, NEW t \in Entry, WithExceptionHandler(h, t)
  PROVE  StepGood
<1> DEFINE run == [prim |-> "thunk", entry |-> h, left |-> 0, depth |-> Len(acts) + 1]
           one == <<Prim>>
<1>1. Operands(2) /\ 2 \in 1 .. 2 /\ t \in Code /\ h \in Code /\ Prim \in Object
  BY HigherOrderAssumption DEF WithExceptionHandler
<1>2. Applies(2, one, t, run)
  BY DEF WithExceptionHandler
<1>3. run \in RunRecord /\ run.depth = Len(acts) + 1
  <2>1. Len(acts) + 1 \in Nat
    BY TopFacts DEF Inv
  <2> QED BY <1>1, <2>1 DEF RunRecord
<1>4. one \in Seq(Object)
  BY <1>1
<1>5. Stack!Apply(2, one, t) => Forward
  <2>1. 2 \in 1 .. Stack!MaxOperands
    BY DEF Stack!MaxOperands
  <2> QED BY <1>1, <2>1, Zenon DEF Forward
<1> HIDE DEF run, one
<1> QED BY <1>1, <1>2, <1>3, <1>4, <1>5, AppliesGood

\* ... raise,
LEMMA RaiseGood ==
  ASSUME Inv, NEW excpt \in {"VM_EXCPT", "VM_EXCPT_CONT"}, Raise(excpt)
  PROVE  StepGood
<1>1. CASE ~InRun
  <2>1. UNCHANGED vars /\ runs' = runs
    BY <1>1 DEF Raise
  <2> QED BY <2>1, StillGood
<1>2. CASE InRun
  <2> DEFINE o == Get(mem, sp - SizeObject, SizeObject)
             two == <<Prim, o>>
             run == [prim |-> excpt, entry |-> Run.entry, left |-> 0, depth |-> Len(acts) + 1]
  <2>1. Top.objs # <<>> /\ Applies(1, two, Run.entry, run)
    BY <1>2 DEF Raise
  <2>2. o \in Object /\ Operands(1) /\ 1 \in 1 .. 2 /\ Prim \in Object
    BY <2>1, TopObject, HigherOrderAssumption DEF Operands, Inv
  <2>3. Run.entry \in Code /\ Len(acts) + 1 \in Nat
    BY <1>2, RunTypes, TopFacts DEF Inv
  <2>4. run \in RunRecord /\ run.depth = Len(acts) + 1
    <3> DEFINE e == Run.entry
    <3>1. e \in Code /\ Len(acts) + 1 \in Nat
      BY <2>3
    <3> HIDE DEF e
    <3>2. excpt \in {"map", "thunk", "VM_EXCPT", "VM_EXCPT_CONT"}
      OBVIOUS
    <3>3. /\ [prim |-> excpt, entry |-> e, left |-> 0, depth |-> Len(acts) + 1] \in RunRecord
          /\ [prim |-> excpt, entry |-> e, left |-> 0, depth |-> Len(acts) + 1].depth = Len(acts) + 1
      BY <3>1, <3>2 DEF RunRecord
    <3> QED BY <3>3 DEF e
  <2>5. two \in Seq(Object)
    <3> HIDE DEF o
    <3> QED BY <2>2
  <2>6. Stack!Apply(1, two, Run.entry) => Forward
    <3>1. 1 \in 1 .. Stack!MaxOperands
      BY DEF Stack!MaxOperands
    <3> HIDE DEF o
    <3> QED BY <2>2, <2>3, <3>1, Zenon DEF Forward
  <2> HIDE DEF run, two
  <2> QED BY <2>1, <2>2, <2>3, <2>4, <2>5, <2>6, AppliesGood
<1> QED BY <1>1, <1>2

\* ... the next element of map,
LEMMA MapRoundGood ==
  ASSUME Inv, NEW e \in Listed, MapRound(e)
  PROVE  StepGood
<1>1. FrameInv'
  BY MapRoundInv DEF Inv
<1>2. \/ /\ Stack!ApplyAgain(<<Prim, e>>, Run.entry) /\ Run.left > 0 /\ InRun
         /\ runs' = [runs EXCEPT ![Len(runs)].left = @ - 1]
      \/ Still /\ runs' = runs
  BY MapRoundRefines DEF Inv
<1>3. Stack!ApplyAgain(<<Prim, e>>, Run.entry) => Forward
  <2>1. Prim \in Object /\ e \in Object /\ Run.entry \in Code /\ 1 \in 1 .. Stack!MaxOperands
    BY HigherOrderAssumption, OwnFrame DEF MapRound, Ends, Inv, Stack!MaxOperands
  <2> QED BY <2>1, Zenon DEF Forward
<1>4. hdr' = hdr /\ local' = local
  <2>1. CASE RoundAt + 2 * SizeObject >= STKSEG_SIZE
    BY <2>1, OverflowMoves DEF MapRound, Exhausted
  <2>2. CASE ~(RoundAt + 2 * SizeObject >= STKSEG_SIZE)
    BY <2>2 DEF MapRound
  <2> QED BY <2>1, <2>2
<1>5. HeadersKept /\ local' < STKSEG_SIZE
  BY <1>4, LocalInside DEF HeadersKept, Inv
<1>6. Keeps => RunsFit'
  BY <1>2, RunsKept, RunsAgain, TopFacts DEF Inv
<1> QED BY <1>1, <1>2, <1>3, <1>5, <1>6, ForwardGood

\* ... apply of a closure.
LEMMA ApplyClosureGood ==
  ASSUME Inv, NEW c \in Closure, NEW e \in Listed, ApplyClosure(c, e)
  PROVE  StepGood
<1>1. FrameInv' /\ e \in Object
  BY ApplyClosureInv, HigherOrderAssumption DEF Inv
<1>2. (Stack!Become(2, c, [k \in 1 .. ClosureArity[c] |-> e]) \/ Still) /\ runs' = runs
  BY <1>1, ApplyClosureRefines, Zenon DEF Inv
<1>3. Stack!Become(2, c, [k \in 1 .. ClosureArity[c] |-> e]) => Forward
  <2>1. pc \in Code /\ 2 \in 1 .. Stack!MaxOperands
    BY RegisterTypes DEF Inv, Stack!MaxOperands
  <2> QED BY <1>1, <2>1, Zenon DEF Forward
<1>4. HeadersKept /\ local' < STKSEG_SIZE
  <2>1. CASE Base(2) + SizeObject * ClosureArity[c] >= STKSEG_SIZE
    <3>1. hdr' = hdr /\ local' = local
      BY <2>1, OverflowMoves DEF ApplyClosure, Exhausted
    <3> QED BY <3>1, LocalInside DEF HeadersKept, Inv
  <2>2. CASE ~(Base(2) + SizeObject * ClosureArity[c] >= STKSEG_SIZE)
    <3>1. hdr' = hdr /\ local' = Base(2) /\ Operands(2) /\ 2 \in 1 .. 2
      BY <2>2 DEF ApplyClosure
    <3>2. Base(2) \in Nat /\ Base(2) + SizeObject < STKSEG_SIZE
      BY <3>1, OperandsTaken DEF Inv
    <3>3. Base(2) < STKSEG_SIZE
      BY <3>2, Sizes, Size
    <3> QED BY <3>1, <3>3 DEF HeadersKept
  <2> QED BY <2>1, <2>2
<1>5. Keeps => RunsFit'
  BY <1>2, RunsKept, TopFacts DEF Inv
<1> QED BY <1>1, <1>2, <1>3, <1>4, <1>5, ForwardGood

\* The end of a loop of apply_proc delivers its result to the primitive's caller:
LEMMA DeliverGood ==
  ASSUME Inv, Own, Stack!InBody, NEW o \in Object, Closes(o), FrameInv',
         runs' = SubSeq(runs, 1, Len(runs) - 1)
  PROVE  StepGood
<1>1. Len(acts) > 1 /\ Top.applied /\ pc \in Code /\ 1 \in 1 .. Stack!MaxOperands
  BY OwnFrame, RegisterTypes DEF Inv, Stack!MaxOperands
<1>2. RunsFit'
  BY RunsPopped DEF Inv
<1>3. Stack!Deliver(o)
  BY <1>1, ClosesRefines DEF Stack!Deliver, Top, Stack!Top
<1>4. Stack!Next
  BY <1>1, <1>3, Zenon DEF Stack!Next
<1> QED BY <1>1, <1>2, <1>4, ClosesGood

\* ... the list of map,
LEMMA MapEndGood ==
  ASSUME Inv, NEW e \in Listed, MapEnd(e)
  PROVE  StepGood
<1>1. FrameInv' /\ (Exhausted \/ Closes(e)) /\ e \in Object
  BY MapEndInv, HigherOrderAssumption DEF Inv
<1>2. CASE local + SizeObject >= STKSEG_SIZE
  BY <1>2, ExhaustedGood DEF MapEnd
<1>3. CASE ~(local + SizeObject >= STKSEG_SIZE)
  <2>1. /\ RestoreSimple(e) /\ runs' = SubSeq(runs, 1, Len(runs) - 1) /\ Own /\ Stack!InBody
    BY <1>3 DEF MapEnd, Ends
  <2>2. Len(acts) > 1 /\ Top.phase = "body" /\ Top.applied
    BY <2>1, OwnFrame DEF Inv, Stack!InBody, Top, Stack!Top
  <2>3. Closes(e)
    BY <1>1, <2>1, <2>2, RestoreSimpleInv DEF Inv
  <2> QED BY <1>1, <2>1, <2>3, DeliverGood
<1> QED BY <1>2, <1>3

\* ... the result of a thunk,
LEMMA ThunkEndGood ==
  ASSUME Inv, ThunkEnd
  PROVE  StepGood
<1>1. FrameInv' /\ Closes(Top.objs[Len(Top.objs)])
  BY ThunkEndInv DEF Inv
<1>2. Own /\ Stack!InBody /\ runs' = SubSeq(runs, 1, Len(runs) - 1) /\ Top.objs # <<>>
  BY DEF ThunkEnd, Ends
<1>3. Top.objs[Len(Top.objs)] \in Object
  BY <1>2, TopObject DEF Inv
<1> QED BY <1>1, <1>2, <1>3, DeliverGood

\* ... and none of a handler, after which the program stops.
LEMMA HandlerEndGood ==
  ASSUME Inv, HandlerEnd
  PROVE  StepGood
<1>1. UNCHANGED vars /\ runs' = <<>>
  BY DEF HandlerEnd
<1> QED BY <1>1, StillGood

\* Every step is good.
LEMMA HigherGood ==
  ASSUME Inv, TailArities \subseteq 0 .. 31, [HigherNext]_allVars
  PROVE  StepGood
<1>1. CASE UNCHANGED allVars
  <2>1. UNCHANGED vars /\ runs' = runs
    BY <1>1 DEF allVars, runVars
  <2> QED BY <2>1, StillGood
<1>2. CASE Instruction /\ UNCHANGED runVars
  BY <1>2, InstructionGood
<1>3. CASE ~InRun /\ Restore /\ UNCHANGED runVars
  BY <1>3, RestoreGood
<1>4. CASE \E l \in Entry, e \in Listed : \E n \in 0 .. MaxElements : Map(n, l, e)
  <2>1. PICK l \in Entry, e \in Listed : \E n \in 0 .. MaxElements : Map(n, l, e)
    BY <1>4
  <2>2. PICK n \in 0 .. MaxElements : Map(n, l, e)
    BY <2>1
  <2>3. n \in Nat
    BY HigherOrderAssumption
  <2> QED BY <2>2, <2>3, MapGood
<1>5. CASE \E e \in Listed : MapRound(e) \/ MapEnd(e) \/ ApplyPrimitive(e)
  <2>1. PICK e \in Listed : MapRound(e) \/ MapEnd(e) \/ ApplyPrimitive(e)
    BY <1>5
  <2>2. CASE ApplyPrimitive(e)
    <3>1. Operands(2) /\ 2 \in 1 .. 2 /\ Leaves(2, e) /\ e \in Object /\ UNCHANGED runVars
      BY <2>2, HigherOrderAssumption DEF ApplyPrimitive
    <3> QED BY <3>1, LeavesGood
  <2> QED BY <2>1, <2>2, MapRoundGood, MapEndGood
<1>6. CASE \E c \in Closure, e \in Listed : ApplyClosure(c, e)
  BY <1>6, ApplyClosureGood
<1>7. CASE \E l, m \in Entry : WithExceptionHandler(l, m)
  BY <1>7, WithExceptionHandlerGood
<1>8. CASE \E excpt \in {"VM_EXCPT", "VM_EXCPT_CONT"} : Raise(excpt)
  BY <1>8, RaiseGood
<1>9. CASE ThunkEnd \/ HandlerEnd
  BY <1>9, ThunkEndGood, HandlerEndGood
<1> QED BY <1>1, <1>2, <1>3, <1>4, <1>5, <1>6, <1>7, <1>8, <1>9, Zenon DEF HigherNext

------------------------------------------------------------------------------
(* The theorems.  attr.shadow has five bits: a tail recursion of 32         *)
(* arguments or more has its count cut (vm.h), its arguments are not moved  *)
(* and the frame is lost, so they are about programs without one.           *)

\* The count of a tail recursion fits in attr.shadow.
ShadowFits == TailArities \subseteq 0 .. 31

\* The invariant holds of an empty stack.
LEMMA InitInv ==
  ASSUME HigherInit
  PROVE  Inv
<1>1. /\ mem = [i \in 0 .. STKSEG_SIZE - 1 |-> Blank]
      /\ sp = 0 /\ fp = 0 /\ local = 0 /\ pc \in Code
      /\ attr = [shadow |-> 0, mode |-> NORMAL_CALL]
      /\ closure = NULL /\ env = InitEnv /\ stopped = FALSE
      /\ acts = <<Stack!Bottom>>
      /\ hdr = <<[at |-> 0, fp |-> 0, local |-> 0,
                  attr |-> [shadow |-> 0, mode |-> NORMAL_CALL]]>>
      /\ runs = <<>>
  BY DEF HigherInit, Init
<1> DEFINE h == [at |-> 0, fp |-> 0, local |-> 0, attr |-> [shadow |-> 0, mode |-> NORMAL_CALL]]
<1>2. attr \in Attr /\ h.attr \in Attr
  BY <1>1 DEF Attr, NORMAL_CALL
<1>3. h \in FrameHeader /\ h.at = 0
  BY <1>2 DEF FrameHeader
<1>4. Stack!Bottom \in Activation /\ Stack!Bottom.objs = <<>> /\ Stack!Bottom.locs = 0
      /\ Stack!Bottom.phase = "body"
  BY DEF Stack!Bottom, Activation
<1> HIDE DEF h
<1>5. /\ acts \in Seq(Activation) /\ Len(acts) = 1 /\ acts[1] = Stack!Bottom
      /\ hdr \in Seq(FrameHeader) /\ Len(hdr) = 1 /\ hdr[1] = h
  <2>1. acts = <<Stack!Bottom>> /\ hdr = <<h>>
    BY <1>1 DEF h
  <2> QED BY <1>3, <1>4, <2>1
<1>6. Layout(acts, hdr)
  BY <1>3, <1>4, <1>5 DEF Layout
<1>7. End(acts, hdr, 1) = 0 /\ hdr[1].at + SizeObject * acts[1].locs = 0
  BY <1>3, <1>4, <1>5, Sizes DEF End
<1>8. Contents(mem, acts, hdr)
  <2>1. IsMemory(mem)
    BY <1>1 DEF IsMemory
  <2>2. ObjectsIn(mem, acts, hdr, 1)
    BY <1>4, <1>5 DEF ObjectsIn, ObjectsAt
  <2>3. End(acts, hdr, 1) < STKSEG_SIZE
    BY <1>7, Some
  <2>4. 2 .. Len(acts) = {} /\ 1 .. Len(acts) = {1}
    BY <1>5
  <2> QED BY <1>5, <2>1, <2>2, <2>3, <2>4, Zenon DEF Contents
<1>9. Registers(acts, hdr, 1, sp, fp, local, attr, closure)
  <2>1. ExecAt(acts, 1) = 1 /\ acts[1].phase = "body" /\ acts[1].locs = 0
    BY <1>4, <1>5 DEF ExecAt
  <2> QED BY <1>1, <1>7, <2>1 DEF Registers
<1>10. FrameInv
  <2>1. env = InitEnv /\ stopped = FALSE /\ closure = NULL /\ pc \in Code
    BY <1>1, Zenon
  <2>2. env \in [Closure -> Seq(Object)]
    BY <2>1, Captures, Zenon
  <2>3. stopped \in BOOLEAN /\ closure \in Closure \cup {NULL}
    BY <2>1, Zenon
  <2>4. Registers(acts, hdr, Len(acts), sp, fp, local, attr, closure)
    BY <1>5, <1>9, Zenon
  <2> QED BY <1>2, <1>6, <1>8, <2>1, <2>2, <2>3, <2>4, Zenon DEF FrameInv
<1>11. RunsFit
  <2>1. runs \in Seq(RunRecord) /\ DOMAIN runs = {}
    BY <1>1
  <2> QED BY <2>1, Zenon DEF RunsFit, RunRecord
<1>12. LocalsFit
  <2>1. 1 .. Len(acts) = {1} /\ 0 < STKSEG_SIZE
    BY <1>5, Some
  <2>2. hdr[1].at + SizeObject * acts[1].locs < STKSEG_SIZE
    BY <1>7, <2>1, Zenon
  <2> QED BY <2>1, <2>2, Zenon DEF LocalsFit
<1> QED BY <1>10, <1>11, <1>12 DEF Inv

\* It implies what the runs check.
LEMMA InvImplies ==
  ASSUME Inv
  PROVE  TypeOK /\ StackIntact /\ RegistersPlaced
<1>1. TypeOK
  <2>1. local < STKSEG_SIZE /\ local \in Nat /\ fp <= sp /\ sp < STKSEG_SIZE
        /\ sp \in Nat /\ fp \in Nat /\ Len(hdr) = Len(acts) /\ IsMemory(mem)
    BY LocalInside, RegisterTypes, TopFacts DEF Inv
  <2>2. /\ sp \in 0 .. STKSEG_SIZE - 1 /\ fp \in 0 .. STKSEG_SIZE - 1
        /\ local \in 0 .. STKSEG_SIZE - 1
    BY <2>1, Size
  <2> QED BY <2>1, <2>2, RegisterTypes DEF TypeOK, IsMemory, Inv
<1>2. ASSUME NEW i \in 2 .. Len(acts) PROVE HeaderHeld(i)
  <2>1. HeaderIn(mem, acts, hdr, i)
    BY TopFacts DEF Contents, Inv
  <2> QED BY <2>1, Zenon DEF HeaderIn, HeaderHeld
<1>3. ASSUME NEW i \in 1 .. Len(acts) PROVE ObjectsHeld(i)
  <2>1. ObjectsIn(mem, acts, hdr, i)
    BY TopFacts DEF Contents, Inv
  <2> QED BY <2>1, Zenon DEF ObjectsIn, ObjectsAt, ObjectsHeld
<1>4. RegistersPlaced
  BY TopFacts DEF RegistersPlaced, Inv
<1> QED BY <1>1, <1>2, <1>3, <1>4 DEF StackIntact

(* The registers, the frames and the objects in memory fit together in      *)
(* every state of the VM.                                                   *)
THEOREM FramesInvariant ==
  ASSUME ShadowFits
  PROVE  HigherSpec => []Inv
<1>1. HigherInit => Inv
  BY InitInv
<1>2. Inv /\ [HigherNext]_allVars => Inv'
  BY HigherGood DEF ShadowFits, StepGood
<1> QED BY <1>1, <1>2, PTL DEF HigherSpec

(* The registers stay inside the stack and no activation lacks a frame.     *)
THEOREM FramesTyped ==
  ASSUME ShadowFits
  PROVE  HigherSpec => []TypeOK
<1>1. Inv => TypeOK
  BY InvImplies
<1> QED BY <1>1, FramesInvariant, PTL

(* No push, call, return, tail recursion or primitive overwrites a frame or *)
(* an object of an activation that is still needed (StackIntact).           *)
THEOREM FramesIntact ==
  ASSUME ShadowFits
  PROVE  HigherSpec => []StackIntact
<1>1. Inv => StackIntact
  BY InvImplies
<1> QED BY <1>1, FramesInvariant, PTL

(* sp, fp and local are where the newest activation ends, where its frame   *)
(* is, and where the variables of the activation being executed are, after  *)
(* any sequence of calls and returns (RegistersPlaced).                     *)
THEOREM FramesPlaced ==
  ASSUME ShadowFits
  PROVE  HigherSpec => []RegistersPlaced
<1>1. Inv => RegistersPlaced
  BY InvImplies
<1> QED BY <1>1, FramesInvariant, PTL

(* A return gives the caller its fp, local, attr, closure and program       *)
(* counter back, whatever happened in between (RESTORE, RESTORE_SIMPLE).    *)
THEOREM ReturnsRestore ==
  ASSUME ShadowFits
  PROVE  HigherSpec => ReturnRestores
<1>1. Inv /\ [HigherNext]_allVars
        => [Len(acts') < Len(acts) =>
              /\ fp' = Where.fp /\ local' = Where.local /\ attr' = Where.attr
              /\ closure' = Top.clo /\ pc' = Top.ret]_vars
  BY HigherGood DEF ShadowFits, StepGood, Restored
<1> QED BY <1>1, FramesInvariant, PTL DEF HigherSpec, ReturnRestores

(* The VM with its byte array and registers does what CallStack promises of *)
(* calls: every step is a step of CallStack or changes nothing of it.       *)
THEOREM FramesRefineStack ==
  ASSUME ShadowFits
  PROVE  HigherSpec => StackSpec
<1>1. HigherInit => Stack!Init
  <2> SUFFICES ASSUME HigherInit PROVE Stack!Init
    OBVIOUS
  <2>1. acts = <<Stack!Bottom>> /\ pc \in Code /\ closure = NULL /\ env = InitEnv
    BY Zenon DEF HigherInit, Init
  <2>2. env \in [Closure -> Seq(Object)]
    BY <2>1, Captures, Zenon
  <2> QED BY <2>1, <2>2, Zenon DEF Stack!Init
<1>2. Inv /\ [HigherNext]_allVars => [Stack!Next]_(Stack!vars)
  BY HigherGood DEF ShadowFits, StepGood, Still
<1> QED BY <1>1, <1>2, FramesInvariant, PTL DEF HigherSpec, StackSpec, Stack!Spec
==============================================================================
