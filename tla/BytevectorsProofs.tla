--------------------------- MODULE BytevectorsProofs --------------------------
(***************************************************************************)
(* For any width of the size field and of a byte, any literals and any      *)
(* integers: the primitives of bytevector.c stay inside their blocks, keep  *)
(* the types of what they store and never change a literal.                 *)
(*                                                                         *)
(* The size field bounds every access, but the block was allocated from an  *)
(* integer of another width.  The inductive invariant is the relation       *)
(* between the two: a vector's size is at most the length of its block,     *)
(* because what is left of a count in the size field is at most the count.  *)
(*                                                                         *)
(* The same invariant makes the refinement of ByteArrays go through: seen   *)
(* up to its size, a block is an array, and what each primitive does to the *)
(* blocks is what the operation of its name does to the arrays.             *)
(***************************************************************************)
EXTENDS Bytevectors, TLAPS

Vector(cap) == [mutable : BOOLEAN, size : (0 .. cap) \cap (0 .. SIZES - 1), vec : [0 .. cap - 1 -> Byte]]
Vectors == UNION {Vector(cap) : cap \in Nat}

Inv ==
  /\ vecs \in Seq(Vectors)
  /\ status \in {"running", "panic", "collecting"}
  /\ wild = FALSE

------------------------------------------------------------------------------
(* The remainder of a count fits both the size field and the block.         *)
LEMMA Remainder ==
  ASSUME NEW m \in Nat \ {0}, NEW c \in Nat
  PROVE  c % m \in 0 .. m - 1 /\ c % m <= c
OBVIOUS

LEMMA ByteRemainder ==
  ASSUME NEW m \in Nat \ {0}, NEW c \in Int
  PROVE  c % m \in 0 .. m - 1
OBVIOUS

LEMMA VectorBlock ==
  ASSUME NEW p \in Vectors
  PROVE  \E cap \in Nat : p \in Vector(cap)
BY DEF Vectors

(* An access below the size field is inside the block.                      *)
LEMMA SizeBoundsBlock ==
  ASSUME NEW p \in Vectors, NEW from \in Nat, NEW n \in Nat, from + n <= p.size
  PROVE  ~Outside(p, from, n)
<1>1. PICK cap \in Nat : p \in Vector(cap)
  BY VectorBlock
<1>2. p.size <= cap /\ p.size \in Nat /\ DOMAIN p.vec = 0 .. cap - 1
  BY <1>1 DEF Vector
<1> QED BY <1>2 DEF Outside

(* A new vector has its count of bytes and a size its block covers.         *)
LEMMA NewIsVector ==
  ASSUME NEW count \in Nat, NEW datum \in Int
  PROVE  New(count, datum) \in Vector(count) /\ New(count, datum) \in Vectors
<1>1. count % SIZES \in (0 .. count) \cap (0 .. SIZES - 1)
  BY Remainder, BytevectorsAssumption
<1>2. datum % BYTES \in Byte
  BY ByteRemainder, BytevectorsAssumption DEF Byte
<1>3. New(count, datum) \in Vector(count)
  BY <1>1, <1>2 DEF New, Vector
<1> QED BY <1>3 DEF Vectors

(* Whatever lies beyond a block, what a memcpy moves are bytes.             *)
LEMMA BytesOnly ==
  ASSUME NEW p \in Vectors, NEW i
  PROVE  At(p, i) \in Byte
<1>1. PICK cap \in Nat : p \in Vector(cap)
  BY VectorBlock
<1>2. 0 \in Byte
  BY BytevectorsAssumption DEF Byte
<1>3. p.vec \in [0 .. cap - 1 -> Byte]
  BY <1>1 DEF Vector
<1> QED BY <1>2, <1>3 DEF At

LEMMA PlainMove ==
  ASSUME NEW p \in Vectors, NEW from, NEW n, NEW f \in Moved(p, from, n, FALSE)
  PROVE  f \in [0 .. n - 1 -> Byte]
<1>1. f = [k \in 0 .. n - 1 |-> At(p, from + k)]
  BY DEF Moved
<1> QED BY <1>1, BytesOnly

LEMMA OverlapMove ==
  ASSUME NEW p \in Vectors, NEW from, NEW n, NEW overlap, NEW f \in Moved(p, from, n, overlap)
  PROVE  f \in [0 .. n - 1 -> Byte]
<1>1. CASE overlap
  <2>1. f \in [0 .. n - 1 -> {At(p, from + k) : k \in 0 .. n - 1}]
    BY <1>1 DEF Moved
  <2> QED BY <2>1, BytesOnly
<1>2. CASE ~overlap
  <2>1. f = [k \in 0 .. n - 1 |-> At(p, from + k)]
    BY <1>2 DEF Moved
  <2> QED BY <2>1, BytesOnly
<1> QED BY <1>1, <1>2

(* A store changes neither the block's length, nor size, nor mutability.    *)
LEMMA StoredIsVector ==
  ASSUME NEW p \in Vectors, NEW at \in Int, NEW n \in Nat, NEW f \in [0 .. n - 1 -> Byte]
  PROVE  Stored(p, at, n, f) \in Vectors
<1>1. PICK cap \in Nat : p \in Vector(cap)
  BY VectorBlock
<1> DEFINE g == [i \in DOMAIN p.vec |-> IF i \in at .. at + n - 1 THEN f[i - at] ELSE p.vec[i]]
<1>2. p.vec \in [0 .. cap - 1 -> Byte] /\ DOMAIN p.vec = 0 .. cap - 1
  BY <1>1 DEF Vector
<1>3. ASSUME NEW i \in 0 .. cap - 1
      PROVE  (IF i \in at .. at + n - 1 THEN f[i - at] ELSE p.vec[i]) \in Byte
  <2>1. CASE i \in at .. at + n - 1
    <3>1. i - at \in 0 .. n - 1
      BY <2>1
    <3> QED BY <2>1, <3>1
  <2>2. CASE i \notin at .. at + n - 1
    BY <2>2, <1>2
  <2> QED BY <2>1, <2>2
<1>4. g \in [0 .. cap - 1 -> Byte]
  BY <1>2, <1>3
<1>5. Stored(p, at, n, f) = [p EXCEPT !.vec = g]
  BY DEF Stored
<1>6. [p EXCEPT !.vec = g] \in Vector(cap)
  <2> HIDE DEF g
  <2> QED BY <1>1, <1>4 DEF Vector
<1> QED BY <1>5, <1>6 DEF Vectors

------------------------------------------------------------------------------
(* What every step does to the vectors: it adds one at the end, replaces a  *)
(* mutable one, or leaves them.                                             *)
Grows(p) == p \in Vectors /\ vecs' = Append(vecs, p)
Replaces(b, p) == vecs[b].mutable /\ p \in Vectors /\ vecs' = [vecs EXCEPT ![b] = p]

Effect ==
  /\ \/ \E p : Grows(p)
     \/ \E b \in Id : \E p : Replaces(b, p)
     \/ vecs' = vecs
  /\ status' \in {"running", "panic", "collecting"}
  /\ wild' = FALSE

LEMMA HaltEffect ==
  ASSUME Inv, NEW s \in {"panic", "collecting"}, Halt(s)
  PROVE  Effect
BY DEF Inv, Halt, Effect

LEMMA ReturnEffect ==
  ASSUME Inv, NEW p \in Vectors, NEW w, w = FALSE, Return(p, w)
  PROVE  Effect
BY DEF Inv, Return, Finish, Effect, Grows

LEMMA StayEffect ==
  ASSUME Inv, NEW r, NEW w, w = FALSE, Finish(vecs, r, w)
  PROVE  Effect
BY DEF Inv, Finish, Effect

LEMMA ReplaceEffect ==
  ASSUME Inv, NEW b \in Id, vecs[b].mutable, NEW p \in Vectors, NEW r, NEW w, w = FALSE,
         Finish([vecs EXCEPT ![b] = p], r, w)
  PROVE  Effect
BY DEF Inv, Finish, Effect, Replaces

LEMMA Members ==
  ASSUME Inv, NEW b \in Id
  PROVE  vecs[b] \in Vectors /\ vecs[b].size \in Nat /\ vecs[b].size < SIZES
<1>1. vecs[b] \in Vectors
  BY DEF Inv, Id
<1>2. PICK cap \in Nat : vecs[b] \in Vector(cap)
  BY <1>1, VectorBlock
<1> QED BY <1>1, <1>2, BytevectorsAssumption DEF Vector

------------------------------------------------------------------------------
LEMMA GenerateObjectStep ==
  ASSUME Inv, NEW lit \in Literals, NEW mutable \in BOOLEAN, generate_object(lit, mutable)
  PROVE  Effect
<1> DEFINE n == Len(lit)
<1>1. lit \in Seq(Byte) /\ n \in Nat /\ n < SIZES
  BY BytevectorsAssumption DEF Byte
<1>2. PICK f \in IF mutable THEN [0 .. n - 1 -> Byte] ELSE {[i \in 0 .. n - 1 |-> lit[i + 1]]} :
        Return([mutable |-> mutable, size |-> n, vec |-> f], FALSE)
  BY DEF generate_object
<1>3. f \in [0 .. n - 1 -> Byte]
  <2>1. [i \in 0 .. n - 1 |-> lit[i + 1]] \in [0 .. n - 1 -> Byte]
    BY <1>1
  <2> QED BY <2>1, <1>2
<1>4. [mutable |-> mutable, size |-> n, vec |-> f] \in Vector(n)
  BY <1>1, <1>3, BytevectorsAssumption DEF Vector
<1>5. [mutable |-> mutable, size |-> n, vec |-> f] \in Vectors
  BY <1>1, <1>4 DEF Vectors
<1> QED BY <1>2, <1>5, ReturnEffect

LEMMA MakeStep ==
  ASSUME Inv, NEW count \in Counts, NEW datum \in Ints, _make_bytevector(count, datum)
  PROVE  Effect
<1>1. count \in Int /\ datum \in Int
  BY BytevectorsAssumption
<1>2. CASE count >= 0 /\ Return(New(count, datum), FALSE)
  <2>1. New(count, datum) \in Vectors
    BY <1>1, <1>2, NewIsVector
  <2> QED BY <1>2, <2>1, ReturnEffect
<1>3. CASE Halt("collecting")
  BY <1>3, HaltEffect
<1> QED BY <1>2, <1>3 DEF _make_bytevector

LEMMA RefStep ==
  ASSUME Inv, NEW b \in Id, NEW i \in Ints, _bytevector_u8_ref(b, i)
  PROVE  Effect
<1> DEFINE p == vecs[b]
<1>1. p \in Vectors /\ p.size \in Nat /\ i \in Int
  BY Members, BytevectorsAssumption
<1>2. CASE IndexValid(p, i) /\ Finish(vecs, Fixnum(At(p, i)), Outside(p, i, 1))
  <2>1. i \in Nat /\ i + 1 <= p.size
    BY <1>1, <1>2 DEF IndexValid
  <2>2. Outside(p, i, 1) = FALSE
    BY <1>1, <2>1, SizeBoundsBlock DEF Outside
  <2> QED BY <1>2, <2>2, StayEffect
<1>3. CASE Panic
  BY <1>3, HaltEffect DEF Panic
<1> QED BY <1>2, <1>3 DEF _bytevector_u8_ref

LEMMA SetStep ==
  ASSUME Inv, NEW b \in Id, NEW i \in Ints, NEW datum \in Ints, _bytevector_u8_set(b, i, datum)
  PROVE  Effect
<1> DEFINE p == vecs[b]
           q == Stored(p, i, 1, [k \in {0} |-> datum])
<1>1. p \in Vectors /\ p.size \in Nat /\ i \in Int
  BY Members, BytevectorsAssumption
<1>2. CASE /\ MutableType(p) /\ IndexValid(p, i) /\ datum \in Byte
           /\ Finish([vecs EXCEPT ![b] = q], Fixnum(datum), Outside(p, i, 1))
  <2>1. i \in Nat /\ i + 1 <= p.size
    BY <1>1, <1>2 DEF IndexValid
  <2>2. Outside(p, i, 1) = FALSE
    BY <1>1, <2>1, SizeBoundsBlock DEF Outside
  <2>3. [k \in {0} |-> datum] \in [0 .. 1 - 1 -> Byte]
    BY <1>2
  <2>4. q \in Vectors
    BY <1>1, <2>3, StoredIsVector
  <2> QED BY <1>2, <2>2, <2>4, ReplaceEffect DEF MutableType
<1>3. CASE Panic
  BY <1>3, HaltEffect DEF Panic
<1> QED BY <1>2, <1>3 DEF _bytevector_u8_set

LEMMA CopyStep ==
  ASSUME Inv, NEW b \in Id, NEW from \in Ints, NEW to \in Ints, _bytevector_copy(b, from, to)
  PROVE  Effect
<1> DEFINE p == vecs[b]
           n == to - from
<1>1. p \in Vectors /\ p.size \in Nat /\ p.size < SIZES /\ from \in Int /\ to \in Int
  BY Members, BytevectorsAssumption
<1>2. CASE CopyRange(p, from, to)
  <2>1. PICK f \in Moved(p, from, n, FALSE) :
          Return(Stored(New(n, 0), 0, n, f), Outside(p, from, n) \/ Outside(New(n, 0), 0, n))
    BY <1>2 DEF _bytevector_copy
  <2>2. from \in Nat /\ n \in Nat /\ from + n <= p.size /\ n < SIZES
    BY <1>1, <1>2, BytevectorsAssumption DEF CopyRange
  <2>3. New(n, 0) \in Vectors /\ New(n, 0) \in Vector(n)
    BY <2>2, NewIsVector
  <2>4. ~Outside(p, from, n)
    BY <1>1, <2>2, SizeBoundsBlock
  <2>5. ~Outside(New(n, 0), 0, n)
    BY <2>2, <2>3 DEF Outside, Vector
  <2>6. f \in [0 .. n - 1 -> Byte]
    BY <1>1, <2>1, PlainMove
  <2>7. Stored(New(n, 0), 0, n, f) \in Vectors
    <3>1. n \in Nat /\ New(n, 0) \in Vectors
      BY <2>2, <2>3
    <3> HIDE DEF n, p
    <3> QED BY <3>1, <2>6, StoredIsVector
  <2> QED BY <2>1, <2>4, <2>5, <2>7, ReturnEffect
<1>3. CASE Panic
  BY <1>3, HaltEffect DEF Panic
<1> QED BY <1>2, <1>3 DEF _bytevector_copy

LEMMA OverwriteStep ==
  ASSUME Inv, NEW a \in Id, NEW b \in Id, NEW at \in Ints, NEW from \in Ints, NEW to \in Ints,
         _bytevector_copy_overwrite(a, at, b, from, to)
  PROVE  Effect
<1> DEFINE d == vecs[a]
           s == vecs[b]
           n == to - from
           overlap == a = b /\ at < to /\ from < at + n
<1>1. /\ d \in Vectors /\ d.size \in Nat /\ s \in Vectors /\ s.size \in Nat
      /\ at \in Int /\ from \in Int /\ to \in Int
  BY Members, BytevectorsAssumption
<1>2. CASE MutableType(d) /\ OverwriteRange(d, at, s, from, to)
  <2>1. PICK f \in Moved(s, from, n, overlap) :
          Finish([vecs EXCEPT ![a] = Stored(d, at, n, f)], None,
                 Outside(d, at, n) \/ Outside(s, from, n))
    BY <1>2 DEF _bytevector_copy_overwrite
  <2>2. /\ from \in Nat /\ at \in Nat /\ n \in Nat
        /\ from + n <= s.size /\ at + n <= d.size
    BY <1>1, <1>2 DEF OverwriteRange
  <2>3. ~Outside(s, from, n) /\ ~Outside(d, at, n)
    BY <1>1, <2>2, SizeBoundsBlock
  <2>4. f \in [0 .. n - 1 -> Byte]
    <3> HIDE DEF overlap
    <3> QED BY <1>1, <2>1, OverlapMove
  <2>5. Stored(d, at, n, f) \in Vectors
    BY <1>1, <2>2, <2>4, StoredIsVector
  <2> QED BY <1>2, <2>1, <2>3, <2>5, ReplaceEffect DEF MutableType
<1>3. CASE Panic
  BY <1>3, HaltEffect DEF Panic
<1> QED BY <1>2, <1>3 DEF _bytevector_copy_overwrite

LEMMA AppendStep ==
  ASSUME Inv, NEW a \in Id, NEW b \in Id, _bytevector_append(a, b)
  PROVE  Effect
<1> DEFINE p == vecs[a]
           q == vecs[b]
           new == New(p.size + q.size, 0)
           valid == OverwriteRange(new, 0, p, 0, p.size) /\ OverwriteRange(new, p.size, q, 0, q.size)
<1>1. p \in Vectors /\ p.size \in Nat /\ q \in Vectors /\ q.size \in Nat
  BY Members
<1>2. CASE valid
  <2>1. PICK f \in Moved(p, 0, p.size, FALSE), g \in Moved(q, 0, q.size, FALSE) :
          Return(Stored(Stored(new, 0, p.size, f), p.size, q.size, g),
                 \/ Outside(p, 0, p.size) \/ Outside(q, 0, q.size)
                 \/ Outside(new, 0, p.size) \/ Outside(new, p.size, q.size))
    BY <1>2 DEF _bytevector_append
  <2>2. new \in Vectors
    BY <1>1, NewIsVector
  <2>3. p.size <= new.size /\ p.size + q.size <= new.size
    <3>1. new.size \in Int
      <4>1. PICK cap \in Nat : new \in Vector(cap)
        BY <2>2, VectorBlock
      <4> QED BY <4>1 DEF Vector
    <3> HIDE DEF new
    <3> QED BY <1>1, <1>2, <3>1 DEF OverwriteRange
  <2>4. ~Outside(p, 0, p.size) /\ ~Outside(q, 0, q.size)
    BY <1>1, SizeBoundsBlock
  <2>5. ~Outside(new, 0, p.size) /\ ~Outside(new, p.size, q.size)
    <3> HIDE DEF new, p, q
    <3> QED BY <1>1, <2>2, <2>3, SizeBoundsBlock
  <2>6. f \in [0 .. p.size - 1 -> Byte] /\ g \in [0 .. q.size - 1 -> Byte]
    BY <1>1, <2>1, PlainMove
  <2>7. Stored(Stored(new, 0, p.size, f), p.size, q.size, g) \in Vectors
    <3>1. Stored(new, 0, p.size, f) \in Vectors
      BY <1>1, <2>2, <2>6, StoredIsVector
    <3> QED BY <1>1, <2>6, <3>1, StoredIsVector
  <2> QED BY <2>1, <2>4, <2>5, <2>7, ReturnEffect
<1>3. CASE Panic
  BY <1>3, HaltEffect DEF Panic
<1> QED BY <1>2, <1>3 DEF _bytevector_append

------------------------------------------------------------------------------
LEMMA NextEffect ==
  ASSUME Inv, Next
  PROVE  Effect
<1>1. CASE Take
  BY <1>1, StayEffect DEF Take
<1>2. CASE Allocate
  BY <1>2, GenerateObjectStep, MakeStep, CopyStep, AppendStep DEF Allocate
<1>3. CASE Access
  <2>1. ASSUME NEW b \in Id, _bytevector_length(b)
        PROVE  Effect
    BY <2>1, StayEffect DEF _bytevector_length
  <2> QED BY <1>3, <2>1, RefStep, SetStep, OverwriteStep DEF Access
<1> QED BY <1>1, <1>2, <1>3 DEF Next

LEMMA EffectInv ==
  ASSUME Inv, Effect
  PROVE  Inv'
<1>1. CASE \E p : Grows(p)
  <2>1. PICK p : Grows(p)
    BY <1>1
  <2> QED BY <2>1 DEF Inv, Effect, Grows
<1>2. CASE \E b \in Id : \E p : Replaces(b, p)
  <2>1. PICK b \in Id : \E p : Replaces(b, p)
    BY <1>2
  <2>2. vecs' \in Seq(Vectors)
    BY <2>1 DEF Inv, Replaces, Id
  <2> QED BY <2>2 DEF Inv, Effect
<1>3. CASE vecs' = vecs
  BY <1>3 DEF Inv, Effect
<1> QED BY <1>1, <1>2, <1>3 DEF Effect

(* In every state reached, each size is covered by its block and no access  *)
(* has fallen outside one.                                                  *)
THEOREM BytevectorsInvariant == Spec => []Inv
<1>1. Init => Inv
  BY DEF Init, Inv
<1>2. Inv /\ [Next]_vars => Inv'
  <2> SUFFICES ASSUME Inv, [Next]_vars PROVE Inv'
    OBVIOUS
  <2>1. CASE Next
    BY <2>1, NextEffect, EffectInv
  <2>2. CASE UNCHANGED vars
    BY <2>2 DEF Inv, vars
  <2> QED BY <2>1, <2>2
<1> QED BY <1>1, <1>2, PTL DEF Spec

(* No bytevector primitive reads or writes outside a block, whatever counts *)
(* the program asks for and however few bits the size field has.            *)
THEOREM AccessesInBounds == Spec => []InBounds
<1>1. Inv => InBounds
  BY DEF Inv, InBounds
<1> QED BY <1>1, BytevectorsInvariant, PTL

(* Sizes fit their field and blocks hold bytes only.                        *)
THEOREM BytevectorsTypeCorrect == Spec => []TypeOK
<1>1. Inv => TypeOK
  <2> SUFFICES ASSUME Inv PROVE TypeOK
    OBVIOUS
  <2>1. ASSUME NEW b \in Id
        PROVE  /\ vecs[b].mutable \in BOOLEAN /\ vecs[b].size \in 0 .. SIZES - 1
               /\ \A i \in DOMAIN vecs[b].vec : vecs[b].vec[i] \in Byte
    <3>1. PICK cap \in Nat : vecs[b] \in Vector(cap)
      BY Members, VectorBlock
    <3> QED BY <3>1 DEF Vector
  <2> QED BY <2>1 DEF Inv, TypeOK
<1> QED BY <1>1, BytevectorsInvariant, PTL

(* No step changes an immutable vector: stores and overwriting copies name  *)
(* a mutable one, and everything else adds a vector at the end.             *)
THEOREM LiteralsNeverChange == Spec => LiteralsUntouched
<1>1. Inv /\ [Next]_vars => [\A b \in Id : ~vecs[b].mutable => vecs'[b] = vecs[b]]_vars
  <2> SUFFICES ASSUME Inv, Next, NEW b \in Id, ~vecs[b].mutable
               PROVE  vecs'[b] = vecs[b]
    OBVIOUS
  <2>1. Effect
    BY NextEffect
  <2>2. ASSUME NEW p, Grows(p)
        PROVE  vecs'[b] = vecs[b]
    BY <2>2 DEF Inv, Id, Grows
  <2>3. ASSUME NEW c \in Id, NEW p, Replaces(c, p)
        PROVE  vecs'[b] = vecs[b]
    BY <2>3 DEF Inv, Id, Replaces
  <2> QED BY <2>1, <2>2, <2>3 DEF Effect
<1> QED BY <1>1, BytevectorsInvariant, PTL DEF Spec, LiteralsUntouched
------------------------------------------------------------------------------
(* The primitives implement arrays.                                         *)

(* Sequences as functions.                                                  *)
LEMMA AsSequence ==
  ASSUME NEW n \in Nat, NEW S, NEW f \in [1 .. n -> S]
  PROVE  f \in Seq(S) /\ Len(f) = n /\ DOMAIN f = 1 .. n
OBVIOUS

LEMMA AppendIs ==
  ASSUME NEW S, NEW f \in Seq(S), NEW x
  PROVE  Append(f, x) = [i \in 1 .. Len(f) + 1 |-> IF i = Len(f) + 1 THEN x ELSE f[i]]
<1> DEFINE g == Append(f, x)
<1>1. f \in Seq(S \cup {x}) /\ g \in Seq(S \cup {x})
  OBVIOUS
<1>2. /\ Len(g) = Len(f) + 1 /\ DOMAIN g = 1 .. Len(f) + 1
      /\ \A i \in 1 .. Len(f) + 1 : g[i] = IF i = Len(f) + 1 THEN x ELSE f[i]
  <2>1. Len(g) = Len(f) + 1 /\ Len(f) \in Nat
    BY <1>1
  <2>2. g[Len(f) + 1] = x
    BY <1>1
  <2>3. \A i \in 1 .. Len(f) : g[i] = f[i]
    BY <1>1
  <2>4. DOMAIN g = 1 .. Len(g)
    BY <1>1
  <2> HIDE DEF g
  <2> QED BY <2>1, <2>2, <2>3, <2>4
<1>3. g = [i \in 1 .. Len(f) + 1 |-> g[i]]
  <2>1. g \in Seq(S \cup {x}) /\ DOMAIN g = 1 .. Len(f) + 1
    BY <1>1, <1>2
  <2> HIDE DEF g
  <2> QED BY <2>1
<1> HIDE DEF g
<1>4. g = [i \in 1 .. Len(f) + 1 |-> IF i = Len(f) + 1 THEN x ELSE f[i]]
  BY <1>2, <1>3
<1> QED BY <1>4 DEF g

LEMMA Overwritten ==
  ASSUME NEW s \in Seq(Byte), NEW k \in DOMAIN s, NEW c \in Byte
  PROVE  /\ [s EXCEPT ![k] = c] \in Seq(Byte) /\ Len([s EXCEPT ![k] = c]) = Len(s)
         /\ \A j \in 1 .. Len(s) : [s EXCEPT ![k] = c][j] = IF j = k THEN c ELSE s[j]
<1> DEFINE y == [s EXCEPT ![k] = c]
<1>1. DOMAIN y = 1 .. Len(s) /\ Len(s) \in Nat /\ y = [j \in 1 .. Len(s) |-> y[j]]
  OBVIOUS
<1>2. \A j \in 1 .. Len(s) : y[j] \in Byte /\ y[j] = IF j = k THEN c ELSE s[j]
  OBVIOUS
<1> HIDE DEF y
<1>3. y \in Seq(Byte) /\ Len(y) = Len(s)
  BY <1>1, <1>2
<1> QED BY <1>2, <1>3 DEF y

\* The array a vector stands for.
AsArray(p) == [bytes |-> [i \in 1 .. p.size |-> At(p, i - 1)], mutable |-> p.mutable]

(* An array has the size of its vector and its bytes.                       *)
LEMMA ArrayFacts ==
  ASSUME NEW p \in Vectors
  PROVE  /\ AsArray(p).bytes \in Seq(Byte) /\ Len(AsArray(p).bytes) = p.size
         /\ DOMAIN AsArray(p).bytes = 1 .. p.size
         /\ \A i \in 1 .. p.size : AsArray(p).bytes[i] = At(p, i - 1)
         /\ AsArray(p).mutable = p.mutable
         /\ p.size \in 0 .. SIZES - 1
<1>1. PICK cap \in Nat : p \in Vector(cap)
  BY VectorBlock
<1>2. p.size \in 0 .. SIZES - 1 /\ p.size \in Nat
  BY <1>1 DEF Vector
<1> DEFINE s == [i \in 1 .. p.size |-> At(p, i - 1)]
<1>3. s \in [1 .. p.size -> Byte]
  BY BytesOnly
<1>4. s \in Seq(Byte) /\ Len(s) = p.size /\ DOMAIN s = 1 .. p.size
  <2> HIDE DEF s
  <2> QED BY <1>2, <1>3, AsSequence
<1>5. \A i \in 1 .. p.size : s[i] = At(p, i - 1)
  OBVIOUS
<1>6. AsArray(p).bytes = s /\ AsArray(p).mutable = p.mutable
  BY DEF AsArray
<1> HIDE DEF s
<1> QED BY <1>2, <1>4, <1>5, <1>6

(* An array is determined by its bytes.                                     *)
LEMMA ArrayIs ==
  ASSUME NEW p \in Vectors, NEW s \in Seq(Byte), Len(s) = p.size,
         \A i \in 1 .. p.size : s[i] = At(p, i - 1)
  PROVE  AsArray(p) = Arrays!Array(s, p.mutable)
<1>1. AsArray(p).bytes = s
  BY ArrayFacts
<1>2. AsArray(p).bytes = [i \in 1 .. p.size |-> At(p, i - 1)]
  BY DEF AsArray
<1> QED BY <1>1, <1>2 DEF AsArray, Arrays!Array

LEMMA SeenFacts ==
  ASSUME Inv
  PROVE  /\ Seen = [b \in Id |-> AsArray(vecs[b])] /\ DOMAIN Seen = Id /\ Arrays!Id = Id
         /\ Id = 1 .. Len(vecs) /\ Len(vecs) \in Nat
         /\ Len(Seen) = Len(vecs)
         /\ \A b \in Id : /\ Arrays!Bytes(b) = AsArray(vecs[b]).bytes
                          /\ Arrays!Length(b) = vecs[b].size
                          /\ Seen[b].mutable = vecs[b].mutable
<1>1. Seen = [b \in Id |-> AsArray(vecs[b])]
  BY DEF Seen, AsArray
<1>2. Id = 1 .. Len(vecs) /\ Len(vecs) \in Nat
  BY DEF Inv, Id
<1>3. DOMAIN Seen = Id /\ Len(Seen) = Len(vecs) /\ Arrays!Id = Id
  BY <1>1, <1>2 DEF Arrays!Id
<1>4. ASSUME NEW b \in Id
      PROVE  /\ Arrays!Bytes(b) = AsArray(vecs[b]).bytes
             /\ Arrays!Length(b) = vecs[b].size
             /\ Seen[b].mutable = vecs[b].mutable
  <2>1. Seen[b] = AsArray(vecs[b])
    BY <1>1
  <2>2. Arrays!Bytes(b) = AsArray(vecs[b]).bytes
    BY <2>1 DEF Arrays!Bytes
  <2> QED BY <2>1, <2>2, Members, ArrayFacts DEF Arrays!Length
<1> QED BY <1>1, <1>2, <1>3, <1>4

(* How a primitive can end.                                                 *)

LEMMA HaltStops ==
  ASSUME NEW s, s # "running", Halt(s)
  PROVE  Arrays!Stop
<1>1. vecs' = vecs /\ result' = result /\ status' = s
  BY DEF Halt
<1>2. Seen' = Seen
  BY <1>1 DEF Seen, Id, At
<1> QED BY <1>1, <1>2 DEF Arrays!Stop

LEMMA StayReturns ==
  ASSUME NEW r, NEW w, Finish(vecs, r, w)
  PROVE  Arrays!Returns(r) /\ UNCHANGED Seen
BY DEF Finish, Arrays!Returns, Seen, Id, At

LEMMA ReturnAdds ==
  ASSUME Inv, NEW p \in Vectors, NEW w, Return(p, w), NEW s, NEW m, AsArray(p) = Arrays!Array(s, m)
  PROVE  Arrays!Add(s, m)
<1> DEFINE n == Len(vecs)
<1>1. /\ vecs' = Append(vecs, p) /\ status' = status
      /\ result' = Object("bytevector", n + 1)
  BY DEF Return, Finish
<1>2. vecs \in Seq(Vectors) /\ n \in Nat
  BY DEF Inv
<1>3. /\ DOMAIN vecs' = 1 .. n + 1 /\ vecs'[n + 1] = p
      /\ \A b \in 1 .. n : vecs'[b] = vecs[b]
  BY <1>1, <1>2
<1>4. Seen' = [b \in 1 .. n + 1 |-> AsArray(vecs'[b])]
  BY <1>3 DEF Seen, AsArray, Id, At
<1>5. Seen = [b \in 1 .. n |-> AsArray(vecs[b])] /\ Len(Seen) = n
  BY SeenFacts
<1>6. Seen' = Append(Seen, AsArray(p))
  <2> DEFINE f == [b \in 1 .. n |-> AsArray(vecs[b])]
             x == AsArray(p)
             S == {AsArray(vecs[b]) : b \in 1 .. n}
  <2>1. f \in Seq(S) /\ Len(f) = n /\ \A b \in 1 .. n : f[b] = AsArray(vecs[b])
    BY <1>2
  <2>2. \A b \in 1 .. n + 1 : AsArray(vecs'[b]) = IF b = n + 1 THEN x ELSE f[b]
    BY <1>3, <2>1, <1>2
  <2> HIDE DEF f, x, n, S
  <2>3. n \in Nat
    BY <1>2
  <2>4. Append(f, x) = [b \in 1 .. n + 1 |-> IF b = n + 1 THEN x ELSE f[b]]
    BY <2>1, <2>3, AppendIs
  <2>5. Seen' = Append(f, x)
    BY <1>4, <2>2, <2>4
  <2> QED BY <1>5, <2>5 DEF f, x
<1> QED BY <1>1, <1>5, <1>6
       DEF Arrays!Add, Arrays!Returns, Arrays!Object, Object

LEMMA ReplaceChanges ==
  ASSUME Inv, NEW b \in Id, NEW p \in Vectors, NEW r, NEW w, Finish([vecs EXCEPT ![b] = p], r, w)
  PROVE  Arrays!Returns(r) /\ Seen' = [Seen EXCEPT ![b] = AsArray(p)]
<1>1. vecs' = [vecs EXCEPT ![b] = p] /\ status' = status /\ result' = r
  BY DEF Finish
<1>2. DOMAIN vecs' = Id /\ \A c \in Id : vecs'[c] = IF c = b THEN p ELSE vecs[c]
  BY <1>1 DEF Id
<1>3. Seen' = [c \in Id |-> AsArray(vecs'[c])]
  BY <1>2 DEF Seen, AsArray, Id, At
<1>4. Seen = [c \in Id |-> AsArray(vecs[c])]
  BY SeenFacts
<1> QED BY <1>1, <1>2, <1>3, <1>4 DEF Arrays!Returns

------------------------------------------------------------------------------
(* The steps.                                                               *)

LEMMA GenerateObjectPushes ==
  ASSUME Inv, NEW lit \in Literals, NEW mutable \in BOOLEAN, generate_object(lit, mutable)
  PROVE  Arrays!Push(lit, mutable)
<1> DEFINE n == Len(lit)
<1>1. lit \in Seq(Byte) /\ n \in Nat /\ n < SIZES
  BY BytevectorsAssumption DEF Byte
<1>2. PICK f \in IF mutable THEN [0 .. n - 1 -> Byte] ELSE {[i \in 0 .. n - 1 |-> lit[i + 1]]} :
        Return([mutable |-> mutable, size |-> n, vec |-> f], FALSE)
  BY DEF generate_object
<1>3. f \in [0 .. n - 1 -> Byte]
  <2>1. [i \in 0 .. n - 1 |-> lit[i + 1]] \in [0 .. n - 1 -> Byte]
    BY <1>1
  <2> QED BY <2>1, <1>2
<1> DEFINE p == [mutable |-> mutable, size |-> n, vec |-> f]
           s == [i \in 1 .. n |-> f[i - 1]]
<1>4. p \in Vector(n)
  BY <1>1, <1>3, BytevectorsAssumption DEF Vector
<1>5. p \in Vectors /\ p.size = n /\ p.mutable = mutable /\ p.vec = f
  BY <1>1, <1>4 DEF Vectors
<1>6. s \in [1 .. n -> Byte] /\ s \in Seq(Byte) /\ Len(s) = n
  BY <1>1, <1>3
<1>7. \A i \in 1 .. n : s[i] = At(p, i - 1)
  BY <1>3, <1>5 DEF At
<1> HIDE DEF p
<1>8. AsArray(p) = Arrays!Array(s, mutable)
  <2> HIDE DEF s, n
  <2> QED BY <1>5, <1>6, <1>7, ArrayIs
<1>9. Arrays!Add(s, mutable)
  BY <1>2, <1>5, <1>8, ReturnAdds DEF p
<1>10. s \in IF mutable THEN [1 .. n -> Byte] ELSE {lit}
  <2>1. CASE mutable
    BY <2>1, <1>6
  <2>2. CASE ~mutable
    <3>1. f = [i \in 0 .. n - 1 |-> lit[i + 1]]
      BY <2>2, <1>2
    <3>2. s = lit
      BY <3>1, <1>1, <1>6
    <3> QED BY <2>2, <3>2
  <2> QED BY <2>1, <2>2
<1> QED BY <1>9, <1>10 DEF Arrays!Push

LEMMA MakeMakes ==
  ASSUME Inv, NEW count \in Counts, NEW datum \in Ints, _make_bytevector(count, datum)
  PROVE  Arrays!Make(count, datum)
<1>1. count \in Int /\ datum \in Int /\ SIZES \in Nat /\ BYTES \in Nat /\ SIZES # 0 /\ BYTES # 0
  BY BytevectorsAssumption
<1>2. CASE count >= 0 /\ Return(New(count, datum), FALSE)
  <2> DEFINE p == New(count, datum)
             n == count % SIZES
             b == datum % BYTES
             s == [i \in 1 .. n |-> b]
  <2>1. p \in Vectors /\ p \in Vector(count)
    <3>1. count \in Nat
      BY <1>1, <1>2
    <3> QED BY <1>1, <3>1, NewIsVector
  <2>2. /\ p.size = n /\ p.mutable = TRUE
        /\ p.vec = [i \in 0 .. count - 1 |-> b]
    <3>1. p = [mutable |-> TRUE, size |-> n, vec |-> [i \in 0 .. count - 1 |-> b]]
      BY DEF New
    <3> HIDE DEF n, b
    <3> HIDE DEF p
    <3> QED BY <3>1
  <2>3. n \in Nat /\ n < SIZES /\ n <= count /\ b \in Byte
    <3>1. count \in Nat /\ SIZES \in Nat \ {0} /\ BYTES \in Nat \ {0}
      BY <1>1, <1>2
    <3>2. n \in 0 .. SIZES - 1 /\ n <= count
      BY <3>1, Remainder
    <3>3. b \in 0 .. BYTES - 1
      BY <1>1, <3>1, ByteRemainder
    <3> HIDE DEF n, b
    <3> QED BY <3>1, <3>2, <3>3 DEF Byte
  <2>4. n = count \/ count > SIZES - 1
    BY <1>1, <1>2
  <2>5. b = datum \/ datum \notin Byte
    BY <1>1 DEF Byte
  <2> HIDE DEF p, n, b
  <2>6. s \in [1 .. n -> Byte] /\ s \in Seq(Byte) /\ Len(s) = n
    BY <2>3
  <2>7. ASSUME NEW i \in 1 .. p.size PROVE s[i] = At(p, i - 1)
    <3>1. i - 1 \in 0 .. count - 1 /\ i \in 1 .. n
      BY <2>2, <2>3, <1>1
    <3> QED BY <3>1, <2>2 DEF At
  <2>8. AsArray(p) = Arrays!Array(s, TRUE)
    <3> HIDE DEF s
    <3>1. AsArray(p) = Arrays!Array(s, p.mutable)
      BY <2>1, <2>2, <2>6, <2>7, ArrayIs
    <3> QED BY <2>2, <3>1
  <2>9. Arrays!Add(s, TRUE)
    <3>1. Return(p, FALSE)
      BY <1>2 DEF p
    <3> HIDE DEF s
    <3> QED BY <2>1, <2>8, <3>1, ReturnAdds
  <2>10. n \in IF count <= SIZES - 1 THEN {count} \cap Nat ELSE 0 .. SIZES - 1
    BY <2>3, <2>4, <1>1
  <2>11. b \in IF datum \in Byte THEN {datum} ELSE Byte
    BY <2>3, <2>5
  <2> QED BY <2>9, <2>10, <2>11 DEF Arrays!Make
<1>3. CASE count < 0 /\ Halt("collecting")
  BY <1>3, HaltStops DEF Arrays!Make
<1> QED BY <1>2, <1>3 DEF _make_bytevector

LEMMA LengthAnswers ==
  ASSUME Inv, NEW b \in Id, _bytevector_length(b)
  PROVE  Arrays!LengthOf(b)
<1>1. Finish(vecs, Fixnum(vecs[b].size), FALSE)
  BY DEF _bytevector_length
<1>2. Arrays!Length(b) = vecs[b].size
  BY SeenFacts
<1> QED BY <1>1, <1>2, StayReturns DEF Arrays!LengthOf, Arrays!Fixnum, Fixnum, Arrays!Object, Object

LEMMA RefAnswers ==
  ASSUME Inv, NEW b \in Id, NEW i \in Ints, _bytevector_u8_ref(b, i)
  PROVE  Arrays!Ref(b, i)
<1> DEFINE p == vecs[b]
<1>1. /\ p \in Vectors /\ p.size \in Nat /\ i \in Int
      /\ Arrays!Length(b) = p.size /\ Arrays!Bytes(b) = AsArray(p).bytes
  BY Members, SeenFacts, BytevectorsAssumption
<1>2. IndexValid(p, i) <=> i \in 0 .. Arrays!Length(b) - 1
  BY <1>1 DEF IndexValid
<1>3. CASE IndexValid(p, i) /\ Finish(vecs, Fixnum(At(p, i)), Outside(p, i, 1))
  <2>1. i + 1 \in 1 .. p.size /\ (i + 1) - 1 = i
    BY <1>1, <1>3 DEF IndexValid
  <2>2. Arrays!Bytes(b)[i + 1] = At(p, i)
    BY <1>1, <2>1, ArrayFacts
  <2> QED BY <1>2, <1>3, <2>2, StayReturns DEF Arrays!Ref, Arrays!Fixnum, Fixnum, Arrays!Object, Object
<1>4. CASE ~IndexValid(p, i) /\ Panic
  BY <1>2, <1>4, HaltStops DEF Panic, Arrays!Ref
<1> QED BY <1>3, <1>4 DEF _bytevector_u8_ref

\* The array of d is that of p with n bytes f stored from offset at.
Holds(d, p, at, n, f) ==
  /\ d \in Vectors /\ d.size = p.size /\ d.mutable = p.mutable
  /\ \A i \in 1 .. p.size :
       AsArray(d).bytes[i] = IF i - 1 \in at .. at + n - 1 THEN f[i - 1 - at]
                             ELSE AsArray(p).bytes[i]

(* What a store leaves of an array.                                         *)
LEMMA StoredArray ==
  ASSUME NEW p \in Vectors, NEW at \in Nat, NEW n \in Nat, at + n <= p.size,
         NEW f \in [0 .. n - 1 -> Byte], NEW d, d = Stored(p, at, n, f)
  PROVE  Holds(d, p, at, n, f)
<1>1. PICK cap \in Nat : p \in Vector(cap)
  BY VectorBlock
<1>2. p.size <= cap /\ p.size \in Nat /\ DOMAIN p.vec = 0 .. cap - 1
  BY <1>1 DEF Vector
<1>3. d \in Vectors
  BY StoredIsVector
<1>4. /\ d.size = p.size /\ d.mutable = p.mutable
      /\ d.vec = [i \in DOMAIN p.vec |-> IF i \in at .. at + n - 1 THEN f[i - at] ELSE p.vec[i]]
  BY <1>1 DEF Stored, Vector
<1>5. ASSUME NEW i \in 1 .. p.size
      PROVE  AsArray(d).bytes[i] = IF i - 1 \in at .. at + n - 1 THEN f[i - 1 - at]
                                   ELSE AsArray(p).bytes[i]
  <2>1. AsArray(d).bytes[i] = At(d, i - 1) /\ AsArray(p).bytes[i] = At(p, i - 1)
    BY <1>3, <1>4, ArrayFacts
  <2>2. i - 1 \in DOMAIN p.vec /\ i - 1 \in DOMAIN d.vec
    BY <1>2, <1>4
  <2> QED BY <2>1, <2>2, <1>4 DEF At
<1> QED BY <1>3, <1>4, <1>5 DEF Holds

LEMMA SetSets ==
  ASSUME Inv, NEW b \in Id, NEW i \in Ints, NEW datum \in Ints, _bytevector_u8_set(b, i, datum)
  PROVE  Arrays!Set(b, i, datum)
<1> DEFINE p == vecs[b]
           f == [k \in {0} |-> datum]
           q == Stored(p, i, 1, f)
           valid == MutableType(p) /\ IndexValid(p, i) /\ datum \in Byte
           s == AsArray(p).bytes
<1>1. /\ p \in Vectors /\ p.size \in Nat /\ i \in Int
      /\ Arrays!Length(b) = p.size /\ Arrays!Bytes(b) = s /\ Seen[b].mutable = p.mutable
  BY Members, SeenFacts, BytevectorsAssumption
<1>2. valid <=> Seen[b].mutable /\ i \in 0 .. Arrays!Length(b) - 1 /\ datum \in Byte
  BY <1>1 DEF IndexValid, MutableType
<1>3. CASE valid /\ Finish([vecs EXCEPT ![b] = q], Fixnum(datum), Outside(p, i, 1))
  <2>1. i \in Nat /\ i + 1 <= p.size
    BY <1>1, <1>3 DEF IndexValid
  <2>2. f \in [0 .. 1 - 1 -> Byte] /\ f[0] = datum /\ datum \in Byte
    BY <1>3
  <2> DEFINE t == [s EXCEPT ![i + 1] = datum]
  <2>3. /\ s \in Seq(Byte) /\ Len(s) = p.size /\ DOMAIN s = 1 .. p.size
    BY <1>1, ArrayFacts
  <2>4. /\ t \in Seq(Byte) /\ Len(t) = p.size
        /\ \A k \in 1 .. p.size : t[k] = IF k = i + 1 THEN datum ELSE s[k]
    <3>1. i + 1 \in DOMAIN s
      BY <2>1, <2>3
    <3> HIDE DEF s
    <3> QED BY <2>2, <2>3, <3>1, Overwritten
  <2> HIDE DEF f, t, p
  <2>5. /\ q \in Vectors /\ q.size = p.size /\ q.mutable = p.mutable
        /\ \A k \in 1 .. p.size : AsArray(q).bytes[k] = IF k - 1 \in i .. i + 1 - 1 THEN f[k - 1 - i]
                                                        ELSE AsArray(p).bytes[k]
    <3>1. q = Stored(p, i, 1, f)
      OBVIOUS
    <3> HIDE DEF q
    <3>2. 1 \in Nat
      OBVIOUS
    <3>3. Holds(q, p, i, 1, f)
      BY <1>1, <2>1, <2>2, <3>1, <3>2, StoredArray, Zenon
    <3> QED BY <3>3 DEF Holds
  <2> HIDE DEF q
  <2>6. \A k \in 1 .. p.size : AsArray(q).bytes[k] = t[k]
    BY <1>1, <2>1, <2>2, <2>4, <2>5
  <2>7. \A k \in 1 .. q.size : t[k] = At(q, k - 1)
    BY <2>5, <2>6, ArrayFacts
  <2>8. AsArray(q) = Arrays!Array(t, TRUE)
    BY <1>3, <2>4, <2>5, <2>7, ArrayIs DEF MutableType
  <2>9. Arrays!Returns(Fixnum(datum)) /\ Seen' = [Seen EXCEPT ![b] = AsArray(q)]
    BY <1>3, <2>5, ReplaceChanges
  <2> QED BY <1>1, <1>2, <1>3, <2>8, <2>9
         DEF Arrays!Set, Arrays!Changed, Arrays!Fixnum, Fixnum, Arrays!Object, Object, t
<1>4. CASE ~valid /\ Panic
  BY <1>2, <1>4, HaltStops DEF Panic, Arrays!Set
<1> QED BY <1>3, <1>4 DEF _bytevector_u8_set

(* The slice of an array that a move takes.                                 *)
LEMMA SliceFacts ==
  ASSUME Inv, NEW b \in Id, NEW from \in Nat, NEW n \in Nat, from + n <= vecs[b].size,
         NEW to, to = from + n
  PROVE  /\ Arrays!Slice(b, from, to) \in Seq(Byte) /\ Len(Arrays!Slice(b, from, to)) = n
         /\ \A i \in 1 .. n : Arrays!Slice(b, from, to)[i] = At(vecs[b], from + i - 1)
<1> DEFINE p == vecs[b]
           s == AsArray(p).bytes
           t == SubSeq(s, from + 1, to)
<1>1. p \in Vectors /\ p.size \in Nat /\ Arrays!Bytes(b) = s
  BY Members, SeenFacts
<1>2. /\ s \in Seq(Byte) /\ Len(s) = p.size
      /\ \A i \in 1 .. p.size : s[i] = At(p, i - 1)
  BY <1>1, ArrayFacts
<1>3. Arrays!Slice(b, from, to) = t
  BY <1>1 DEF Arrays!Slice
<1> HIDE DEF s, p
<1>4. t \in Seq(Byte) /\ Len(t) = n /\ \A i \in 1 .. n : t[i] = s[from + i]
  BY <1>1, <1>2 DEF p
<1>5. ASSUME NEW i \in 1 .. n PROVE t[i] = At(p, from + i - 1)
  <2>1. from + i \in 1 .. p.size
    BY <1>1 DEF p
  <2> QED BY <2>1, <1>2, <1>4
<1> HIDE DEF t
<1> QED BY <1>3, <1>4, <1>5 DEF p

LEMMA CopyCopies ==
  ASSUME Inv, NEW b \in Id, NEW from \in Ints, NEW to \in Ints, _bytevector_copy(b, from, to)
  PROVE  Arrays!Copy(b, from, to)
<1> DEFINE p == vecs[b]
           n == to - from
           new == New(n, 0)
<1>1. /\ p \in Vectors /\ p.size \in Nat /\ p.size < SIZES /\ from \in Int /\ to \in Int
      /\ Arrays!Length(b) = p.size
  BY Members, SeenFacts, BytevectorsAssumption
<1>2. CopyRange(p, from, to) <=> Arrays!IsRange(b, from, to)
  BY <1>1 DEF CopyRange, Arrays!IsRange
<1>3. CASE CopyRange(p, from, to)
  <2>1. PICK f \in Moved(p, from, n, FALSE) :
          Return(Stored(new, 0, n, f), Outside(p, from, n) \/ Outside(new, 0, n))
    BY <1>3 DEF _bytevector_copy
  <2>2. from \in Nat /\ n \in Nat /\ from + n <= p.size /\ n < SIZES /\ to = from + n
    BY <1>1, <1>3, BytevectorsAssumption DEF CopyRange
  <2>3. new \in Vectors
    BY <2>2, NewIsVector
  <2>4. new.size = n /\ new.mutable = TRUE
    <3>1. n % SIZES = n
      BY <2>2, BytevectorsAssumption
    <3> QED BY <3>1 DEF New
  <2>5. f = [k \in 0 .. n - 1 |-> At(p, from + k)]
    BY <2>1 DEF Moved
  <2>6. f \in [0 .. n - 1 -> Byte]
    BY <1>1, <2>1, PlainMove
  <2> DEFINE d == Stored(new, 0, n, f)
             s == Arrays!Slice(b, from, to)
  <2>7. s \in Seq(Byte) /\ Len(s) = n /\ \A i \in 1 .. n : s[i] = At(p, from + i - 1)
    <3> HIDE DEF n, p
    <3>1. from + n <= vecs[b].size
      BY <2>2 DEF p
    <3> QED BY <2>2, <3>1, SliceFacts, Zenon DEF p
  <2>8. Return(d, Outside(p, from, n) \/ Outside(new, 0, n))
    BY <2>1
  <2>9. Holds(d, new, 0, n, f)
    <3>1. 0 \in Nat /\ n \in Nat /\ 0 + n <= new.size /\ d = Stored(new, 0, n, f)
      <4> HIDE DEF new, n
      <4> QED BY <2>2, <2>4
    <3> HIDE DEF d, n, new
    <3> QED BY <2>3, <2>6, <3>1, StoredArray, Zenon
  <2> HIDE DEF d, s, n, new, p
  <2>10. d \in Vectors /\ d.size = n /\ d.mutable = TRUE
    BY <2>4, <2>9 DEF Holds
  <2>11. ASSUME NEW i \in 1 .. d.size PROVE s[i] = At(d, i - 1)
    <3>1. i \in 1 .. n /\ i - 1 \in 0 .. n - 1 /\ n \in Nat
      BY <2>2, <2>10
    <3>2. AsArray(d).bytes[i] = f[i - 1]
      <4>1. i - 1 \in 0 .. 0 + n - 1 /\ i - 1 - 0 = i - 1
        BY <3>1
      <4>2. AsArray(d).bytes[i] = f[i - 1 - 0]
        BY <2>4, <2>9, <3>1, <4>1 DEF Holds
      <4> QED BY <4>1, <4>2
    <3>3. f[i - 1] = At(p, from + (i - 1))
      BY <2>5, <3>1
    <3>4. from + (i - 1) = from + i - 1
      BY <2>2, <3>1
    <3>5. AsArray(d).bytes[i] = At(d, i - 1)
      BY <2>10, ArrayFacts
    <3> QED BY <2>7, <3>1, <3>2, <3>3, <3>4, <3>5
  <2>12. AsArray(d) = Arrays!Array(s, TRUE)
    BY <2>7, <2>10, <2>11, ArrayIs
  <2>13. Arrays!Add(s, TRUE)
    BY <2>8, <2>10, <2>12, ReturnAdds
  <2> QED BY <1>2, <1>3, <2>13 DEF Arrays!Copy, s, p
<1>4. CASE ~CopyRange(p, from, to) /\ Panic
  BY <1>2, <1>4, HaltStops DEF Panic, Arrays!Copy
<1> QED BY <1>3, <1>4 DEF _bytevector_copy

(* A sequence with a part of it replaced.                                   *)
LEMMA SplicedFacts ==
  ASSUME NEW s \in Seq(Byte), NEW at \in Nat, NEW bytes \in Seq(Byte), at + Len(bytes) <= Len(s)
  PROVE  /\ Arrays!Spliced(s, at, bytes) \in Seq(Byte)
         /\ Len(Arrays!Spliced(s, at, bytes)) = Len(s)
         /\ \A i \in 1 .. Len(s) :
              Arrays!Spliced(s, at, bytes)[i] = IF i - 1 \in at .. at + Len(bytes) - 1 THEN bytes[i - at]
                                                ELSE s[i]
<1> DEFINE m == Len(bytes)
           a == SubSeq(s, 1, at)
           c == SubSeq(s, at + m + 1, Len(s))
<1>1. a \in Seq(Byte) /\ Len(a) = at /\ \A i \in 1 .. at : a[i] = s[i]
  OBVIOUS
<1>2. /\ c \in Seq(Byte) /\ Len(c) = Len(s) - at - m
      /\ \A i \in 1 .. Len(s) - at - m : c[i] = s[at + m + i]
  OBVIOUS
<1>3. Arrays!Spliced(s, at, bytes) = (a \o bytes) \o c
  BY DEF Arrays!Spliced
<1>4. m \in Nat /\ bytes \in Seq(Byte) /\ Len(bytes) = m /\ at + m <= Len(s) /\ Len(s) \in Nat
  OBVIOUS
<1> HIDE DEF a, c, m
<1> DEFINE u == a \o bytes
<1>5. /\ u \in Seq(Byte) /\ Len(u) = at + m
      /\ \A i \in 1 .. at + m : u[i] = IF i <= at THEN a[i] ELSE bytes[i - at]
  BY <1>1, <1>4
<1> HIDE DEF u
<1> DEFINE v == u \o c
<1>6. /\ v \in Seq(Byte) /\ Len(v) = Len(s)
      /\ \A i \in 1 .. Len(s) : v[i] = IF i <= at + m THEN u[i] ELSE c[i - (at + m)]
  BY <1>2, <1>4, <1>5
<1>7. Arrays!Spliced(s, at, bytes) = v
  BY <1>3 DEF u, v
<1> HIDE DEF v
<1>8. ASSUME NEW i \in 1 .. Len(s)
      PROVE  v[i] = IF i - 1 \in at .. at + m - 1 THEN bytes[i - at] ELSE s[i]
  <2>1. CASE i <= at
    <3>1. i \in 1 .. at /\ i \in 1 .. at + m /\ i - 1 \notin at .. at + m - 1
      BY <2>1, <1>4
    <3>2. v[i] = u[i] /\ u[i] = a[i] /\ a[i] = s[i]
      BY <2>1, <3>1, <1>1, <1>4, <1>5, <1>6
    <3> QED BY <3>1, <3>2
  <2>2. CASE i > at /\ i <= at + m
    <3>1. i \in 1 .. at + m /\ ~(i <= at) /\ i - 1 \in at .. at + m - 1
      BY <2>2, <1>4
    <3> QED BY <2>2, <3>1, <1>5, <1>6
  <2>3. CASE i > at + m
    <3> DEFINE k == i - (at + m)
    <3>1. k \in 1 .. Len(s) - at - m /\ ~(i <= at + m) /\ i - 1 \notin at .. at + m - 1
      BY <2>3, <1>4
    <3>2. at + m + k = i
      BY <2>3, <1>4
    <3>3. v[i] = c[k]
      BY <3>1, <1>6
    <3> HIDE DEF k
    <3>4. c[k] = s[at + m + k]
      BY <3>1, <1>2
    <3> QED BY <3>1, <3>2, <3>3, <3>4
  <2> QED BY <1>4, <2>1, <2>2, <2>3
<1> QED BY <1>6, <1>7, <1>8 DEF m

\* What copy-to may write, as a sequence.
Sequence(n, f) == [i \in 1 .. n |-> f[i - 1]]

LEMMA SequenceFacts ==
  ASSUME NEW n \in Nat, NEW S, NEW f \in [0 .. n - 1 -> S]
  PROVE  /\ Sequence(n, f) \in [1 .. n -> S] /\ Sequence(n, f) \in Seq(S) /\ Len(Sequence(n, f)) = n
         /\ \A i \in 1 .. n : Sequence(n, f)[i] = f[i - 1]
<1>1. Sequence(n, f) \in [1 .. n -> S]
  BY DEF Sequence
<1> QED BY <1>1, AsSequence DEF Sequence

LEMMA OverwriteCopies ==
  ASSUME Inv, NEW a \in Id, NEW b \in Id, NEW at \in Ints, NEW from \in Ints, NEW to \in Ints,
         _bytevector_copy_overwrite(a, at, b, from, to)
  PROVE  Arrays!CopyTo(a, at, b, from, to)
<1> DEFINE d == vecs[a]
           s == vecs[b]
           n == to - from
           overlap == a = b /\ at < to /\ from < at + n
           valid == MutableType(d) /\ OverwriteRange(d, at, s, from, to)
<1>1. /\ d \in Vectors /\ d.size \in Nat /\ s \in Vectors /\ s.size \in Nat
      /\ at \in Int /\ from \in Int /\ to \in Int
      /\ Arrays!Length(a) = d.size /\ Arrays!Length(b) = s.size
      /\ Seen[a].mutable = d.mutable
      /\ Arrays!Bytes(a) = AsArray(d).bytes /\ Arrays!Bytes(b) = AsArray(s).bytes
  BY Members, SeenFacts, BytevectorsAssumption
<1>2. valid <=> Seen[a].mutable /\ Arrays!IsRange(b, from, to) /\ Arrays!IsRange(a, at, at + to - from)
  BY <1>1 DEF MutableType, OverwriteRange, Arrays!IsRange
<1>3. CASE valid
  <2>1. PICK f \in Moved(s, from, n, overlap) :
          Finish([vecs EXCEPT ![a] = Stored(d, at, n, f)], None,
                 Outside(d, at, n) \/ Outside(s, from, n))
    BY <1>3 DEF _bytevector_copy_overwrite
  <2>2. /\ from \in Nat /\ at \in Nat /\ n \in Nat /\ to = from + n
        /\ from + n <= s.size /\ at + n <= d.size
    BY <1>1, <1>3 DEF OverwriteRange
  <2>3. f \in [0 .. n - 1 -> Byte]
    <3> HIDE DEF overlap
    <3> QED BY <1>1, <2>1, OverlapMove
  <2> DEFINE q == Stored(d, at, n, f)
             bytes == Sequence(n, f)
  <2>4. Holds(q, d, at, n, f)
    <3>1. q = Stored(d, at, n, f)
      OBVIOUS
    <3> HIDE DEF q, n, d
    <3> QED BY <1>1, <2>2, <2>3, <3>1, StoredArray, Zenon
  <2>5. /\ bytes \in Seq(Byte) /\ Len(bytes) = n
        /\ \A i \in 1 .. n : bytes[i] = f[i - 1]
    <3>1. n \in Nat
      BY <2>2
    <3> HIDE DEF n
    <3> DEFINE y == Sequence(n, f)
    <3>2. y \in Seq(Byte)
      BY <2>3, <3>1, SequenceFacts, Zenon
    <3>3. Len(y) = n
      BY <2>3, <3>1, SequenceFacts, Zenon
    <3>4. \A i \in 1 .. n : y[i] = f[i - 1]
      BY <2>3, <3>1, SequenceFacts, Zenon
    <3> QED BY <3>2, <3>3, <3>4
  <2>6. bytes \in IF a = b /\ at < to /\ from < at + to - from
                  THEN [1 .. to - from -> {Arrays!Bytes(b)[i] : i \in from + 1 .. to}]
                  ELSE {Arrays!Slice(b, from, to)}
    <3>1. from < at + n <=> from < at + to - from
      BY <1>1
    <3>2. CASE overlap
      <4> DEFINE S == {At(s, from + k) : k \in 0 .. n - 1}
                 T == {Arrays!Bytes(b)[i] : i \in from + 1 .. to}
      <4>1. f \in [0 .. n - 1 -> S]
        BY <2>1, <3>2 DEF Moved
      <4>2. bytes \in [1 .. n -> S]
        <5> HIDE DEF n, S
        <5> QED BY <2>2, <4>1, SequenceFacts
      <4>3. ASSUME NEW k \in 0 .. n - 1 PROVE At(s, from + k) \in T
        <5>1. from + k + 1 \in from + 1 .. to /\ from + k + 1 \in 1 .. s.size /\ (from + k + 1) - 1 = from + k
          BY <2>2, <1>1
        <5>2. Arrays!Bytes(b)[from + k + 1] = At(s, (from + k + 1) - 1)
          <6> HIDE DEF s
          <6> QED BY <1>1, <5>1, ArrayFacts
        <5>3. Arrays!Bytes(b)[from + k + 1] = At(s, from + k)
          BY <5>1, <5>2
        <5> QED BY <5>1, <5>3
      <4>4. S \subseteq T
        BY <4>3
      <4>5. bytes \in [1 .. n -> T]
        <5> HIDE DEF S, T, bytes, n
        <5> QED BY <4>2, <4>4
      <4> HIDE DEF bytes
      <4> QED BY <3>1, <3>2, <4>5
    <3>3. CASE ~overlap
      <4> DEFINE t == Arrays!Slice(b, from, to)
      <4>1. f = [k \in 0 .. n - 1 |-> At(s, from + k)]
        BY <2>1, <3>3 DEF Moved
      <4>2. t \in Seq(Byte) /\ Len(t) = n /\ \A i \in 1 .. n : t[i] = At(s, from + i - 1)
        <5> HIDE DEF n
        <5> QED BY <2>2, SliceFacts
      <4>3. ASSUME NEW i \in 1 .. n PROVE bytes[i] = t[i]
        <5>1. i - 1 \in 0 .. n - 1 /\ from + (i - 1) = from + i - 1
          BY <2>2
        <5>2. f[i - 1] = At(s, from + (i - 1))
          BY <4>1, <5>1
        <5> QED BY <2>5, <4>2, <5>1, <5>2
      <4> HIDE DEF bytes, t
      <4>4. bytes = t
        BY <2>5, <4>2, <4>3
      <4>5. ~(a = b /\ at < to /\ from < at + to - from)
        BY <3>1, <3>3
      <4> QED BY <4>4, <4>5 DEF t
    <3> QED BY <3>2, <3>3
  <2> DEFINE u == Arrays!Spliced(Arrays!Bytes(a), at, bytes)
             x == AsArray(d).bytes
  <2>7. x \in Seq(Byte) /\ Len(x) = d.size /\ Arrays!Bytes(a) = x
    BY <1>1, ArrayFacts
  <2> HIDE DEF bytes, q, x
  <2>8. /\ u \in Seq(Byte) /\ Len(u) = d.size
        /\ \A i \in 1 .. d.size : u[i] = IF i - 1 \in at .. at + n - 1 THEN bytes[i - at] ELSE x[i]
    BY <2>2, <2>5, <2>7, SplicedFacts
  <2> HIDE DEF u
  <2>9. q \in Vectors /\ q.size = d.size /\ q.mutable = d.mutable
    BY <2>4 DEF Holds
  <2>10. ASSUME NEW i \in 1 .. q.size PROVE u[i] = At(q, i - 1)
    <3>1. AsArray(q).bytes[i] = At(q, i - 1)
      BY <2>9, ArrayFacts
    <3>2. AsArray(q).bytes[i] = IF i - 1 \in at .. at + n - 1 THEN f[i - 1 - at] ELSE x[i]
      BY <2>4, <2>9 DEF Holds, x
    <3>3. CASE i - 1 \in at .. at + n - 1
      <4>1. i - at \in 1 .. n /\ (i - at) - 1 = i - 1 - at
        BY <3>3, <2>2
      <4>2. bytes[i - at] = f[(i - at) - 1]
        BY <4>1, <2>5
      <4> QED BY <2>8, <2>9, <3>1, <3>2, <3>3, <4>1, <4>2
    <3>4. CASE i - 1 \notin at .. at + n - 1
      BY <2>8, <2>9, <3>1, <3>2, <3>4
    <3> QED BY <3>3, <3>4
  <2>11. AsArray(q) = Arrays!Array(u, TRUE)
    <3>1. q.mutable = TRUE
      BY <1>3, <2>9, <1>1 DEF MutableType, Vectors, Vector
    <3>2. AsArray(q) = Arrays!Array(u, q.mutable)
      BY <2>8, <2>9, <2>10, ArrayIs
    <3> QED BY <3>1, <3>2
  <2>12. Arrays!Returns(None) /\ Seen' = [Seen EXCEPT ![a] = AsArray(q)]
    BY <2>1, <2>9, ReplaceChanges DEF q
  <2>13. Seen' = Arrays!Changed(a, u)
    BY <2>11, <2>12 DEF Arrays!Changed
  <2>14. Arrays!Returns(Arrays!None)
    BY <2>12 DEF None, Object, Arrays!None, Arrays!Object
  <2> HIDE DEF d, s, n, overlap
  <2> QED BY <1>2, <1>3, <2>6, <2>13, <2>14 DEF Arrays!CopyTo, u
<1>4. CASE ~valid /\ Panic
  BY <1>2, <1>4, HaltStops DEF Panic, Arrays!CopyTo
<1> QED BY <1>3, <1>4 DEF _bytevector_copy_overwrite

LEMMA AppendJoins ==
  ASSUME Inv, NEW a \in Id, NEW b \in Id, _bytevector_append(a, b)
  PROVE  Arrays!Join(a, b)
<1> DEFINE p == vecs[a]
           q == vecs[b]
           new == New(p.size + q.size, 0)
           valid == OverwriteRange(new, 0, p, 0, p.size) /\ OverwriteRange(new, p.size, q, 0, q.size)
           n == p.size
           m == q.size
<1>1. /\ p \in Vectors /\ n \in Nat /\ q \in Vectors /\ m \in Nat /\ n < SIZES /\ m < SIZES
      /\ Arrays!Length(a) = n /\ Arrays!Length(b) = m
      /\ Arrays!Bytes(a) = AsArray(p).bytes /\ Arrays!Bytes(b) = AsArray(q).bytes
  BY Members, SeenFacts
<1>2. SIZES \in Nat \ {0} /\ new \in Vectors /\ new.size = (n + m) % SIZES /\ new.mutable = TRUE
  <2>1. p.size + q.size \in Nat /\ 0 \in Int
    BY <1>1
  <2>2. new \in Vectors
    BY <2>1, NewIsVector, Zenon
  <2>3. new.size = (n + m) % SIZES /\ new.mutable = TRUE
    BY DEF New
  <2> HIDE DEF new
  <2> QED BY <2>2, <2>3, BytevectorsAssumption
<1>3. new.size \in 0 .. SIZES - 1
  BY <1>2, ArrayFacts
<1>4. n + m < SIZES => new.size = n + m
  <2> HIDE DEF n, m, new
  <2>1. n + m \in Nat
    BY <1>1
  <2>2. n + m < SIZES => (n + m) % SIZES = n + m
    BY <1>2, <2>1
  <2> QED BY <1>2, <2>2
<1>5. valid <=> Arrays!Length(a) + Arrays!Length(b) <= SIZES - 1
  <2> HIDE DEF new, p, q, n, m
  <2>1. valid <=> n <= new.size /\ n + m <= new.size
    BY <1>1, <1>2, <1>3 DEF OverwriteRange, n, m
  <2> QED BY <1>1, <1>2, <1>3, <1>4, <2>1
<1>6. CASE valid
  <2>1. PICK f \in Moved(p, 0, p.size, FALSE), g \in Moved(q, 0, q.size, FALSE) :
          Return(Stored(Stored(new, 0, p.size, f), p.size, q.size, g),
                 \/ Outside(p, 0, p.size) \/ Outside(q, 0, q.size)
                 \/ Outside(new, 0, p.size) \/ Outside(new, p.size, q.size))
    BY <1>6 DEF _bytevector_append
  <2>2. n + m <= SIZES - 1 /\ new.size = n + m
    <3> HIDE DEF new, p, q, n, m, valid
    <3> QED BY <1>1, <1>2, <1>4, <1>5, <1>6
  <2>3. f = [k \in 0 .. n - 1 |-> At(p, 0 + k)] /\ g = [k \in 0 .. m - 1 |-> At(q, 0 + k)]
    BY <2>1 DEF Moved
  <2>4. f \in [0 .. n - 1 -> Byte] /\ g \in [0 .. m - 1 -> Byte]
    BY <1>1, <2>1, PlainMove
  <2> DEFINE c == Stored(new, 0, n, f)
             d == Stored(c, n, m, g)
             x == AsArray(p).bytes
             y == AsArray(q).bytes
             s == x \o y
  <2>5. Return(d, \/ Outside(p, 0, p.size) \/ Outside(q, 0, q.size)
                  \/ Outside(new, 0, p.size) \/ Outside(new, p.size, q.size))
    BY <2>1
  <2>6. Holds(c, new, 0, n, f)
    <3>1. c = Stored(new, 0, n, f) /\ 0 \in Nat
      OBVIOUS
    <3> HIDE DEF c, new, n, m
    <3>2. 0 + n <= new.size
      BY <1>1, <2>2
    <3> QED BY <1>1, <1>2, <2>4, <3>1, <3>2, StoredArray, Zenon
  <2>7. c \in Vectors /\ c.size = n + m /\ c.mutable = TRUE
    BY <1>2, <2>2, <2>6 DEF Holds
  <2>8. Holds(d, c, n, m, g)
    <3>1. d = Stored(c, n, m, g)
      OBVIOUS
    <3> HIDE DEF d, c, n, m
    <3>2. n + m <= c.size
      BY <1>1, <2>7
    <3> QED BY <1>1, <2>4, <2>7, <3>1, <3>2, StoredArray, Zenon
  <2>9. d \in Vectors /\ d.size = n + m /\ d.mutable = TRUE
    BY <2>7, <2>8 DEF Holds
  <2>10. /\ x \in Seq(Byte) /\ Len(x) = n /\ \A i \in 1 .. n : x[i] = At(p, i - 1)
         /\ y \in Seq(Byte) /\ Len(y) = m /\ \A i \in 1 .. m : y[i] = At(q, i - 1)
    BY <1>1, ArrayFacts
  <2> HIDE DEF c, d, x, y, n, m, new
  <2>11. /\ s \in Seq(Byte) /\ Len(s) = n + m
         /\ \A i \in 1 .. n + m : s[i] = IF i <= n THEN x[i] ELSE y[i - n]
    <3>1. n \in Nat /\ m \in Nat
      BY <1>1
    <3>2. x \in Seq(Byte) /\ Len(x) = n /\ y \in Seq(Byte) /\ Len(y) = m
      BY <2>10
    <3>3. s \in Seq(Byte) /\ Len(s) = n + m
      BY <3>1, <3>2
    <3>4. \A i \in 1 .. n + m : s[i] = IF i <= n THEN x[i] ELSE y[i - n]
      <4>1. ASSUME NEW i \in 1 .. n + m PROVE (x \o y)[i] = IF i <= n THEN x[i] ELSE y[i - n]
        BY <3>1, <3>2
      <4> HIDE DEF s
      <4> QED BY <4>1 DEF s
    <3> QED BY <3>3, <3>4
  <2> HIDE DEF s
  <2>12. ASSUME NEW i \in 1 .. d.size PROVE s[i] = At(d, i - 1)
    <3>1. i \in 1 .. n + m /\ AsArray(d).bytes[i] = At(d, i - 1)
      BY <2>9, ArrayFacts
    <3>2. CASE i <= n
      <4>1. i \in 1 .. n /\ i - 1 \notin n .. n + m - 1 /\ i - 1 \in 0 .. 0 + n - 1 /\ i - 1 - 0 = i - 1
        BY <1>1, <3>1, <3>2
      <4>2. AsArray(d).bytes[i] = AsArray(c).bytes[i]
        BY <2>7, <2>8, <3>1, <4>1 DEF Holds
      <4>3. AsArray(c).bytes[i] = f[i - 1 - 0]
        BY <2>2, <2>6, <3>1, <4>1 DEF Holds
      <4>4. f[i - 1] = At(p, 0 + (i - 1)) /\ 0 + (i - 1) = i - 1
        BY <1>1, <2>3, <4>1
      <4>5. s[i] = At(p, i - 1)
        BY <2>10, <2>11, <3>1, <3>2, <4>1
      <4> QED BY <3>1, <4>1, <4>2, <4>3, <4>4, <4>5
    <3>3. CASE i > n
      <4>1. i - n \in 1 .. m /\ i - 1 \in n .. n + m - 1 /\ (i - n) - 1 = i - 1 - n /\ ~(i <= n)
            /\ i - 1 - n \in 0 .. m - 1
        BY <1>1, <3>1, <3>3
      <4>2. AsArray(d).bytes[i] = g[i - 1 - n]
        BY <2>7, <2>8, <3>1, <4>1 DEF Holds
      <4>3. g[i - 1 - n] = At(q, 0 + (i - 1 - n)) /\ 0 + (i - 1 - n) = i - 1 - n
        BY <1>1, <2>3, <4>1
      <4>4. s[i] = y[i - n]
        BY <2>11, <3>1, <4>1
      <4>5. y[i - n] = At(q, (i - n) - 1)
        BY <2>10, <4>1
      <4> QED BY <3>1, <4>1, <4>2, <4>3, <4>4, <4>5
    <3> QED BY <1>1, <3>1, <3>2, <3>3
  <2>13. AsArray(d) = Arrays!Array(s, TRUE)
    BY <2>9, <2>11, <2>12, ArrayIs
  <2>14. Arrays!Add(s, TRUE)
    BY <2>5, <2>9, <2>13, ReturnAdds
  <2> HIDE DEF valid
  <2> QED BY <1>1, <1>5, <1>6, <2>14 DEF Arrays!Join, s, x, y
<1>7. CASE ~valid /\ Panic
  BY <1>5, <1>7, HaltStops DEF Panic, Arrays!Join
<1> QED BY <1>6, <1>7 DEF _bytevector_append

(* A call whose effect the arrays allow is a step of the arrays.            *)
LEMMA Serves ==
  ASSUME call = <<>>, NEW op, NEW x, call' = <<op, x>>, <<op, x>> \in Arrays!Request, Arrays!Effect(op, x)
  PROVE  Arrays!Serve
<1>1. call'[1] = op /\ call'[2] = x /\ call' \in Arrays!Request
  OBVIOUS
<1>2. Arrays!Effect(call'[1], call'[2])
  BY <1>1
<1> QED BY <1>1, <1>2 DEF Arrays!Serve

LEMMA AllocateServes ==
  ASSUME Inv, call = <<>>, Allocate
  PROVE  Arrays!Serve
<1>1. ASSUME NEW lit \in Literals, NEW mutable \in BOOLEAN, generate_object(lit, mutable)
      PROVE  Arrays!Serve
  <2>1. Arrays!Effect("push", <<lit, mutable>>)
    BY <1>1, GenerateObjectPushes DEF Arrays!Effect
  <2>2. <<"push", <<lit, mutable>>>> \in Arrays!Request
    BY DEF Arrays!Request
  <2>3. call' = <<"push", <<lit, mutable>>>>
    BY <1>1 DEF generate_object, Call
  <2> QED BY <2>1, <2>2, <2>3, Serves
<1>2. ASSUME NEW count \in Counts, NEW datum \in Ints, _make_bytevector(count, datum)
      PROVE  Arrays!Serve
  <2>1. Arrays!Effect("make-bytevector", <<count, datum>>)
    BY <1>2, MakeMakes DEF Arrays!Effect
  <2>2. <<"make-bytevector", <<count, datum>>>> \in Arrays!Request
    BY DEF Arrays!Request
  <2>3. call' = <<"make-bytevector", <<count, datum>>>>
    BY <1>2 DEF _make_bytevector, Call
  <2> QED BY <2>1, <2>2, <2>3, Serves
<1>3. ASSUME NEW b \in Id, NEW from \in Ints, NEW to \in Ints, _bytevector_copy(b, from, to)
      PROVE  Arrays!Serve
  <2>1. Arrays!Effect("bytevector-copy", <<b, from, to>>)
    BY <1>3, CopyCopies DEF Arrays!Effect
  <2>2. <<"bytevector-copy", <<b, from, to>>>> \in Arrays!Request
    BY SeenFacts DEF Arrays!Request
  <2>3. call' = <<"bytevector-copy", <<b, from, to>>>>
    BY <1>3 DEF _bytevector_copy, Call
  <2> QED BY <2>1, <2>2, <2>3, Serves
<1>4. ASSUME NEW a \in Id, NEW b \in Id, _bytevector_append(a, b)
      PROVE  Arrays!Serve
  <2>1. Arrays!Effect("bytevector-append", <<a, b>>)
    BY <1>4, AppendJoins DEF Arrays!Effect
  <2>2. <<"bytevector-append", <<a, b>>>> \in Arrays!Request
    BY SeenFacts DEF Arrays!Request
  <2>3. call' = <<"bytevector-append", <<a, b>>>>
    BY <1>4 DEF _bytevector_append, Call
  <2> QED BY <2>1, <2>2, <2>3, Serves
<1> QED BY <1>1, <1>2, <1>3, <1>4 DEF Allocate

LEMMA AccessServes ==
  ASSUME Inv, call = <<>>, Access
  PROVE  Arrays!Serve
<1>1. ASSUME NEW b \in Id, _bytevector_length(b)
      PROVE  Arrays!Serve
  <2>1. Arrays!Effect("bytevector-length", <<b>>)
    BY <1>1, LengthAnswers DEF Arrays!Effect
  <2>2. <<"bytevector-length", <<b>>>> \in Arrays!Request
    BY SeenFacts DEF Arrays!Request
  <2>3. call' = <<"bytevector-length", <<b>>>>
    BY <1>1 DEF _bytevector_length, Call
  <2> QED BY <2>1, <2>2, <2>3, Serves
<1>2. ASSUME NEW b \in Id, NEW i \in Ints, _bytevector_u8_ref(b, i)
      PROVE  Arrays!Serve
  <2>1. Arrays!Effect("bytevector-u8-ref", <<b, i>>)
    BY <1>2, RefAnswers DEF Arrays!Effect
  <2>2. <<"bytevector-u8-ref", <<b, i>>>> \in Arrays!Request
    BY SeenFacts DEF Arrays!Request
  <2>3. call' = <<"bytevector-u8-ref", <<b, i>>>>
    BY <1>2 DEF _bytevector_u8_ref, Call
  <2> QED BY <2>1, <2>2, <2>3, Serves
<1>3. ASSUME NEW b \in Id, NEW i \in Ints, NEW datum \in Ints, _bytevector_u8_set(b, i, datum)
      PROVE  Arrays!Serve
  <2>1. Arrays!Effect("bytevector-u8-set!", <<b, i, datum>>)
    BY <1>3, SetSets DEF Arrays!Effect
  <2>2. <<"bytevector-u8-set!", <<b, i, datum>>>> \in Arrays!Request
    BY SeenFacts DEF Arrays!Request
  <2>3. call' = <<"bytevector-u8-set!", <<b, i, datum>>>>
    BY <1>3 DEF _bytevector_u8_set, Call
  <2> QED BY <2>1, <2>2, <2>3, Serves
<1>4. ASSUME NEW a \in Id, NEW b \in Id, NEW at \in Ints, NEW from \in Ints, NEW to \in Ints,
             _bytevector_copy_overwrite(a, at, b, from, to)
      PROVE  Arrays!Serve
  <2>1. Arrays!Effect("bytevector-copy!", <<a, at, b, from, to>>)
    BY <1>4, OverwriteCopies DEF Arrays!Effect
  <2>2. <<"bytevector-copy!", <<a, at, b, from, to>>>> \in Arrays!Request
    BY SeenFacts DEF Arrays!Request
  <2>3. call' = <<"bytevector-copy!", <<a, at, b, from, to>>>>
    BY <1>4 DEF _bytevector_copy_overwrite, Call
  <2> QED BY <2>1, <2>2, <2>3, Serves
<1> QED BY <1>1, <1>2, <1>3, <1>4 DEF Access

LEMMA StepOfArrays ==
  ASSUME Inv, [Next]_vars
  PROVE  [Arrays!Next]_<<Seen, call, result, status # "running">>
<1>1. CASE Next /\ Take
  <2>1. Finish(vecs, None, FALSE) /\ call # <<>> /\ call' = <<>>
    BY <1>1 DEF Take
  <2>2. Arrays!Returns(None) /\ UNCHANGED Seen
    BY <2>1, StayReturns
  <2>3. Arrays!Take
    BY <2>1, <2>2 DEF Arrays!Take, Arrays!None, None, Arrays!Object, Object
  <2> QED BY <1>1, <2>3 DEF Next, Arrays!Next
<1>2. CASE Next /\ call = <<>> /\ (Allocate \/ Access)
  BY <1>2, AllocateServes, AccessServes DEF Next, Arrays!Next
<1>3. CASE UNCHANGED vars
  BY <1>3 DEF vars, Seen, Id, At
<1> QED BY <1>1, <1>2, <1>3 DEF Next

(* Every behaviour of the primitives is one of the arrays: the answers a     *)
(* program gets are those of sequences of exact length, and a call outside  *)
(* them, or whose result they cannot hold, stops the machine and changes    *)
(* nothing, for any width of the size field (bytevector.c).                 *)
THEOREM BytevectorsImplementArrays == Spec => ArraysSpec
<1>1. Init => Arrays!Init
  BY DEF Init, Arrays!Init, Seen, Id, None, Object, Arrays!None, Arrays!Object
<1>2. Inv /\ [Next]_vars => [Arrays!Next]_<<Seen, call, result, status # "running">>
  BY StepOfArrays
<1> QED BY <1>1, <1>2, BytevectorsInvariant, PTL DEF Spec, ArraysSpec, Arrays!Spec
==============================================================================
