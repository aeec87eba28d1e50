----------------------------- MODULE Bytevectors ------------------------------
(***************************************************************************)
(* The bytevector primitives of src/bytevector.c over the blocks of memory  *)
(* they allocate.  A bytevector is a structure with a size field of 16 bits *)
(* and a pointer to a block; nothing but the size field bounds an access,   *)
(* and the block was allocated from the program's integer of 32 bits.       *)
(*                                                                         *)
(* A primitive pops its operands, which the program has pushed from         *)
(* anywhere it keeps them, and pushes its result.  Operands have the types  *)
(* the primitive validates, other than the mutability of a bytevector, and  *)
(* allocation succeeds unless its size is negative.  Integers are small     *)
(* enough for the sum of three of them to stay in a word.                   *)
(***************************************************************************)
EXTENDS Integers, Sequences, FiniteSets

CONSTANTS SIZES,         \* number of values of the size field, 2^16
          BYTES,         \* number of values of a byte, 2^8
          Counts,        \* integers of the program, as lengths
          Ints,          \* as indices and data
          Literals,      \* the bytes of bytevectors in its code
          MaxVectors,    \* bound on the vectors made in a run
          MaxBytes       \* bound on the bytes in their blocks

ASSUME BytevectorsAssumption ==
  /\ SIZES \in Nat \ {0}
  /\ BYTES \in Nat \ {0}
  /\ Counts \subseteq Int
  /\ Ints \subseteq Int
  /\ Literals \subseteq {lit \in Seq(0 .. BYTES - 1) : Len(lit) < SIZES}
  /\ MaxVectors \in Nat
  /\ MaxBytes \in Nat

VARIABLES vecs,          \* the vectors, in the order they were allocated
          call,          \* the primitive called last and its operands, or <<>>
          result,        \* the object it pushed
          status,        \* "running", "panic", or "collecting" for ever
          wild           \* ghost: an access fell outside its block

vars == <<vecs, call, result, status, wild>>

Byte == 0 .. BYTES - 1
Id == DOMAIN vecs

\* vec[i] for a block, and whatever lies there beyond its end.
At(p, i) == IF i \in DOMAIN p.vec THEN p.vec[i] ELSE 0
Outside(p, from, n) == ~(from .. from + n - 1 \subseteq DOMAIN p.vec)

\* n bytes f are stored from offset at.
Stored(p, at, n, f) ==
  [p EXCEPT !.vec = [i \in DOMAIN p.vec |-> IF i \in at .. at + n - 1 THEN f[i - at] ELSE p.vec[i]]]

Object(type, value) == [type |-> type, value |-> value]
Fixnum(i) == Object("imm_int", i)
None == Object("none", 0)

Call(op, operands) == call' = <<op, operands>>

Finish(vs, r, w) == vecs' = vs /\ result' = r /\ wild' = (wild \/ w) /\ UNCHANGED status
Halt(s) == status' = s /\ UNCHANGED <<vecs, result, wild>>
Panic == Halt("panic")

Footprint(vs) == Cardinality(UNION {{b} \X DOMAIN vs[b].vec : b \in DOMAIN vs})

\* A new vector at the end of vecs is the object a primitive returns.
Return(p, w) ==
  /\ Len(vecs) < MaxVectors
  /\ Footprint(Append(vecs, p)) <= MaxBytes
  /\ Finish(Append(vecs, p), Object("bytevector", Len(vecs) + 1), w)

------------------------------------------------------------------------------
(* Literals: generate_object.  A mutable one gets memory but not its bytes. *)

generate_object(lit, mutable) ==
  LET n == Len(lit)
  IN  /\ Call("push", <<lit, mutable>>)
      /\ \E f \in IF mutable THEN [0 .. n - 1 -> Byte] ELSE {[i \in 0 .. n - 1 |-> lit[i + 1]]} :
           Return([mutable |-> mutable, size |-> n, vec |-> f], FALSE)

\* The block has count bytes, the size field what is left of count in 16 bits;
\* the datum is cut to a byte by the store.
\* Faulty variant: the datum is kept as it is.
NewRaw(count, datum) ==
  [mutable |-> TRUE, size |-> count % SIZES, vec |-> [i \in 0 .. count - 1 |-> datum]]
New(count, datum) ==
  [mutable |-> TRUE, size |-> count % SIZES, vec |-> [i \in 0 .. count - 1 |-> datum % BYTES]]

\* As size_t a negative count is nearly the whole address space: GC_MALLOC
\* collects and tries again.
_make_bytevector(count, datum) ==
  /\ Call("make-bytevector", <<count, datum>>)
  /\ \/ count >= 0 /\ Return(New(count, datum), FALSE)
     \/ count < 0 /\ Halt("collecting")

------------------------------------------------------------------------------
_bytevector_length(b) ==
  /\ Call("bytevector-length", <<b>>)
  /\ Finish(vecs, Fixnum(vecs[b].size), FALSE)

\* Faulty variant: the index may equal the size.
IndexUpToSize(p, i) == 0 <= i /\ i <= p.size
IndexValid(p, i) == 0 <= i /\ i <= p.size - 1

_bytevector_u8_ref(b, i) ==
  LET p == vecs[b]
  IN  /\ Call("bytevector-u8-ref", <<b, i>>)
      /\ \/ IndexValid(p, i) /\ Finish(vecs, Fixnum(At(p, i)), Outside(p, i, 1))
         \/ ~IndexValid(p, i) /\ Panic

\* VALIDATE (bv, mut_bytevector).
\* Faulty variant: VALIDATE_BYTEVECTOR, which takes both types.
AnyType(p) == p.mutable \in BOOLEAN
MutableType(p) == p.mutable

_bytevector_u8_set(b, i, datum) ==
  LET p == vecs[b]
      valid == MutableType(p) /\ IndexValid(p, i) /\ datum \in Byte
  IN  /\ Call("bytevector-u8-set!", <<b, i, datum>>)
      /\ \/ /\ valid
            /\ Finish([vecs EXCEPT ![b] = Stored(p, i, 1, [k \in {0} |-> datum])],
                      Fixnum(datum), Outside(p, i, 1))
         \/ ~valid /\ Panic

------------------------------------------------------------------------------
(* Copies.                                                                  *)

\* The bytes a memcpy of n bytes can leave at its destination: in one vector
\* overlapping ranges are undefined, and any order of the moves is possible.
\* Faulty variant: the bytes are taken from the start of the source.
MovedFromStart(p, from, n, overlap) == {[k \in 0 .. n - 1 |-> At(p, k)]}
Moved(p, from, n, overlap) ==
  IF overlap THEN [0 .. n - 1 -> {At(p, from + k) : k \in 0 .. n - 1}]
  ELSE {[k \in 0 .. n - 1 |-> At(p, from + k)]}

CopyRange(p, from, to) == 0 <= to /\ to <= p.size /\ from <= to /\ 0 <= from

_bytevector_copy(b, from, to) ==
  LET p == vecs[b]
      n == to - from
  IN  /\ Call("bytevector-copy", <<b, from, to>>)
      /\ \/ /\ CopyRange(p, from, to)
            /\ \E f \in Moved(p, from, n, FALSE) :
                 Return(Stored(New(n, 0), 0, n, f),
                        Outside(p, from, n) \/ Outside(New(n, 0), 0, n))
         \/ ~CopyRange(p, from, to) /\ Panic

\* The range check of _bytevector_copy_overwrite, over destination and source.
OverwriteRange(d, at, s, from, to) ==
  /\ from <= to /\ 0 <= from /\ to <= s.size
  /\ 0 <= at /\ at - from + to <= d.size

_bytevector_copy_overwrite(a, at, b, from, to) ==
  LET d == vecs[a]
      s == vecs[b]
      n == to - from
      overlap == a = b /\ at < to /\ from < at + n
      valid == MutableType(d) /\ OverwriteRange(d, at, s, from, to)
  IN  /\ Call("bytevector-copy!", <<a, at, b, from, to>>)
      /\ \/ /\ valid
            /\ \E f \in Moved(s, from, n, overlap) :
                 Finish([vecs EXCEPT ![a] = Stored(d, at, n, f)], None,
                        Outside(d, at, n) \/ Outside(s, from, n))
         \/ ~valid /\ Panic

\* Both copies go to a new vector, whose size field may have lost the carry.
\* What a PANIC leaves half copied nobody can reach.
_bytevector_append(a, b) ==
  LET p == vecs[a]
      q == vecs[b]
      new == New(p.size + q.size, 0)
      valid == OverwriteRange(new, 0, p, 0, p.size) /\ OverwriteRange(new, p.size, q, 0, q.size)
  IN  /\ Call("bytevector-append", <<a, b>>)
      /\ \/ /\ valid
            /\ \E f \in Moved(p, 0, p.size, FALSE), g \in Moved(q, 0, q.size, FALSE) :
                 Return(Stored(Stored(new, 0, p.size, f), p.size, q.size, g),
                        \/ Outside(p, 0, p.size) \/ Outside(q, 0, q.size)
                        \/ Outside(new, 0, p.size) \/ Outside(new, p.size, q.size))
         \/ ~valid /\ Panic

------------------------------------------------------------------------------
Init == vecs = <<>> /\ call = <<>> /\ result = None /\ status = "running" /\ wild = FALSE

\* POP_OBJ: whatever follows takes the result off the stack.
Take == /\ call # <<>>
        /\ call' = <<>>
        /\ Finish(vecs, None, FALSE)

Allocate == \/ \E lit \in Literals, mutable \in BOOLEAN : generate_object(lit, mutable)
            \/ \E count \in Counts, datum \in Ints : _make_bytevector(count, datum)
            \/ \E b \in Id, from, to \in Ints : _bytevector_copy(b, from, to)
            \/ \E a, b \in Id : _bytevector_append(a, b)

Access == \/ \E b \in Id : _bytevector_length(b)
          \/ \E b \in Id, i \in Ints : _bytevector_u8_ref(b, i)
          \/ \E b \in Id, i, datum \in Ints : _bytevector_u8_set(b, i, datum)
          \/ \E a, b \in Id, at, from, to \in Ints : _bytevector_copy_overwrite(a, at, b, from, to)

\* The program takes a result before it calls again.
Next == /\ status = "running"
        /\ Take \/ (call = <<>> /\ (Allocate \/ Access))

Spec == Init /\ [][Next]_vars

------------------------------------------------------------------------------
TypeOK ==
  /\ \A b \in Id : vecs[b].mutable \in BOOLEAN /\ vecs[b].size \in 0 .. SIZES - 1
                   /\ \A i \in DOMAIN vecs[b].vec : vecs[b].vec[i] \in Byte
  /\ status \in {"running", "panic", "collecting"}
  /\ wild \in BOOLEAN

(* No primitive of bytevector.c reads or writes outside a vector's block,   *)
(* although it checks against a size field that may have lost the high bits *)
(* of the count the block was allocated with.                               *)
InBounds == ~wild

(* A bytevector in the code segment keeps its bytes: copies, whatever their *)
(* ranges, and stores reach mutable vectors only, and never by way of       *)
(* another vector's block.                                                  *)
LiteralsUntouched ==
  [][\A b \in Id : ~vecs[b].mutable => vecs'[b] = vecs[b]]_vars

(* The primitives implement arrays of exact length: what the size field     *)
(* bounds in a block is the array, a call outside it stops the machine and  *)
(* leaves the other vectors alone, a copy that the 16 bits of the new       *)
(* vector's size cannot hold stops rather than truncates.                   *)
Seen == [b \in Id |-> [bytes |-> [i \in 1 .. vecs[b].size |-> At(vecs[b], i - 1)],
                       mutable |-> vecs[b].mutable]]
Arrays == INSTANCE ByteArrays WITH
            MaxLength <- SIZES - 1,
            arrays <- Seen, stopped <- status # "running"
ArraysSpec == Arrays!Spec
=============================================================================
