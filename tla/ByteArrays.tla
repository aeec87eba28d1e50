------------------------------ MODULE ByteArrays ------------------------------
(***************************************************************************)
(* What the bytevector primitives promise a program, without memory:        *)
(* growing only in number, a sequence of arrays with exact lengths, of      *)
(* which the literals of the code cannot be changed.  A call whose range    *)
(* does not lie in its arrays stops the machine and changes nothing.        *)
(* Module Bytevectors shows that src/bytevector.c provides this.            *)
(***************************************************************************)
EXTENDS Integers, Sequences

CONSTANTS Byte,          \* values of a byte
          MaxLength,     \* the longest array
          Counts, Ints,  \* integers the program asks for as lengths, and uses otherwise
          Literals       \* byte sequences in its code

VARIABLES arrays,        \* the arrays, in the order they were made
          call,          \* the primitive called last and its operands, or <<>>
          result,        \* the object it left on the stack, or None
          stopped

Array(bytes, mutable) == [bytes |-> bytes, mutable |-> mutable]
Bytes(a) == arrays[a].bytes
Length(a) == Len(Bytes(a))
Id == DOMAIN arrays
Slice(a, from, to) == SubSeq(Bytes(a), from + 1, to)

Stop == stopped' = TRUE /\ UNCHANGED <<arrays, result>>

Object(type, value) == [type |-> type, value |-> value]
Fixnum(i) == Object("imm_int", i)
None == Object("none", 0)

Returns(r) == UNCHANGED stopped /\ result' = r

Add(bytes, mutable) ==
  /\ Returns(Object("bytevector", Len(arrays) + 1))
  /\ arrays' = Append(arrays, Array(bytes, mutable))

\* The bytes of a mutable literal are left open.
Push(lit, mutable) ==
  \E bytes \in IF mutable THEN [1 .. Len(lit) -> Byte] ELSE {lit} : Add(bytes, mutable)

\* A count above MaxLength makes an array of some other length, a datum that
\* is no byte an array of some other byte.
Make(count, datum) ==
  \/ count < 0 /\ Stop
  \/ \E n \in IF count <= MaxLength THEN {count} \cap Nat ELSE 0 .. MaxLength,
        b \in IF datum \in Byte THEN {datum} ELSE Byte :
       Add([i \in 1 .. n |-> b], TRUE)

LengthOf(a) == Returns(Fixnum(Length(a))) /\ UNCHANGED arrays

Ref(a, i) ==
  IF i \in 0 .. Length(a) - 1
  THEN Returns(Fixnum(Bytes(a)[i + 1])) /\ UNCHANGED arrays
  ELSE Stop

\* Only a mutable array changes.
Changed(a, bytes) == [arrays EXCEPT ![a] = Array(bytes, TRUE)]

Set(a, i, datum) ==
  IF arrays[a].mutable /\ i \in 0 .. Length(a) - 1 /\ datum \in Byte
  THEN Returns(Fixnum(datum)) /\ arrays' = Changed(a, [Bytes(a) EXCEPT ![i + 1] = datum])
  ELSE Stop

IsRange(a, from, to) == 0 <= from /\ from <= to /\ to <= Length(a)

Copy(a, from, to) ==
  IF IsRange(a, from, to) THEN Add(Slice(a, from, to), TRUE) ELSE Stop

Spliced(s, at, bytes) == SubSeq(s, 1, at) \o bytes \o SubSeq(s, at + Len(bytes) + 1, Len(s))

\* Two ranges of one array that overlap leave the order of the copy open.
CopyTo(a, at, b, from, to) ==
  IF arrays[a].mutable /\ IsRange(b, from, to) /\ IsRange(a, at, at + to - from)
  THEN /\ Returns(None)
       /\ \E bytes \in IF a = b /\ at < to /\ from < at + to - from
                       THEN [1 .. to - from -> {Bytes(b)[i] : i \in from + 1 .. to}]
                       ELSE {Slice(b, from, to)} :
            arrays' = Changed(a, Spliced(Bytes(a), at, bytes))
  ELSE Stop

Join(a, b) ==
  IF Length(a) + Length(b) <= MaxLength
  THEN Add(Bytes(a) \o Bytes(b), TRUE)
  ELSE Stop

Init == arrays = <<>> /\ call = <<>> /\ result = None /\ stopped = FALSE

Request ==
       {"push"} \X (Literals \X BOOLEAN)
  \cup {"make-bytevector"} \X (Counts \X Ints)
  \cup {"bytevector-length"} \X {<<a>> : a \in Id}
  \cup {"bytevector-u8-ref"} \X (Id \X Ints)
  \cup {"bytevector-u8-set!", "bytevector-copy"} \X (Id \X Ints \X Ints)
  \cup {"bytevector-copy!"} \X (Id \X Ints \X Id \X Ints \X Ints)
  \cup {"bytevector-append"} \X (Id \X Id)

Effect(op, x) ==
  CASE op = "push" -> Push(x[1], x[2])
    [] op = "make-bytevector" -> Make(x[1], x[2])
    [] op = "bytevector-length" -> LengthOf(x[1])
    [] op = "bytevector-u8-ref" -> Ref(x[1], x[2])
    [] op = "bytevector-u8-set!" -> Set(x[1], x[2], x[3])
    [] op = "bytevector-copy" -> Copy(x[1], x[2], x[3])
    [] op = "bytevector-copy!" -> CopyTo(x[1], x[2], x[3], x[4], x[5])
    [] op = "bytevector-append" -> Join(x[1], x[2])

Serve == /\ call = <<>>
         /\ call' \in Request
         /\ Effect(call'[1], call'[2])

\* The program takes the result before it calls again.
Take == call # <<>> /\ call' = <<>> /\ Returns(None) /\ UNCHANGED arrays

Next == ~stopped /\ (Take \/ Serve)

Spec == Init /\ [][Next]_<<arrays, call, result, stopped>>
=============================================================================
