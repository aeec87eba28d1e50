----------------------------- MODULE Instructions -----------------------------
(***************************************************************************)
(* How the interpreter cuts a code segment into instructions: fetching,     *)
(* pre_fetch, dispatch and the five interp functions of src/vm.c, down to   *)
(* the operation each byte sequence selects and its operands.  What an      *)
(* operation does to the frames is in Frames; here a call is followed by    *)
(* the instruction it returns to.  The reference is the instruction table   *)
(* in the comment of bytecode.h, as rows of bit fields.                     *)
(***************************************************************************)
EXTENDS Machine, Integers, Sequences

CONSTANT Codes          \* code segments

Byte == 0 .. 255
ASSUME CodesAssumption == Codes \subseteq Seq(Byte)

VARIABLES code,         \* vm->code, of VM_CODESEG_SIZE bytes
          pc,
          bc,           \* the static bc of fetch_next_bytecode
          did,          \* the operation executed last, with its operands
          popped        \* the objects call_prim took off the stack for it

segmentVars == <<code, pc, bc, did, popped>>
instrVars == <<segmentVars, machineVars>>

Operation(op, args) == [op |-> op, args |-> args]
NoOperation == Operation("nothing", <<>>)
Panics == Operation("panic", <<>>)

InstrInit == /\ code \in Codes
             /\ pc = 0 /\ bc = 0
             /\ MachineInit
             /\ did = NoOperation /\ popped = 0

------------------------------------------------------------------------------
(* Fetching.  Behind the end the VM is told to stop, and the byte of the    *)
(* last fetch is returned again.                                            *)

LastByte == IF pc < Len(code) THEN code[Len(code)] ELSE bc

\* The byte that the i-th NEXT_DATA of this instruction returns; the 0th is the
\* instruction's own.
Data(i) == IF pc + i < Len(code) THEN code[pc + i + 1] ELSE LastByte
Word(i) == Data(i) * 256 + Data(i + 1)

\* What an interp function comes to: the operation, the bytes it fetched, and
\* those it passed over without fetching them.
Effect(op, args, size) == [did |-> Operation(op, args), size |-> size, skip |-> 0]
Stops(size) == [did |-> Panics, size |-> size, skip |-> 0]

------------------------------------------------------------------------------
type(b) == b \div 16
data(b) == b % 16

\* pre_fetch.  IS_SPECIAL tests two bits, so 1001 passes too.
pre_fetch(b) ==
  IF type(b) <= 7 THEN "SINGLE"
  ELSE IF type(b) = 10 THEN "DOUBLE"
  ELSE IF type(b) = 11 THEN "TRIPLE"
  ELSE IF type(b) = 8 THEN "QUADRUPLE"
  ELSE "SPECIAL"

\* Faulty variant: the high part of the offset is not shifted.
FreeOffsetFlat(high, frame) == high + frame \div 64
FreeOffset(high, frame) == high * 4 + frame \div 64

interp_single_encode ==
  LET n == data(Data(0))
      up == Data(1) % 64
      offset == FreeOffset(n, Data(1))
  IN  CASE type(Data(0)) = 0 -> Effect("ref_local", <<n>>, 1)
        [] type(Data(0)) = 1 -> Effect("ref_local", <<n + 16>>, 1)
        [] type(Data(0)) = 2 -> Effect("ref_free", <<offset, up>>, 2)
        [] type(Data(0)) = 3 -> Effect("call_free", <<offset, up>>, 2)
        [] type(Data(0)) = 4 -> Effect("call_local", <<n>>, 1)
        [] type(Data(0)) = 5 -> Effect("call_local", <<n + 16>>, 1)
        [] type(Data(0)) = 6 -> Effect("assign_free", <<offset, up>>, 2)
        [] type(Data(0)) = 7 -> Effect("assign_local", <<(n * 256 + Data(1)) % 256>>, 2)

\* bc.type of the longer unions is the low half of the first byte.
\* PROC_ARITY and PROC_MODE of SAVE_ENV.
PROC_ARITY(b) == b \div 4
PROC_MODE(b) == b % 4

interp_double_encode ==
  LET n == data(Data(0))
  IN  CASE n = 0 -> Effect("prelude", <<PROC_ARITY(Data(1)), PROC_MODE(Data(1))>>, 2)
        [] n = 1 -> Effect("ref_local", <<(Data(1) + 32) % 256>>, 2)
        [] n = 2 -> Effect("call_local", <<(Data(1) + 32) % 256>>, 2)
        [] n = 3 -> Effect("assign_global", <<Data(1)>>, 2)
        [] n = 4 -> Effect("ref_global", <<Data(1)>>, 2)
        [] n = 5 -> Effect("call_global", <<Data(1)>>, 2)
        [] OTHER -> Stops(2)

\* The extended globals take their index from a fourth byte.
interp_triple_encode ==
  LET n == data(Data(0))
  IN  CASE n = 0 -> Effect("call_proc", <<Word(1)>>, 3)
        [] n = 1 -> Effect("jump_if_false", <<Word(1)>>, 3)
        [] n = 2 -> Effect("jump", <<Word(1)>>, 3)
        [] n = 4 -> Effect("assign_global", <<Data(3) + 256>>, 4)
        [] n = 5 -> Effect("ref_global", <<Data(3) + 256>>, 4)
        [] n = 6 -> Effect("call_global", <<Data(3) + 256>>, 4)
        [] OTHER -> Stops(3)

\* A closure's arity, the size of its frame, and its entry.  For the arity of one on
\* the stack the code masks what a byte does not have.
interp_quadruple_encode ==
  LET n == data(Data(0))
  IN  CASE n = 1 -> Effect("closure_on_heap", <<Data(1) \div 16, Data(1) % 16, Word(2)>>, 4)
        [] n = 2 -> Effect("closure_on_stack", <<0, Data(1), Word(2)>>, 4)
        [] OTHER -> Stops(4)

------------------------------------------------------------------------------
(* call_prim, by the objects a case pops before it calls the function.      *)

\* ret, restore, get-board-id, read-char, read-line, the two raises, vm-reset!
Nullary == {0, 14, 30, 34, 36, 46, 47, 107}
Predicates == {40, 41, 71} \cup 55 .. 67
\* pop, object-print, not, and what one operand is handed to.
Unary == {1, 6, 8, 26, 27, 29, 32, 33, 37, 73, 80, 106, 110} \cup 82 .. 85 \cup 91 .. 104
           \cup Predicates
\* Arithmetic, comparisons, for-each, map, apply, with-exception-handler, lists,
\* bytevectors and strings.
Binary == 2 .. 5 \cup {7} \cup 9 .. 13 \cup 16 .. 20 \cup 22 .. 25 \cup 86 .. 90
            \cup {28, 31, 45, 72, 74, 78, 81, 105, 108, 111, 113, 115}
Ternary == {38, 43, 44, 70, 75, 76, 79, 112, 114, 116}
\* Faulty variant: string-fill! is listed with the calls of three parameters.
QuaternaryNoFill == {39, 42}
Quaternary == {39, 42, 118}
Quinary == {77, 117}

Primitives == Nullary \cup Unary \cup Binary \cup Ternary \cup Quaternary \cup Quinary
Pops(n) == CASE n \in Nullary -> 0 [] n \in Unary -> 1 [] n \in Binary -> 2
             [] n \in Ternary -> 3 [] n \in Quaternary -> 4 [] n \in Quinary -> 5

------------------------------------------------------------------------------
(* Objects.  The type field has six bits.                                   *)

OneWord == {0, 9, 10, 13, 14, 15, 16}     \* imm_int, procedure, ..., complex_exact
Named == {2, 8}                           \* keyword, string
Counted == {5, 7}                         \* vector, list: elements are on the stack
Bytes == {21, 22}                         \* bytevectors: bytes follow
Pair == 3
ComplexInexact == 17

\* The types generate_object knows, and what it fetches behind them.
Generated == OneWord \cup Named \cup Counted \cup Bytes \cup {Pair, ComplexInexact}
Fetches(t) == CASE t \in OneWord -> 4 [] t \in Named \cup {Pair} -> 0
                [] t \in Counted \cup Bytes -> 2 [] t = ComplexInexact -> 8

\* Where os_strnlen stops: at the NUL, or at MAX_STR_LEN.  Text that does not end
\* in the segment is taken to end right behind it.
TextLength(i) ==
  LET stops == {k \in 0 .. MAX_STR_LEN :
                  k = MAX_STR_LEN \/ pc + i + k >= Len(code) \/ Data(i + k) = 0}
  IN  CHOOSE k \in stops : \A m \in stops : k <= m

TextSkip(i) == TextLength(i) + 1

Skips(t) == IF t \in Named THEN TextSkip(2) ELSE IF t \in Bytes THEN Word(2) ELSE 0

generate_object(t) ==
  IF t \in Generated
  THEN [did |-> Operation("object", <<t>>), size |-> 2 + Fetches(t), skip |-> Skips(t)]
  ELSE Effect("stop", <<>>, 2)

\* Objects the VM cannot generate stop it; a byte of CONTROL or OBJECT without a
\* case is passed over.
interp_special ==
  LET n == data(Data(0))
      wide == n * 256 + Data(1) + 16
  IN  CASE type(Data(0)) = 12 -> IF n \in Primitives THEN Effect("primitive", <<n>>, 1) ELSE Stops(1)
        [] type(Data(0)) = 13 -> IF wide \in Primitives THEN Effect("primitive", <<wide>>, 2)
                                 ELSE Stops(2)
        [] type(Data(0)) = 14 /\ n = 0 -> Effect("false", <<>>, 1)
        [] type(Data(0)) = 14 /\ n = 1 -> Effect("true", <<>>, 1)
        [] type(Data(0)) = 14 /\ n = 2 -> generate_object(Data(1) % 64)
        [] type(Data(0)) = 14 /\ n = 3 -> Effect("char", <<Data(1)>>, 2)
        [] type(Data(0)) = 14 /\ n = 6 -> Effect("symbol", <<Word(1)>>, 3)
        [] type(Data(0)) = 14 /\ n \notin {0, 1, 2, 3, 6} -> Effect("nothing", <<>>, 1)
        [] type(Data(0)) = 15 /\ n = 15 -> Effect("halt", <<>>, 1)
        [] type(Data(0)) = 15 /\ n # 15 -> Effect("nothing", <<>>, 1)
        [] OTHER -> Stops(1)

------------------------------------------------------------------------------
RunsOut(e) == pc + e.size > Len(code)
Behind(e) == (IF pc >= Len(code) THEN pc ELSE IF RunsOut(e) THEN Len(code) ELSE pc + e.size) + e.skip

\* Where a procedure object, a return address or a handler may lead.
Anywhere == 0 .. Len(code)
CallsObject == {"call_free", "call_local", "call_global"}
\* apply, restore, for-each, with-exception-handler
Leaving == {7, 14, 18, 45}

Targets(e) == CASE e.did.op \in {"jump", "call_proc"} -> {e.did.args[1]}
                [] e.did.op = "jump_if_false" -> {e.did.args[1], Behind(e)}
                [] e.did.op \in CallsObject -> Anywhere
                [] e.did.op = "primitive" /\ e.did.args[1] \in Leaving -> Anywhere
                [] OTHER -> {Behind(e)}

\* A primitive or a callee may refuse its operands, or raise.
Outcomes(e) == IF e.did = Panics THEN {"PANIC"}
               ELSE IF RunsOut(e) \/ e.did.op \in {"halt", "stop"} THEN {"VM_STOP"}
               ELSE IF e.did.op \in CallsObject \cup {"primitive"}
                    THEN {"VM_RUN", "VM_STOP", "PANIC"}
               ELSE {"VM_RUN"}

Execute(encoding, e) ==
  /\ Running
  /\ pre_fetch(Data(0)) = encoding
  /\ did' = e.did
  /\ popped' = IF e.did.op = "primitive" THEN Pops(e.did.args[1]) ELSE 0
  /\ machine' \in Outcomes(e)
  /\ bc' = Data(e.size - 1)
  /\ pc' \in Targets(e)
  /\ UNCHANGED <<code, strayed, unsafe>>

InterpSingle == Execute("SINGLE", interp_single_encode)
InterpDouble == Execute("DOUBLE", interp_double_encode)
InterpTriple == Execute("TRIPLE", interp_triple_encode)
InterpQuadruple == Execute("QUADRUPLE", interp_quadruple_encode)
InterpSpecial == Execute("SPECIAL", interp_special)

\* dispatch, as vm_run calls it.
dispatch == InterpSingle \/ InterpDouble \/ InterpTriple \/ InterpQuadruple \/ InterpSpecial

InstrSpec == InstrInit /\ [][dispatch]_instrVars

------------------------------------------------------------------------------
(* The table in bytecode.h: an operation's fixed bits, their number, the    *)
(* widths of its fields from the high bits on, and what is added to the     *)
(* last field.  Behind some objects there is a literal, whose layout follows *)
(* from what its type holds (types.h, object.h).                            *)

Row(bits, prefix, op, fields, bias) ==
  [bits |-> bits, prefix |-> prefix, op |-> op, fields |-> fields, bias |-> bias]

SingleRows == {Row(4, 0, "ref_local", <<4>>, 0), Row(4, 1, "ref_local", <<4>>, 16),
               Row(4, 2, "ref_free", <<6, 6>>, 0), Row(4, 3, "call_free", <<6, 6>>, 0),
               Row(4, 4, "call_local", <<4>>, 0), Row(4, 5, "call_local", <<4>>, 16),
               Row(4, 6, "assign_free", <<6, 6>>, 0), Row(4, 7, "assign_local", <<12>>, 0)}

DoubleRows == {Row(8, 160, "prelude", <<8>>, 0), Row(8, 161, "ref_local", <<8>>, 32),
               Row(8, 162, "call_local", <<8>>, 32), Row(8, 163, "assign_global", <<8>>, 0),
               Row(8, 164, "ref_global", <<8>>, 0), Row(8, 165, "call_global", <<8>>, 0)}

TripleRows == {Row(8, 176, "call_proc", <<16>>, 0), Row(8, 177, "jump_if_false", <<16>>, 0),
               Row(8, 178, "jump", <<16>>, 0), Row(8, 179, "vector_ref", <<8, 8>>, 0),
               Row(8, 180, "assign_global", <<16>>, 128), Row(8, 181, "ref_global", <<16>>, 128),
               Row(8, 182, "call_global", <<16>>, 0)}

QuadrupleRows == {Row(8, 128, "vector_set", <<8, 8, 8>>, 0),
                  Row(8, 129, "closure_on_heap", <<8, 16>>, 0),
                  Row(8, 130, "closure_on_stack", <<8, 16>>, 0)}

SpecialRows == {Row(4, 12, "primitive", <<4>>, 0), Row(4, 13, "primitive", <<12>>, 16),
                Row(8, 224, "false", <<>>, 0), Row(8, 225, "true", <<>>, 0),
                Row(8, 226, "object", <<8>>, 0), Row(8, 227, "char", <<8>>, 0),
                Row(8, 228, "empty_list", <<>>, 0), Row(8, 229, "none", <<>>, 0),
                Row(8, 230, "symbol", <<16>>, 0), Row(8, 255, "halt", <<>>, 0)}

Rows == SingleRows \cup DoubleRows \cup TripleRows \cup QuadrupleRows \cup SpecialRows

RowsFor(b) == {r \in Rows : b \div 2^(8 - r.bits) = r.prefix}

\* The bits of field i, and of those behind it: no row has more than three.
Width(r, i) == IF i \in DOMAIN r.fields THEN r.fields[i] ELSE 0
Below(r, i) == Width(r, i + 1) + Width(r, i + 2) + Width(r, i + 3)
Size(r) == (r.bits + Below(r, 0)) \div 8

\* The instruction as one number, of at most four bytes, without the bits every
\* row fixes; and the fields cut out of it.
Number(size) ==
  LET Shifted(b, i) == IF i < size THEN b * 256^(size - 1 - i) ELSE 0
  IN  Shifted(code[pc + 1] % 16, 0) + Shifted(code[pc + 2], 1)
        + Shifted(code[pc + 3], 2) + Shifted(code[pc + 4], 3)
Field(r, i) ==
  LET bias == IF i = Len(r.fields) THEN r.bias ELSE 0
  IN  ((Number(Size(r)) \div 2^Below(r, i)) % 2^Width(r, i)) + bias
Documented(r) == Operation(r.op, [i \in DOMAIN r.fields |-> Field(r, i)])

\* Registered, but without a case in call_prim: list-set!, read-string, string,
\* exact?, inexact?, dynamic-wind and the error objects.
Uncalled == {15, 21, 35, 109} \cup 48 .. 54 \cup {68, 69}

\* Operands that are known to be read otherwise: a prelude's byte, all of it a
\* number of arguments in the table, is an arity of six bits and a mode; the byte
\* for a closure's frame has its arity in it, so that neither of them reaches the
\* limit of 64.
Resplit == {"prelude", "closure_on_heap", "closure_on_stack"}

\* Where the code is known to do something else: the extended globals, which the
\* table gives 16 bits of index; the objects dispatch has no case for; what is
\* not implemented; offsets of locals beyond a byte.
Divergent(r) ==
  \/ r \in TripleRows /\ r.prefix \in {180, 181, 182}
  \/ r.op \in {"empty_list", "none", "vector_ref", "vector_set"}
  \/ r.op = "primitive" /\ (Field(r, 1) \in Uncalled \/ Field(r, 1) > 118)
  \/ r.op \in {"assign_local", "ref_local", "call_local"} /\ Field(r, 1) > 255
  \/ r.op = "object" /\ Field(r, 1) \notin Generated

Whole(r) == pc + Size(r) <= Len(code)

\* The arity def_prim registers, by primitive; five differ from what call_prim
\* pops: pop, device-configure!, get-board-id, raise and raise-continuable.
Registered(n) ==
  CASE n \in {0, 1, 14, 15, 34, 36, 107} -> 0
    [] n \in {6, 8, 26, 29, 32, 33, 35, 37, 40, 41, 71, 73, 80, 106, 109, 110}
               \cup 46 .. 53 \cup 55 .. 69 \cup 82 .. 85 \cup 91 .. 104 -> 1
    [] n \in 2 .. 5 \cup {7} \cup 9 .. 13 \cup 16 .. 20 \cup 22 .. 25 \cup 86 .. 90
               \cup {27, 28, 30, 31, 45, 72, 74, 78, 81, 105, 108, 111, 113, 115} -> 2
    [] n \in {21, 38, 43, 44, 54, 70, 75, 76, 79, 112, 114, 116} -> 3
    [] n \in {39, 42, 118} -> 4
    [] n \in {77, 117} -> 5
Misregistered == {1, 27, 30, 46, 47}

\* The bits of a literal behind its type: a word for integers, primitives and reals,
\* an entry with an arity and a number of optional arguments for procedures, two
\* halves for rationals and exact complexes, two words for inexact ones, a size for
\* what is counted.
LiteralBits(t) == CASE t \in {0, 10, 13} -> 32
                    [] t = 9 -> 16 + 8 + 8
                    [] t \in {14, 15, 16} -> 16 + 16
                    [] t = 17 -> 32 + 32
                    [] t \in Counted \cup Bytes -> 16
                    [] OTHER -> 0

\* A literal of type t that lies whole in the segment ends before byte p: a text with
\* the first NUL, unless it is longer than MAX_STR_LEN, when it is cut and pc is left
\* inside it; a bytevector behind its bytes.
LiteralEnds(t, p) ==
  CASE t \in Named -> /\ p \in pc + 3 .. pc + 3 + MAX_STR_LEN /\ code[p] = 0
                      /\ \A q \in pc + 3 .. p - 1 : code[q] # 0
    [] t \in Bytes -> /\ p >= pc + 4
                      /\ p = pc + 4 + code[pc + 3] * 256 + code[pc + 4]
    [] OTHER -> p = pc + 2 + LiteralBits(t) \div 8

GoesOn(r) == CASE r.op \in {"jump", "call_proc"} -> pc' = Field(r, 1)
               [] r.op = "jump_if_false" -> pc' \in {Field(r, 1), pc + Size(r)}
               [] r.op \in CallsObject -> TRUE
               [] r.op = "object" ->
                    \A p \in pc + 2 .. Len(code) : LiteralEnds(Field(r, 1), p) => pc' = p
               [] r.op = "primitive" -> /\ \/ Field(r, 1) \in Misregistered
                                           \/ popped' = Registered(Field(r, 1))
                                        /\ Field(r, 1) \in Leaving \/ pc' = pc + Size(r)
               [] OTHER -> pc' = pc + Size(r)

Executed(r) == /\ did'.op = r.op
               /\ r.op \in Resplit \/ did' = Documented(r)
               /\ GoesOn(r)

(* Every instruction of the table that lies whole in the code segment is    *)
(* executed as the table says, and with the operands it gives, and takes    *)
(* for a primitive the operands it is registered with, except for those     *)
(* named above: pre_fetch, dispatch, the interp functions, generate_object  *)
(* and call_prim cut the stream at the table's boundaries and behind the    *)
(* literals, so that no instruction runs on into the operands of another,   *)
(* or passes over one.                                                      *)
AsDocumented ==
  [][pc < Len(code) =>
       \A r \in RowsFor(code[pc + 1]) : Whole(r) /\ ~Divergent(r) => Executed(r)]_segmentVars

==============================================================================
