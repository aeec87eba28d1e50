-------------------------- MODULE InstructionsProofs --------------------------
(***************************************************************************)
(* Every code segment is cut into instructions as the table of bytecode.h   *)
(* says: no bytes, no length and no operand make the decoder and the table  *)
(* disagree, but for the rows and operands that Divergent and Resplit name. *)
(*                                                                          *)
(* The invariant is what the fetches need: the segment holds bytes, the     *)
(* byte fetched last is one, and pc is a natural number (it may be behind   *)
(* the end).  The rest is one lemma for each of the five encodings.         *)
(***************************************************************************)
EXTENDS Instructions, WellFoundedInduction, TLAPS

------------------------------------------------------------------------------
(* Fetching.                                                                *)

TypeInv == code \in Seq(Byte) /\ pc \in Nat /\ bc \in Byte

\* Whatever is fetched is a byte, and within the segment it is the segment's.
LEMMA DataByte ==
  ASSUME TypeInv, NEW i \in Nat
  PROVE  /\ Data(i) \in Byte
         /\ pc + i < Len(code) => Data(i) = code[pc + i + 1]
<1>1. Len(code) \in Nat /\ \A k \in 1 .. Len(code) : code[k] \in Byte
  BY DEF TypeInv
<1>2. pc \in Nat /\ bc \in Byte
  BY DEF TypeInv
<1>3. LastByte \in Byte
  BY <1>1, <1>2 DEF LastByte
<1> QED BY <1>1, <1>2, <1>3 DEF Data

\* Two bytes fetched one after the other make a natural number.
LEMMA WordNat ==
  ASSUME TypeInv, NEW i \in Nat
  PROVE  Word(i) \in Nat
<1>1. i + 1 \in Nat
  OBVIOUS
<1> DEFINE high == Data(i)
           low == Data(i + 1)
<1>2. high \in 0 .. 255 /\ low \in 0 .. 255
  BY <1>1, DataByte DEF Byte
<1>3. Word(i) = high * 256 + low
  BY DEF Word
<1> HIDE DEF high, low
<1> QED BY <1>2, <1>3

\* Below every natural number there are finitely many, in the form WFMin takes.
LEMMA NatOrder == IsWellFoundedOn({ss \in Nat \X Nat : ss[1] < ss[2]}, Nat)
BY NatLessThanWellFounded DEF OpToRel

\* A text has a length, whether it ends in the segment or not: the first place where
\* os_strnlen stops.
LEMMA TextLengthIs ==
  ASSUME TypeInv, NEW i \in Nat
  PROVE  LET stops == {k \in 0 .. MAX_STR_LEN :
                         k = MAX_STR_LEN \/ pc + i + k >= Len(code) \/ Data(i + k) = 0}
         IN  TextLength(i) \in stops /\ \A m \in stops : TextLength(i) <= m
<1> DEFINE stops == {k \in 0 .. MAX_STR_LEN :
                       k = MAX_STR_LEN \/ pc + i + k >= Len(code) \/ Data(i + k) = 0}
           Less == {ss \in Nat \X Nat : ss[1] < ss[2]}
<1>1. MAX_STR_LEN \in stops /\ stops \in SUBSET Nat
  BY LengthAssumption
<1>2. TextLength(i) = CHOOSE k \in stops : \A m \in stops : k <= m
  BY Zenon DEF TextLength
<1> HIDE DEF stops
<1>3. PICK m \in stops : \A k \in stops : ~(<<k, m>> \in Less)
  BY <1>1, NatOrder, WFMin
<1>4. ASSUME NEW k \in stops PROVE m <= k
  <2>1. m \in Nat /\ k \in Nat /\ ~(<<k, m>> \in Less)
    BY <1>1, <1>3
  <2>2. ~(k < m)
    BY <2>1
  <2> QED BY <2>1, <2>2
<1>5. TextLength(i) \in stops /\ \A k \in stops : TextLength(i) <= k
  BY <1>2, <1>4
<1> QED BY <1>5, Zenon DEF stops

LEMMA TextLengthNat ==
  ASSUME TypeInv, NEW i \in Nat
  PROVE  TextLength(i) \in Nat
BY TextLengthIs, LengthAssumption

------------------------------------------------------------------------------
(* The table: the fields of a row are cut out of its bytes.                 *)

\* A row without fields: its size, and the operation it documents.
LEMMA NoField ==
  ASSUME NEW r, r.fields = <<>>, r.bits \in Nat
  PROVE  Size(r) = r.bits \div 8 /\ Documented(r) = Operation(r.op, <<>>)
<1>1. DOMAIN r.fields = {}
  BY SMT
<1>2. Below(r, 0) = 0
  BY SMT, <1>1 DEF Below, Width
<1>3. [i \in DOMAIN r.fields |-> Field(r, i)] = <<>>
  BY SMT, <1>1
<1>4. Size(r) = r.bits \div 8
  BY SMT, <1>1, <1>2 DEF Size
<1>5. Documented(r) = Operation(r.op, <<>>)
  BY SMT, <1>1, <1>3 DEF Documented
<1> QED BY SMT, <1>4, <1>5

Power(k) == 2^k

\* The provers know 2^0 only when it is written with a 0.
LEMMA PowerZero ==
  ASSUME NEW k, k = 0
  PROVE  2^k = 1
<1>1. Power(k) = Power(0)
  OBVIOUS
<1>2. Power(0) = 1
  BY SMT DEF Power
<1> QED BY SMT, <1>1, <1>2 DEF Power

\* A row of one field: its size, where the field lies, and its operation.
LEMMA OneField ==
  ASSUME NEW r, NEW width \in Nat, r.fields = <<width>>, r.bits \in Nat, r.bias \in Nat
  PROVE  /\ Size(r) = (r.bits + width) \div 8
         /\ Field(r, 1) = ((Number(Size(r)) \div 1) % Power(width)) + r.bias
         /\ Documented(r) = Operation(r.op, <<Field(r, 1)>>)
<1>2. DOMAIN r.fields = {1} /\ Len(r.fields) = 1 /\ r.fields[1] = width
  BY SMT
<1>3. Width(r, 1) = width /\ Width(r, 2) = 0 /\ Width(r, 3) = 0 /\ Width(r, 4) = 0
  BY SMT, <1>2 DEF Width
<1>4. Below(r, 0) = width /\ Below(r, 1) = 0
  BY SMT, <1>3 DEF Below
<1>5. Size(r) = (r.bits + width) \div 8
  BY SMT, <1>4 DEF Size
<1>6. Field(r, 1) = ((Number(Size(r)) \div 1) % Power(width)) + r.bias
  <2>1. Field(r, 1) = ((Number(Size(r)) \div 2^Below(r, 1)) % 2^Width(r, 1))
                         + (IF 1 = Len(r.fields) THEN r.bias ELSE 0)
    BY SMT DEF Field
  <2>2. (IF 1 = Len(r.fields) THEN r.bias ELSE 0) = r.bias
    BY SMT, <1>2
  <2> QED BY SMT, <2>1, <2>2, <1>3, <1>4, PowerZero DEF Power
<1>7. [i \in DOMAIN r.fields |-> Field(r, i)] = <<Field(r, 1)>>
  BY SMT, <1>2
<1>8. Documented(r) = Operation(r.op, <<Field(r, 1)>>)
  BY SMT, <1>7 DEF Documented
<1> QED BY SMT, <1>5, <1>6, <1>8

\* A row of two fields.
LEMMA TwoFields ==
  ASSUME NEW r, NEW first \in Nat, NEW second \in Nat, r.fields = <<first, second>>,
         r.bits \in Nat, r.bias \in Nat
  PROVE  /\ Size(r) = (r.bits + first + second) \div 8
         /\ Field(r, 1) = ((Number(Size(r)) \div Power(second)) % Power(first)) + 0
         /\ Field(r, 2) = ((Number(Size(r)) \div 1) % Power(second)) + r.bias
         /\ Documented(r) = Operation(r.op, <<Field(r, 1), Field(r, 2)>>)
<1>2. DOMAIN r.fields = {1, 2} /\ Len(r.fields) = 2 /\ r.fields[1] = first /\ r.fields[2] = second
  BY SMT
<1>3. /\ Width(r, 1) = first /\ Width(r, 2) = second
      /\ Width(r, 3) = 0 /\ Width(r, 4) = 0 /\ Width(r, 5) = 0
  BY SMT, <1>2 DEF Width
<1>4. Below(r, 0) = first + second /\ Below(r, 1) = second /\ Below(r, 2) = 0
  BY SMT, <1>3 DEF Below
<1>5. Size(r) = (r.bits + first + second) \div 8
  BY SMT, <1>4 DEF Size
<1>6. Field(r, 1) = ((Number(Size(r)) \div Power(second)) % Power(first)) + 0
  BY SMT, <1>2, <1>3, <1>4 DEF Field, Power
<1>7. Field(r, 2) = ((Number(Size(r)) \div 1) % Power(second)) + r.bias
  <2>1. Field(r, 2) = ((Number(Size(r)) \div 2^Below(r, 2)) % 2^Width(r, 2))
                         + (IF 2 = Len(r.fields) THEN r.bias ELSE 0)
    BY SMT DEF Field
  <2>2. (IF 2 = Len(r.fields) THEN r.bias ELSE 0) = r.bias
    BY SMT, <1>2
  <2> QED BY SMT, <2>1, <2>2, <1>3, <1>4, PowerZero DEF Power
<1>8. [i \in DOMAIN r.fields |-> Field(r, i)] = <<Field(r, 1), Field(r, 2)>>
  BY SMT, <1>2
<1>9. Documented(r) = Operation(r.op, <<Field(r, 1), Field(r, 2)>>)
  BY SMT, <1>8 DEF Documented
<1> QED BY SMT, <1>5, <1>6, <1>7, <1>9

(* The bytes of a whole instruction, as one number.                         *)
LEMMA Numbers ==
  ASSUME TypeInv
  PROVE  LET n == Data(0) % 16
         IN  /\ pc + 1 <= Len(code) => Number(1) = n
             /\ pc + 2 <= Len(code) => Number(2) = n * 256 + Data(1)
             /\ pc + 3 <= Len(code) => Number(3) = n * 65536 + Data(1) * 256 + Data(2)
             /\ pc + 4 <= Len(code) =>
                  Number(4) = n * 16777216 + Data(1) * 65536 + Data(2) * 256 + Data(3)
<1> DEFINE d0 == Data(0)
           d1 == Data(1)
           d2 == Data(2)
           d3 == Data(3)
           n == d0 % 16
<1>1. pc \in Nat /\ Len(code) \in Nat
  BY DEF TypeInv
<1>2. /\ d0 \in 0 .. 255 /\ (pc + 0 < Len(code) => d0 = code[pc + 0 + 1])
      /\ d1 \in 0 .. 255 /\ (pc + 1 < Len(code) => d1 = code[pc + 1 + 1])
      /\ d2 \in 0 .. 255 /\ (pc + 2 < Len(code) => d2 = code[pc + 2 + 1])
      /\ d3 \in 0 .. 255 /\ (pc + 3 < Len(code) => d3 = code[pc + 3 + 1])
  <2>1. 0 \in Nat /\ 1 \in Nat /\ 2 \in Nat /\ 3 \in Nat
    OBVIOUS
  <2> QED BY <2>1, DataByte, Zenon DEF Byte
<1> HIDE DEF d0, d1, d2, d3
<1>3. /\ pc + 1 <= Len(code) => d0 = code[pc + 1]
      /\ pc + 2 <= Len(code) => d1 = code[pc + 2]
      /\ pc + 3 <= Len(code) => d2 = code[pc + 3]
      /\ pc + 4 <= Len(code) => d3 = code[pc + 4]
  BY SMT, <1>1, <1>2
<1>4. n \in 0 .. 15
  BY <1>2
<1>5. ASSUME pc + 1 <= Len(code) PROVE Number(1) = n
  BY SMT, <1>2, <1>3, <1>4, <1>5 DEF Number
<1>6. ASSUME pc + 2 <= Len(code) PROVE Number(2) = n * 256 + d1
  <2>1. code[pc + 1] = d0 /\ code[pc + 2] = d1
    BY SMT, <1>1, <1>3, <1>6
  <2> HIDE DEF n
  <2> QED BY SMT, <1>2, <1>4, <2>1 DEF Number, n
<1>7. ASSUME pc + 3 <= Len(code) PROVE Number(3) = n * 65536 + d1 * 256 + d2
  <2>1. code[pc + 1] = d0 /\ code[pc + 2] = d1 /\ code[pc + 3] = d2
    BY SMT, <1>1, <1>3, <1>7
  <2> QED BY SMT, <1>2, <1>4, <2>1 DEF Number
<1>8. ASSUME pc + 4 <= Len(code)
      PROVE  Number(4) = n * 16777216 + d1 * 65536 + d2 * 256 + d3
  <2>1. code[pc + 1] = d0 /\ code[pc + 2] = d1 /\ code[pc + 3] = d2 /\ code[pc + 4] = d3
    BY SMT, <1>1, <1>3, <1>8
  <2> QED BY SMT, <1>2, <1>4, <2>1 DEF Number
<1> QED BY <1>5, <1>6, <1>7, <1>8 DEF d0, d1, d2, d3

\* What the table says of the instruction at pc: so many bytes, this operation.
Reads(r, op, args, size) == /\ r.op = op /\ Size(r) = size
                            /\ Documented(r) = Operation(op, args)
                            /\ args # <<>> => Field(r, 1) = args[1]

\* One lemma for each layout in the table, by what the bytes mean: no operand,
LEMMA ReadsNone ==
  ASSUME NEW prefix, NEW op, NEW bias, NEW r, r = Row(8, prefix, op, <<>>, bias)
  PROVE  Reads(r, op, <<>>, 1)
<1>1. 8 \in Nat /\ 8 \div 8 = 1
  OBVIOUS
<1>2. r.op = op /\ r.fields = <<>> /\ r.bits = 8
  BY DEF Row
<1> QED BY <1>1, <1>2, NoField DEF Reads

\* The low half of the first byte, which every layout leaves to its fields.
LEMMA Nibble ==
  ASSUME TypeInv
  PROVE  /\ Data(0) % 16 \in 0 .. 15 /\ Data(0) \in 0 .. 255 /\ Data(1) \in 0 .. 255
         /\ Data(2) \in 0 .. 255 /\ Data(3) \in 0 .. 255
         /\ pc \in Nat /\ Len(code) \in Nat
<1>1. 0 \in Nat /\ 1 \in Nat /\ 2 \in Nat /\ 3 \in Nat
  OBVIOUS
<1>2. Data(0) \in Byte /\ Data(1) \in Byte /\ Data(2) \in Byte /\ Data(3) \in Byte
  BY <1>1, DataByte, Zenon
<1> DEFINE d == Data(0)
<1>3. d \in 0 .. 255
  BY <1>2 DEF Byte
<1> HIDE DEF d
<1>4. d % 16 \in 0 .. 15
  BY <1>3
<1> QED BY <1>2, <1>4 DEF d, Byte, TypeInv

\* four bits of the first byte,
LEMMA ReadsNibble ==
  ASSUME TypeInv, NEW prefix, NEW op, NEW bias \in Nat,
         NEW r, r = Row(4, prefix, op, << 4 >>, bias), Whole(r)
  PROVE  Reads(r, op, <<data(Data(0)) + bias>>, 1)
<1>0. r.fields = << 4 >> /\ r.bits = 4 /\ r.bias = bias /\ r.op = op
  BY DEF Row
<1>1. /\ Size(r) = (r.bits + 4) \div 8
      /\ Field(r, 1) = ((Number(Size(r)) \div 1) % Power(4)) + r.bias
      /\ Documented(r) = Operation(r.op, <<Field(r, 1)>>)
  <2>1. 4 \in Nat /\ r.bits \in Nat /\ r.bias \in Nat
    BY <1>0
  <2> QED BY <1>0, <2>1, OneField, Zenon
<1>2. /\ Field(r, 1) = ((Number(Size(r)) \div 1) % Power(4)) + bias
      /\ Documented(r) = Operation(op, <<Field(r, 1)>>)
  BY <1>0, <1>1, Zenon
<1>3. Size(r) = 1
  BY <1>0, <1>1
<1>4. Power(4) = 16
  BY SMT DEF Power
<1> DEFINE n == Data(0) % 16
           d1 == Data(1)
           d2 == Data(2)
<1>5. pc + 1 <= Len(code)
  BY <1>3 DEF Whole
<1>6. n \in 0 .. 15 /\ d1 \in 0 .. 255 /\ d2 \in 0 .. 255 /\ pc \in Nat /\ Len(code) \in Nat
  BY Nibble
<1>7. Number(1) = n
  BY <1>5, Numbers
<1> HIDE DEF n, d1, d2
<1>8. Field(r, 1) = n + bias
  <2>1. (n) \div 1 = n
    BY <1>6
  <2>2. (n) % 16 = n
    BY <1>6
  <2> QED BY SMT, <2>1, <2>2, <1>2, <1>3, <1>4, <1>7
<1>9. Field(r, 1) = data(Data(0)) + bias
  BY <1>8 DEF n, d1, d2, data, Word
<1> QED BY <1>0, <1>2, <1>3, <1>9 DEF Reads

\* these four bits and a byte,
LEMMA ReadsLong ==
  ASSUME TypeInv, NEW prefix, NEW op, NEW bias \in Nat,
         NEW r, r = Row(4, prefix, op, << 12 >>, bias), Whole(r)
  PROVE  Reads(r, op, <<data(Data(0)) * 256 + Data(1) + bias>>, 2)
<1>0. r.fields = << 12 >> /\ r.bits = 4 /\ r.bias = bias /\ r.op = op
  BY DEF Row
<1>1. /\ Size(r) = (r.bits + 12) \div 8
      /\ Field(r, 1) = ((Number(Size(r)) \div 1) % Power(12)) + r.bias
      /\ Documented(r) = Operation(r.op, <<Field(r, 1)>>)
  <2>1. 12 \in Nat /\ r.bits \in Nat /\ r.bias \in Nat
    BY <1>0
  <2> QED BY <1>0, <2>1, OneField, Zenon
<1>2. /\ Field(r, 1) = ((Number(Size(r)) \div 1) % Power(12)) + bias
      /\ Documented(r) = Operation(op, <<Field(r, 1)>>)
  BY <1>0, <1>1, Zenon
<1>3. Size(r) = 2
  BY <1>0, <1>1
<1>4. Power(12) = 4096
  BY SMT DEF Power
<1> DEFINE n == Data(0) % 16
           d1 == Data(1)
           d2 == Data(2)
<1>5. pc + 2 <= Len(code)
  BY <1>3 DEF Whole
<1>6. n \in 0 .. 15 /\ d1 \in 0 .. 255 /\ d2 \in 0 .. 255 /\ pc \in Nat /\ Len(code) \in Nat
  BY Nibble
<1>7. Number(2) = n * 256 + d1
  BY <1>5, Numbers
<1> HIDE DEF n, d1, d2
<1>8. Field(r, 1) = n * 256 + d1 + bias
  <2>1. (n * 256 + d1) \div 1 = n * 256 + d1
    BY <1>6
  <2>2. (n * 256 + d1) % 4096 = n * 256 + d1
    BY <1>6
  <2> QED BY SMT, <2>1, <2>2, <1>2, <1>3, <1>4, <1>7
<1>9. Field(r, 1) = data(Data(0)) * 256 + Data(1) + bias
  BY <1>8 DEF n, d1, d2, data, Word
<1> QED BY <1>0, <1>2, <1>3, <1>9 DEF Reads

\* a byte,
LEMMA ReadsByte ==
  ASSUME TypeInv, NEW prefix, NEW op, NEW bias \in Nat,
         NEW r, r = Row(8, prefix, op, << 8 >>, bias), Whole(r)
  PROVE  Reads(r, op, <<Data(1) + bias>>, 2)
<1>0. r.fields = << 8 >> /\ r.bits = 8 /\ r.bias = bias /\ r.op = op
  BY DEF Row
<1>1. /\ Size(r) = (r.bits + 8) \div 8
      /\ Field(r, 1) = ((Number(Size(r)) \div 1) % Power(8)) + r.bias
      /\ Documented(r) = Operation(r.op, <<Field(r, 1)>>)
  <2>1. 8 \in Nat /\ r.bits \in Nat /\ r.bias \in Nat
    BY <1>0
  <2> QED BY <1>0, <2>1, OneField, Zenon
<1>2. /\ Field(r, 1) = ((Number(Size(r)) \div 1) % Power(8)) + bias
      /\ Documented(r) = Operation(op, <<Field(r, 1)>>)
  BY <1>0, <1>1, Zenon
<1>3. Size(r) = 2
  BY <1>0, <1>1
<1>4. Power(8) = 256
  BY SMT DEF Power
<1> DEFINE n == Data(0) % 16
           d1 == Data(1)
           d2 == Data(2)
<1>5. pc + 2 <= Len(code)
  BY <1>3 DEF Whole
<1>6. n \in 0 .. 15 /\ d1 \in 0 .. 255 /\ d2 \in 0 .. 255 /\ pc \in Nat /\ Len(code) \in Nat
  BY Nibble
<1>7. Number(2) = n * 256 + d1
  BY <1>5, Numbers
<1> HIDE DEF n, d1, d2
<1>8. Field(r, 1) = d1 + bias
  <2>1. (n * 256 + d1) \div 1 = n * 256 + d1
    BY <1>6
  <2>2. (n * 256 + d1) % 256 = d1
    BY <1>6
  <2> QED BY SMT, <2>1, <2>2, <1>2, <1>3, <1>4, <1>7
<1>9. Field(r, 1) = Data(1) + bias
  BY <1>8 DEF n, d1, d2, data, Word
<1> QED BY <1>0, <1>2, <1>3, <1>9 DEF Reads

\* two bytes,
LEMMA ReadsWord ==
  ASSUME TypeInv, NEW prefix, NEW op, NEW bias \in Nat,
         NEW r, r = Row(8, prefix, op, << 16 >>, bias), Whole(r)
  PROVE  Reads(r, op, <<Word(1) + bias>>, 3)
<1>0. r.fields = << 16 >> /\ r.bits = 8 /\ r.bias = bias /\ r.op = op
  BY DEF Row
<1>1. /\ Size(r) = (r.bits + 16) \div 8
      /\ Field(r, 1) = ((Number(Size(r)) \div 1) % Power(16)) + r.bias
      /\ Documented(r) = Operation(r.op, <<Field(r, 1)>>)
  <2>1. 16 \in Nat /\ r.bits \in Nat /\ r.bias \in Nat
    BY <1>0
  <2> QED BY <1>0, <2>1, OneField, Zenon
<1>2. /\ Field(r, 1) = ((Number(Size(r)) \div 1) % Power(16)) + bias
      /\ Documented(r) = Operation(op, <<Field(r, 1)>>)
  BY <1>0, <1>1, Zenon
<1>3. Size(r) = 3
  BY <1>0, <1>1
<1>4. Power(16) = 65536
  BY SMT DEF Power
<1> DEFINE n == Data(0) % 16
           d1 == Data(1)
           d2 == Data(2)
<1>5. pc + 3 <= Len(code)
  BY <1>3 DEF Whole
<1>6. n \in 0 .. 15 /\ d1 \in 0 .. 255 /\ d2 \in 0 .. 255 /\ pc \in Nat /\ Len(code) \in Nat
  BY Nibble
<1>7. Number(3) = n * 65536 + d1 * 256 + d2
  BY <1>5, Numbers
<1> HIDE DEF n, d1, d2
<1>8. Field(r, 1) = d1 * 256 + d2 + bias
  <2>1. (n * 65536 + d1 * 256 + d2) \div 1 = n * 65536 + d1 * 256 + d2
    BY <1>6
  <2>2. (n * 65536 + d1 * 256 + d2) % 65536 = d1 * 256 + d2
    BY <1>6
  <2> QED BY SMT, <2>1, <2>2, <1>2, <1>3, <1>4, <1>7
<1>9. Field(r, 1) = Word(1) + bias
  BY <1>8 DEF n, d1, d2, data, Word
<1> QED BY <1>0, <1>2, <1>3, <1>9 DEF Reads

\* an offset of six bits across both bytes and a number of frames of six bits,
LEMMA ReadsFree ==
  ASSUME TypeInv, NEW prefix, NEW op,
         NEW r, r = Row(4, prefix, op, <<6, 6>>, 0), Whole(r)
  PROVE  Reads(r, op, <<FreeOffset(data(Data(0)), Data(1)), Data(1) % 64>>, 2)
<1>0. r.fields = <<6, 6>> /\ r.bits = 4 /\ r.bias = 0 /\ r.op = op
  BY DEF Row
<1>1. /\ Size(r) = (r.bits + 6 + 6) \div 8
      /\ Field(r, 1) = ((Number(Size(r)) \div Power(6)) % Power(6)) + 0
      /\ Field(r, 2) = ((Number(Size(r)) \div 1) % Power(6)) + r.bias
      /\ Documented(r) = Operation(r.op, <<Field(r, 1), Field(r, 2)>>)
  <2>1. 6 \in Nat /\ 6 \in Nat /\ r.bits \in Nat /\ r.bias \in Nat
    BY <1>0
  <2> QED BY <1>0, <2>1, TwoFields, Zenon
<1>2. Field(r, 2) = ((Number(Size(r)) \div 1) % Power(6)) + 0
  BY <1>0, <1>1, Zenon
<1>3. Size(r) = 2
  BY <1>0, <1>1
<1>4. Power(6) = 64 /\ Power(6) = 64
  BY SMT DEF Power
<1> DEFINE n == Data(0) % 16
           d1 == Data(1)
           d2 == Data(2)
           d3 == Data(3)
<1>5. pc + 2 <= Len(code)
  BY <1>3 DEF Whole
<1>6. /\ n \in 0 .. 15 /\ d1 \in 0 .. 255 /\ d2 \in 0 .. 255 /\ d3 \in 0 .. 255
      /\ pc \in Nat /\ Len(code) \in Nat
  BY Nibble
<1>7. Number(2) = n * 256 + d1
  BY <1>5, Numbers
<1> HIDE DEF n, d1, d2, d3
<1>8. Field(r, 1) = n * 4 + d1 \div 64 /\ Field(r, 2) = d1 % 64
  <2>1. ((n * 256 + d1) \div 64) % 64 = n * 4 + d1 \div 64
    BY <1>6
  <2>2. ((n * 256 + d1) \div 1) % 64 = d1 % 64
    BY <1>6
  <2>3. n * 4 + d1 \div 64 \in Int /\ d1 % 64 \in Int
    BY <1>6
  <2> QED BY SMT, <2>1, <2>2, <2>3, <1>1, <1>2, <1>3, <1>4, <1>7
<1>9. Field(r, 1) = FreeOffset(data(Data(0)), Data(1)) /\ Field(r, 2) = Data(1) % 64
  BY <1>8 DEF n, d1, data, FreeOffset
<1> QED BY <1>0, <1>1, <1>3, <1>9 DEF Reads

\* and a byte with two bytes behind it.
LEMMA ReadsClosure ==
  ASSUME TypeInv, NEW prefix, NEW op,
         NEW r, r = Row(8, prefix, op, <<8, 16>>, 0), Whole(r)
  PROVE  Reads(r, op, <<Data(1), Word(2)>>, 4)
<1>0. r.fields = <<8, 16>> /\ r.bits = 8 /\ r.bias = 0 /\ r.op = op
  BY DEF Row
<1>1. /\ Size(r) = (r.bits + 8 + 16) \div 8
      /\ Field(r, 1) = ((Number(Size(r)) \div Power(16)) % Power(8)) + 0
      /\ Field(r, 2) = ((Number(Size(r)) \div 1) % Power(16)) + r.bias
      /\ Documented(r) = Operation(r.op, <<Field(r, 1), Field(r, 2)>>)
  <2> DEFINE f == 8
             g == 16
  <2>1. f \in Nat /\ g \in Nat /\ r.bits \in Nat /\ r.bias \in Nat /\ r.fields = <<f, g>>
    BY <1>0
  <2> HIDE DEF f, g
  <2>2. /\ Size(r) = (r.bits + f + g) \div 8
        /\ Field(r, 1) = ((Number(Size(r)) \div Power(g)) % Power(f)) + 0
        /\ Field(r, 2) = ((Number(Size(r)) \div 1) % Power(g)) + r.bias
        /\ Documented(r) = Operation(r.op, <<Field(r, 1), Field(r, 2)>>)
    BY <2>1, TwoFields, Zenon
  <2> QED BY <2>2, Zenon DEF f, g
<1>2. Field(r, 2) = ((Number(Size(r)) \div 1) % Power(16)) + 0
  BY <1>0, <1>1, Zenon
<1>3. Size(r) = 4
  BY <1>0, <1>1
<1>4. Power(8) = 256 /\ Power(16) = 65536
  BY SMT DEF Power
<1> DEFINE n == Data(0) % 16
           d1 == Data(1)
           d2 == Data(2)
           d3 == Data(3)
<1>5. pc + 4 <= Len(code)
  BY <1>3 DEF Whole
<1>6. /\ n \in 0 .. 15 /\ d1 \in 0 .. 255 /\ d2 \in 0 .. 255 /\ d3 \in 0 .. 255
      /\ pc \in Nat /\ Len(code) \in Nat
  BY Nibble
<1>7. Number(4) = n * 16777216 + d1 * 65536 + d2 * 256 + d3
  BY <1>5, Numbers
<1> HIDE DEF n, d1, d2, d3
<1>8. Field(r, 1) = d1 /\ Field(r, 2) = d2 * 256 + d3
  <2>1. ((n * 16777216 + d1 * 65536 + d2 * 256 + d3) \div 65536) % 256 = d1
    BY <1>6
  <2>2. ((n * 16777216 + d1 * 65536 + d2 * 256 + d3) \div 1) % 65536 = d2 * 256 + d3
    BY <1>6
  <2>3. d1 \in Int /\ d2 * 256 + d3 \in Int
    BY <1>6
  <2> QED BY SMT, <2>1, <2>2, <2>3, <1>1, <1>2, <1>3, <1>4, <1>7
<1>9. Field(r, 1) = Data(1) /\ Field(r, 2) = Word(2)
  BY <1>8 DEF d1, d2, d3, Word
<1> QED BY <1>0, <1>1, <1>3, <1>9 DEF Reads

------------------------------------------------------------------------------
(* The decoder, one encoding after the other: what it comes to for each     *)
(* value of its selector.                                                   *)

\* pre_fetch chooses the encoding by the high half of the first byte alone.
LEMMA Encodings ==
  ASSUME TypeInv
  PROVE  /\ type(Data(0)) \in 0 .. 15 /\ data(Data(0)) \in 0 .. 15
         /\ pre_fetch(Data(0)) = "SINGLE" <=> type(Data(0)) \in 0 .. 7
         /\ pre_fetch(Data(0)) = "DOUBLE" <=> type(Data(0)) = 10
         /\ pre_fetch(Data(0)) = "TRIPLE" <=> type(Data(0)) = 11
         /\ pre_fetch(Data(0)) = "QUADRUPLE" <=> type(Data(0)) = 8
         /\ pre_fetch(Data(0)) = "SPECIAL" <=> type(Data(0)) \in {9} \cup 12 .. 15
<1> DEFINE d == Data(0)
<1>1. d \in 0 .. 255
  BY Nibble
<1> HIDE DEF d
<1>2. type(d) \in 0 .. 15 /\ data(d) \in 0 .. 15
  BY <1>1 DEF type, data
<1>3. /\ pre_fetch(d) = "SINGLE" <=> type(d) \in 0 .. 7
      /\ pre_fetch(d) = "DOUBLE" <=> type(d) = 10
      /\ pre_fetch(d) = "TRIPLE" <=> type(d) = 11
      /\ pre_fetch(d) = "QUADRUPLE" <=> type(d) = 8
      /\ pre_fetch(d) = "SPECIAL" <=> type(d) \in {9} \cup 12 .. 15
  BY <1>2 DEF pre_fetch
<1> QED BY <1>2, <1>3 DEF d

\* One byte, with up to one more behind it.
LEMMA SingleCases ==
  LET t == type(Data(0))
      n == data(Data(0))
      free == <<FreeOffset(n, Data(1)), Data(1) % 64>>
      e == interp_single_encode
  IN  /\ t = 0 => e = Effect("ref_local", <<n>>, 1)
      /\ t = 1 => e = Effect("ref_local", <<n + 16>>, 1)
      /\ t = 2 => e = Effect("ref_free", free, 2)
      /\ t = 3 => e = Effect("call_free", free, 2)
      /\ t = 4 => e = Effect("call_local", <<n>>, 1)
      /\ t = 5 => e = Effect("call_local", <<n + 16>>, 1)
      /\ t = 6 => e = Effect("assign_free", free, 2)
      /\ t = 7 => e = Effect("assign_local", <<(n * 256 + Data(1)) % 256>>, 2)
BY DEF interp_single_encode

\* Two bytes.
LEMMA DoubleCases ==
  LET n == data(Data(0))
      e == interp_double_encode
  IN  /\ n = 0 => e = Effect("prelude", <<PROC_ARITY(Data(1)), PROC_MODE(Data(1))>>, 2)
      /\ n = 1 => e = Effect("ref_local", <<(Data(1) + 32) % 256>>, 2)
      /\ n = 2 => e = Effect("call_local", <<(Data(1) + 32) % 256>>, 2)
      /\ n = 3 => e = Effect("assign_global", <<Data(1)>>, 2)
      /\ n = 4 => e = Effect("ref_global", <<Data(1)>>, 2)
      /\ n = 5 => e = Effect("call_global", <<Data(1)>>, 2)
      /\ n \notin 0 .. 5 => e = Stops(2)
BY DEF interp_double_encode

\* Three bytes, or four for the extended globals.
LEMMA TripleCases ==
  LET n == data(Data(0))
      e == interp_triple_encode
  IN  /\ n = 0 => e = Effect("call_proc", <<Word(1)>>, 3)
      /\ n = 1 => e = Effect("jump_if_false", <<Word(1)>>, 3)
      /\ n = 2 => e = Effect("jump", <<Word(1)>>, 3)
      /\ n = 4 => e = Effect("assign_global", <<Data(3) + 256>>, 4)
      /\ n = 5 => e = Effect("ref_global", <<Data(3) + 256>>, 4)
      /\ n = 6 => e = Effect("call_global", <<Data(3) + 256>>, 4)
      /\ n \notin {0, 1, 2, 4, 5, 6} => e = Stops(3)
BY DEF interp_triple_encode

\* Four bytes.
LEMMA QuadrupleCases ==
  LET n == data(Data(0))
      e == interp_quadruple_encode
  IN  /\ n = 1 => e = Effect("closure_on_heap", <<Data(1) \div 16, Data(1) % 16, Word(2)>>, 4)
      /\ n = 2 => e = Effect("closure_on_stack", <<0, Data(1), Word(2)>>, 4)
      /\ n \notin {1, 2} => e = Stops(4)
BY DEF interp_quadruple_encode

\* Primitives, objects and control.
LEMMA SpecialCases ==
  ASSUME TypeInv
  PROVE  LET t == type(Data(0))
             n == data(Data(0))
             wide == n * 256 + Data(1) + 16
             e == interp_special
  IN  /\ t = 12 => e = IF n \in Primitives THEN Effect("primitive", <<n>>, 1) ELSE Stops(1)
      /\ t = 13 => e = IF wide \in Primitives THEN Effect("primitive", <<wide>>, 2) ELSE Stops(2)
      /\ t = 14 /\ n = 0 => e = Effect("false", <<>>, 1)
      /\ t = 14 /\ n = 1 => e = Effect("true", <<>>, 1)
      /\ t = 14 /\ n = 2 => e = generate_object(Data(1) % 64)
      /\ t = 14 /\ n = 3 => e = Effect("char", <<Data(1)>>, 2)
      /\ t = 14 /\ n = 6 => e = Effect("symbol", <<Word(1)>>, 3)
      /\ t = 14 /\ n \notin {0, 1, 2, 3, 6} => e = Effect("nothing", <<>>, 1)
      /\ t = 15 /\ n = 15 => e = Effect("halt", <<>>, 1)
      /\ t = 15 /\ n # 15 => e = Effect("nothing", <<>>, 1)
      /\ t \notin 12 .. 15 => e = Stops(1)
<1> DEFINE t == type(Data(0))
           n == data(Data(0))
           wide == n * 256 + Data(1) + 16
           e == interp_special
<1>1. t \in 0 .. 15 /\ n \in 0 .. 15
  BY Encodings
<1>2. t = 12 => e = IF n \in Primitives THEN Effect("primitive", <<n>>, 1) ELSE Stops(1)
  BY DEF interp_special
<1>3. t = 13 => e = IF wide \in Primitives THEN Effect("primitive", <<wide>>, 2) ELSE Stops(2)
  BY DEF interp_special
<1>4. /\ t = 14 /\ n = 0 => e = Effect("false", <<>>, 1)
      /\ t = 14 /\ n = 1 => e = Effect("true", <<>>, 1)
      /\ t = 14 /\ n = 2 => e = generate_object(Data(1) % 64)
      /\ t = 14 /\ n = 3 => e = Effect("char", <<Data(1)>>, 2)
      /\ t = 14 /\ n = 6 => e = Effect("symbol", <<Word(1)>>, 3)
  <2>1. t = 14 /\ n = 0 => e = Effect("false", <<>>, 1)
    BY DEF interp_special
  <2>2. t = 14 /\ n = 1 => e = Effect("true", <<>>, 1)
    BY DEF interp_special
  <2>3. t = 14 /\ n = 2 => e = generate_object(Data(1) % 64)
    BY DEF interp_special
  <2>4. t = 14 /\ n = 3 => e = Effect("char", <<Data(1)>>, 2)
    BY DEF interp_special
  <2>5. t = 14 /\ n = 6 => e = Effect("symbol", <<Word(1)>>, 3)
    BY DEF interp_special
  <2> QED BY <2>1, <2>2, <2>3, <2>4, <2>5, Zenon
<1>5. t = 14 /\ n \notin {0, 1, 2, 3, 6} => e = Effect("nothing", <<>>, 1)
  BY DEF interp_special
<1>6. t = 15 /\ n = 15 => e = Effect("halt", <<>>, 1)
  BY SMTT(30) DEF interp_special
<1>7. t = 15 /\ n # 15 => e = Effect("nothing", <<>>, 1)
  BY DEF interp_special
<1>8. t \notin 12 .. 15 => e = Stops(1)
  BY <1>1 DEF interp_special
<1> QED BY <1>2, <1>3, <1>4, <1>5, <1>6, <1>7, <1>8, Zenon

------------------------------------------------------------------------------
(* The invariant.                                                           *)

\* What an interp function may come to.
Sound(e) == /\ e.size \in Nat \ {0} /\ e.skip \in Nat
            /\ e.did.op \in {"jump", "call_proc", "jump_if_false"} => e.did.args[1] \in Nat

\* An operation is sound if the jumps among them have a natural target,
LEMMA EffectSound ==
  ASSUME NEW op, NEW args, NEW size \in Nat \ {0},
         op \in {"jump", "call_proc", "jump_if_false"} => args[1] \in Nat
  PROVE  Sound(Effect(op, args, size))
BY DEF Sound, Effect, Operation

\* and so is a refusal.
LEMMA StopSound ==
  ASSUME NEW size \in Nat \ {0}
  PROVE  Sound(Stops(size))
BY DEF Sound, Stops, Operation, Panics

\* The two words that operands are made of.
LEMMA WordsNat ==
  ASSUME TypeInv
  PROVE  Word(1) \in Nat /\ Word(2) \in Nat
BY WordNat

\* Each of the interp functions comes to something sound.
LEMMA SingleSound ==
  ASSUME TypeInv, pre_fetch(Data(0)) = "SINGLE"
  PROVE  Sound(interp_single_encode)
<1>1. type(Data(0)) \in 0 .. 7
  BY Encodings
<1>2. \A op, args : op \notin {"jump", "call_proc", "jump_if_false"} =>
        \A size \in {1, 2} : Sound(Effect(op, args, size))
  BY EffectSound
<1> QED BY <1>1, <1>2, SingleCases

\* interp_double_encode does.
LEMMA DoubleSound ==
  ASSUME TypeInv
  PROVE  Sound(interp_double_encode)
<1>1. data(Data(0)) \in 0 .. 15
  BY Encodings
<1>2. \A op, args : op \notin {"jump", "call_proc", "jump_if_false"} => Sound(Effect(op, args, 2))
  BY EffectSound
<1>3. Sound(Stops(2))
  BY StopSound
<1> QED BY <1>1, <1>2, <1>3, DoubleCases

\* interp_triple_encode does, jumps included.
LEMMA TripleSound ==
  ASSUME TypeInv
  PROVE  Sound(interp_triple_encode)
<1>1. data(Data(0)) \in 0 .. 15
  BY Encodings
<1>2. \A op, args : op \notin {"jump", "call_proc", "jump_if_false"} => Sound(Effect(op, args, 4))
  BY EffectSound
<1>3. \A op : Sound(Effect(op, <<Word(1)>>, 3))
  BY WordsNat, EffectSound
<1>4. Sound(Stops(3))
  BY StopSound
<1> QED BY <1>1, <1>2, <1>3, <1>4, TripleCases

\* interp_quadruple_encode does.
LEMMA QuadrupleSound ==
  ASSUME TypeInv
  PROVE  Sound(interp_quadruple_encode)
<1>1. data(Data(0)) \in 0 .. 15
  BY Encodings
<1>2. \A op, args : op \notin {"jump", "call_proc", "jump_if_false"} => Sound(Effect(op, args, 4))
  BY EffectSound
<1>3. Sound(Stops(4))
  BY StopSound
<1> QED BY <1>1, <1>2, <1>3, QuadrupleCases

\* generate_object does, whatever it fetches and skips.
LEMMA ObjectSound ==
  ASSUME TypeInv, NEW t
  PROVE  Sound(generate_object(t))
<1>1. CASE t \notin Generated
  <2>1. generate_object(t) = Effect("stop", <<>>, 2)
    BY <1>1 DEF generate_object
  <2> QED BY <2>1, EffectSound
<1>2. CASE t \in Generated
  <2>1. Fetches(t) \in Nat
    BY <1>2 DEF Fetches, Generated, OneWord, Named, Counted, Bytes, Pair, ComplexInexact
  <2>2. Skips(t) \in Nat
    <3>1. TextLength(2) \in Nat
      BY TextLengthNat
    <3> QED BY <3>1, WordsNat DEF Skips, TextSkip
  <2>3. generate_object(t) =
          [did |-> Operation("object", <<t>>), size |-> 2 + Fetches(t), skip |-> Skips(t)]
    BY <1>2 DEF generate_object
  <2> QED BY <2>1, <2>2, <2>3 DEF Sound, Operation
<1> QED BY <1>1, <1>2

\* interp_special does.
LEMMA SpecialSound ==
  ASSUME TypeInv
  PROVE  Sound(interp_special)
<1>1. type(Data(0)) \in 0 .. 15 /\ data(Data(0)) \in 0 .. 15
  BY Encodings
<1>2. \A op, args : op \notin {"jump", "call_proc", "jump_if_false"} =>
        \A size \in 1 .. 3 : Sound(Effect(op, args, size))
  BY EffectSound
<1>3. Sound(Stops(1)) /\ Sound(Stops(2))
  BY StopSound
<1>4. Sound(generate_object(Data(1) % 64))
  BY ObjectSound
<1> QED BY <1>1, <1>2, <1>3, <1>4, SpecialCases

(* One instruction keeps the invariant.                                     *)
LEMMA ExecuteTyped ==
  ASSUME TypeInv, NEW encoding, NEW e, Sound(e), Execute(encoding, e)
  PROVE  TypeInv'
<1>1. code' = code /\ bc' = Data(e.size - 1) /\ pc' \in Targets(e)
  BY DEF Execute
<1>2. e.size \in Nat \ {0} /\ e.size - 1 \in Nat
  BY DEF Sound
<1>3. bc' \in Byte
  BY <1>1, <1>2, DataByte
<1>4. pc \in Nat /\ Len(code) \in Nat
  BY DEF TypeInv
<1>5. Behind(e) \in Nat
  <2>1. e.skip \in Nat
    BY DEF Sound
  <2> DEFINE at == IF pc >= Len(code) THEN pc ELSE IF RunsOut(e) THEN Len(code) ELSE pc + e.size
  <2>2. at \in Nat
    BY <1>2, <1>4
  <2>3. Behind(e) = at + e.skip
    BY DEF Behind
  <2> HIDE DEF at
  <2> QED BY <2>1, <2>2, <2>3
<1>6. Anywhere \subseteq Nat
  BY <1>4 DEF Anywhere
<1>7. Targets(e) \subseteq Nat
  BY <1>5, <1>6 DEF Targets, Sound
<1> QED BY <1>1, <1>3, <1>7 DEF TypeInv

(* Whatever the segment and the jumps in it, pc is a natural number and     *)
(* the byte that is returned again behind the end is a byte.                *)
THEOREM SegmentsTyped == InstrSpec => []TypeInv
<1>1. InstrInit => TypeInv
  BY CodesAssumption DEF InstrInit, TypeInv, Byte
<1>2. TypeInv /\ [dispatch]_instrVars => TypeInv'
  <2> SUFFICES ASSUME TypeInv, [dispatch]_instrVars PROVE TypeInv'
    OBVIOUS
  <2>1. CASE InterpSingle
    <3>1. pre_fetch(Data(0)) = "SINGLE"
      BY <2>1 DEF InterpSingle, Execute
    <3> QED BY <2>1, <3>1, SingleSound, ExecuteTyped DEF InterpSingle
  <2>2. CASE InterpDouble
    BY <2>2, DoubleSound, ExecuteTyped DEF InterpDouble
  <2>3. CASE InterpTriple
    BY <2>3, TripleSound, ExecuteTyped DEF InterpTriple
  <2>4. CASE InterpQuadruple
    BY <2>4, QuadrupleSound, ExecuteTyped DEF InterpQuadruple
  <2>5. CASE InterpSpecial
    BY <2>5, SpecialSound, ExecuteTyped DEF InterpSpecial
  <2>6. CASE UNCHANGED instrVars
    BY <2>6 DEF instrVars, segmentVars, TypeInv
  <2> QED BY <2>1, <2>2, <2>3, <2>4, <2>5, <2>6 DEF dispatch
<1> QED BY <1>1, <1>2, PTL DEF InstrSpec

------------------------------------------------------------------------------
(* The decoder against the table.                                           *)

\* The primitives that have a case, and what is known of them.
LEMMA PrimitiveCases ==
  ASSUME NEW n \in 0 .. 118, n \notin Uncalled
  PROVE  n \in Primitives /\ (n \in Misregistered \/ Pops(n) = Registered(n))
BY DEF Primitives, Nullary, Unary, Predicates, Binary, Ternary, Quaternary, Quinary,
       Pops, Registered, Misregistered, Uncalled

\* e does what the table says of row r, whose operands are args.
Agrees(r, e, op, args, size) ==
  /\ Reads(r, op, args, size)
  /\ e.did.op = op /\ (op \in Resplit \/ e.did = Operation(op, args))
  /\ op # "object" => e.size = size /\ e.skip = 0
  /\ op = "object" => args # <<>> /\ args[1] \in Generated /\ e = generate_object(args[1])
  /\ op \in {"jump", "call_proc", "jump_if_false", "primitive"} => args # <<>>
  /\ op = "primitive" => args[1] \in Misregistered \/ Pops(args[1]) = Registered(args[1])

\* How many bytes are fetched and skipped behind a type, by what its literal is.
LEMMA Literals ==
  ASSUME NEW t \in Generated
  PROVE  /\ t \in Named => Fetches(t) = 0 /\ Skips(t) = TextLength(2) + 1
         /\ t \in Bytes => t \notin Named /\ Fetches(t) = 2 /\ Skips(t) = Word(2)
         /\ t \notin Named \cup Bytes =>
              Fetches(t) \in Nat /\ LiteralBits(t) \div 8 = Fetches(t) /\ Skips(t) = 0
<1> USE DEF Named, Bytes, Counted, OneWord, Pair, ComplexInexact
<1>1. t \in {0, 9, 10, 13, 14, 15, 16} \cup {2, 8} \cup {5, 7} \cup {21, 22} \cup {3, 17}
  BY DEF Generated
<1>2. CASE t \in {2, 8}
  BY <1>2 DEF Fetches, Skips, TextSkip
<1>3. CASE t \in {21, 22}
  BY <1>3 DEF Fetches, Skips
<1>4. CASE t \in {0, 9, 10, 13, 14, 15, 16}
  <2>1. Fetches(t) = 4 /\ Skips(t) = 0
    BY <1>4 DEF Fetches, Skips
  <2>2. LiteralBits(t) = 32
    BY <1>4 DEF LiteralBits
  <2> QED BY <1>4, <2>1, <2>2
<1>5. CASE t \in {5, 7}
  <2>1. Fetches(t) = 2 /\ Skips(t) = 0
    BY <1>5 DEF Fetches, Skips
  <2>2. LiteralBits(t) = 16
    BY <1>5 DEF LiteralBits
  <2> QED BY <1>5, <2>1, <2>2
<1>6. CASE t = 3
  <2>1. Fetches(t) = 0 /\ Skips(t) = 0
    BY <1>6 DEF Fetches, Skips
  <2>2. LiteralBits(t) = 0
    BY <1>6 DEF LiteralBits
  <2> QED BY <1>6, <2>1, <2>2
<1>7. CASE t = 17
  <2>1. Fetches(t) = 8 /\ Skips(t) = 0
    BY <1>7 DEF Fetches, Skips
  <2>2. LiteralBits(t) = 64
    BY <1>7 DEF LiteralBits
  <2> QED BY <1>7, <2>1, <2>2
<1> QED BY <1>1, <1>2, <1>3, <1>4, <1>5, <1>6, <1>7

\* Where a literal ends the next instruction begins.
LEMMA LiteralBehind ==
  ASSUME TypeInv, NEW t \in Generated, NEW p \in pc + 2 .. Len(code), LiteralEnds(t, p)
  PROVE  Behind(generate_object(t)) = p
<1> DEFINE e == generate_object(t)
<1>1. e.size = 2 + Fetches(t) /\ e.skip = Skips(t)
  BY DEF generate_object
<1> HIDE DEF e
<1>2. pc \in Nat /\ Len(code) \in Nat /\ p \in Nat /\ \A k \in 1 .. Len(code) : code[k] \in Byte
  BY DEF TypeInv
<1>3. CASE t \in Named
  <2>1. Fetches(t) = 0 /\ Skips(t) = TextLength(2) + 1
    BY <1>3, Literals
  <2> DEFINE n == p - pc - 3
  <2>2. /\ n \in 0 .. MAX_STR_LEN /\ code[p] = 0
        /\ \A q \in pc + 3 .. p - 1 : code[q] # 0
    <3>1. p \in pc + 3 .. pc + 3 + MAX_STR_LEN
      BY <1>3 DEF LiteralEnds, Named, Bytes
    <3>2. code[p] = 0 /\ \A q \in pc + 3 .. p - 1 : code[q] # 0
      BY <1>3 DEF LiteralEnds, Named, Bytes
    <3>3. n \in 0 .. MAX_STR_LEN
      BY <1>2, <3>1, LengthAssumption
    <3> QED BY <3>2, <3>3
  <2>3. Data(2 + n) = 0
    <3>1. 2 + n \in Nat /\ pc + (2 + n) < Len(code) /\ pc + (2 + n) + 1 = p
      BY <1>2, <2>2, LengthAssumption
    <3> HIDE DEF n
    <3> QED BY <2>2, <3>1, DataByte
  <2>4. ASSUME NEW k \in 0 .. MAX_STR_LEN, k < n
        PROVE  k # MAX_STR_LEN /\ ~(pc + 2 + k >= Len(code)) /\ Data(2 + k) # 0
    <3>1. 2 + k \in Nat /\ pc + (2 + k) < Len(code) /\ pc + (2 + k) + 1 \in pc + 3 .. p - 1
      BY <1>2, <2>2, <2>4, LengthAssumption
    <3>2. Data(2 + k) = code[pc + (2 + k) + 1]
      BY <3>1, DataByte
    <3>3. k # MAX_STR_LEN /\ ~(pc + 2 + k >= Len(code))
      BY <1>2, <2>2, <2>4, <3>1, LengthAssumption
    <3> QED BY <2>2, <3>1, <3>2, <3>3
  <2>5. TextLength(2) = n
    <3> DEFINE m == TextLength(2)
    <3>1. m \in 0 .. MAX_STR_LEN /\ (m = MAX_STR_LEN \/ pc + 2 + m >= Len(code) \/ Data(2 + m) = 0)
      BY TextLengthIs
    <3>2. m <= n
      BY TextLengthIs, <2>2, <2>3
    <3> HIDE DEF m, n
    <3>3. ~(m < n)
      BY <2>4, <3>1
    <3>4. m \in Int /\ n \in Int
      BY <2>2, <3>1, LengthAssumption
    <3>5. m = n
      BY <3>2, <3>3, <3>4
    <3> QED BY <3>5 DEF m
  <2> QED BY <1>1, <1>2, <2>1, <2>2, <2>5, LengthAssumption DEF Behind, RunsOut, e
<1>4. CASE t \in Bytes
  <2>1. Fetches(t) = 2 /\ Skips(t) = Word(2)
    BY <1>4, Literals
  <2>2. p >= pc + 4 /\ p = pc + 4 + code[pc + 3] * 256 + code[pc + 4]
    BY <1>4, Literals DEF LiteralEnds
  <2>3. Data(2) = code[pc + 3] /\ Data(3) = code[pc + 4]
    <3>1. pc + 2 < Len(code) /\ pc + 3 < Len(code) /\ pc + 2 + 1 = pc + 3 /\ pc + 3 + 1 = pc + 4
      BY <1>2, <2>2
    <3> QED BY <3>1, DataByte
  <2>4. Word(2) = code[pc + 3] * 256 + code[pc + 4]
    BY <2>3 DEF Word
  <2>5. Word(2) \in Nat
    BY WordNat
  <2> DEFINE w == Word(2)
  <2>6. p = pc + 4 + w
    <3> DEFINE a == code[pc + 3]
               b == code[pc + 4]
    <3>1. a \in 0 .. 255 /\ b \in 0 .. 255
      <4>1. pc + 3 \in 1 .. Len(code) /\ pc + 4 \in 1 .. Len(code)
        BY <1>2, <2>2
      <4> QED BY <4>1, <1>2 DEF Byte
    <3>2. p = pc + 4 + a * 256 + b /\ w = a * 256 + b
      BY <2>2, <2>4
    <3> HIDE DEF a, b, w
    <3> QED BY <1>2, <3>1, <3>2
  <2>7. e.size = 4 /\ e.skip = w /\ w \in Nat
    BY <1>1, <2>1, <2>5
  <2> HIDE DEF w
  <2> QED BY <1>2, <2>2, <2>6, <2>7 DEF Behind, RunsOut, e
<1>5. CASE t \notin Named \cup Bytes
  <2>1. Fetches(t) \in Nat /\ LiteralBits(t) \div 8 = Fetches(t) /\ Skips(t) = 0
    BY <1>5, Literals
  <2>2. p = pc + 2 + Fetches(t)
    BY <1>5, <2>1 DEF LiteralEnds
  <2> QED BY <1>1, <1>2, <2>1, <2>2 DEF Behind, RunsOut, e
<1> QED BY <1>3, <1>4, <1>5

\* What agrees with its row is executed and left as the row says.
LEMMA AgreesExecuted ==
  ASSUME TypeInv, NEW encoding, NEW e, Execute(encoding, e), pc < Len(code),
         NEW r, Whole(r), NEW op, NEW args, NEW size \in Nat, Agrees(r, e, op, args, size)
  PROVE  Executed(r)
<1>1. did' = e.did /\ pc' \in Targets(e)
      /\ popped' = IF e.did.op = "primitive" THEN Pops(e.did.args[1]) ELSE 0
  BY DEF Execute
<1>2. /\ r.op = op /\ Size(r) = size /\ Documented(r) = Operation(op, args)
      /\ args # <<>> => Field(r, 1) = args[1]
      /\ e.did.op = op
      /\ op \notin Resplit => e.did = Operation(op, args) /\ e.did.args = args
  BY DEF Agrees, Reads, Operation
<1>3. pc \in Nat /\ Len(code) \in Nat /\ pc + size <= Len(code)
  BY <1>2 DEF TypeInv, Whole
<1>4. op # "object" => Behind(e) = pc + Size(r)
  BY <1>2, <1>3 DEF Behind, RunsOut, Agrees
<1>5. did'.op = r.op /\ (r.op \in Resplit \/ did' = Documented(r))
  BY <1>1, <1>2
<1> SUFFICES GoesOn(r)
  BY <1>5 DEF Executed
<1>6. CASE op \in {"jump", "call_proc"}
  BY <1>1, <1>2, <1>6 DEF Targets, GoesOn, Agrees, Resplit
<1>7. CASE op = "jump_if_false"
  BY <1>1, <1>2, <1>4, <1>7 DEF Targets, GoesOn, Agrees, Resplit
<1>8. CASE op \in CallsObject
  BY <1>1, <1>2, <1>8 DEF GoesOn, CallsObject
<1>9. CASE op = "primitive"
  <2>1. args[1] \notin Leaving => pc' = pc + Size(r)
    BY <1>1, <1>2, <1>4, <1>9 DEF Targets, CallsObject, Resplit
  <2>2. popped' = Pops(args[1]) /\ Field(r, 1) = args[1]
    BY <1>1, <1>2, <1>9 DEF Agrees, Resplit
  <2> QED BY <1>1, <1>2, <1>9, <2>1, <2>2 DEF GoesOn, Agrees, CallsObject
<1>10. CASE op = "object"
  <2>1. Field(r, 1) = args[1] /\ args[1] \in Generated /\ e = generate_object(args[1])
    BY <1>2, <1>10 DEF Agrees
  <2>2. pc' = Behind(e)
    BY <1>1, <1>2, <1>10 DEF Targets, CallsObject
  <2>3. \A p \in pc + 2 .. Len(code) : LiteralEnds(Field(r, 1), p) => pc' = p
    BY <2>1, <2>2, LiteralBehind
  <2> QED BY <1>2, <1>10, <2>3 DEF GoesOn, CallsObject
<1>11. CASE op \notin {"jump", "call_proc", "jump_if_false", "object", "primitive"} \cup CallsObject
  <2>1. pc' = pc + Size(r)
    BY <1>1, <1>2, <1>4, <1>11 DEF Targets
  <2> QED BY <1>1, <1>2, <1>11, <2>1 DEF GoesOn
<1> QED BY <1>6, <1>7, <1>8, <1>9, <1>10, <1>11

(* The bits that select a row.                                              *)
LEMMA Selected ==
  ASSUME TypeInv, pc < Len(code), NEW r \in RowsFor(code[pc + 1]), r.prefix \in Nat
  PROVE  /\ r.bits = 4 => type(Data(0)) = r.prefix
         /\ r.bits = 8 => Data(0) = r.prefix
<1>1. Data(0) = code[pc + 1]
  BY DEF Data, TypeInv
<1> DEFINE d == Data(0)
<1>2. d \in 0 .. 255
  BY Nibble
<1>3. d \div 2^(8 - r.bits) = r.prefix
  BY SMT, <1>1 DEF RowsFor
<1> HIDE DEF d
<1>4. ASSUME r.bits = 4 PROVE d \div 16 = r.prefix
  <2>1. Power(8 - r.bits) = Power(4)
    BY <1>4
  <2>2. Power(4) = 16
    BY SMT DEF Power
  <2> QED BY SMT, <1>3, <2>1, <2>2 DEF Power
<1>5. ASSUME r.bits = 8 PROVE d = r.prefix
  <2>1. 2^(8 - r.bits) = 1
    BY SMT, <1>5, PowerZero
  <2>2. d \div 1 = d
    BY <1>2
  <2> QED BY SMT, <1>3, <2>1, <2>2
<1> QED BY <1>4, <1>5 DEF d, type

\* Operands with a bias, or cut to a byte, when they fit.
LEMMA ByteSums ==
  ASSUME NEW d \in 0 .. 255, NEW n \in 0 .. 15
  PROVE  /\ <<d>> = <<d + 0>> /\ <<n>> = <<n + 0>>
         /\ ~(d + 32 > 255) => <<(d + 32) % 256>> = <<d + 32>>
         /\ \A w \in Nat : <<w>> = <<w + 0>>
         /\ ~(n * 256 + d + 0 > 255) => <<(n * 256 + d) % 256>> = <<n * 256 + d + 0>>
OBVIOUS

\* Apart from primitives and objects, to agree is to take the row's bytes for its
\* operation,
LEMMA AgreesEffect ==
  ASSUME NEW r, NEW op, op \notin {"primitive", "object"}, NEW args, NEW size,
         op \in {"jump", "call_proc", "jump_if_false"} => args # <<>>, Reads(r, op, args, size)
  PROVE  Agrees(r, Effect(op, args, size), op, args, size)
BY DEF Agrees, Effect, Operation

\* or for other operands of it.
LEMMA AgreesResplit ==
  ASSUME NEW r, NEW op \in Resplit, NEW args, NEW size, Reads(r, op, args, size), NEW split
  PROVE  Agrees(r, Effect(op, split, size), op, args, size)
BY DEF Agrees, Effect, Operation, Resplit

\* The rows of one encoding at a time: every row is decoded by its own interp
\* function, which does what the row says.
LEMMA SingleAgrees ==
  ASSUME TypeInv, pc < Len(code), NEW r \in SingleRows, r \in RowsFor(code[pc + 1]),
         Whole(r), ~Divergent(r)
  PROVE  /\ pre_fetch(Data(0)) = "SINGLE"
         /\ \E op, args : \E size \in Nat : Agrees(r, interp_single_encode, op, args, size)
<1> DEFINE t == type(Data(0))
           n == data(Data(0))
<1>0. /\ r.bits = 4 /\ r.prefix \in Nat => t = r.prefix
      /\ r.bits = 8 /\ r.prefix \in Nat => Data(0) = r.prefix
      /\ t \in 0 .. 15 /\ n \in 0 .. 15 /\ Data(1) \in 0 .. 255 /\ Word(1) \in Nat
  BY Selected, Encodings, Nibble, WordsNat
<1>1. CASE r = Row(4, 0, "ref_local", << 4 >>, 0)
  <2>1. r.bits = 4 /\ r.prefix = 0 /\ r.op = "ref_local"
    BY <1>1 DEF Row
  <2>2. t = 0
    BY <1>0, <2>1
  <2>3. Reads(r, "ref_local", <<n + 0>>, 1)
    BY <1>1, ReadsNibble
  <2>5. <<n>> = <<n + 0>>
    BY <1>0, ByteSums
  <2>6. interp_single_encode = Effect("ref_local", <<n>>, 1)
    BY <2>2, SingleCases
  <2>7. Agrees(r, interp_single_encode, "ref_local", <<n>>, 1)
    BY <2>3, <2>5, <2>6, AgreesEffect
  <2> QED BY <1>0, <2>2, <2>7, Encodings
<1>2. CASE r = Row(4, 1, "ref_local", << 4 >>, 16)
  <2>1. r.bits = 4 /\ r.prefix = 1 /\ r.op = "ref_local"
    BY <1>2 DEF Row
  <2>2. t = 1
    BY <1>0, <2>1
  <2>3. Reads(r, "ref_local", <<n + 16>>, 1)
    BY <1>2, ReadsNibble
  <2>6. interp_single_encode = Effect("ref_local", <<n + 16>>, 1)
    BY <2>2, SingleCases
  <2>7. Agrees(r, interp_single_encode, "ref_local", <<n + 16>>, 1)
    BY <2>3, <2>6, AgreesEffect
  <2> QED BY <1>0, <2>2, <2>7, Encodings
<1>3. CASE r = Row(4, 2, "ref_free", <<6, 6>>, 0)
  <2>1. r.bits = 4 /\ r.prefix = 2 /\ r.op = "ref_free"
    BY <1>3 DEF Row
  <2>2. t = 2
    BY <1>0, <2>1
  <2>3. Reads(r, "ref_free", <<FreeOffset(n, Data(1)), Data(1) % 64>>, 2)
    BY <1>3, ReadsFree
  <2>6. interp_single_encode = Effect("ref_free", <<FreeOffset(n, Data(1)), Data(1) % 64>>, 2)
    BY <2>2, SingleCases
  <2>7. Agrees(r, interp_single_encode, "ref_free", <<FreeOffset(n, Data(1)), Data(1) % 64>>, 2)
    BY <2>3, <2>6, AgreesEffect
  <2> QED BY <1>0, <2>2, <2>7, Encodings
<1>4. CASE r = Row(4, 3, "call_free", <<6, 6>>, 0)
  <2>1. r.bits = 4 /\ r.prefix = 3 /\ r.op = "call_free"
    BY <1>4 DEF Row
  <2>2. t = 3
    BY <1>0, <2>1
  <2>3. Reads(r, "call_free", <<FreeOffset(n, Data(1)), Data(1) % 64>>, 2)
    BY <1>4, ReadsFree
  <2>6. interp_single_encode = Effect("call_free", <<FreeOffset(n, Data(1)), Data(1) % 64>>, 2)
    BY <2>2, SingleCases
  <2>7. Agrees(r, interp_single_encode, "call_free", <<FreeOffset(n, Data(1)), Data(1) % 64>>, 2)
    BY <2>3, <2>6, AgreesEffect
  <2> QED BY <1>0, <2>2, <2>7, Encodings
<1>5. CASE r = Row(4, 4, "call_local", << 4 >>, 0)
  <2>1. r.bits = 4 /\ r.prefix = 4 /\ r.op = "call_local"
    BY <1>5 DEF Row
  <2>2. t = 4
    BY <1>0, <2>1
  <2>3. Reads(r, "call_local", <<n + 0>>, 1)
    BY <1>5, ReadsNibble
  <2>5. <<n>> = <<n + 0>>
    BY <1>0, ByteSums
  <2>6. interp_single_encode = Effect("call_local", <<n>>, 1)
    BY <2>2, SingleCases
  <2>7. Agrees(r, interp_single_encode, "call_local", <<n>>, 1)
    BY <2>3, <2>5, <2>6, AgreesEffect
  <2> QED BY <1>0, <2>2, <2>7, Encodings
<1>6. CASE r = Row(4, 5, "call_local", << 4 >>, 16)
  <2>1. r.bits = 4 /\ r.prefix = 5 /\ r.op = "call_local"
    BY <1>6 DEF Row
  <2>2. t = 5
    BY <1>0, <2>1
  <2>3. Reads(r, "call_local", <<n + 16>>, 1)
    BY <1>6, ReadsNibble
  <2>6. interp_single_encode = Effect("call_local", <<n + 16>>, 1)
    BY <2>2, SingleCases
  <2>7. Agrees(r, interp_single_encode, "call_local", <<n + 16>>, 1)
    BY <2>3, <2>6, AgreesEffect
  <2> QED BY <1>0, <2>2, <2>7, Encodings
<1>7. CASE r = Row(4, 6, "assign_free", <<6, 6>>, 0)
  <2>1. r.bits = 4 /\ r.prefix = 6 /\ r.op = "assign_free"
    BY <1>7 DEF Row
  <2>2. t = 6
    BY <1>0, <2>1
  <2>3. Reads(r, "assign_free", <<FreeOffset(n, Data(1)), Data(1) % 64>>, 2)
    BY <1>7, ReadsFree
  <2>6. interp_single_encode = Effect("assign_free", <<FreeOffset(n, Data(1)), Data(1) % 64>>, 2)
    BY <2>2, SingleCases
  <2>7. Agrees(r, interp_single_encode, "assign_free", <<FreeOffset(n, Data(1)), Data(1) % 64>>, 2)
    BY <2>3, <2>6, AgreesEffect
  <2> QED BY <1>0, <2>2, <2>7, Encodings
<1>8. CASE r = Row(4, 7, "assign_local", << 12 >>, 0)
  <2>1. r.bits = 4 /\ r.prefix = 7 /\ r.op = "assign_local"
    BY <1>8 DEF Row
  <2>2. t = 7
    BY <1>0, <2>1
  <2>3. Reads(r, "assign_local", <<n * 256 + Data(1) + 0>>, 2)
    BY <1>8, ReadsLong
  <2>4. ~(n * 256 + Data(1) + 0 > 255)
    BY <2>1, <2>3 DEF Divergent, Reads
  <2>5. <<(n * 256 + Data(1)) % 256>> = <<n * 256 + Data(1) + 0>>
    <3> DEFINE d1 == Data(1)
    <3>1. n \in 0 .. 15 /\ d1 \in 0 .. 255 /\ ~(n * 256 + d1 + 0 > 255)
      BY <1>0, <2>4
    <3> HIDE DEF n, d1
    <3>2. <<(n * 256 + d1) % 256>> = <<n * 256 + d1 + 0>>
      BY <3>1, ByteSums
    <3> QED BY <3>2 DEF d1
  <2>6. interp_single_encode = Effect("assign_local", <<(n * 256 + Data(1)) % 256>>, 2)
    BY <2>2, SingleCases
  <2>7. Agrees(r, interp_single_encode, "assign_local", <<(n * 256 + Data(1)) % 256>>, 2)
    BY <2>3, <2>5, <2>6, AgreesEffect
  <2> QED BY <1>0, <2>2, <2>7, Encodings
<1> QED BY <1>1, <1>2, <1>3, <1>4, <1>5, <1>6, <1>7, <1>8 DEF SingleRows

\* The rows of two bytes.
LEMMA DoubleAgrees ==
  ASSUME TypeInv, pc < Len(code), NEW r \in DoubleRows, r \in RowsFor(code[pc + 1]),
         Whole(r), ~Divergent(r)
  PROVE  /\ pre_fetch(Data(0)) = "DOUBLE"
         /\ \E op, args : \E size \in Nat : Agrees(r, interp_double_encode, op, args, size)
<1> DEFINE t == type(Data(0))
           n == data(Data(0))
<1>0. /\ r.bits = 4 /\ r.prefix \in Nat => t = r.prefix
      /\ r.bits = 8 /\ r.prefix \in Nat => Data(0) = r.prefix
      /\ t \in 0 .. 15 /\ n \in 0 .. 15 /\ Data(1) \in 0 .. 255 /\ Word(1) \in Nat
  BY Selected, Encodings, Nibble, WordsNat
<1>1. CASE r = Row(8, 160, "prelude", << 8 >>, 0)
  <2>1. r.bits = 8 /\ r.prefix = 160 /\ r.op = "prelude"
    BY <1>1 DEF Row
  <2>2. t = 10 /\ n = 0
    BY <1>0, <2>1 DEF type, data
  <2>3. Reads(r, "prelude", <<Data(1) + 0>>, 2)
    BY <1>1, ReadsByte
  <2>6. interp_double_encode =
          Effect("prelude", <<PROC_ARITY(Data(1)), PROC_MODE(Data(1))>>, 2)
    BY <2>2, DoubleCases
  <2>7. Agrees(r, interp_double_encode, "prelude", <<Data(1) + 0>>, 2)
    BY <2>3, <2>6, AgreesResplit DEF Resplit
  <2> QED BY <1>0, <2>2, <2>7, Encodings
<1>2. CASE r = Row(8, 161, "ref_local", << 8 >>, 32)
  <2>1. r.bits = 8 /\ r.prefix = 161 /\ r.op = "ref_local"
    BY <1>2 DEF Row
  <2>2. t = 10 /\ n = 1
    BY <1>0, <2>1 DEF type, data
  <2>3. Reads(r, "ref_local", <<Data(1) + 32>>, 2)
    BY <1>2, ReadsByte
  <2>4. ~(Data(1) + 32 > 255)
    BY <2>1, <2>3 DEF Divergent, Reads
  <2>5. <<(Data(1) + 32) % 256>> = <<Data(1) + 32>>
    BY <1>0, <2>4, ByteSums
  <2>6. interp_double_encode = Effect("ref_local", <<(Data(1) + 32) % 256>>, 2)
    BY <2>2, DoubleCases
  <2>7. Agrees(r, interp_double_encode, "ref_local", <<(Data(1) + 32) % 256>>, 2)
    BY <2>3, <2>5, <2>6, AgreesEffect
  <2> QED BY <1>0, <2>2, <2>7, Encodings
<1>3. CASE r = Row(8, 162, "call_local", << 8 >>, 32)
  <2>1. r.bits = 8 /\ r.prefix = 162 /\ r.op = "call_local"
    BY <1>3 DEF Row
  <2>2. t = 10 /\ n = 2
    BY <1>0, <2>1 DEF type, data
  <2>3. Reads(r, "call_local", <<Data(1) + 32>>, 2)
    BY <1>3, ReadsByte
  <2>4. ~(Data(1) + 32 > 255)
    BY <2>1, <2>3 DEF Divergent, Reads
  <2>5. <<(Data(1) + 32) % 256>> = <<Data(1) + 32>>
    BY <1>0, <2>4, ByteSums
  <2>6. interp_double_encode = Effect("call_local", <<(Data(1) + 32) % 256>>, 2)
    BY <2>2, DoubleCases
  <2>7. Agrees(r, interp_double_encode, "call_local", <<(Data(1) + 32) % 256>>, 2)
    BY <2>3, <2>5, <2>6, AgreesEffect
  <2> QED BY <1>0, <2>2, <2>7, Encodings
<1>4. CASE r = Row(8, 163, "assign_global", << 8 >>, 0)
  <2>1. r.bits = 8 /\ r.prefix = 163 /\ r.op = "assign_global"
    BY <1>4 DEF Row
  <2>2. t = 10 /\ n = 3
    BY <1>0, <2>1 DEF type, data
  <2>3. Reads(r, "assign_global", <<Data(1) + 0>>, 2)
    BY <1>4, ReadsByte
  <2>5. <<Data(1)>> = <<Data(1) + 0>>
    BY <1>0, ByteSums
  <2>6. interp_double_encode = Effect("assign_global", <<Data(1)>>, 2)
    BY <2>2, DoubleCases
  <2>7. Agrees(r, interp_double_encode, "assign_global", <<Data(1)>>, 2)
    BY <2>3, <2>5, <2>6, AgreesEffect
  <2> QED BY <1>0, <2>2, <2>7, Encodings
<1>5. CASE r = Row(8, 164, "ref_global", << 8 >>, 0)
  <2>1. r.bits = 8 /\ r.prefix = 164 /\ r.op = "ref_global"
    BY <1>5 DEF Row
  <2>2. t = 10 /\ n = 4
    BY <1>0, <2>1 DEF type, data
  <2>3. Reads(r, "ref_global", <<Data(1) + 0>>, 2)
    BY <1>5, ReadsByte
  <2>5. <<Data(1)>> = <<Data(1) + 0>>
    BY <1>0, ByteSums
  <2>6. interp_double_encode = Effect("ref_global", <<Data(1)>>, 2)
    BY <2>2, DoubleCases
  <2>7. Agrees(r, interp_double_encode, "ref_global", <<Data(1)>>, 2)
    BY <2>3, <2>5, <2>6, AgreesEffect
  <2> QED BY <1>0, <2>2, <2>7, Encodings
<1>6. CASE r = Row(8, 165, "call_global", << 8 >>, 0)
  <2>1. r.bits = 8 /\ r.prefix = 165 /\ r.op = "call_global"
    BY <1>6 DEF Row
  <2>2. t = 10 /\ n = 5
    BY <1>0, <2>1 DEF type, data
  <2>3. Reads(r, "call_global", <<Data(1) + 0>>, 2)
    BY <1>6, ReadsByte
  <2>5. <<Data(1)>> = <<Data(1) + 0>>
    BY <1>0, ByteSums
  <2>6. interp_double_encode = Effect("call_global", <<Data(1)>>, 2)
    BY <2>2, DoubleCases
  <2>7. Agrees(r, interp_double_encode, "call_global", <<Data(1)>>, 2)
    BY <2>3, <2>5, <2>6, AgreesEffect
  <2> QED BY <1>0, <2>2, <2>7, Encodings
<1> QED BY <1>1, <1>2, <1>3, <1>4, <1>5, <1>6 DEF DoubleRows

\* The rows of three bytes that Divergent does not name.
LEMMA TripleAgrees ==
  ASSUME TypeInv, pc < Len(code), NEW r \in TripleRows, r \in RowsFor(code[pc + 1]),
         Whole(r), ~Divergent(r)
  PROVE  /\ pre_fetch(Data(0)) = "TRIPLE"
         /\ \E op, args : \E size \in Nat : Agrees(r, interp_triple_encode, op, args, size)
<1> DEFINE t == type(Data(0))
           n == data(Data(0))
<1>0. /\ r.bits = 4 /\ r.prefix \in Nat => t = r.prefix
      /\ r.bits = 8 /\ r.prefix \in Nat => Data(0) = r.prefix
      /\ t \in 0 .. 15 /\ n \in 0 .. 15 /\ Data(1) \in 0 .. 255 /\ Word(1) \in Nat
  BY Selected, Encodings, Nibble, WordsNat
<1>1. CASE r = Row(8, 176, "call_proc", << 16 >>, 0)
  <2>1. r.bits = 8 /\ r.prefix = 176 /\ r.op = "call_proc"
    BY <1>1 DEF Row
  <2>2. t = 11 /\ n = 0
    BY <1>0, <2>1 DEF type, data
  <2>3. Reads(r, "call_proc", <<Word(1) + 0>>, 3)
    BY <1>1, ReadsWord
  <2>5. <<Word(1)>> = <<Word(1) + 0>>
    BY <1>0, ByteSums
  <2>6. interp_triple_encode = Effect("call_proc", <<Word(1)>>, 3)
    BY <2>2, TripleCases
  <2>7. Agrees(r, interp_triple_encode, "call_proc", <<Word(1)>>, 3)
    BY <2>3, <2>5, <2>6, AgreesEffect
  <2> QED BY <1>0, <2>2, <2>7, Encodings
<1>2. CASE r = Row(8, 177, "jump_if_false", << 16 >>, 0)
  <2>1. r.bits = 8 /\ r.prefix = 177 /\ r.op = "jump_if_false"
    BY <1>2 DEF Row
  <2>2. t = 11 /\ n = 1
    BY <1>0, <2>1 DEF type, data
  <2>3. Reads(r, "jump_if_false", <<Word(1) + 0>>, 3)
    BY <1>2, ReadsWord
  <2>5. <<Word(1)>> = <<Word(1) + 0>>
    BY <1>0, ByteSums
  <2>6. interp_triple_encode = Effect("jump_if_false", <<Word(1)>>, 3)
    BY <2>2, TripleCases
  <2>7. Agrees(r, interp_triple_encode, "jump_if_false", <<Word(1)>>, 3)
    BY <2>3, <2>5, <2>6, AgreesEffect
  <2> QED BY <1>0, <2>2, <2>7, Encodings
<1>3. CASE r = Row(8, 178, "jump", << 16 >>, 0)
  <2>1. r.bits = 8 /\ r.prefix = 178 /\ r.op = "jump"
    BY <1>3 DEF Row
  <2>2. t = 11 /\ n = 2
    BY <1>0, <2>1 DEF type, data
  <2>3. Reads(r, "jump", <<Word(1) + 0>>, 3)
    BY <1>3, ReadsWord
  <2>5. <<Word(1)>> = <<Word(1) + 0>>
    BY <1>0, ByteSums
  <2>6. interp_triple_encode = Effect("jump", <<Word(1)>>, 3)
    BY <2>2, TripleCases
  <2>7. Agrees(r, interp_triple_encode, "jump", <<Word(1)>>, 3)
    BY <2>3, <2>5, <2>6, AgreesEffect
  <2> QED BY <1>0, <2>2, <2>7, Encodings
<1>4. r # Row(8, 179, "vector_ref", <<8, 8>>, 0)
  BY DEF Divergent, Row
<1>5. r # Row(8, 180, "assign_global", << 16 >>, 128)
  BY DEF Divergent, Row
<1>6. r # Row(8, 181, "ref_global", << 16 >>, 128)
  BY DEF Divergent, Row
<1>7. r # Row(8, 182, "call_global", << 16 >>, 0)
  BY DEF Divergent, Row
<1> QED BY <1>1, <1>2, <1>3, <1>4, <1>5, <1>6, <1>7 DEF TripleRows

\* The rows of four bytes.
LEMMA QuadrupleAgrees ==
  ASSUME TypeInv, pc < Len(code), NEW r \in QuadrupleRows, r \in RowsFor(code[pc + 1]),
         Whole(r), ~Divergent(r)
  PROVE  /\ pre_fetch(Data(0)) = "QUADRUPLE"
         /\ \E op, args : \E size \in Nat : Agrees(r, interp_quadruple_encode, op, args, size)
<1> DEFINE t == type(Data(0))
           n == data(Data(0))
<1>0. /\ r.bits = 4 /\ r.prefix \in Nat => t = r.prefix
      /\ r.bits = 8 /\ r.prefix \in Nat => Data(0) = r.prefix
      /\ t \in 0 .. 15 /\ n \in 0 .. 15 /\ Data(1) \in 0 .. 255 /\ Word(1) \in Nat
  BY Selected, Encodings, Nibble, WordsNat
<1>1. r # Row(8, 128, "vector_set", <<8, 8, 8>>, 0)
  BY DEF Divergent, Row
<1>2. CASE r = Row(8, 129, "closure_on_heap", <<8, 16>>, 0)
  <2>1. r.bits = 8 /\ r.prefix = 129 /\ r.op = "closure_on_heap"
    BY <1>2 DEF Row
  <2>2. t = 8 /\ n = 1
    BY <1>0, <2>1 DEF type, data
  <2>3. Reads(r, "closure_on_heap", <<Data(1), Word(2)>>, 4)
    BY <1>2, ReadsClosure
  <2>6. interp_quadruple_encode = Effect("closure_on_heap", <<Data(1) \div 16, Data(1) % 16, Word(2)>>, 4)
    BY <2>2, QuadrupleCases
  <2>7. Agrees(r, interp_quadruple_encode, "closure_on_heap", <<Data(1), Word(2)>>, 4)
    BY <2>3, <2>6, AgreesResplit DEF Resplit
  <2> QED BY <1>0, <2>2, <2>7, Encodings
<1>3. CASE r = Row(8, 130, "closure_on_stack", <<8, 16>>, 0)
  <2>1. r.bits = 8 /\ r.prefix = 130 /\ r.op = "closure_on_stack"
    BY <1>3 DEF Row
  <2>2. t = 8 /\ n = 2
    BY <1>0, <2>1 DEF type, data
  <2>3. Reads(r, "closure_on_stack", <<Data(1), Word(2)>>, 4)
    BY <1>3, ReadsClosure
  <2>6. interp_quadruple_encode = Effect("closure_on_stack", <<0, Data(1), Word(2)>>, 4)
    BY <2>2, QuadrupleCases
  <2>7. Agrees(r, interp_quadruple_encode, "closure_on_stack", <<Data(1), Word(2)>>, 4)
    BY <2>3, <2>6, AgreesResplit DEF Resplit
  <2> QED BY <1>0, <2>2, <2>7, Encodings
<1> QED BY <1>1, <1>2, <1>3 DEF QuadrupleRows

\* Primitives, objects and control.
LEMMA SpecialAgrees ==
  ASSUME TypeInv, pc < Len(code), NEW r \in SpecialRows, r \in RowsFor(code[pc + 1]),
         Whole(r), ~Divergent(r)
  PROVE  /\ pre_fetch(Data(0)) = "SPECIAL"
         /\ \E op, args : \E size \in Nat : Agrees(r, interp_special, op, args, size)
<1> DEFINE t == type(Data(0))
           n == data(Data(0))
<1>0. /\ r.bits = 4 /\ r.prefix \in Nat => t = r.prefix
      /\ r.bits = 8 /\ r.prefix \in Nat => Data(0) = r.prefix
      /\ t \in 0 .. 15 /\ n \in 0 .. 15 /\ Data(1) \in 0 .. 255 /\ Word(1) \in Nat
  BY Selected, Encodings, Nibble, WordsNat
<1>1. CASE r = Row(4, 12, "primitive", << 4 >>, 0)
  <2> DEFINE m == n + 0
  <2>1. r.bits = 4 /\ r.prefix = 12 /\ r.op = "primitive"
    BY <1>1 DEF Row
  <2>2. t = 12
    BY <1>0, <2>1
  <2>3. Reads(r, "primitive", <<m>>, 1)
    BY <1>1, ReadsNibble
  <2>4. m \in Nat
    <3> DEFINE d1 == Data(1)
    <3>1. n \in 0 .. 15 /\ d1 \in 0 .. 255
      BY <1>0
    <3> HIDE DEF n, d1
    <3>2. n + 0 \in Nat /\ n * 256 + d1 + 16 \in Nat
      BY <3>1
    <3> QED BY <3>2 DEF d1
  <2>5. m \notin Uncalled /\ ~(m > 118)
    BY <2>1, <2>3 DEF Divergent, Reads
  <2>6. interp_special = IF n \in Primitives THEN Effect("primitive", <<n>>, 1) ELSE Stops(1)
    BY <2>2, SpecialCases
  <2>7. m = n
    BY <1>0, ByteSums
  <2> HIDE DEF m
  <2>8. m \in Primitives /\ (m \in Misregistered \/ Pops(m) = Registered(m))
    <3>1. m \in 0 .. 118
      BY <2>4, <2>5
    <3> QED BY <3>1, <2>5, PrimitiveCases
  <2>9. interp_special = Effect("primitive", <<m>>, 1)
    BY <2>6, <2>7, <2>8
  <2>10. Agrees(r, interp_special, "primitive", <<m>>, 1)
    BY <2>3, <2>8, <2>9 DEF Agrees, Effect, Operation
  <2> QED BY <1>0, <2>2, <2>10, Encodings
<1>2. CASE r = Row(4, 13, "primitive", << 12 >>, 16)
  <2> DEFINE m == n * 256 + Data(1) + 16
  <2>1. r.bits = 4 /\ r.prefix = 13 /\ r.op = "primitive"
    BY <1>2 DEF Row
  <2>2. t = 13
    BY <1>0, <2>1
  <2>3. Reads(r, "primitive", <<m>>, 2)
    BY <1>2, ReadsLong
  <2>4. m \in Nat
    <3> DEFINE d1 == Data(1)
    <3>1. n \in 0 .. 15 /\ d1 \in 0 .. 255
      BY <1>0
    <3> HIDE DEF n, d1
    <3>2. n + 0 \in Nat /\ n * 256 + d1 + 16 \in Nat
      BY <3>1
    <3> QED BY <3>2 DEF d1
  <2>5. m \notin Uncalled /\ ~(m > 118)
    BY <2>1, <2>3 DEF Divergent, Reads
  <2>6. interp_special = IF n * 256 + Data(1) + 16 \in Primitives THEN Effect("primitive", <<n * 256 + Data(1) + 16>>, 2) ELSE Stops(2)
    BY <2>2, SpecialCases
  <2>7. m = n * 256 + Data(1) + 16
    BY <1>0, ByteSums
  <2> HIDE DEF m
  <2>8. m \in Primitives /\ (m \in Misregistered \/ Pops(m) = Registered(m))
    <3>1. m \in 0 .. 118
      BY <2>4, <2>5
    <3> QED BY <3>1, <2>5, PrimitiveCases
  <2>9. interp_special = Effect("primitive", <<m>>, 2)
    BY <2>6, <2>7, <2>8
  <2>10. Agrees(r, interp_special, "primitive", <<m>>, 2)
    BY <2>3, <2>8, <2>9 DEF Agrees, Effect, Operation
  <2> QED BY <1>0, <2>2, <2>10, Encodings
<1>3. CASE r = Row(8, 224, "false", <<>>, 0)
  <2>1. r.bits = 8 /\ r.prefix = 224
    BY <1>3 DEF Row
  <2>2. t = 14 /\ n = 0
    BY <1>0, <2>1 DEF type, data
  <2>3. Reads(r, "false", <<>>, 1)
    BY <1>3, ReadsNone
  <2>4. interp_special = Effect("false", <<>>, 1)
    BY <2>2, SpecialCases
  <2>5. Agrees(r, interp_special, "false", <<>>, 1)
    BY <2>3, <2>4, AgreesEffect
  <2> QED BY <1>0, <2>2, <2>5, Encodings
<1>4. CASE r = Row(8, 225, "true", <<>>, 0)
  <2>1. r.bits = 8 /\ r.prefix = 225
    BY <1>4 DEF Row
  <2>2. t = 14 /\ n = 1
    BY <1>0, <2>1 DEF type, data
  <2>3. Reads(r, "true", <<>>, 1)
    BY <1>4, ReadsNone
  <2>4. interp_special = Effect("true", <<>>, 1)
    BY <2>2, SpecialCases
  <2>5. Agrees(r, interp_special, "true", <<>>, 1)
    BY <2>3, <2>4, AgreesEffect
  <2> QED BY <1>0, <2>2, <2>5, Encodings
<1>5. CASE r = Row(8, 226, "object", << 8 >>, 0)
  <2>1. r.bits = 8 /\ r.prefix = 226 /\ r.op = "object"
    BY <1>5 DEF Row
  <2>2. t = 14 /\ n = 2
    BY <1>0, <2>1 DEF type, data
  <2>3. Reads(r, "object", <<Data(1) + 0>>, 2)
    BY <1>5, ReadsByte
  <2>4. Data(1) + 0 \in Generated
    BY <2>1, <2>3 DEF Divergent, Reads
  <2>5. Data(1) % 64 = Data(1) + 0
    <3> DEFINE d1 == Data(1)
    <3>1. d1 \in 0 .. 255 /\ d1 + 0 \in Generated
      BY <1>0, <2>4
    <3> HIDE DEF d1
    <3>2. d1 \in 0 .. 63
      BY <3>1 DEF Generated, OneWord, Named, Counted, Bytes, Pair, ComplexInexact
    <3>3. d1 % 64 = d1 + 0
      BY <3>2
    <3> QED BY <3>3 DEF d1
  <2>6. interp_special = generate_object(Data(1) + 0)
    BY <2>2, <2>5, SpecialCases
  <2>7. interp_special.did = Operation("object", <<Data(1) + 0>>)
    BY <2>4, <2>6 DEF generate_object
  <2>8. Agrees(r, interp_special, "object", <<Data(1) + 0>>, 2)
    BY <2>3, <2>4, <2>6, <2>7 DEF Agrees, Operation
  <2> QED BY <1>0, <2>2, <2>8, Encodings
<1>6. CASE r = Row(8, 227, "char", << 8 >>, 0)
  <2>1. r.bits = 8 /\ r.prefix = 227 /\ r.op = "char"
    BY <1>6 DEF Row
  <2>2. t = 14 /\ n = 3
    BY <1>0, <2>1 DEF type, data
  <2>3. Reads(r, "char", <<Data(1) + 0>>, 2)
    BY <1>6, ReadsByte
  <2>5. <<Data(1)>> = <<Data(1) + 0>>
    BY <1>0, ByteSums
  <2>6. interp_special = Effect("char", <<Data(1)>>, 2)
    BY <2>2, SpecialCases
  <2>7. Agrees(r, interp_special, "char", <<Data(1)>>, 2)
    BY <2>3, <2>5, <2>6, AgreesEffect
  <2> QED BY <1>0, <2>2, <2>7, Encodings
<1>7. r # Row(8, 228, "empty_list", <<>>, 0)
  BY DEF Divergent, Row
<1>8. r # Row(8, 229, "none", <<>>, 0)
  BY DEF Divergent, Row
<1>9. CASE r = Row(8, 230, "symbol", << 16 >>, 0)
  <2>1. r.bits = 8 /\ r.prefix = 230 /\ r.op = "symbol"
    BY <1>9 DEF Row
  <2>2. t = 14 /\ n = 6
    BY <1>0, <2>1 DEF type, data
  <2>3. Reads(r, "symbol", <<Word(1) + 0>>, 3)
    BY <1>9, ReadsWord
  <2>5. <<Word(1)>> = <<Word(1) + 0>>
    BY <1>0, ByteSums
  <2>6. interp_special = Effect("symbol", <<Word(1)>>, 3)
    BY <2>2, SpecialCases
  <2>7. Agrees(r, interp_special, "symbol", <<Word(1)>>, 3)
    BY <2>3, <2>5, <2>6, AgreesEffect
  <2> QED BY <1>0, <2>2, <2>7, Encodings
<1>10. CASE r = Row(8, 255, "halt", <<>>, 0)
  <2>1. r.bits = 8 /\ r.prefix = 255
    BY <1>10 DEF Row
  <2>2. t = 15 /\ n = 15
    BY <1>0, <2>1 DEF type, data
  <2>3. Reads(r, "halt", <<>>, 1)
    BY <1>10, ReadsNone
  <2>4. interp_special = Effect("halt", <<>>, 1)
    BY <2>2, SpecialCases
  <2>5. Agrees(r, interp_special, "halt", <<>>, 1)
    BY <2>3, <2>4, AgreesEffect
  <2> QED BY <1>0, <2>2, <2>5, Encodings
<1> QED BY <1>1, <1>2, <1>3, <1>4, <1>5, <1>6, <1>7, <1>8, <1>9, <1>10 DEF SpecialRows

(* One step of the interpreter.                                             *)
LEMMA DispatchAgrees ==
  ASSUME TypeInv, dispatch, pc < Len(code), NEW r \in RowsFor(code[pc + 1]),
         Whole(r), ~Divergent(r)
  PROVE  Executed(r)
<1>1. \A encoding, e, op, args : \A size \in Nat :
        Execute(encoding, e) /\ Agrees(r, e, op, args, size) => Executed(r)
  BY AgreesExecuted
<1>2. r \in Rows
  BY DEF RowsFor
<1>3. \A encoding, e : Execute(encoding, e) => pre_fetch(Data(0)) = encoding
  BY DEF Execute
<1>4. CASE r \in SingleRows
  <2>1. /\ pre_fetch(Data(0)) = "SINGLE"
        /\ \E op, args : \E size \in Nat : Agrees(r, interp_single_encode, op, args, size)
    BY <1>4, SingleAgrees
  <2>2. Execute("SINGLE", interp_single_encode)
    BY <2>1, <1>3 DEF dispatch, InterpSingle, InterpDouble, InterpTriple, InterpQuadruple, InterpSpecial
  <2> QED BY <1>1, <2>1, <2>2
<1>5. CASE r \in DoubleRows
  <2>1. /\ pre_fetch(Data(0)) = "DOUBLE"
        /\ \E op, args : \E size \in Nat : Agrees(r, interp_double_encode, op, args, size)
    BY <1>5, DoubleAgrees
  <2>2. Execute("DOUBLE", interp_double_encode)
    BY <2>1, <1>3 DEF dispatch, InterpSingle, InterpDouble, InterpTriple, InterpQuadruple, InterpSpecial
  <2> QED BY <1>1, <2>1, <2>2
<1>6. CASE r \in TripleRows
  <2>1. /\ pre_fetch(Data(0)) = "TRIPLE"
        /\ \E op, args : \E size \in Nat : Agrees(r, interp_triple_encode, op, args, size)
    BY <1>6, TripleAgrees
  <2>2. Execute("TRIPLE", interp_triple_encode)
    BY <2>1, <1>3 DEF dispatch, InterpSingle, InterpDouble, InterpTriple, InterpQuadruple, InterpSpecial
  <2> QED BY <1>1, <2>1, <2>2
<1>7. CASE r \in QuadrupleRows
  <2>1. /\ pre_fetch(Data(0)) = "QUADRUPLE"
        /\ \E op, args : \E size \in Nat : Agrees(r, interp_quadruple_encode, op, args, size)
    BY <1>7, QuadrupleAgrees
  <2>2. Execute("QUADRUPLE", interp_quadruple_encode)
    BY <2>1, <1>3 DEF dispatch, InterpSingle, InterpDouble, InterpTriple, InterpQuadruple, InterpSpecial
  <2> QED BY <1>1, <2>1, <2>2
<1>8. CASE r \in SpecialRows
  <2>1. /\ pre_fetch(Data(0)) = "SPECIAL"
        /\ \E op, args : \E size \in Nat : Agrees(r, interp_special, op, args, size)
    BY <1>8, SpecialAgrees
  <2>2. Execute("SPECIAL", interp_special)
    BY <2>1, <1>3 DEF dispatch, InterpSingle, InterpDouble, InterpTriple, InterpQuadruple, InterpSpecial
  <2> QED BY <1>1, <2>1, <2>2
<1> QED BY <1>2, <1>4, <1>5, <1>6, <1>7, <1>8 DEF Rows

(* The interpreter executes the instructions of the table as the table      *)
(* says, for every code segment, but for the rows of Divergent and the      *)
(* operands of Resplit: pre_fetch, dispatch, the interp functions,          *)
(* generate_object and call_prim cut it at the table's boundaries and       *)
(* behind literals whose text is no longer than MAX_STR_LEN, so that no     *)
(* instruction runs on into the operands of another.                        *)
THEOREM DecodesAsDocumented == InstrSpec => AsDocumented
<1> DEFINE A == pc < Len(code) =>
                  \A r \in RowsFor(code[pc + 1]) :
                    Whole(r) /\ ~Divergent(r) => Executed(r)
<1>1. TypeInv /\ [dispatch]_instrVars => [A]_segmentVars
  <2> SUFFICES ASSUME TypeInv, [dispatch]_instrVars, ~(UNCHANGED segmentVars) PROVE A
    OBVIOUS
  <2>1. dispatch
    BY DEF instrVars
  <2> QED BY <2>1, DispatchAgrees
<1>2. InstrSpec => [][A]_segmentVars
  BY <1>1, SegmentsTyped, PTL DEF InstrSpec
<1> QED BY <1>2 DEF AsDocumented

==============================================================================
