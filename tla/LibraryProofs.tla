---------------------------- MODULE LibraryProofs -----------------------------
(***************************************************************************)
(* The string primitives: for any characters, any MAX_STR_LEN, any literals *)
(* and any integers, as long as a program makes none of the calls nobody    *)
(* checks, every string keeps a terminator inside its block, and no         *)
(* primitive leaves a block.                                                *)
(*                                                                         *)
(* The lengths the primitives check against are measured by a scan for the  *)
(* first NUL, so a range that passes its check ends before a terminator:    *)
(* what is written into the range cannot overwrite it.                      *)
(*                                                                         *)
(* As long as it makes no call R7RS forbids or this code answers otherwise, *)
(* the texts R7RS promises are the bytes in front of the first NUL: a write *)
(* inside the text that writes no NUL leaves the scan where it was.         *)
(*                                                                         *)
(* The list primitives: for any atoms, literals and integers and any number *)
(* of objects, under the same condition, every object has the value R7RS    *)
(* gives it, and every predicate answers for the values.                    *)
(*                                                                         *)
(* Nodes, headers and cells are written once, and a cell leads to older     *)
(* ones only; so the recursions over the cells have one solution, which an  *)
(* operation extends without changing it.                                   *)
(***************************************************************************)
EXTENDS Strings, Lists, WellFoundedInduction, TLAPS

StringTypeOK == block \in Seq(Seq(Char))
StringInv == StringTypeOK /\ InBlocks

------------------------------------------------------------------------------
(* The first NUL.                                                           *)

LEMMA NatOrder == IsWellFoundedOn({ss \in Nat \X Nat : ss[1] < ss[2]}, Nat)
BY NatLessThanWellFounded DEF OpToRel

LEMMA Least ==
  ASSUME NEW S \in SUBSET Nat, S # {}
  PROVE  \E m \in S : \A n \in S : m <= n
<1>1. PICK x \in S : \A y \in S : ~(<<y, x>> \in {ss \in Nat \X Nat : ss[1] < ss[2]})
  BY NatOrder, WFMin
<1>2. ASSUME NEW y \in S, ~(x <= y) PROVE FALSE
  <2>1. y \in Nat /\ x \in Nat /\ y < x
    BY <1>2
  <2>2. <<y, x>> \in Nat \X Nat /\ <<y, x>>[1] < <<y, x>>[2]
    BY <2>1
  <2>3. <<y, x>> \in {ss \in Nat \X Nat : ss[1] < ss[2]}
    BY <2>2
  <2> QED BY <2>3, <1>1
<1> QED BY <1>2

(* The scan stops in front of the first NUL.                                *)
LEMMA ScanStops ==
  ASSUME NEW b \in Seq(Char), Terminated(b)
  PROVE  /\ Scan(b) \in 0 .. Len(b) - 1
         /\ b[Scan(b) + 1] = NUL
         /\ \A k \in 1 .. Scan(b) : b[k] # NUL
<1>1. Zeros(b) \in SUBSET Nat /\ Zeros(b) # {}
  BY DEF Zeros, Terminated
<1>2. \E k \in Zeros(b) : \A z \in Zeros(b) : k <= z
  BY <1>1, Least
<1> DEFINE first == CHOOSE k \in Zeros(b) : \A z \in Zeros(b) : k <= z
<1>3. first \in Zeros(b) /\ \A z \in Zeros(b) : first <= z
  BY <1>2
<1>4. Scan(b) = first - 1
  BY DEF Scan
<1>5. first \in 1 .. Len(b) /\ b[first] = NUL
  BY <1>3 DEF Zeros
<1> HIDE DEF first
<1>6. \A k \in 1 .. first - 1 : b[k] # NUL
  BY <1>3, <1>5 DEF Zeros
<1> QED BY <1>4, <1>5, <1>6

(* What os_strnlen returns is never behind the first NUL.                   *)
LEMMA LengthStops ==
  ASSUME NEW b \in Seq(Char), Terminated(b)
  PROVE  /\ Measurable(b)
         /\ strnlen(b) \in Nat /\ strnlen(b) <= Scan(b) /\ strnlen(b) < Len(b)
         /\ Scan(b) \in Nat
BY ScanStops, LengthAssumption DEF Measurable, strnlen

(* A measured length fits the block, terminated or not.                     *)
LEMMA MeasuredInBlock ==
  ASSUME NEW b \in Seq(Char), Measurable(b)
  PROVE  strnlen(b) \in Nat /\ strnlen(b) <= Len(b)
<1>1. CASE Terminated(b)
  BY <1>1, LengthStops
<1>2. CASE ~Terminated(b)
  BY <1>2, LengthAssumption DEF Measurable, strnlen, Scan
<1> QED BY <1>1, <1>2

(* A write that leaves the first NUL alone leaves the string terminated.    *)
LEMMA StaysTerminated ==
  ASSUME NEW b \in Seq(Char), Terminated(b), NEW d \in Seq(Char),
         DOMAIN d = DOMAIN b, d[Scan(b) + 1] = b[Scan(b) + 1]
  PROVE  Terminated(d)
BY ScanStops DEF Terminated, Zeros

LEMMA EndsInNul ==
  ASSUME NEW d \in Seq(Char)
  PROVE  Append(d, NUL) \in Seq(Char) /\ Terminated(Append(d, NUL))
<1>1. Append(d, NUL) \in Seq(Char)
  BY CharAssumption DEF NUL
<1>2. Len(d) + 1 \in DOMAIN Append(d, NUL) /\ Append(d, NUL)[Len(d) + 1] = NUL
  OBVIOUS
<1> QED BY <1>1, <1>2 DEF Terminated, Zeros

------------------------------------------------------------------------------
(* How a call can end.                                                      *)

LEMMA RefusesKeeps == StringInv /\ Refuses => StringInv'
BY DEF StringInv, StringTypeOK, InBlocks, Refuses, Terminated, Zeros

LEMMA ReturnsKeeps ==
  ASSUME NEW v, NEW p, NEW s, StringInv, Returns(v, p, s)
  PROVE  StringInv'
BY DEF StringInv, StringTypeOK, InBlocks, Returns, Terminated, Zeros

(* Undefined behaviour is reached through an unchecked call or after one.   *)
LEMMA UndefinedKeeps ==
  ASSUME NEW u \in BOOLEAN, StringInv, Undefined(u), u \/ unsafe
  PROVE  StringInv'
BY DEF StringInv, StringTypeOK, InBlocks, Undefined, Careless

LEMMA MakesKeeps ==
  ASSUME NEW d \in Seq(Char), NEW t, NEW s, NEW u \in BOOLEAN,
         StringInv, Makes(d, t, s, u), u \/ Terminated(d)
  PROVE  StringInv'
<1>1. /\ block' = Append(block, d) /\ machine' = machine
      /\ unsafe' = (unsafe \/ u)
  BY DEF Makes, Careless
<1>2. StringTypeOK'
  BY <1>1 DEF StringInv, StringTypeOK
<1>3. ASSUME ~unsafe' PROVE machine' # "UNDEFINED" /\ \A i \in DOMAIN block' : Terminated(block'[i])
  <2>1. ~unsafe /\ Terminated(d)
    BY <1>1, <1>3
  <2>2. \A i \in DOMAIN block' : block'[i] = d \/ (i \in DOMAIN block /\ block'[i] = block[i])
    BY <1>1 DEF StringInv, StringTypeOK
  <2> QED BY <1>1, <2>1, <2>2 DEF StringInv, InBlocks
<1> QED BY <1>2, <1>3 DEF StringInv, InBlocks, Terminated, Zeros

LEMMA WritesKeeps ==
  ASSUME NEW i \in DOMAIN block, NEW d \in Seq(Char), NEW t, NEW s, NEW u \in BOOLEAN,
         StringInv, Writes(i, d, t, s, u), u \/ unsafe \/ Terminated(d)
  PROVE  StringInv'
<1>1. /\ block' = [block EXCEPT ![i] = d] /\ machine' = machine
      /\ unsafe' = (unsafe \/ u)
  BY DEF Writes, Careless
<1>2. StringTypeOK'
  BY <1>1 DEF StringInv, StringTypeOK
<1>3. ASSUME ~unsafe' PROVE machine' # "UNDEFINED" /\ \A j \in DOMAIN block' : Terminated(block'[j])
  <2>1. ~unsafe /\ Terminated(d)
    BY <1>1, <1>3
  <2>2. \A j \in DOMAIN block' : block'[j] = d \/ (j \in DOMAIN block /\ block'[j] = block[j])
    BY <1>1 DEF StringInv, StringTypeOK
  <2> QED BY <1>1, <2>1, <2>2 DEF StringInv, InBlocks
<1> QED BY <1>2, <1>3 DEF StringInv, InBlocks, Terminated, Zeros

------------------------------------------------------------------------------
(* The primitives.                                                          *)

(* A character that is not refused for its value is one of Char.            *)
LEMMA Positive ==
  ASSUME NEW c \in Characters
  PROVE  c \in Int /\ (~(c <= 0) => c \in Char /\ c # NUL)
<1>1. CASE c \in Char
  BY <1>1, CharAssumption DEF NUL
<1>2. CASE c \notin Char
  <2>1. PICK d \in Char : c = AsObject(d)
    BY <1>2 DEF Characters
  <2>2. d \in 0 .. CHARS - 1
    BY CharAssumption
  <2>3. c = d - CHARS
    BY <1>2, <2>1 DEF AsObject
  <2> QED BY <2>2, <2>3, CharAssumption
<1> QED BY <1>1, <1>2

LEMMA ABlock ==
  ASSUME StringInv, NEW i \in DOMAIN block
  PROVE  block[i] \in Seq(Char) /\ (Terminated(block[i]) \/ unsafe)
BY DEF StringInv, StringTypeOK, InBlocks

LEMMA MakeStringKeeps ==
  ASSUME StringInv, NEW n \in Index, NEW c \in Characters, _make_string(n, c)
  PROVE  StringInv'
<1> n \in Int /\ c \in Int
  BY IndexAssumption, Positive
<1>1. CASE c <= 0
  BY <1>1, RefusesKeeps DEF _make_string
<1>2. CASE ~(c <= 0) /\ n < 0
  BY <1>2, UndefinedKeeps DEF _make_string
<1>3. CASE ~(c <= 0) /\ ~(n < 0)
  <2> c \in Char /\ c # NUL
    BY <1>3, Positive
  <2> DEFINE d == [k \in 1 .. n + 1 |-> IF k <= n THEN c ELSE NUL]
  <2>1. d \in Seq(Char)
    <3>1. d \in [1 .. n + 1 -> Char] /\ n + 1 \in Nat
      BY <1>3, CharAssumption DEF NUL
    <3> QED BY <3>1
  <2>2. n + 1 \in DOMAIN d /\ d[n + 1] = NUL
    BY <1>3
  <2>3. Terminated(d)
    BY <2>2 DEF Terminated, Zeros
  <2>4. Makes(d, [k \in 1 .. n |-> c], FALSE, FALSE)
    BY <1>3 DEF _make_string
  <2> HIDE DEF d
  <2> QED BY <2>1, <2>3, <2>4, MakesKeeps
<1> QED BY <1>1, <1>2, <1>3

LEMMA StringLengthKeeps ==
  ASSUME StringInv, NEW i \in DOMAIN block, _string_length(i)
  PROVE  StringInv'
<1>1. CASE Measurable(block[i])
  BY <1>1, ReturnsKeeps DEF _string_length
<1>2. CASE ~Measurable(block[i])
  BY <1>2, ABlock, LengthStops, UndefinedKeeps DEF _string_length
<1> QED BY <1>1, <1>2

LEMMA StringRefKeeps ==
  ASSUME StringInv, NEW i \in DOMAIN block, NEW k \in Index, _string_ref(i, k)
  PROVE  StringInv'
<1>1. CASE ~Measurable(block[i])
  BY <1>1, ABlock, LengthStops, UndefinedKeeps DEF _string_ref
<1>2. CASE Measurable(block[i]) /\ k \notin 0 .. strnlen(block[i])
  BY <1>2, RefusesKeeps DEF _string_ref
<1>3. CASE Measurable(block[i]) /\ k \in 0 .. strnlen(block[i]) /\ k = Len(block[i])
  <2>1. Undefined(FALSE)
    BY <1>3 DEF _string_ref
  <2>2. unsafe
    BY <1>3, ABlock, LengthStops
  <2> QED BY <2>1, <2>2, UndefinedKeeps
<1>4. CASE Measurable(block[i]) /\ k \in 0 .. strnlen(block[i]) /\ k # Len(block[i])
  BY <1>4, ReturnsKeeps DEF _string_ref
<1> QED BY <1>1, <1>2, <1>3, <1>4

LEMMA StringSetKeeps ==
  ASSUME StringInv, NEW i \in DOMAIN block, NEW k \in Index, NEW c \in Characters,
         _string_set(i, k, c)
  PROVE  StringInv'
<1> k \in Int /\ c \in Int /\ block[i] \in Seq(Char)
  BY IndexAssumption, ABlock, Positive
<1>1. CASE kind[i] # "mut_string" \/ c <= 0
  BY <1>1, RefusesKeeps DEF _string_set
<1>2. CASE ~(kind[i] # "mut_string" \/ c <= 0) /\ k \notin 0 .. Len(block[i]) - 1
  BY <1>2, UndefinedKeeps DEF _string_set
<1>3. CASE ~(kind[i] # "mut_string" \/ c <= 0) /\ k \in 0 .. Len(block[i]) - 1
  <2> c \in Char /\ c # NUL
    BY <1>3, Positive
  <2> DEFINE d == [block[i] EXCEPT ![k + 1] = c]
             behind == k >= Scan(block[i])
  <2>1. Writes(i, d, [texts[i] EXCEPT ![k + 1] = c], behind, behind)
    BY <1>3 DEF _string_set
  <2>2. d \in Seq(Char) /\ DOMAIN d = DOMAIN block[i]
    BY <1>3
  <2>3. behind \/ unsafe \/ Terminated(d)
    <3> SUFFICES ASSUME ~behind, ~unsafe PROVE Terminated(d)
      OBVIOUS
    <3>1. Terminated(block[i])
      BY ABlock
    <3>2. Scan(block[i]) \in 0 .. Len(block[i]) - 1
      BY <3>1, ScanStops
    <3>3. d[Scan(block[i]) + 1] = block[i][Scan(block[i]) + 1]
      BY <3>2, <1>3
    <3> HIDE DEF d
    <3> QED BY <3>1, <3>3, <2>2, StaysTerminated
  <2>4. behind \in BOOLEAN
    OBVIOUS
  <2> HIDE DEF d, behind
  <2> QED BY <2>1, <2>2, <2>3, <2>4, WritesKeeps
<1> QED BY <1>1, <1>2, <1>3

LEMMA StringEqKeeps ==
  ASSUME StringInv, NEW i \in DOMAIN block, NEW j \in DOMAIN block, _string_eq(i, j)
  PROVE  StringInv'
<1>1. CASE Measurable(block[i]) /\ Measurable(block[j])
  BY <1>1, ReturnsKeeps DEF _string_eq
<1>2. CASE ~(Measurable(block[i]) /\ Measurable(block[j]))
  BY <1>2, ABlock, LengthStops, UndefinedKeeps DEF _string_eq
<1> QED BY <1>1, <1>2

LEMMA SubstringKeeps ==
  ASSUME StringInv, NEW i \in DOMAIN block, NEW s \in Index, NEW e \in Index,
         _substring(i, s, e)
  PROVE  StringInv'
<1> block[i] \in Seq(Char) /\ s \in Int /\ e \in Int
  BY IndexAssumption, ABlock
<1> DEFINE len == strnlen(block[i])
           refused == s \notin 0 .. len \/ e \notin s .. len
<1>1. CASE ~Measurable(block[i])
  BY <1>1, ABlock, LengthStops, UndefinedKeeps DEF _substring
<1>2. CASE Measurable(block[i]) /\ refused
  BY <1>2, RefusesKeeps DEF _substring
<1>3. CASE Measurable(block[i]) /\ ~refused
  <2>1. Makes(Prefix(block[i], e - s), SubSeq(texts[i], s + 1, e), s # 0, FALSE)
    BY <1>3 DEF _substring
  <2>2. len \in Nat /\ len <= Len(block[i])
    BY <1>3, LengthAssumption, MeasuredInBlock
  <2>3. SubSeq(block[i], 1, e - s) \in Seq(Char)
    BY <1>3, <2>2
  <2>4. Prefix(block[i], e - s) \in Seq(Char) /\ Terminated(Prefix(block[i], e - s))
    BY <2>3, EndsInNul DEF Prefix
  <2> QED BY <2>1, <2>4, MakesKeeps
<1> QED BY <1>1, <1>2, <1>3

LEMMA StringAppendKeeps ==
  ASSUME StringInv, NEW i \in DOMAIN block, NEW j \in DOMAIN block, _string_append(i, j)
  PROVE  StringInv'
<1> block[i] \in Seq(Char) /\ block[j] \in Seq(Char)
  BY ABlock
<1>1. CASE Measurable(block[i]) /\ Measurable(block[j])
  <2>1. PICK g \in Char :
          Makes(Append(Measured(block[i]) \o Measured(block[j]), g), texts[i] \o texts[j],
                g # NUL \/ Long(block[i]) \/ Long(block[j]), TRUE)
    BY <1>1 DEF _string_append, Garbage
  <2>2. Measured(block[i]) \in Seq(Char) /\ Measured(block[j]) \in Seq(Char)
    BY <1>1, MeasuredInBlock DEF Measured
  <2>3. Append(Measured(block[i]) \o Measured(block[j]), g) \in Seq(Char)
    BY <2>2
  <2> QED BY <2>1, <2>3, MakesKeeps
<1>2. CASE ~(Measurable(block[i]) /\ Measurable(block[j]))
  BY <1>2, ABlock, LengthStops, UndefinedKeeps DEF _string_append
<1> QED BY <1>1, <1>2

LEMMA FromBufferKeeps ==
  ASSUME StringInv, NEW cs \in Seq(Char), NEW s, FromBuffer(cs, s)
  PROVE  StringInv'
<1>1. CASE Len(cs) >= MAX_STR_LEN
  BY <1>1, UndefinedKeeps DEF FromBuffer
<1>2. CASE ~(Len(cs) >= MAX_STR_LEN)
  BY <1>2, MakesKeeps DEF FromBuffer
<1> QED BY <1>1, <1>2

LEMMA LinesAreBytes == Line \subseteq Seq(Char)
BY BoundAssumption DEF Line

LEMMA ListToStringKeeps ==
  ASSUME StringInv, NEW cs \in Line, _list_to_string(cs)
  PROVE  StringInv'
BY LinesAreBytes, FromBufferKeeps DEF _list_to_string

LEMMA ReadLineKeeps ==
  ASSUME StringInv, NEW line \in Line, _read_line(line)
  PROVE  StringInv'
<1>1. Append(line, Newline) \in Seq(Char)
  BY LinesAreBytes, CharAssumption
<1> QED BY <1>1, FromBufferKeeps DEF _read_line

LEMMA ReadCharKeeps ==
  ASSUME StringInv, NEW c \in Char, _read_char(c)
  PROVE  StringInv'
BY ReturnsKeeps DEF _read_char

(* Bytes laid over a range in front of the terminator leave it there.       *)
LEMMA OverlaidKeeps ==
  ASSUME NEW b \in Seq(Char), NEW at \in Nat, NEW bytes \in Seq(Char)
  PROVE  /\ Overlaid(b, at, bytes) \in Seq(Char)
         /\ Terminated(b) /\ at + Len(bytes) <= Scan(b) => Terminated(Overlaid(b, at, bytes))
<1> DEFINE d == Overlaid(b, at, bytes)
<1>1. d \in Seq(Char) /\ DOMAIN d = DOMAIN b
  <2>1. \A k \in DOMAIN b : (IF k \in at + 1 .. at + Len(bytes) THEN bytes[k - at] ELSE b[k]) \in Char
    OBVIOUS
  <2>2. d \in [1 .. Len(b) -> Char]
    BY <2>1 DEF Overlaid
  <2> QED BY <2>2
<1>2. ASSUME Terminated(b), at + Len(bytes) <= Scan(b) PROVE Terminated(d)
  <2>1. Scan(b) \in 0 .. Len(b) - 1
    BY <1>2, ScanStops
  <2>2. d[Scan(b) + 1] = b[Scan(b) + 1]
    BY <1>2, <2>1 DEF Overlaid
  <2> HIDE DEF d
  <2> QED BY <1>1, <1>2, <2>2, StaysTerminated
<1> QED BY <1>1, <1>2

(* strncpy reads inside a source that is long enough or has its NUL.        *)
LEMMA CopiedIsBytes ==
  ASSUME NEW b \in Seq(Char), NEW s \in Nat, NEW n \in Nat, CopyInBlock(b, s, n)
  PROVE  Copied(b, s, n) \in Seq(Char) /\ Len(Copied(b, s, n)) = n
<1>1. ASSUME NEW k \in 1 .. n, ~(\E z \in Zeros(b) : s < z /\ z <= s + k)
      PROVE  b[s + k] \in Char
  <2>1. s + k <= Len(b)
    <3>1. CASE s + n <= Len(b)
      BY <3>1
    <3>2. CASE \E z \in Zeros(b) : s < z
      <4>1. PICK z \in Zeros(b) : s < z
        BY <3>2
      <4>2. z \in 1 .. Len(b)
        BY DEF Zeros
      <4> QED BY <1>1, <4>1, <4>2
    <3> QED BY <3>1, <3>2 DEF CopyInBlock
  <2> QED BY <2>1
<1>2. Copied(b, s, n) \in [1 .. n -> Char]
  BY <1>1, CharAssumption DEF Copied, NUL
<1> QED BY <1>2

LEMMA CopyKeeps ==
  ASSUME StringInv, NEW i \in DOMAIN block, NEW j \in DOMAIN block,
         NEW at \in Index, NEW s \in Index, NEW e \in Index,
         _string_copy_side_effect(i, at, j, s, e)
  PROVE  StringInv'
<1> /\ block[i] \in Seq(Char) /\ block[j] \in Seq(Char)
    /\ at \in Int /\ s \in Int /\ e \in Int
  BY IndexAssumption, ABlock
<1> DEFINE len == strnlen(block[i])
           beyond == e > Scan(block[j])
           refused == \/ at \notin 0 .. len \/ s \notin 0 .. len \/ e \notin s .. len
                      \/ len - at < e - s
<1> beyond \in BOOLEAN
  OBVIOUS
<1>1. CASE ~Measurable(block[i])
  BY <1>1, ABlock, LengthStops, UndefinedKeeps DEF _string_copy_side_effect
<1>2. CASE Measurable(block[i]) /\ refused
  BY <1>2, RefusesKeeps DEF _string_copy_side_effect
<1>3. CASE Measurable(block[i]) /\ ~refused /\ ~CopyInBlock(block[j], s, e - s)
  <2>1. Undefined(beyond)
    BY <1>3 DEF _string_copy_side_effect
  <2>2. ~unsafe => beyond
    <3> SUFFICES ASSUME ~unsafe, ~beyond PROVE FALSE
      OBVIOUS
    <3>1. Scan(block[j]) \in 0 .. Len(block[j]) - 1
      BY ABlock, ScanStops
    <3>2. s + (e - s) <= Len(block[j])
      BY <3>1
    <3> QED BY <3>2, <1>3 DEF CopyInBlock
  <2> HIDE DEF beyond
  <2> QED BY <2>1, <2>2, UndefinedKeeps
<1>4. CASE /\ Measurable(block[i]) /\ ~refused /\ CopyInBlock(block[j], s, e - s)
           /\ i = j /\ Overlap(at, s, e - s)
  BY <1>4, UndefinedKeeps DEF _string_copy_side_effect
<1>5. CASE /\ Measurable(block[i]) /\ ~refused /\ CopyInBlock(block[j], s, e - s)
           /\ ~(i = j /\ Overlap(at, s, e - s))
  <2> DEFINE bytes == Copied(block[j], s, e - s)
             d == Overlaid(block[i], at, bytes)
  <2>1. Writes(i, d, Overlaid(texts[i], at, SubSeq(texts[j], s + 1, e)),
               beyond \/ kind[i] = "string", beyond)
    BY <1>5 DEF _string_copy_side_effect
  <2>2. len \in Nat /\ at \in Nat /\ s \in Nat /\ e - s \in Nat /\ at + (e - s) <= len
    BY <1>5, MeasuredInBlock
  <2>3. bytes \in Seq(Char) /\ Len(bytes) = e - s
    BY <1>5, <2>2, CopiedIsBytes
  <2> HIDE DEF bytes, beyond
  <2>4. d \in Seq(Char)
    BY <2>2, <2>3, OverlaidKeeps
  <2>5. unsafe \/ Terminated(d)
    <3> SUFFICES ASSUME ~unsafe PROVE Terminated(d)
      OBVIOUS
    <3>1. Terminated(block[i]) /\ len <= Scan(block[i]) /\ Scan(block[i]) \in Nat
      BY ABlock, LengthStops
    <3> HIDE DEF len
    <3>2. at + Len(bytes) <= Scan(block[i])
      BY <3>1, <2>2, <2>3
    <3> QED BY <3>1, <3>2, <2>2, <2>3, OverlaidKeeps
  <2> HIDE DEF d
  <2> QED BY <2>1, <2>4, <2>5, WritesKeeps
<1> QED BY <1>1, <1>2, <1>3, <1>4, <1>5

LEMMA FillKeeps ==
  ASSUME StringInv, NEW i \in DOMAIN block, NEW c \in Char, NEW s \in Index, NEW e \in Index,
         _string_fill(i, c, s, e)
  PROVE  StringInv'
<1> block[i] \in Seq(Char) /\ s \in Int /\ e \in Int
  BY IndexAssumption, ABlock
<1> DEFINE len == strnlen(block[i])
           refused == s \notin 0 .. len \/ e \notin s .. len
<1>1. CASE ~Measurable(block[i])
  BY <1>1, ABlock, LengthStops, UndefinedKeeps DEF _string_fill
<1>2. CASE Measurable(block[i]) /\ refused
  BY <1>2, RefusesKeeps DEF _string_fill
<1>3. CASE Measurable(block[i]) /\ ~refused
  <2> DEFINE d == [k \in DOMAIN block[i] |-> IF k \in FillRange(s, e) THEN c ELSE block[i][k]]
  <2>1. Writes(i, d, Overlaid(texts[i], s, [k \in 1 .. e - s |-> c]),
               kind[i] = "string" \/ (c = NUL /\ s < e), FALSE)
    BY <1>3 DEF _string_fill
  <2>2. d \in Seq(Char) /\ DOMAIN d = DOMAIN block[i]
    <3>1. d \in [1 .. Len(block[i]) -> Char]
      OBVIOUS
    <3> QED BY <3>1
  <2>3. unsafe \/ Terminated(d)
    <3> SUFFICES ASSUME ~unsafe PROVE Terminated(d)
      OBVIOUS
    <3>1. /\ Terminated(block[i]) /\ len <= Scan(block[i]) /\ len \in Nat
          /\ Scan(block[i]) \in 0 .. Len(block[i]) - 1
      BY ABlock, LengthStops, ScanStops
    <3>2. e <= Scan(block[i])
      BY <1>3, <3>1
    <3>3. Scan(block[i]) + 1 \notin FillRange(s, e)
      BY <3>1, <3>2 DEF FillRange
    <3>4. d[Scan(block[i]) + 1] = block[i][Scan(block[i]) + 1]
      BY <3>1, <3>3
    <3> HIDE DEF d
    <3> QED BY <3>1, <3>4, <2>2, StaysTerminated
  <2> HIDE DEF d
  <2> QED BY <2>1, <2>2, <2>3, WritesKeeps
<1> QED BY <1>1, <1>2, <1>3

------------------------------------------------------------------------------
LEMMA StringInitInv == StringInit => StringInv
<1> SUFFICES ASSUME StringInit PROVE StringInv
  OBVIOUS
<1>1. ASSUME NEW i \in DOMAIN StringLiteral
      PROVE  StringLiteral[i] \in Seq(Char)
  <2>1. StringLiteral[i] \in Seq(Char \ {0})
    BY LiteralAssumption
  <2> QED BY <2>1
<1>2. ASSUME NEW i \in DOMAIN block
      PROVE  block[i] \in Seq(Char) /\ Terminated(block[i])
  <2>1. i \in DOMAIN StringLiteral /\ block[i] = Append(StringLiteral[i], NUL)
    BY DEF StringInit
  <2> QED BY <2>1, <1>1, EndsInNul
<1>3. Len(StringLiteral) \in Nat /\ DOMAIN block = 1 .. Len(StringLiteral)
  BY LiteralAssumption DEF StringInit
<1>4. block \in [1 .. Len(StringLiteral) -> Seq(Char)]
  BY <1>2, <1>3 DEF StringInit
<1>5. block \in Seq(Seq(Char))
  BY <1>3, <1>4
<1> QED BY <1>2, <1>5 DEF StringInv, StringTypeOK, InBlocks, StringInit, MachineInit

LEMMA StringNextInv == StringInv /\ [StringNext]_stringVars => StringInv'
<1> SUFFICES ASSUME StringInv, [StringNext]_stringVars PROVE StringInv'
  OBVIOUS
<1>1. CASE \E n \in Index, c \in Characters : _make_string(n, c)
  BY <1>1, MakeStringKeeps
<1>2. CASE \E i \in DOMAIN block : _string_length(i)
  BY <1>2, StringLengthKeeps
<1>3. CASE \E i \in DOMAIN block, k \in Index : _string_ref(i, k)
  BY <1>3, StringRefKeeps
<1>4. CASE \E i \in DOMAIN block, k \in Index, c \in Characters : _string_set(i, k, c)
  BY <1>4, StringSetKeeps
<1>5. CASE \E i, j \in DOMAIN block : _string_eq(i, j) \/ _string_append(i, j)
  BY <1>5, StringEqKeeps, StringAppendKeeps
<1>6. CASE \E i \in DOMAIN block, s, e \in Index : _substring(i, s, e)
  BY <1>6, SubstringKeeps
<1>7. CASE \E line \in Line : _list_to_string(line) \/ _read_line(line)
  BY <1>7, ListToStringKeeps, ReadLineKeeps
<1>8. CASE \E c \in Char : _read_char(c)
  BY <1>8, ReadCharKeeps
<1>9. CASE \E i, j \in DOMAIN block, at, s, e \in Index : _string_copy_side_effect(i, at, j, s, e)
  BY <1>9, CopyKeeps
<1>10. CASE \E i \in DOMAIN block, c \in Char, s, e \in Index : _string_fill(i, c, s, e)
  BY <1>10, FillKeeps
<1>11. CASE UNCHANGED stringVars
  BY <1>11 DEF stringVars, bytesVars, machineVars, StringInv, StringTypeOK, InBlocks, Terminated, Zeros
<1> QED
  BY <1>1, <1>2, <1>3, <1>4, <1>5, <1>6, <1>7, <1>8, <1>9, <1>10, <1>11 DEF StringNext

(* Until an unchecked call is made (string-set! beyond the text, string-    *)
(* copy! beyond its source or onto an overlapping part of it, string-       *)
(* append, list->string, read-line, a negative make-string), strings are    *)
(* terminated inside their blocks and no primitive of str.c reads or writes *)
(* outside one.                                                             *)
THEOREM StringsStayInBlocks == StringSpec => []InBlocks
<1>1. StringInv => InBlocks
  BY DEF StringInv
<1>2. StringInit => StringInv
  BY StringInitInv
<1>3. StringInv /\ [StringNext]_stringVars => StringInv'
  BY StringNextInv
<1> QED BY <1>1, <1>2, <1>3, PTL DEF StringSpec
------------------------------------------------------------------------------
(* Strings behave as texts.                                                 *)

(* As long as nothing strayed, the texts R7RS promises are those in memory. *)
TextsMatch == ~strayed => answer = promised /\ texts = [i \in DOMAIN block |-> Text(block[i])]

(* The scan passes over characters only and stops at a NUL or at the end.   *)
LEMMA ScanFacts ==
  ASSUME NEW b \in Seq(Char)
  PROVE  /\ Scan(b) \in 0 .. Len(b)
         /\ \A k \in 1 .. Scan(b) : b[k] # NUL
         /\ Scan(b) = Len(b) \/ b[Scan(b) + 1] = NUL
<1>1. CASE Terminated(b)
  BY <1>1, ScanStops
<1>2. CASE ~Terminated(b)
  BY <1>2 DEF Scan, Terminated, Zeros
<1> QED BY <1>1, <1>2

(* There is only one such place.                                            *)
LEMMA ScanIs ==
  ASSUME NEW b \in Seq(Char), NEW n \in 0 .. Len(b), \A k \in 1 .. n : b[k] # NUL,
         n = Len(b) \/ b[n + 1] = NUL
  PROVE  Scan(b) = n
<1> DEFINE m == Scan(b)
<1>1. m \in 0 .. Len(b) /\ (\A k \in 1 .. m : b[k] # NUL) /\ (m = Len(b) \/ b[m + 1] = NUL)
  BY ScanFacts
<1> HIDE DEF m
<1>2. ~(m < n)
  <2> SUFFICES ASSUME m < n PROVE FALSE
    OBVIOUS
  <2>1. m + 1 \in 1 .. n /\ m # Len(b)
    BY <1>1
  <2> QED BY <2>1, <1>1
<1>3. ~(n < m)
  <2> SUFFICES ASSUME n < m PROVE FALSE
    OBVIOUS
  <2>1. n + 1 \in 1 .. m /\ n # Len(b)
    BY <1>1
  <2> QED BY <2>1, <1>1
<1>4. m = n
  BY <1>1, <1>2, <1>3
<1> QED BY <1>4 DEF m

(* The text of a string.                                                    *)
LEMMA TextFacts ==
  ASSUME NEW b \in Seq(Char)
  PROVE  /\ Text(b) \in Seq(Char) /\ Len(Text(b)) = Scan(b) /\ DOMAIN Text(b) = 1 .. Scan(b)
         /\ \A k \in 1 .. Scan(b) : Text(b)[k] = b[k] /\ Text(b)[k] # NUL
BY ScanFacts DEF Text

(* A sequence is the text of a string if it has no NUL and the string goes  *)
(* on with one or ends.                                                     *)
LEMMA TextIs ==
  ASSUME NEW b \in Seq(Char), NEW t \in Seq(Char), Len(t) <= Len(b),
         \A k \in 1 .. Len(t) : b[k] = t[k] /\ t[k] # NUL,
         Len(t) = Len(b) \/ b[Len(t) + 1] = NUL
  PROVE  Text(b) = t
<1>1. Len(t) \in 0 .. Len(b)
  OBVIOUS
<1>2. Scan(b) = Len(t)
  BY <1>1, ScanIs
<1>3. DOMAIN Text(b) = 1 .. Len(t) /\ \A k \in 1 .. Len(t) : Text(b)[k] = b[k]
  BY <1>2, TextFacts
<1>4. Text(b) \in Seq(Char)
  BY TextFacts
<1>5. Len(Text(b)) = Len(t)
  BY <1>2, TextFacts
<1> QED BY <1>3, <1>4, <1>5

(* A text with the NUL behind it.                                           *)
LEMMA TextWithNul ==
  ASSUME NEW t \in Seq(Char), \A k \in 1 .. Len(t) : t[k] # NUL
  PROVE  Text(Append(t, NUL)) = t
<1> DEFINE d == Append(t, NUL)
<1>1. NUL \in Char
  BY CharAssumption DEF NUL
<1>2. /\ d \in Seq(Char) /\ Len(d) = Len(t) + 1 /\ d[Len(t) + 1] = NUL
      /\ \A m \in 1 .. Len(t) : d[m] = t[m]
  BY <1>1
<1> HIDE DEF d
<1>3. Text(d) = t
  BY <1>2, TextIs
<1> QED BY <1>3 DEF d

(* One character of a text overwritten, two texts joined.                   *)
LEMMA Overwritten ==
  ASSUME NEW x \in Seq(Char), NEW k, NEW c \in Char
  PROVE  [x EXCEPT ![k] = c] \in Seq(Char) /\ DOMAIN [x EXCEPT ![k] = c] = DOMAIN x
<1> DEFINE y == [x EXCEPT ![k] = c]
<1>1. DOMAIN y = 1 .. Len(x) /\ Len(x) \in Nat /\ y = [j \in 1 .. Len(x) |-> y[j]]
  OBVIOUS
<1>2. \A j \in 1 .. Len(x) : y[j] \in Char
  OBVIOUS
<1> HIDE DEF y
<1>3. y \in Seq(Char) /\ DOMAIN y = DOMAIN x
  BY <1>1, <1>2
<1> QED BY <1>3 DEF y

LEMMA Joined ==
  ASSUME NEW x \in Seq(Char), NEW y \in Seq(Char),
         \A k \in 1 .. Len(x) : x[k] # NUL, \A k \in 1 .. Len(y) : y[k] # NUL
  PROVE  x \o y \in Seq(Char) /\ \A k \in 1 .. Len(x \o y) : (x \o y)[k] # NUL
<1>1. ASSUME NEW k \in 1 .. Len(x \o y) PROVE (x \o y)[k] # NUL
  <2>1. CASE k <= Len(x)
    <3>1. k \in 1 .. Len(x) /\ (x \o y)[k] = x[k]
      BY <2>1
    <3> QED BY <3>1
  <2>2. CASE k > Len(x)
    <3>1. k - Len(x) \in 1 .. Len(y) /\ (x \o y)[k] = y[k - Len(x)]
      BY <2>2
    <3> QED BY <3>1
  <2> QED BY <2>1, <2>2
<1> QED BY <1>1

(* A write inside the text that writes no NUL.                              *)
LEMMA TextAfterWrite ==
  ASSUME NEW b \in Seq(Char), NEW d \in Seq(Char), DOMAIN d = DOMAIN b,
         NEW t \in Seq(Char), DOMAIN t = 1 .. Scan(b),
         \A k \in 1 .. Scan(b) : d[k] = t[k] /\ t[k] # NUL,
         \A k \in DOMAIN b : k > Scan(b) => d[k] = b[k]
  PROVE  Text(d) = t
<1>1. Scan(b) \in 0 .. Len(b) /\ (Scan(b) = Len(b) \/ b[Scan(b) + 1] = NUL)
  BY ScanFacts
<1>2. Len(t) = Scan(b) /\ Len(d) = Len(b)
  BY <1>1
<1>3. Len(t) = Len(d) \/ d[Len(t) + 1] = NUL
  BY <1>1, <1>2
<1> QED BY <1>1, <1>2, <1>3, TextIs

LEMMA ATextIs ==
  ASSUME StringInv, TextsMatch, ~strayed, NEW i \in DOMAIN block
  PROVE  /\ texts[i] = Text(block[i]) /\ texts[i] \in Seq(Char)
         /\ Len(texts[i]) = Scan(block[i]) /\ DOMAIN texts[i] = 1 .. Scan(block[i])
         /\ Scan(block[i]) \in 0 .. Len(block[i])
         /\ \A k \in 1 .. Scan(block[i]) : texts[i][k] = block[i][k] /\ texts[i][k] # NUL
<1>1. texts[i] = Text(block[i])
  BY DEF TextsMatch
<1>2. block[i] \in Seq(Char)
  BY ABlock
<1> QED BY <1>1, <1>2, TextFacts, ScanFacts

------------------------------------------------------------------------------
(* How a call can end.                                                      *)

LEMMA RefusesTexts == TextsMatch /\ Refuses => TextsMatch'
BY DEF TextsMatch, Refuses, promises

LEMMA UndefinedTexts ==
  ASSUME NEW u, Undefined(u)
  PROVE  TextsMatch'
BY DEF TextsMatch, Undefined, Promises, Strays

LEMMA ReturnsTexts ==
  ASSUME NEW v, NEW p, NEW s \in BOOLEAN, TextsMatch, Returns(v, p, s),
         ~strayed /\ ~s => v = p
  PROVE  TextsMatch'
BY DEF TextsMatch, Returns, Promises, Strays

LEMMA MakesTexts ==
  ASSUME NEW d, NEW t, NEW s \in BOOLEAN, NEW u, StringInv, TextsMatch, Makes(d, t, s, u),
         ~strayed /\ ~s => t = Text(d)
  PROVE  TextsMatch'
<1> SUFFICES ASSUME ~strayed'
             PROVE  answer' = promised' /\ texts' = [i \in DOMAIN block' |-> Text(block'[i])]
  BY DEF TextsMatch
<1>1. ~strayed /\ ~s
  BY DEF Makes, Promises, Strays
<1>2. /\ texts' = Append(texts, t) /\ block' = Append(block, d)
      /\ answer' = NoAnswer /\ promised' = NoAnswer
  BY DEF Makes, Promises
<1>3. t = Text(d)
  BY <1>1
<1>4. block \in Seq(Seq(Char)) /\ texts = [i \in DOMAIN block |-> Text(block[i])]
  BY <1>1 DEF TextsMatch, StringInv, StringTypeOK
<1>5. DOMAIN block = 1 .. Len(block) /\ Len(block) \in Nat
  BY <1>4
<1>6. texts \in Seq({Text(block[i]) : i \in DOMAIN block}) /\ Len(texts) = Len(block)
  BY <1>4, <1>5
<1> DEFINE n == Len(block)
<1>7. /\ DOMAIN texts' = 1 .. n + 1 /\ texts'[n + 1] = t
      /\ \A i \in 1 .. n : texts'[i] = texts[i]
  BY <1>2, <1>6
<1>8. /\ DOMAIN block' = 1 .. n + 1 /\ block'[n + 1] = d
      /\ \A i \in 1 .. n : block'[i] = block[i]
  BY <1>2, <1>4
<1>9. texts' = [i \in 1 .. n + 1 |-> texts'[i]]
  <2>1. texts' \in Seq({Text(block[i]) : i \in DOMAIN block} \cup {t})
    BY <1>2, <1>6
  <2> QED BY <2>1, <1>7
<1> HIDE DEF n
<1>10. ASSUME NEW i \in 1 .. n + 1 PROVE texts'[i] = Text(block'[i])
  <2>1. CASE i = n + 1
    BY <2>1, <1>3, <1>7, <1>8
  <2>2. CASE i # n + 1
    <3>1. i \in 1 .. n
      BY <2>2, <1>5 DEF n
    <3> QED BY <3>1, <1>4, <1>5, <1>7, <1>8 DEF n
  <2> QED BY <2>1, <2>2
<1> QED BY <1>2, <1>8, <1>9, <1>10

LEMMA WritesTexts ==
  ASSUME NEW i \in DOMAIN block, NEW d, NEW t, NEW s \in BOOLEAN, NEW u, StringInv, TextsMatch,
         Writes(i, d, t, s, u), ~strayed /\ ~s => t = Text(d)
  PROVE  TextsMatch'
<1> SUFFICES ASSUME ~strayed'
             PROVE  answer' = promised' /\ texts' = [j \in DOMAIN block' |-> Text(block'[j])]
  BY DEF TextsMatch
<1>1. ~strayed /\ ~s
  BY DEF Writes, Promises, Strays
<1>2. /\ texts' = [texts EXCEPT ![i] = t] /\ block' = [block EXCEPT ![i] = d]
      /\ answer' = NoAnswer /\ promised' = NoAnswer
  BY DEF Writes, Promises
<1>3. t = Text(d)
  BY <1>1
<1>4. texts = [j \in DOMAIN block |-> Text(block[j])]
  BY <1>1 DEF TextsMatch
<1> QED BY <1>2, <1>3, <1>4

------------------------------------------------------------------------------
(* The primitives.                                                          *)

LEMMA MakeStringTexts ==
  ASSUME StringInv, TextsMatch, NEW n \in Index, NEW c \in Characters, _make_string(n, c)
  PROVE  TextsMatch'
<1> n \in Int /\ c \in Int
  BY IndexAssumption, Positive
<1>1. CASE c <= 0
  BY <1>1, RefusesTexts DEF _make_string
<1>2. CASE ~(c <= 0) /\ n < 0
  BY <1>2, UndefinedTexts DEF _make_string
<1>3. CASE ~(c <= 0) /\ ~(n < 0)
  <2> c \in Char /\ c # NUL
    BY <1>3, Positive
  <2> DEFINE d == [k \in 1 .. n + 1 |-> IF k <= n THEN c ELSE NUL]
             t == [k \in 1 .. n |-> c]
  <2>1. d \in Seq(Char) /\ Len(d) = n + 1
    <3>1. d \in [1 .. n + 1 -> Char] /\ n + 1 \in Nat
      BY <1>3, CharAssumption DEF NUL
    <3> QED BY <3>1
  <2>2. t \in Seq(Char) /\ Len(t) = n
    <3>1. t \in [1 .. n -> Char] /\ n \in Nat
      BY <1>3
    <3> QED BY <3>1
  <2>3. d[n + 1] = NUL /\ \A k \in 1 .. n : d[k] = t[k] /\ t[k] # NUL
    BY <1>3
  <2>4. Makes(d, t, FALSE, FALSE)
    BY <1>3 DEF _make_string
  <2> HIDE DEF d, t
  <2>5. Text(d) = t
    BY <2>1, <2>2, <2>3, TextIs
  <2> QED BY <2>4, <2>5, MakesTexts
<1> QED BY <1>1, <1>2, <1>3

LEMMA StringLengthTexts ==
  ASSUME StringInv, TextsMatch, NEW i \in DOMAIN block, _string_length(i)
  PROVE  TextsMatch'
<1>1. CASE Measurable(block[i])
  <2>1. Returns(strnlen(block[i]), Len(texts[i]), Long(block[i]))
    BY <1>1 DEF _string_length
  <2>2. ~strayed /\ ~Long(block[i]) => strnlen(block[i]) = Len(texts[i])
    BY ATextIs DEF Long, strnlen
  <2>3. Long(block[i]) \in BOOLEAN
    BY DEF Long
  <2> QED BY <2>1, <2>2, <2>3, ReturnsTexts
<1>2. CASE ~Measurable(block[i])
  BY <1>2, UndefinedTexts DEF _string_length
<1> QED BY <1>1, <1>2

LEMMA StringRefTexts ==
  ASSUME StringInv, TextsMatch, NEW i \in DOMAIN block, NEW k \in Index, _string_ref(i, k)
  PROVE  TextsMatch'
<1>1. CASE ~Measurable(block[i])
  BY <1>1, UndefinedTexts DEF _string_ref
<1>2. CASE Measurable(block[i]) /\ k \notin 0 .. strnlen(block[i])
  BY <1>2, RefusesTexts DEF _string_ref
<1>3. CASE Measurable(block[i]) /\ k \in 0 .. strnlen(block[i]) /\ k = Len(block[i])
  BY <1>3, UndefinedTexts DEF _string_ref
<1>4. CASE Measurable(block[i]) /\ k \in 0 .. strnlen(block[i]) /\ k # Len(block[i])
  <2> DEFINE c == block[i][k + 1]
             strays == k >= Scan(block[i]) \/ AsObject(c) # c
  <2>1. Returns(AsObject(c), texts[i][k + 1], strays)
    BY <1>4 DEF _string_ref
  <2>2. ASSUME ~strayed, ~(k >= Scan(block[i])) PROVE block[i][k + 1] = texts[i][k + 1]
    <3>1. k + 1 \in 1 .. Scan(block[i])
      BY <2>2, <1>4, ATextIs
    <3> QED BY <3>1, <2>2, ATextIs
  <2>3. strays \in BOOLEAN /\ (~strayed /\ ~strays => AsObject(c) = texts[i][k + 1])
    BY <2>2
  <2> HIDE DEF strays
  <2> QED BY <2>1, <2>3, ReturnsTexts
<1> QED BY <1>1, <1>2, <1>3, <1>4

LEMMA StringSetTexts ==
  ASSUME StringInv, TextsMatch, NEW i \in DOMAIN block, NEW k \in Index, NEW c \in Characters,
         _string_set(i, k, c)
  PROVE  TextsMatch'
<1> k \in Int /\ c \in Int /\ block[i] \in Seq(Char)
  BY IndexAssumption, ABlock, Positive
<1>1. CASE kind[i] # "mut_string" \/ c <= 0
  BY <1>1, RefusesTexts DEF _string_set
<1>2. CASE ~(kind[i] # "mut_string" \/ c <= 0) /\ k \notin 0 .. Len(block[i]) - 1
  BY <1>2, UndefinedTexts DEF _string_set
<1>3. CASE ~(kind[i] # "mut_string" \/ c <= 0) /\ k \in 0 .. Len(block[i]) - 1
  <2> c \in Char /\ c # NUL
    BY <1>3, Positive
  <2> DEFINE d == [block[i] EXCEPT ![k + 1] = c]
             t == [texts[i] EXCEPT ![k + 1] = c]
             behind == k >= Scan(block[i])
  <2>1. Writes(i, d, t, behind, behind)
    BY <1>3 DEF _string_set
  <2>2. d \in Seq(Char) /\ DOMAIN d = DOMAIN block[i]
    BY <1>3
  <2>3. ASSUME ~strayed, ~behind PROVE t = Text(d)
    <3>1. /\ texts[i] \in Seq(Char) /\ DOMAIN texts[i] = 1 .. Scan(block[i])
          /\ Scan(block[i]) \in 0 .. Len(block[i])
          /\ \A m \in 1 .. Scan(block[i]) : texts[i][m] = block[i][m] /\ texts[i][m] # NUL
      BY <2>3, ATextIs
    <3>2. t \in Seq(Char) /\ DOMAIN t = 1 .. Scan(block[i])
      <4>1. t \in Seq(Char) /\ DOMAIN t = DOMAIN texts[i]
        BY <3>1, Overwritten
      <4> QED BY <3>1, <4>1
    <3>3. \A m \in 1 .. Scan(block[i]) : d[m] = t[m] /\ t[m] # NUL
      BY <3>1, <1>3
    <3>4. \A m \in DOMAIN block[i] : m > Scan(block[i]) => d[m] = block[i][m]
      BY <3>1, <2>3, <1>3
    <3> HIDE DEF d, t
    <3> QED BY <3>2, <3>3, <3>4, <2>2, TextAfterWrite
  <2>4. behind \in BOOLEAN
    OBVIOUS
  <2> HIDE DEF d, t, behind
  <2> QED BY <2>1, <2>3, <2>4, WritesTexts
<1> QED BY <1>1, <1>2, <1>3

LEMMA StringEqTexts ==
  ASSUME StringInv, TextsMatch, NEW i \in DOMAIN block, NEW j \in DOMAIN block, _string_eq(i, j)
  PROVE  TextsMatch'
<1>1. CASE Measurable(block[i]) /\ Measurable(block[j])
  <2> DEFINE v == IF Measured(block[i]) = Measured(block[j]) THEN 1 ELSE 0
             p == IF texts[i] = texts[j] THEN 1 ELSE 0
             s == Long(block[i]) \/ Long(block[j])
  <2>1. Returns(v, p, s)
    BY <1>1 DEF _string_eq
  <2>2. ASSUME ~strayed, ~s PROVE v = p
    <3>1. Measured(block[i]) = Text(block[i]) /\ Measured(block[j]) = Text(block[j])
      BY <2>2 DEF Measured, Text, strnlen, Long
    <3>2. texts[i] = Text(block[i]) /\ texts[j] = Text(block[j])
      BY <2>2, ATextIs
    <3> QED BY <3>1, <3>2
  <2>3. s \in BOOLEAN
    BY DEF Long
  <2> HIDE DEF v, p, s
  <2> QED BY <2>1, <2>2, <2>3, ReturnsTexts
<1>2. CASE ~(Measurable(block[i]) /\ Measurable(block[j]))
  BY <1>2, UndefinedTexts DEF _string_eq
<1> QED BY <1>1, <1>2

LEMMA SubstringTexts ==
  ASSUME StringInv, TextsMatch, NEW i \in DOMAIN block, NEW s \in Index, NEW e \in Index,
         _substring(i, s, e)
  PROVE  TextsMatch'
<1> block[i] \in Seq(Char) /\ s \in Int /\ e \in Int
  BY IndexAssumption, ABlock
<1> DEFINE len == strnlen(block[i])
           refused == s \notin 0 .. len \/ e \notin s .. len
<1>1. CASE ~Measurable(block[i])
  BY <1>1, UndefinedTexts DEF _substring
<1>2. CASE Measurable(block[i]) /\ refused
  BY <1>2, RefusesTexts DEF _substring
<1>3. CASE Measurable(block[i]) /\ ~refused
  <2> DEFINE d == Prefix(block[i], e - s)
             t == SubSeq(texts[i], s + 1, e)
             strays == s # 0
  <2>1. Makes(d, t, strays, FALSE)
    BY <1>3 DEF _substring
  <2>2. ASSUME ~strayed, ~strays PROVE t = Text(d)
    <3>1. /\ texts[i] \in Seq(Char) /\ Len(texts[i]) = Scan(block[i])
          /\ Scan(block[i]) \in 0 .. Len(block[i])
          /\ \A m \in 1 .. Scan(block[i]) : texts[i][m] = block[i][m] /\ texts[i][m] # NUL
      BY <2>2, ATextIs
    <3>2. s = 0 /\ e \in 0 .. Scan(block[i])
      BY <2>2, <1>3, <3>1, LengthAssumption DEF strnlen
    <3>3. t \in Seq(Char) /\ Len(t) = e /\ \A m \in 1 .. e : t[m] = texts[i][m]
      BY <3>1, <3>2
    <3> DEFINE q == SubSeq(block[i], 1, e)
    <3>4. q \in Seq(Char) /\ Len(q) = e /\ \A m \in 1 .. e : q[m] = block[i][m]
      BY <3>1, <3>2
    <3> HIDE DEF q
    <3>5. d = Append(q, NUL)
      BY <3>2 DEF q, Prefix
    <3> HIDE DEF d, t
    <3>6. \A m \in 1 .. e : m \in 1 .. Scan(block[i])
      BY <3>1, <3>2
    <3>7. \A m \in 1 .. e : q[m] = t[m] /\ q[m] # NUL
      BY <3>1, <3>3, <3>4, <3>6
    <3>8. q = t
      BY <3>3, <3>4, <3>7
    <3>9. Text(d) = q
      BY <3>4, <3>5, <3>7, TextWithNul
    <3> QED BY <3>8, <3>9
  <2>3. strays \in BOOLEAN
    OBVIOUS
  <2> HIDE DEF d, t, strays
  <2> QED BY <2>1, <2>2, <2>3, MakesTexts
<1> QED BY <1>1, <1>2, <1>3

LEMMA StringAppendTexts ==
  ASSUME StringInv, TextsMatch, NEW i \in DOMAIN block, NEW j \in DOMAIN block, _string_append(i, j)
  PROVE  TextsMatch'
<1> block[i] \in Seq(Char) /\ block[j] \in Seq(Char)
  BY ABlock
<1>1. CASE Measurable(block[i]) /\ Measurable(block[j])
  <2> DEFINE s(g) == g # NUL \/ Long(block[i]) \/ Long(block[j])
             q == Measured(block[i]) \o Measured(block[j])
             t == texts[i] \o texts[j]
  <2>1. PICK g \in Char : Makes(Append(q, g), t, s(g), TRUE)
    BY <1>1 DEF _string_append, Garbage
  <2>2. ASSUME ~strayed, ~s(g) PROVE t = Text(Append(q, g))
    <3>1. Measured(block[i]) = Text(block[i]) /\ Measured(block[j]) = Text(block[j])
      BY <2>2 DEF Measured, Text, strnlen, Long
    <3>2. texts[i] = Text(block[i]) /\ texts[j] = Text(block[j])
      BY <2>2, ATextIs
    <3>3. q = t /\ g = NUL
      BY <3>1, <3>2, <2>2
    <3>4. /\ texts[i] \in Seq(Char) /\ texts[j] \in Seq(Char)
          /\ \A m \in 1 .. Len(texts[i]) : texts[i][m] # NUL
          /\ \A m \in 1 .. Len(texts[j]) : texts[j][m] # NUL
      BY <2>2, ATextIs
    <3>5. t \in Seq(Char) /\ \A m \in 1 .. Len(t) : t[m] # NUL
      BY <3>4, Joined
    <3> HIDE DEF q, t
    <3> QED BY <3>3, <3>5, TextWithNul
  <2>3. s(g) \in BOOLEAN
    BY DEF Long
  <2> HIDE DEF s, q, t
  <2> QED BY <2>1, <2>2, <2>3, MakesTexts
<1>2. CASE ~(Measurable(block[i]) /\ Measurable(block[j]))
  BY <1>2, UndefinedTexts DEF _string_append
<1> QED BY <1>1, <1>2

LEMMA FromBufferTexts ==
  ASSUME StringInv, TextsMatch, NEW cs \in Seq(Char), NEW s \in BOOLEAN, FromBuffer(cs, s),
         ~s => \A k \in DOMAIN cs : cs[k] # NUL
  PROVE  TextsMatch'
<1>1. CASE Len(cs) >= MAX_STR_LEN
  BY <1>1, UndefinedTexts DEF FromBuffer
<1>2. CASE ~(Len(cs) >= MAX_STR_LEN)
  <2>1. Makes(cs, cs, s, TRUE)
    BY <1>2 DEF FromBuffer
  <2>2. ~s => Text(cs) = cs
    BY TextIs
  <2> QED BY <2>1, <2>2, MakesTexts
<1> QED BY <1>1, <1>2

LEMMA ListToStringTexts ==
  ASSUME StringInv, TextsMatch, NEW cs \in Line, _list_to_string(cs)
  PROVE  TextsMatch'
<1> DEFINE s == \E k \in DOMAIN cs : cs[k] = NUL
<1>1. FromBuffer(cs, s) /\ cs \in Seq(Char)
  BY LinesAreBytes DEF _list_to_string
<1>2. s \in BOOLEAN /\ (~s => \A k \in DOMAIN cs : cs[k] # NUL)
  OBVIOUS
<1> HIDE DEF s
<1> QED BY <1>1, <1>2, FromBufferTexts

LEMMA ReadLineTexts ==
  ASSUME StringInv, TextsMatch, NEW line \in Line, _read_line(line)
  PROVE  TextsMatch'
<1>1. Append(line, Newline) \in Seq(Char)
  BY LinesAreBytes, CharAssumption
<1>2. FromBuffer(Append(line, Newline), TRUE)
  BY DEF _read_line
<1> QED BY <1>1, <1>2, FromBufferTexts

LEMMA ReadCharTexts ==
  ASSUME TextsMatch, NEW c \in Char, _read_char(c)
  PROVE  TextsMatch'
BY ReturnsTexts DEF _read_char

(* Characters laid over a part of the text.                                 *)
LEMMA OverlaidText ==
  ASSUME NEW b \in Seq(Char), NEW at \in Nat, NEW bytes \in Seq(Char),
         at + Len(bytes) <= Scan(b), \A k \in 1 .. Len(bytes) : bytes[k] # NUL
  PROVE  Text(Overlaid(b, at, bytes)) = Overlaid(Text(b), at, bytes)
<1> DEFINE d == Overlaid(b, at, bytes)
           t == Overlaid(Text(b), at, bytes)
           r == at + 1 .. at + Len(bytes)
<1>1. /\ Text(b) \in Seq(Char) /\ DOMAIN Text(b) = 1 .. Scan(b) /\ Scan(b) \in 0 .. Len(b)
      /\ Len(Text(b)) = Scan(b)
      /\ \A k \in 1 .. Scan(b) : Text(b)[k] = b[k] /\ Text(b)[k] # NUL
  BY TextFacts, ScanFacts
<1>2. /\ DOMAIN d = DOMAIN b
      /\ \A k \in DOMAIN b : d[k] = IF k \in r THEN bytes[k - at] ELSE b[k]
  BY DEF Overlaid
<1>3. /\ DOMAIN t = 1 .. Scan(b)
      /\ \A k \in 1 .. Scan(b) : t[k] = IF k \in r THEN bytes[k - at] ELSE b[k]
  BY <1>1 DEF Overlaid
<1>4. \A k \in r : k - at \in 1 .. Len(bytes)
  OBVIOUS
<1>5. d \in Seq(Char)
  BY OverlaidKeeps
<1>6. t \in Seq(Char)
  <2>1. t \in Seq(Char)
    BY <1>1, OverlaidKeeps
  <2> QED BY <2>1
<1> HIDE DEF d, t
<1>7. \A k \in 1 .. Scan(b) : d[k] = t[k] /\ t[k] # NUL
  <2> SUFFICES ASSUME NEW k \in 1 .. Scan(b) PROVE d[k] = t[k] /\ t[k] # NUL
    OBVIOUS
  <2>1. k \in DOMAIN b
    BY <1>1
  <2>2. CASE k \in r
    BY <2>1, <2>2, <1>2, <1>3, <1>4
  <2>3. CASE k \notin r
    BY <2>1, <2>3, <1>1, <1>2, <1>3
  <2> QED BY <2>2, <2>3
<1>8. \A k \in DOMAIN b : k > Scan(b) => d[k] = b[k]
  BY <1>1, <1>2
<1>9. Text(d) = t
  BY <1>2, <1>3, <1>5, <1>6, <1>7, <1>8, TextAfterWrite
<1> QED BY <1>9 DEF d, t

LEMMA CopyTexts ==
  ASSUME StringInv, TextsMatch, NEW i \in DOMAIN block, NEW j \in DOMAIN block,
         NEW at \in Index, NEW s \in Index, NEW e \in Index,
         _string_copy_side_effect(i, at, j, s, e)
  PROVE  TextsMatch'
<1> /\ block[i] \in Seq(Char) /\ block[j] \in Seq(Char)
    /\ at \in Int /\ s \in Int /\ e \in Int
  BY IndexAssumption, ABlock
<1> DEFINE len == strnlen(block[i])
           beyond == e > Scan(block[j])
           refused == \/ at \notin 0 .. len \/ s \notin 0 .. len \/ e \notin s .. len
                      \/ len - at < e - s
<1>1. CASE ~Measurable(block[i])
  BY <1>1, UndefinedTexts DEF _string_copy_side_effect
<1>2. CASE Measurable(block[i]) /\ refused
  BY <1>2, RefusesTexts DEF _string_copy_side_effect
<1>3. CASE Measurable(block[i]) /\ ~refused /\ ~CopyInBlock(block[j], s, e - s)
  BY <1>3, UndefinedTexts DEF _string_copy_side_effect
<1>4. CASE /\ Measurable(block[i]) /\ ~refused /\ CopyInBlock(block[j], s, e - s)
           /\ i = j /\ Overlap(at, s, e - s)
  BY <1>4, UndefinedTexts DEF _string_copy_side_effect
<1>5. CASE /\ Measurable(block[i]) /\ ~refused /\ CopyInBlock(block[j], s, e - s)
           /\ ~(i = j /\ Overlap(at, s, e - s))
  <2> DEFINE bytes == Copied(block[j], s, e - s)
             part == SubSeq(texts[j], s + 1, e)
             d == Overlaid(block[i], at, bytes)
             t == Overlaid(texts[i], at, part)
             strays == beyond \/ kind[i] = "string"
  <2>1. Writes(i, d, t, strays, beyond)
    BY <1>5 DEF _string_copy_side_effect
  <2>2. /\ len \in Nat /\ len <= Scan(block[i])
        /\ at \in Nat /\ s \in Nat /\ e - s \in Nat /\ at + (e - s) <= len
    BY <1>5, MeasuredInBlock, ScanFacts, LengthAssumption DEF strnlen
  <2>3. bytes \in Seq(Char) /\ Len(bytes) = e - s
    BY <1>5, <2>2, CopiedIsBytes
  <2>4. ASSUME ~strayed, ~strays PROVE t = Text(d)
    <3>1. /\ texts[j] \in Seq(Char) /\ Len(texts[j]) = Scan(block[j])
          /\ Scan(block[j]) \in 0 .. Len(block[j])
          /\ \A m \in 1 .. Scan(block[j]) : texts[j][m] = block[j][m] /\ texts[j][m] # NUL
      BY <2>4, ATextIs
    <3>2. e <= Scan(block[j])
      BY <2>4, <3>1
    <3>3. /\ part \in Seq(Char) /\ Len(part) = e - s
          /\ \A k \in 1 .. e - s : part[k] = texts[j][s + k]
      <4> DEFINE u == texts[j]
      <4>1. u \in Seq(Char) /\ s \in 0 .. e /\ e \in 0 .. Len(u)
        BY <2>2, <3>1, <3>2
      <4> HIDE DEF u
      <4>2. /\ SubSeq(u, s + 1, e) \in Seq(Char) /\ Len(SubSeq(u, s + 1, e)) = e - s
            /\ \A k \in 1 .. e - s : SubSeq(u, s + 1, e)[k] = u[s + k]
        BY <4>1
      <4> QED BY <4>2 DEF u
    <3>4. ASSUME NEW k \in 1 .. e - s PROVE bytes[k] = part[k] /\ bytes[k] # NUL
      <4>1. s + k \in 1 .. Scan(block[j])
        <5>1. k \in Nat /\ k >= 1 /\ s + k <= e
          BY <2>2
        <5> QED BY <5>1, <2>2, <3>1, <3>2
      <4>2. ~\E z \in Zeros(block[j]) : s < z /\ z <= s + k
        <5> SUFFICES ASSUME NEW z \in Zeros(block[j]), z <= s + k PROVE FALSE
          OBVIOUS
        <5>1. z \in 1 .. Len(block[j]) /\ block[j][z] = NUL
          BY DEF Zeros
        <5>2. z \in 1 .. Scan(block[j])
          BY <4>1, <5>1, <3>1
        <5> QED BY <5>1, <5>2, <3>1
      <4>3. bytes[k] = block[j][s + k]
        BY <4>2 DEF Copied
      <4>4. part[k] = texts[j][s + k]
        BY <3>3
      <4> QED BY <4>1, <4>3, <4>4, <3>1
    <3> HIDE DEF bytes, part
    <3>5. bytes = part
      BY <2>3, <3>3, <3>4
    <3>6. texts[i] = Text(block[i])
      BY <2>4, ATextIs
    <3>7. at + Len(bytes) <= Scan(block[i]) /\ \A k \in 1 .. Len(bytes) : bytes[k] # NUL
      <4>1. Scan(block[i]) \in Int
        BY ScanFacts
      <4>2. at + (e - s) <= Scan(block[i])
        <5> HIDE DEF len
        <5> QED BY <4>1, <2>2
      <4>3. \A k \in 1 .. e - s : bytes[k] # NUL
        BY <3>4
      <4> QED BY <4>2, <4>3, <2>3
    <3>8. Text(Overlaid(block[i], at, bytes)) = Overlaid(Text(block[i]), at, bytes)
      BY <2>2, <2>3, <3>7, OverlaidText
    <3> QED BY <3>5, <3>6, <3>8
  <2>5. strays \in BOOLEAN
    OBVIOUS
  <2> HIDE DEF d, t, strays, beyond
  <2> QED BY <2>1, <2>4, <2>5, WritesTexts
<1> QED BY <1>1, <1>2, <1>3, <1>4, <1>5

LEMMA FillTexts ==
  ASSUME StringInv, TextsMatch, NEW i \in DOMAIN block, NEW c \in Char,
         NEW s \in Index, NEW e \in Index, _string_fill(i, c, s, e)
  PROVE  TextsMatch'
<1> block[i] \in Seq(Char) /\ s \in Int /\ e \in Int
  BY IndexAssumption, ABlock
<1> DEFINE len == strnlen(block[i])
           refused == s \notin 0 .. len \/ e \notin s .. len
<1>1. CASE ~Measurable(block[i])
  BY <1>1, UndefinedTexts DEF _string_fill
<1>2. CASE Measurable(block[i]) /\ refused
  BY <1>2, RefusesTexts DEF _string_fill
<1>3. CASE Measurable(block[i]) /\ ~refused
  <2> DEFINE d == [k \in DOMAIN block[i] |-> IF k \in FillRange(s, e) THEN c ELSE block[i][k]]
             cs == [k \in 1 .. e - s |-> c]
             t == Overlaid(texts[i], s, cs)
             strays == kind[i] = "string" \/ (c = NUL /\ s < e)
  <2>1. Writes(i, d, t, strays, FALSE)
    BY <1>3 DEF _string_fill
  <2>2. s \in Nat /\ e - s \in Nat /\ e <= Scan(block[i]) /\ Scan(block[i]) \in Int
    BY <1>3, ScanFacts, LengthAssumption DEF strnlen
  <2>3. cs \in Seq(Char) /\ Len(cs) = e - s /\ \A k \in 1 .. e - s : cs[k] = c
    <3>1. cs \in [1 .. e - s -> Char]
      OBVIOUS
    <3> QED BY <3>1, <2>2
  <2>4. d = Overlaid(block[i], s, cs)
    <3>1. s + 1 .. s + Len(cs) = FillRange(s, e)
      BY <2>2, <2>3 DEF FillRange
    <3>2. \A k \in FillRange(s, e) : cs[k - s] = c
      BY <2>2, <2>3 DEF FillRange
    <3> HIDE DEF cs
    <3> QED BY <3>1, <3>2 DEF Overlaid
  <2>5. ASSUME ~strayed, ~strays PROVE t = Text(d)
    <3>1. texts[i] = Text(block[i])
      BY <2>5, ATextIs
    <3>2. s < e => c # NUL
      BY <2>5
    <3>3. s + Len(cs) <= Scan(block[i]) /\ \A k \in 1 .. Len(cs) : cs[k] # NUL
      BY <2>2, <2>3, <3>2
    <3> HIDE DEF cs, d
    <3> QED BY <2>2, <2>3, <2>4, <3>1, <3>3, OverlaidText
  <2>6. strays \in BOOLEAN
    OBVIOUS
  <2> HIDE DEF d, t, strays
  <2> QED BY <2>1, <2>5, <2>6, WritesTexts
<1> QED BY <1>1, <1>2, <1>3

LEMMA TextsAtStart == StringInit => TextsMatch
<1> SUFFICES ASSUME StringInit PROVE TextsMatch
  OBVIOUS
<1>1. /\ block = [i \in DOMAIN StringLiteral |-> Append(StringLiteral[i], NUL)]
      /\ texts = StringLiteral /\ answer = NoAnswer /\ promised = NoAnswer
  BY DEF StringInit
<1>2. ASSUME NEW i \in DOMAIN StringLiteral PROVE Text(block[i]) = StringLiteral[i]
  <2> DEFINE t == StringLiteral[i]
  <2>1. t \in Seq(Char \ {0})
    BY LiteralAssumption
  <2>2. t \in Seq(Char) /\ \A k \in 1 .. Len(t) : t[k] # NUL
    BY <2>1 DEF NUL
  <2> HIDE DEF t
  <2>3. Text(Append(t, NUL)) = t
    BY <2>2, TextWithNul
  <2> QED BY <2>3, <1>1 DEF t
<1>3. StringLiteral = [i \in DOMAIN StringLiteral |-> StringLiteral[i]]
  BY LiteralAssumption
<1>4. DOMAIN block = DOMAIN StringLiteral
  BY <1>1
<1> QED BY <1>1, <1>2, <1>3, <1>4 DEF TextsMatch

LEMMA TextsStep == StringInv /\ TextsMatch /\ [StringNext]_stringVars => TextsMatch'
<1> SUFFICES ASSUME StringInv, TextsMatch, [StringNext]_stringVars PROVE TextsMatch'
  OBVIOUS
<1>1. CASE \E n \in Index, c \in Characters : _make_string(n, c)
  BY <1>1, MakeStringTexts
<1>2. CASE \E i \in DOMAIN block : _string_length(i)
  BY <1>2, StringLengthTexts
<1>3. CASE \E i \in DOMAIN block, k \in Index : _string_ref(i, k)
  BY <1>3, StringRefTexts
<1>4. CASE \E i \in DOMAIN block, k \in Index, c \in Characters : _string_set(i, k, c)
  BY <1>4, StringSetTexts
<1>5. CASE \E i, j \in DOMAIN block : _string_eq(i, j) \/ _string_append(i, j)
  BY <1>5, StringEqTexts, StringAppendTexts
<1>6. CASE \E i \in DOMAIN block, s, e \in Index : _substring(i, s, e)
  BY <1>6, SubstringTexts
<1>7. CASE \E line \in Line : _list_to_string(line) \/ _read_line(line)
  BY <1>7, ListToStringTexts, ReadLineTexts
<1>8. CASE \E c \in Char : _read_char(c)
  BY <1>8, ReadCharTexts
<1>9. CASE \E i, j \in DOMAIN block, at, s, e \in Index : _string_copy_side_effect(i, at, j, s, e)
  BY <1>9, CopyTexts
<1>10. CASE \E i \in DOMAIN block, c \in Char, s, e \in Index : _string_fill(i, c, s, e)
  BY <1>10, FillTexts
<1>11. CASE UNCHANGED stringVars
  BY <1>11 DEF stringVars, bytesVars, promises, machineVars, TextsMatch
<1> QED
  BY <1>1, <1>2, <1>3, <1>4, <1>5, <1>6, <1>7, <1>8, <1>9, <1>10, <1>11 DEF StringNext

(* As long as every call was one R7RS allows and the program is not known   *)
(* to answer otherwise, the bytes, terminators and lengths measured anew    *)
(* give the texts and answers of R7RS, and a call changes no other string.  *)
(* It holds of an unsigned char and of a signed one, whose string-ref and   *)
(* read-char answer otherwise from the character 128 on.                    *)
THEOREM StringsBehaveAsTexts == StringSpec => []StringsAreTexts
<1>1. StringInit => StringInv /\ TextsMatch
  BY StringInitInv, TextsAtStart
<1>2. StringInv /\ TextsMatch /\ [StringNext]_stringVars => (StringInv /\ TextsMatch)'
  BY StringNextInv, TextsStep
<1>3. StringInv /\ TextsMatch => StringsAreTexts
  BY DEF TextsMatch, StringsAreTexts
<1> QED BY <1>1, <1>2, <1>3, PTL DEF StringSpec

------------------------------------------------------------------------------
(* Lists.                                                                   *)

(* Induction, for a set of numbers.                                         *)
LEMMA Induction ==
  ASSUME NEW S, 0 \in S, \A n \in Nat : n \in S => n + 1 \in S
  PROVE  \A n \in Nat : n \in S
<1> DEFINE Bad == {n \in Nat : n \notin S}
<1> SUFFICES ASSUME Bad # {} PROVE FALSE
  OBVIOUS
<1>1. PICK m \in Bad : \A n \in Bad : m <= n
  BY Least
<1>2. m \in Nat /\ m # 0 /\ m - 1 \in Nat
  BY <1>1
<1>3. m - 1 \in S
  BY <1>1, <1>2
<1> QED BY <1>1, <1>2, <1>3

------------------------------------------------------------------------------
(* Sequences of whatever.                                                   *)

IsSeq(s) == s \in Seq({s[i] : i \in DOMAIN s})

(* A sequence is a function on the numbers up to its length.                *)
LEMMA SeqFacts ==
  ASSUME NEW s, IsSeq(s)
  PROVE  Len(s) \in Nat /\ DOMAIN s = 1 .. Len(s) /\ s = [i \in 1 .. Len(s) |-> s[i]]
BY DEF IsSeq

(* A function on the numbers up to n is a sequence.                         *)
LEMMA ASeq ==
  ASSUME NEW n \in Nat, NEW s, s = [i \in 1 .. n |-> s[i]]
  PROVE  IsSeq(s) /\ Len(s) = n
<1>1. \A i \in 1 .. n : s[i] \in {s[j] : j \in DOMAIN s}
  OBVIOUS
<1> DEFINE S == {s[j] : j \in DOMAIN s}
<1>2. s \in [1 .. n -> S]
  BY <1>1
<1> HIDE DEF S
<1>3. s \in Seq(S) /\ Len(s) = n
  BY <1>2
<1> QED BY <1>3 DEF IsSeq, S

(* One whose elements are in a set, too.                                    *)
LEMMA SetSeq ==
  ASSUME NEW S, NEW s \in Seq(S)
  PROVE  IsSeq(s)
BY ASeq

(* Its elements are in the set.                                             *)
LEMMA Elem ==
  ASSUME NEW S, NEW s \in Seq(S), NEW i \in 1 .. Len(s)
  PROVE  s[i] \in S
OBVIOUS

(* One element more.                                                        *)
LEMMA AppendFacts ==
  ASSUME NEW s, IsSeq(s), NEW e
  PROVE  /\ IsSeq(Append(s, e)) /\ Len(Append(s, e)) = Len(s) + 1
         /\ \A i \in 1 .. Len(s) : Append(s, e)[i] = s[i]
         /\ Append(s, e)[Len(s) + 1] = e
<1> DEFINE S == {s[i] : i \in DOMAIN s} \cup {e}
<1>1. s \in Seq(S) /\ e \in S
  <2>1. s = [i \in 1 .. Len(s) |-> s[i]] /\ Len(s) \in Nat /\ DOMAIN s = 1 .. Len(s)
    BY SeqFacts
  <2>2. \A i \in 1 .. Len(s) : s[i] \in S
    BY <2>1
  <2> HIDE DEF S
  <2>3. s \in [1 .. Len(s) -> S]
    BY <2>1, <2>2
  <2> QED BY <2>1, <2>3 DEF S
<1> HIDE DEF S
<1>2. Append(s, e) \in Seq(S)
  BY <1>1
<1>3. IsSeq(Append(s, e))
  BY <1>2, SetSeq
<1> QED BY <1>1, <1>3

(* Two sequences in a row.                                                  *)
LEMMA JoinFacts ==
  ASSUME NEW s, IsSeq(s), NEW t, IsSeq(t)
  PROVE  /\ IsSeq(s \o t) /\ Len(s \o t) = Len(s) + Len(t)
         /\ \A i \in 1 .. Len(s) : (s \o t)[i] = s[i]
         /\ \A i \in 1 .. Len(t) : (s \o t)[Len(s) + i] = t[i]
<1> DEFINE S == {s[i] : i \in DOMAIN s} \cup {t[i] : i \in DOMAIN t}
<1>1. s \in Seq(S)
  <2>1. s = [i \in 1 .. Len(s) |-> s[i]] /\ Len(s) \in Nat /\ DOMAIN s = 1 .. Len(s)
    BY SeqFacts
  <2>2. \A i \in 1 .. Len(s) : s[i] \in S
    BY <2>1
  <2> HIDE DEF S
  <2>3. s \in [1 .. Len(s) -> S]
    BY <2>1, <2>2
  <2> QED BY <2>1, <2>3
<1>2. t \in Seq(S)
  <2>1. t = [i \in 1 .. Len(t) |-> t[i]] /\ Len(t) \in Nat /\ DOMAIN t = 1 .. Len(t)
    BY SeqFacts
  <2>2. \A i \in 1 .. Len(t) : t[i] \in S
    BY <2>1
  <2> HIDE DEF S
  <2>3. t \in [1 .. Len(t) -> S]
    BY <2>1, <2>2
  <2> QED BY <2>1, <2>3
<1> HIDE DEF S
<1>3. s \o t \in Seq(S)
  BY <1>1, <1>2
<1>4. IsSeq(s \o t)
  BY <1>3, SetSeq
<1> QED BY <1>1, <1>2, <1>4

(* Sequences are the same when their elements are.                          *)
LEMMA SameSeq ==
  ASSUME NEW s, IsSeq(s), NEW t, IsSeq(t), Len(s) = Len(t),
         \A i \in 1 .. Len(s) : s[i] = t[i]
  PROVE  s = t
<1>1. s = [i \in 1 .. Len(s) |-> s[i]] /\ t = [i \in 1 .. Len(t) |-> t[i]]
  BY SeqFacts
<1> QED BY <1>1

------------------------------------------------------------------------------
(* The nodes of a list.                                                     *)

\* The nodes from n on are q.
IsChain(nodes, n, q) ==
  /\ q \in Seq(1 .. Len(nodes)) /\ Len(q) <= Len(nodes)
  /\ n = IF q = <<>> THEN NULL ELSE q[1]
  /\ \A k \in 1 .. Len(q) : nodes[q[k]].next = IF k = Len(q) THEN NULL ELSE q[k + 1]

UpTo(q, m) == [k \in 1 .. (IF m <= Len(q) THEN m ELSE Len(q)) |-> q[k]]

(* The first m elements.                                                    *)
LEMMA UpToFacts ==
  ASSUME NEW S, NEW q \in Seq(S), NEW m \in Nat
  PROVE  /\ UpTo(q, m) \in Seq(S) /\ Len(UpTo(q, m)) = IF m <= Len(q) THEN m ELSE Len(q)
         /\ \A k \in 1 .. Len(UpTo(q, m)) : UpTo(q, m)[k] = q[k]
BY DEF UpTo

(* A step of the walk finds the next node.                                  *)
LEMMA OneMore ==
  ASSUME NEW nodes, NEW n, NEW q, IsChain(nodes, n, q), NEW m \in Nat
  PROVE  Onward(nodes, UpTo(q, m), n) = UpTo(q, m + 1)
<1> DEFINE s == UpTo(q, m)
           t == UpTo(q, m + 1)
           N == 1 .. Len(nodes)
<1>1. /\ q \in Seq(N) /\ s \in Seq(N) /\ t \in Seq(N)
      /\ \A k \in 1 .. Len(s) : s[k] = q[k]
      /\ \A k \in 1 .. Len(t) : t[k] = q[k]
      /\ Len(s) = IF m <= Len(q) THEN m ELSE Len(q)
      /\ Len(t) = IF m + 1 <= Len(q) THEN m + 1 ELSE Len(q)
  BY UpToFacts DEF IsChain
<1> DEFINE next == IF s = <<>> THEN n ELSE nodes[Last(s)].next
<1>2. Onward(nodes, s, n) = IF next = NULL THEN s ELSE Append(s, next)
  BY DEF Onward
<1> HIDE DEF s, t, N
<1>3. CASE m < Len(q)
  <2>1. Len(s) = m /\ Len(t) = m + 1
    BY <1>1, <1>3
  <2>2. q[m + 1] \in N /\ q[m + 1] # NULL /\ q # <<>>
    BY <1>1, <1>3 DEF N, NULL
  <2>3. next = q[m + 1]
    <3>1. CASE m = 0
      BY <1>1, <2>1, <2>2, <3>1 DEF IsChain
    <3>2. CASE m # 0
      <4>1. Last(s) = q[m] /\ m \in 1 .. Len(q) /\ m # Len(q) /\ s # <<>>
        BY <1>1, <1>3, <2>1, <3>2 DEF Last
      <4>2. nodes[q[m]].next = q[m + 1]
        BY <4>1 DEF IsChain
      <4> QED BY <4>1, <4>2
    <3> QED BY <3>1, <3>2
  <2> HIDE DEF next
  <2>4. Append(s, next) \in Seq(N) /\ Len(Append(s, next)) = m + 1
    BY <1>1, <2>1, <2>2, <2>3
  <2>5. \A k \in 1 .. m + 1 : Append(s, next)[k] = t[k]
    BY <1>1, <2>1, <2>2, <2>3
  <2>6. Append(s, next) = t
    BY <1>1, <2>1, <2>4, <2>5, SetSeq, SameSeq
  <2> QED BY <1>2, <2>2, <2>3, <2>6 DEF s, t
<1>4. CASE m >= Len(q)
  <2>1. Len(s) = Len(q) /\ Len(t) = Len(q)
    BY <1>1, <1>4
  <2>2. s = q /\ t = q
    BY <1>1, <2>1, SetSeq, SameSeq
  <2>3. next = NULL
    <3>1. CASE q = <<>>
      BY <2>2, <3>1 DEF IsChain
    <3>2. CASE q # <<>>
      <4>1. Len(q) \in 1 .. Len(q) /\ Last(q) = q[Len(q)]
        BY <1>1, <3>2 DEF Last
      <4> QED BY <2>2, <3>2, <4>1 DEF IsChain
    <3> QED BY <3>1, <3>2
  <2> QED BY <1>2, <2>2, <2>3 DEF s, t
<1> QED BY <1>1, <1>3, <1>4

(* They are what the walk finds.                                            *)
LEMMA ChainIs ==
  ASSUME NEW nodes, Len(nodes) \in Nat, NEW n, NEW q, IsChain(nodes, n, q)
  PROVE  NodesFrom(nodes, n) = q
<1> DEFINE N == Len(nodes)
           Is(w) == w = [m \in 0 .. N |-> IF m = 0 THEN <<>> ELSE Onward(nodes, w[m - 1], n)]
           u == [m \in 0 .. N |-> UpTo(q, m)]
<1>0. q \in Seq(1 .. N) /\ Len(q) <= N /\ Len(q) \in Nat
  BY DEF IsChain
<1>1. UpTo(q, 0) = <<>>
  BY <1>0, UpToFacts
<1>2. Is(u)
  <2>1. ASSUME NEW m \in 0 .. N PROVE u[m] = IF m = 0 THEN <<>> ELSE Onward(nodes, u[m - 1], n)
    <3>1. CASE m = 0
      BY <1>1, <3>1
    <3>2. CASE m # 0
      <4>1. m - 1 \in Nat /\ m - 1 \in 0 .. N /\ (m - 1) + 1 = m
        BY <3>2
      <4>2. Onward(nodes, UpTo(q, m - 1), n) = UpTo(q, m)
        BY <4>1, OneMore
      <4> QED BY <3>2, <4>1, <4>2
    <3> QED BY <3>1, <3>2
  <2> QED BY <2>1
<1> DEFINE walk == CHOOSE w : Is(w)
<1>3. Is(walk)
  BY <1>2
<1>4. NodesFrom(nodes, n) = walk[N]
  BY DEF NodesFrom
<1> HIDE DEF walk, u
<1>5. walk[0] = <<>> /\ \A m \in 1 .. N : walk[m] = Onward(nodes, walk[m - 1], n)
  BY <1>3
<1> HIDE DEF Is
<1> DEFINE S == {m \in Nat : m <= N => walk[m] = UpTo(q, m)}
<1>6. 0 \in S
  BY <1>1, <1>5
<1>7. ASSUME NEW m \in Nat, m \in S PROVE m + 1 \in S
  <2>1. CASE m + 1 <= N
    <3>1. walk[m] = UpTo(q, m) /\ m + 1 \in 1 .. N /\ (m + 1) - 1 = m
      BY <1>7, <2>1
    <3>2. walk[m + 1] = Onward(nodes, walk[m], n)
      BY <1>5, <3>1
    <3>3. Onward(nodes, UpTo(q, m), n) = UpTo(q, m + 1)
      BY OneMore
    <3> QED BY <3>1, <3>2, <3>3
  <2>2. CASE ~(m + 1 <= N)
    BY <2>2
  <2> QED BY <2>1, <2>2
<1>8. \A m \in Nat : m \in S
  <2> HIDE DEF S
  <2> QED BY <1>6, <1>7, Induction
<1>9. walk[N] = UpTo(q, N)
  BY <1>8
<1>10. UpTo(q, N) = q
  <2>1. UpTo(q, N) \in Seq(1 .. N) /\ Len(UpTo(q, N)) = Len(q) /\ \A k \in 1 .. Len(q) : UpTo(q, N)[k] = q[k]
    <3> HIDE DEF N
    <3>1. /\ UpTo(q, N) \in Seq(1 .. N) /\ Len(UpTo(q, N)) = IF N <= Len(q) THEN N ELSE Len(q)
          /\ \A k \in 1 .. Len(UpTo(q, N)) : UpTo(q, N)[k] = q[k]
      BY <1>0, UpToFacts DEF N
    <3> QED BY <1>0, <3>1 DEF N
  <2> QED BY <1>0, <2>1, SetSeq, SameSeq
<1> QED BY <1>4, <1>9, <1>10

(* Nodes do not change when others are added behind.                        *)
LEMMA ChainStays ==
  ASSUME NEW nodes, Len(nodes) \in Nat, NEW more, Len(more) \in Nat, Len(nodes) <= Len(more),
         \A k \in 1 .. Len(nodes) : more[k] = nodes[k],
         NEW n, NEW q, IsChain(nodes, n, q)
  PROVE  IsChain(more, n, q)
<1>1. q \in Seq(1 .. Len(nodes)) /\ Len(q) <= Len(nodes) /\ Len(q) \in Nat
  BY DEF IsChain
<1>2. q \in Seq(1 .. Len(more)) /\ Len(q) <= Len(more)
  <2>1. \A k \in 1 .. Len(q) : q[k] \in 1 .. Len(more)
    BY <1>1
  <2> QED BY <1>1, <2>1
<1>3. \A k \in 1 .. Len(q) : more[q[k]] = nodes[q[k]]
  BY <1>1
<1> QED BY <1>2, <1>3 DEF IsChain

------------------------------------------------------------------------------
(* The heap.                                                                *)

Obj == [type : {a.type : a \in Atom} \cup {"list", "pair", "null_obj"},
        val : {a.val : a \in Atom} \cup Nat,
        gc : {a.gc : a \in Atom} \cup {FREE_OBJ, GEN_1_OBJ}]

\* o refers to a header or a pair that is there.
Placed(o) ==
  /\ o \in Obj
  /\ o.type = "list" => o.val \in 1 .. Len(list)
  /\ o.type = "pair" => o.val \in 1 .. Len(pair)

\* The cells s come before c.
Below(s, c) == \A k \in 1 .. Len(s) : s[k] \in 1 .. c - 1

\* Lists end, and a cell leads to older ones only.
HeapOK ==
  /\ cell \in Seq(Obj)
  /\ node \in Seq([obj : 1 .. Len(cell), next : Nat])
  /\ list \in Seq(Nat)
  /\ pair \in Seq([car : 1 .. Len(cell), cdr : 1 .. Len(cell)])
  /\ \A l \in 1 .. Len(list) : \E q : IsChain(node, list[l], q)
  /\ \A c \in 1 .. Len(cell) : Placed(cell[c]) /\ Below(Parts(cell[c]), c)

(* The cells an Object leads to are there; a list leads to as many as it    *)
(* has nodes, a pair to two.                                                *)
LEMMA PartsFacts ==
  ASSUME HeapOK, NEW o, Placed(o)
  PROVE  /\ Parts(o) \in Seq(1 .. Len(cell)) /\ IsSeq(Parts(o))
         /\ o.type = "pair" => Parts(o) = <<pair[o.val].car, pair[o.val].cdr>> /\ Len(Parts(o)) = 2
         /\ o.type \notin {"list", "pair"} => Parts(o) = <<>>
         /\ o.type = "list" =>
              \E q : /\ IsChain(node, list[o.val], q) /\ NodesOf(o) = q
                     /\ Parts(o) = [k \in 1 .. Len(q) |-> node[q[k]].obj] /\ Len(Parts(o)) = Len(q)
<1>1. CASE o.type = "list"
  <2>1. o.val \in 1 .. Len(list)
    BY <1>1 DEF Placed
  <2>2. PICK q : IsChain(node, list[o.val], q)
    BY <2>1 DEF HeapOK
  <2>3. Len(node) \in Nat
    BY DEF HeapOK
  <2>4. NodesOf(o) = q
    BY <2>2, <2>3, ChainIs DEF NodesOf
  <2>5. q \in Seq(1 .. Len(node)) /\ DOMAIN q = 1 .. Len(q) /\ Len(q) \in Nat
    BY <2>2 DEF IsChain
  <2>6. Parts(o) = [k \in 1 .. Len(q) |-> node[q[k]].obj]
    BY <1>1, <2>4, <2>5 DEF Parts
  <2>7. \A k \in 1 .. Len(q) : node[q[k]].obj \in 1 .. Len(cell)
    <3>1. node \in Seq([obj : 1 .. Len(cell), next : Nat])
      BY DEF HeapOK
    <3>2. ASSUME NEW j \in 1 .. Len(node) PROVE node[j].obj \in 1 .. Len(cell)
      <4>1. node[j] \in [obj : 1 .. Len(cell), next : Nat]
        BY <3>1, Elem
      <4> QED BY <4>1
    <3> QED BY <2>5, <3>2
  <2>8. Parts(o) \in Seq(1 .. Len(cell)) /\ Len(Parts(o)) = Len(q)
    BY <2>5, <2>6, <2>7
  <2>9. IsSeq(Parts(o))
    BY <2>8, SetSeq
  <2> QED BY <1>1, <2>2, <2>4, <2>6, <2>8, <2>9
<1>2. CASE o.type = "pair"
  <2>1. o.val \in 1 .. Len(pair)
    BY <1>2 DEF Placed
  <2>2. pair[o.val] \in [car : 1 .. Len(cell), cdr : 1 .. Len(cell)]
    <3>1. pair \in Seq([car : 1 .. Len(cell), cdr : 1 .. Len(cell)])
      BY DEF HeapOK
    <3> QED BY <2>1, <3>1, Elem
  <2>3. Parts(o) = <<pair[o.val].car, pair[o.val].cdr>>
    BY <1>2 DEF Parts
  <2>4. Parts(o) \in Seq(1 .. Len(cell)) /\ Len(Parts(o)) = 2
    BY <2>2, <2>3
  <2>5. IsSeq(Parts(o))
    BY <2>4, SetSeq
  <2> QED BY <1>2, <2>3, <2>4, <2>5
<1>3. CASE o.type \notin {"list", "pair"}
  <2>1. Parts(o) = <<>>
    BY <1>3 DEF Parts
  <2>2. Parts(o) \in Seq(1 .. Len(cell))
    BY <2>1
  <2>3. IsSeq(Parts(o))
    BY <2>2, SetSeq
  <2> QED BY <1>3, <2>1, <2>2, <2>3
<1> QED BY <1>1, <1>2, <1>3

\* Nothing there changes, and more may come behind.
Extends(s, t) == Len(t) \in Nat /\ Len(s) <= Len(t) /\ \A k \in 1 .. Len(s) : t[k] = s[k]
Grows == Extends(cell, cell') /\ Extends(node, node') /\ Extends(list, list') /\ Extends(pair, pair')

(* An Object leads to the same cells in a heap that grew.                   *)
LEMMA PartsStay ==
  ASSUME HeapOK, Grows, NEW o, Placed(o)
  PROVE  Placed(o)' /\ Parts(o)' = Parts(o)
<1>0. Len(list) \in Nat /\ Len(pair) \in Nat /\ Len(node) \in Nat
  BY DEF HeapOK
<1>1. Placed(o)'
  BY <1>0 DEF Placed, Grows, Extends
<1>2. CASE o.type = "list"
  <2>1. PICK q : /\ IsChain(node, list[o.val], q) /\ NodesOf(o) = q
                 /\ Parts(o) = [k \in 1 .. Len(q) |-> node[q[k]].obj]
    BY <1>2, PartsFacts
  <2>2. list'[o.val] = list[o.val]
    BY <1>2 DEF Placed, Grows, Extends
  <2>3. Len(node') \in Nat /\ IsChain(node', list[o.val], q)
    BY <1>0, <2>1, ChainStays DEF Grows, Extends
  <2>4. NodesOf(o)' = q
    BY <2>2, <2>3, ChainIs DEF NodesOf
  <2>5. q \in Seq(1 .. Len(node)) /\ DOMAIN q = 1 .. Len(q)
    BY <2>1 DEF IsChain
  <2>6. Parts(o)' = [k \in 1 .. Len(q) |-> node'[q[k]].obj]
    BY <1>2, <2>4, <2>5 DEF Parts
  <2>7. \A k \in 1 .. Len(q) : node'[q[k]] = node[q[k]]
    <3>1. \A k \in 1 .. Len(q) : q[k] \in 1 .. Len(node)
      BY <2>5
    <3> QED BY <3>1 DEF Grows, Extends
  <2> QED BY <1>1, <2>1, <2>6, <2>7
<1>3. CASE o.type = "pair"
  <2>1. pair'[o.val] = pair[o.val]
    BY <1>3 DEF Placed, Grows, Extends
  <2>2. Parts(o)' = <<pair'[o.val].car, pair'[o.val].cdr>> /\ Parts(o) = <<pair[o.val].car, pair[o.val].cdr>>
    BY <1>3 DEF Parts
  <2> QED BY <1>1, <2>1, <2>2
<1>4. CASE o.type \notin {"list", "pair"}
  <2>1. Parts(o)' = <<>> /\ Parts(o) = <<>>
    BY <1>4 DEF Parts
  <2> QED BY <1>1, <2>1
<1> QED BY <1>2, <1>3, <1>4

------------------------------------------------------------------------------
(* Values.                                                                  *)

\* A list is made of a sequence.
Proper(v) == IsList(v) => v = <<"list", v[2]>> /\ IsSeq(v[2])

\* As many cells as the type of o asks for.
Fits(o, s) == IsSeq(s) /\ (o.type = "pair" => Len(s) = 2)

(* The value of an Object, by its type.                                     *)
LEMMA ValueCases ==
  ASSUME NEW o, NEW s, NEW f
  PROVE  /\ o.type = "list" => ValueIn(o, s, f) = <<"list", [k \in DOMAIN s |-> f[s[k]]]>>
         /\ o.type = "null_obj" => ValueIn(o, s, f) = <<"list", <<>>>>
         /\ o.type = "pair" => ValueIn(o, s, f) = Consed(f[s[1]], f[s[2]])
         /\ o.type \notin {"list", "pair", "null_obj"} => ValueIn(o, s, f) = <<o.type, o.val>>
BY DEF ValueIn

(* It depends only on the values of the cells the Object leads to.          *)
LEMMA ValueAgree ==
  ASSUME NEW o, NEW s, Fits(o, s), NEW f, NEW g, \A k \in 1 .. Len(s) : f[s[k]] = g[s[k]]
  PROVE  ValueIn(o, s, f) = ValueIn(o, s, g)
<1>1. CASE o.type = "list"
  <2>1. DOMAIN s = 1 .. Len(s)
    BY SeqFacts DEF Fits
  <2> QED BY <1>1, <2>1, ValueCases
<1>2. CASE o.type = "pair"
  BY <1>2, ValueCases DEF Fits
<1>3. CASE o.type \notin {"list", "pair"}
  BY <1>3, ValueCases
<1> QED BY <1>1, <1>2, <1>3

(* A sequence of one.                                                       *)
LEMMA Single == ASSUME NEW v PROVE IsSeq(<<v>>) /\ Len(<<v>>) = 1 /\ <<v>>[1] = v
<1>1. <<v>> = [i \in 1 .. 1 |-> <<v>>[i]]
  OBVIOUS
<1> QED BY <1>1, ASeq

(* And of none.                                                             *)
LEMMA EmptyIsSeq ==
  ASSUME NEW e, e = <<>>
  PROVE  IsSeq(e) /\ Len(e) = 0
<1>1. e \in Seq({})
  OBVIOUS
<1> QED BY <1>1, SetSeq

(* A list made of a sequence has its elements.                              *)
LEMMA ListProper ==
  ASSUME NEW s, IsSeq(s)
  PROVE  Proper(<<"list", s>>) /\ IsList(<<"list", s>>) /\ Elements(<<"list", s>>) = s
BY DEF Proper, IsList, Elements

(* What consed makes, and how it is taken apart.                            *)
LEMMA ConsedFacts ==
  ASSUME NEW v, NEW x, Proper(x)
  PROVE  /\ Proper(Consed(v, x)) /\ Car(Consed(v, x)) = v /\ Cdr(Consed(v, x)) = x
         /\ IsList(Consed(v, x)) <=> IsList(x)
         /\ IsList(x) => /\ Consed(v, x) = <<"list", Elements(Consed(v, x))>>
                         /\ Elements(Consed(v, x)) # <<>>
         /\ ~IsList(x) => Consed(v, x) = <<"pair", v, x>>
<1>1. CASE IsList(x)
  <2> DEFINE s == <<v>> \o x[2]
  <2>1. Consed(v, x) = <<"list", s>>
    BY <1>1 DEF Consed, Elements
  <2>2. IsSeq(x[2]) /\ x = <<"list", x[2]>>
    BY <1>1 DEF Proper
  <2>3. /\ IsSeq(s) /\ Len(s) = 1 + Len(x[2]) /\ s[1] = v
        /\ \A i \in 1 .. Len(x[2]) : s[1 + i] = x[2][i]
    BY <2>2, Single, JoinFacts
  <2> HIDE DEF s
  <2>4. Len(x[2]) \in Nat /\ Len(s) # 0
    BY <2>2, <2>3, SeqFacts
  <2>5. s # <<>>
    BY <2>4
  <2>6. Head(s) = v
    BY <2>3 DEF Head
  <2>7. Tail(s) = x[2]
    <3>1. s \in Seq({s[i] : i \in DOMAIN s})
      BY <2>3 DEF IsSeq
    <3>2. Tail(s) \in Seq({s[i] : i \in DOMAIN s}) /\ Len(Tail(s)) = Len(x[2])
          /\ \A i \in 1 .. Len(x[2]) : Tail(s)[i] = s[i + 1]
      BY <2>3, <2>4, <2>5, <3>1
    <3>3. IsSeq(Tail(s))
      BY <3>2, SetSeq
    <3>4. \A i \in 1 .. Len(Tail(s)) : Tail(s)[i] = x[2][i]
      BY <2>3, <2>4, <3>2
    <3> HIDE DEF s
    <3> QED BY <2>2, <3>2, <3>3, <3>4, SameSeq
  <2>8. Car(<<"list", s>>) = v /\ Cdr(<<"list", s>>) = <<"list", x[2]>>
    BY <2>6, <2>7 DEF Car, Cdr, IsList, Elements
  <2>9. Proper(<<"list", s>>) /\ IsList(<<"list", s>>) /\ Elements(<<"list", s>>) = s
    BY <2>3 DEF Proper, IsList, Elements
  <2> QED BY <1>1, <2>1, <2>2, <2>5, <2>8, <2>9
<1>2. CASE ~IsList(x)
  <2>1. Consed(v, x) = <<"pair", v, x>>
    BY <1>2 DEF Consed
  <2>2. ~IsList(<<"pair", v, x>>)
    BY DEF IsList
  <2> QED BY <1>2, <2>1, <2>2 DEF Proper, Car, Cdr
<1> QED BY <1>1, <1>2

(* A value is proper when those it is made of are.                          *)
LEMMA ValueProper ==
  ASSUME NEW o, NEW s, Fits(o, s), NEW f, \A k \in 1 .. Len(s) : Proper(f[s[k]])
  PROVE  Proper(ValueIn(o, s, f))
<1>1. CASE o.type = "list"
  <2> DEFINE t == [k \in DOMAIN s |-> f[s[k]]]
  <2>1. ValueIn(o, s, f) = <<"list", t>>
    BY <1>1, ValueCases
  <2>2. Len(s) \in Nat /\ t = [k \in 1 .. Len(s) |-> t[k]]
    BY SeqFacts DEF Fits
  <2> HIDE DEF t
  <2>3. IsSeq(t)
    BY <2>2, ASeq
  <2> QED BY <2>1, <2>3 DEF Proper
<1>2. CASE o.type = "pair"
  BY <1>2, ValueCases, ConsedFacts DEF Fits
<1>3. CASE o.type = "null_obj"
  <2> DEFINE e == <<>>
  <2>1. IsSeq(e)
    BY EmptyIsSeq
  <2>2. ValueIn(o, s, f) = <<"list", e>>
    BY <1>3, ValueCases
  <2> HIDE DEF e
  <2>3. Proper(<<"list", e>>)
    BY <2>1, ListProper
  <2> QED BY <2>2, <2>3
<1>4. CASE o.type \notin {"list", "pair", "null_obj"}
  BY <1>4, ValueCases DEF Proper, IsList
<1> QED BY <1>1, <1>2, <1>3, <1>4

------------------------------------------------------------------------------
(* What equal? answers.                                                     *)

\* _eqv of what is neither a list nor a pair.
EqvAtoms(a, b) ==
  CASE a.obj.type = "boolean" -> IF a.c = b.c THEN "true" ELSE "false"
    [] a.obj.type \in {"imm_int", "symbol"} -> IF a.obj.val = b.obj.val THEN "true" ELSE "false"
    [] OTHER -> "panic"

\* EqualIn, without the memory.
Judge(a, b, ms, ns, f) ==
  IF a.obj.type # b.obj.type THEN "false"
  ELSE IF a.obj.type = "pair" THEN Both(f[<<ms[1], ns[1]>>], f[<<ms[2], ns[2]>>])
  ELSE IF a.obj.type = "list" THEN EqualElements(ms, ns, f)
  ELSE EqvAtoms(a, b)

(* _equal asks _eqv only about what is neither a list nor a pair.           *)
LEMMA EqualIs ==
  ASSUME NEW a, NEW b, NEW ms, NEW ns, NEW f
  PROVE  /\ EqualIn(a, b, ms, ns, f) = Judge(a, b, ms, ns, f)
         /\ EqualIn(a, b, ms, ns, f)' = Judge(a, b, ms, ns, f)
<1>1. CASE a.obj.type # b.obj.type
  BY <1>1 DEF EqualIn, Judge
<1>2. CASE a.obj.type = b.obj.type /\ a.obj.type = "pair"
  BY <1>2 DEF EqualIn, Judge
<1>3. CASE a.obj.type = b.obj.type /\ a.obj.type = "list"
  BY <1>3 DEF EqualIn, Judge
<1>4. CASE a.obj.type = b.obj.type /\ a.obj.type \notin {"list", "pair"}
  <2>1. _eqv(a, b) = EqvAtoms(a, b) /\ _eqv(a, b)' = EqvAtoms(a, b)
    <3>1. CASE a.obj.type = "boolean"
      BY <1>4, <3>1 DEF _eqv, EqvAtoms
    <3>2. CASE a.obj.type \in {"imm_int", "symbol"}
      BY <1>4, <3>2 DEF _eqv, EqvAtoms, SameHeads
    <3>3. CASE a.obj.type \notin {"boolean", "imm_int", "symbol"}
      BY <1>4, <3>3 DEF _eqv, EqvAtoms
    <3> QED BY <3>1, <3>2, <3>3
  <2>2. EqualIn(a, b, ms, ns, f) = _eqv(a, b) /\ EqualIn(a, b, ms, ns, f)' = _eqv(a, b)'
    BY <1>4 DEF EqualIn
  <2>3. Judge(a, b, ms, ns, f) = EqvAtoms(a, b)
    BY <1>4 DEF Judge
  <2> QED BY <2>1, <2>2, <2>3
<1> QED BY <1>1, <1>2, <1>3, <1>4

(* The loop over two lists ends at the first elements that are not equal,   *)
(* or with the second list, or with the first.                              *)
LEMMA ElementsCases ==
  ASSUME NEW ms, IsSeq(ms), NEW ns, IsSeq(ns), NEW f
  PROVE  LET r == EqualElements(ms, ns, f)
         IN  \/ r = "undefined" /\ \E k \in 1 .. Len(ms) : k > Len(ns)
             \/ \E k \in 1 .. Len(ms) : k <= Len(ns) /\ r = f[<<ms[k], ns[k]>>] /\ r # "true"
             \/ /\ \A k \in 1 .. Len(ms) : k <= Len(ns) /\ f[<<ms[k], ns[k]>>] = "true"
                /\ r = IF ms = <<>> /\ ns # <<>> THEN "false" ELSE "true"
<1> DEFINE says(k) == IF k > Len(ns) THEN "undefined" ELSE f[<<ms[k], ns[k]>>]
           stops == {k \in DOMAIN ms : says(k) # "true"}
           r == EqualElements(ms, ns, f)
<1>0. DOMAIN ms = 1 .. Len(ms) /\ Len(ms) \in Nat /\ Len(ns) \in Nat
  BY SeqFacts
<1>1. r = IF stops # {} THEN says(Min(stops))
          ELSE IF ms = <<>> /\ ns # <<>> THEN "false" ELSE "true"
  BY DEF EqualElements
<1>2. CASE stops # {}
  <2>1. stops \in SUBSET Nat
    BY <1>0
  <2>2. \E k \in stops : \A l \in stops : k <= l
    <3> HIDE DEF stops
    <3> QED BY <1>2, <2>1, Least
  <2>3. Min(stops) \in stops
    <3> HIDE DEF stops
    <3> QED BY <2>2 DEF Min
  <2> DEFINE k == Min(stops)
  <2>4. r = says(k)
    BY <1>1, <1>2
  <2>5. k \in stops
    BY <2>3
  <2> HIDE DEF k, r
  <2>6. k \in 1 .. Len(ms) /\ says(k) # "true"
    BY <1>0, <2>5
  <2>7. CASE k > Len(ns)
    BY <2>4, <2>6, <2>7 DEF r
  <2>8. CASE k <= Len(ns)
    BY <1>0, <2>4, <2>6, <2>8 DEF r
  <2> QED BY <1>0, <2>6, <2>7, <2>8
<1>3. CASE stops = {}
  <2>1. \A k \in 1 .. Len(ms) : says(k) = "true"
    BY <1>0, <1>3
  <2>2. \A k \in 1 .. Len(ms) : k <= Len(ns) /\ f[<<ms[k], ns[k]>>] = "true"
    BY <1>0, <2>1
  <2> QED BY <1>1, <1>3, <2>2
<1> QED BY <1>2, <1>3

\* The verdict on operands of values v and x is right, unless it is known to be
\* wrong.
Says == {"true", "false", "undefined", "panic"}
Right(says, wrong, v, x) ==
  says \in Says /\ (~wrong => (says = "true" => v = x) /\ (says = "false" => v # x))

(* equal? is right about two lists when it is about their elements.         *)
LEMMA RightLists ==
  ASSUME NEW ms, IsSeq(ms), NEW ns, IsSeq(ns), NEW f, NEW m, NEW w,
         \A k \in 1 .. Len(ms), l \in 1 .. Len(ns) :
           Right(f[<<ms[k], ns[l]>>], m[<<ms[k], ns[l]>>], w[ms[k]], w[ns[l]]),
         NEW v, v = <<"list", [k \in DOMAIN ms |-> w[ms[k]]]>>,
         NEW x, x = <<"list", [k \in DOMAIN ns |-> w[ns[k]]]>>,
         NEW wrong,
         wrong <=> \/ ms # <<>> /\ IsPrefixValue(v, x)
                   \/ \E k \in (DOMAIN ms) \cap (DOMAIN ns) : m[<<ms[k], ns[k]>>]
  PROVE  Right(EqualElements(ms, ns, f), wrong, v, x)
<1> DEFINE V == [k \in DOMAIN ms |-> w[ms[k]]]
           X == [k \in DOMAIN ns |-> w[ns[k]]]
           r == EqualElements(ms, ns, f)
<1>0. /\ Len(ms) \in Nat /\ Len(ns) \in Nat
      /\ DOMAIN ms = 1 .. Len(ms) /\ DOMAIN ns = 1 .. Len(ns)
  BY SeqFacts
<1>1. IsSeq(V) /\ Len(V) = Len(ms) /\ \A k \in 1 .. Len(ms) : V[k] = w[ms[k]]
  <2>1. V = [k \in 1 .. Len(ms) |-> V[k]]
    BY <1>0
  <2> QED BY <1>0, <2>1, ASeq
<1>2. IsSeq(X) /\ Len(X) = Len(ns) /\ \A k \in 1 .. Len(ns) : X[k] = w[ns[k]]
  <2>1. X = [k \in 1 .. Len(ns) |-> X[k]]
    BY <1>0
  <2> QED BY <1>0, <2>1, ASeq
<1>3. v = <<"list", V>> /\ x = <<"list", X>>
  OBVIOUS
<1>4. /\ wrong <=> \/ ms # <<>> /\ IsPrefixValue(v, x)
                   \/ \E k \in 1 .. Len(ms) : k <= Len(ns) /\ m[<<ms[k], ns[k]>>]
  <2>1. \A k : k \in (DOMAIN ms) \cap (DOMAIN ns) <=> k \in 1 .. Len(ms) /\ k <= Len(ns)
    BY <1>0
  <2> QED BY <2>1, Zenon
<1>5. ms = <<>> <=> Len(ms) = 0
  <2>1. ms = <<>> => Len(ms) = 0
    OBVIOUS
  <2>2. Len(ms) = 0 => ms = <<>>
    BY EmptyIsSeq, SameSeq
  <2> QED BY <2>1, <2>2
<1>6. ns # <<>> => Len(ns) # 0
  BY EmptyIsSeq, SameSeq
<1> HIDE DEF V, X, r
<1>7. CASE r = "undefined" /\ \E k \in 1 .. Len(ms) : k > Len(ns)
  BY <1>7 DEF Right, Says, r
<1>8. ASSUME NEW k \in 1 .. Len(ms), k <= Len(ns), r = f[<<ms[k], ns[k]>>], r # "true"
      PROVE  Right(r, wrong, v, x)
  <2>1. k \in 1 .. Len(ns) /\ Right(r, m[<<ms[k], ns[k]>>], w[ms[k]], w[ns[k]])
    BY <1>0, <1>8
  <2>2. ASSUME ~wrong, r = "false" PROVE v # x
    <3>1. w[ms[k]] # w[ns[k]]
      BY <1>4, <1>8, <2>1, <2>2 DEF Right
    <3>2. V # X
      BY <1>1, <1>2, <1>8, <2>1, <3>1
    <3> QED BY <1>3, <3>2
  <2> QED BY <1>8, <2>1, <2>2 DEF Right
<1>9. CASE /\ \A k \in 1 .. Len(ms) : k <= Len(ns) /\ f[<<ms[k], ns[k]>>] = "true"
           /\ r = IF ms = <<>> /\ ns # <<>> THEN "false" ELSE "true"
  <2>1. Len(ms) <= Len(ns)
    <3>1. CASE Len(ms) = 0
      BY <1>0, <3>1
    <3>2. CASE Len(ms) # 0
      <4>1. Len(ms) \in 1 .. Len(ms)
        BY <1>0, <3>2
      <4> QED BY <1>9, <4>1
    <3> QED BY <3>1, <3>2
  <2>2. ASSUME ~wrong PROVE \A k \in 1 .. Len(ms) : V[k] = X[k]
    <3>1. ASSUME NEW k \in 1 .. Len(ms) PROVE w[ms[k]] = w[ns[k]]
      <4>1. k \in 1 .. Len(ns) /\ f[<<ms[k], ns[k]>>] = "true" /\ ~m[<<ms[k], ns[k]>>]
        <5>1. k <= Len(ns) /\ f[<<ms[k], ns[k]>>] = "true"
          BY <1>9
        <5>2. ~m[<<ms[k], ns[k]>>]
          BY <1>4, <2>2, <5>1, Zenon
        <5> QED BY <1>0, <5>1, <5>2
      <4> QED BY <4>1 DEF Right
    <3> QED BY <1>0, <1>1, <1>2, <2>1, <3>1
  <2>3. ASSUME ~wrong, r = "true" PROVE v = x
    <3>1. Len(ms) = Len(ns)
      <4>1. CASE ms = <<>>
        BY <1>5, <1>9, <2>3, <4>1
      <4>2. CASE ms # <<>> /\ Len(ms) # Len(ns)
        <5>1. IsPrefix(V, X)
          <6>1. SubSeq(X, 1, Len(ms)) = [k \in 1 .. Len(ms) |-> X[k]]
            BY <1>0, <1>2, <2>1 DEF IsSeq
          <6>2. SubSeq(V, 1, Len(ms)) = [k \in 1 .. Len(ms) |-> V[k]]
            BY <1>0, <1>1, <2>1 DEF IsSeq
          <6> QED BY <1>1, <1>2, <2>1, <2>2, <2>3, <6>1, <6>2 DEF IsPrefix
        <5>2. V # X
          BY <1>1, <1>2, <4>2
        <5>3. IsPrefixValue(v, x)
          <6>1. IsList(v) /\ IsList(x) /\ Elements(v) = V /\ Elements(x) = X
            BY <1>1, <1>2, <1>3, ListProper
          <6> QED BY <5>1, <5>2, <6>1 DEF IsPrefixValue, IsStrictPrefix
        <5> QED BY <1>4, <2>3, <4>2, <5>3
      <4> QED BY <4>1, <4>2
    <3>2. V = X
      BY <1>1, <1>2, <2>2, <2>3, <3>1, SameSeq
    <3> QED BY <1>3, <3>2
  <2>4. ASSUME r = "false" PROVE v # x
    <3>1. Len(V) # Len(X)
      BY <1>1, <1>2, <1>5, <1>6, <1>9, <2>4
    <3> QED BY <1>3, <3>1
  <2>5. r \in {"true", "false"}
    BY <1>9
  <2> QED BY <2>3, <2>4, <2>5 DEF Right, Says, r
<1>10. \/ r = "undefined" /\ \E k \in 1 .. Len(ms) : k > Len(ns)
       \/ \E k \in 1 .. Len(ms) : k <= Len(ns) /\ r = f[<<ms[k], ns[k]>>] /\ r # "true"
       \/ /\ \A k \in 1 .. Len(ms) : k <= Len(ns) /\ f[<<ms[k], ns[k]>>] = "true"
          /\ r = IF ms = <<>> /\ ns # <<>> THEN "false" ELSE "true"
  BY ElementsCases DEF r
<1> QED BY <1>7, <1>8, <1>9, <1>10 DEF r

(* equal? is right about two objects when it is about what they lead to.    *)
LEMMA RightStep ==
  ASSUME NEW a, NEW b, a.c = b.c => a.obj = b.obj,
         NEW ms, Fits(a.obj, ms), NEW ns, Fits(b.obj, ns), NEW f, NEW m, NEW w,
         \A k \in 1 .. Len(ms), l \in 1 .. Len(ns) :
           Right(f[<<ms[k], ns[l]>>], m[<<ms[k], ns[l]>>], w[ms[k]], w[ns[l]]),
         \A k \in 1 .. Len(ms) : Proper(w[ms[k]]),
         \A k \in 1 .. Len(ns) : Proper(w[ns[k]])
  PROVE  Right(Judge(a, b, ms, ns, f), MisjudgedIn(a, b, ms, ns, w, m),
               ValueIn(a.obj, ms, w), ValueIn(b.obj, ns, w))
<1> DEFINE v == ValueIn(a.obj, ms, w)
           x == ValueIn(b.obj, ns, w)
           t == a.obj.type
           wrong == MisjudgedIn(a, b, ms, ns, w, m)
<1>0. IsSeq(ms) /\ IsSeq(ns)
  BY DEF Fits
<1>1. CASE a.obj.type # b.obj.type
  <2>1. Judge(a, b, ms, ns, f) = "false"
    BY <1>1 DEF Judge
  <2>2. wrong <=> v = x
    BY <1>1 DEF MisjudgedIn
  <2> QED BY <2>1, <2>2 DEF Right, Says
<1>2. CASE a.obj.type = b.obj.type /\ a.obj.type = "list"
  <2>1. Judge(a, b, ms, ns, f) = EqualElements(ms, ns, f)
    BY <1>2 DEF Judge
  <2>2. wrong <=> \/ ms # <<>> /\ IsPrefixValue(v, x)
                  \/ \E k \in (DOMAIN ms) \cap (DOMAIN ns) : m[<<ms[k], ns[k]>>]
    BY <1>2 DEF MisjudgedIn
  <2>3. v = <<"list", [k \in DOMAIN ms |-> w[ms[k]]]>> /\ x = <<"list", [k \in DOMAIN ns |-> w[ns[k]]]>>
    <3>1. v = <<"list", [k \in DOMAIN ms |-> w[ms[k]]]>>
      BY <1>2, ValueCases
    <3>2. b.obj.type = "list"
      BY <1>2
    <3>3. x = <<"list", [k \in DOMAIN ns |-> w[ns[k]]]>>
      BY <3>2, ValueCases
    <3> QED BY <3>1, <3>3
  <2> HIDE DEF wrong, v, x
  <2>4. Right(EqualElements(ms, ns, f), wrong, v, x)
    BY <1>0, <2>2, <2>3, RightLists
  <2> QED BY <2>1, <2>4 DEF wrong, v, x
<1>3. CASE a.obj.type = b.obj.type /\ a.obj.type = "pair"
  <2> DEFINE y == f[<<ms[1], ns[1]>>]
             z == f[<<ms[2], ns[2]>>]
  <2>1. Judge(a, b, ms, ns, f) = Both(y, z)
    BY <1>3 DEF Judge
  <2>2. Len(ms) = 2 /\ Len(ns) = 2 /\ DOMAIN ms = 1 .. 2 /\ DOMAIN ns = 1 .. 2
    BY <1>3, SeqFacts DEF Fits
  <2>3. wrong <=> \E k \in (DOMAIN ms) \cap (DOMAIN ns) : m[<<ms[k], ns[k]>>]
    BY <1>3 DEF MisjudgedIn
  <2>4. ASSUME ~wrong PROVE ~m[<<ms[1], ns[1]>>] /\ ~m[<<ms[2], ns[2]>>]
    <3>1. 1 \in (DOMAIN ms) \cap (DOMAIN ns) /\ 2 \in (DOMAIN ms) \cap (DOMAIN ns)
      BY <2>2
    <3> QED BY <2>3, <2>4, <3>1, Zenon
  <2>5. v = Consed(w[ms[1]], w[ms[2]]) /\ x = Consed(w[ns[1]], w[ns[2]])
    BY <1>3, ValueCases
  <2>6. /\ Right(y, m[<<ms[1], ns[1]>>], w[ms[1]], w[ns[1]])
        /\ Right(z, m[<<ms[2], ns[2]>>], w[ms[2]], w[ns[2]])
        /\ Proper(w[ms[2]]) /\ Proper(w[ns[2]])
    BY <2>2
  <2> HIDE DEF wrong, v, x, y, z
  <2>7. Both(y, z) \in Says
    BY <2>6 DEF Right, Both
  <2>8. ASSUME ~wrong, Both(y, z) = "true" PROVE v = x
    BY <2>4, <2>5, <2>6, <2>8 DEF Right, Both
  <2>9. ASSUME ~wrong, Both(y, z) = "false" PROVE v # x
    <3>1. w[ms[1]] # w[ns[1]] \/ w[ms[2]] # w[ns[2]]
      BY <2>4, <2>6, <2>9 DEF Right, Both
    <3>2. Car(v) = w[ms[1]] /\ Cdr(v) = w[ms[2]] /\ Car(x) = w[ns[1]] /\ Cdr(x) = w[ns[2]]
      BY <2>5, <2>6, ConsedFacts
    <3> QED BY <3>1, <3>2
  <2>10. Right(Both(y, z), wrong, v, x)
    BY <2>7, <2>8, <2>9 DEF Right
  <2> QED BY <2>1, <2>10 DEF wrong, v, x
<1>4. CASE a.obj.type = b.obj.type /\ a.obj.type \notin {"list", "pair"}
  <2>1. Judge(a, b, ms, ns, f) = EqvAtoms(a, b)
    BY <1>4 DEF Judge
  <2>2. CASE a.obj.type = "boolean"
    <3>1. v = <<t, a.obj.val>> /\ x = <<t, b.obj.val>>
      BY <1>4, <2>2, ValueCases
    <3>2. EqvAtoms(a, b) = IF a.c = b.c THEN "true" ELSE "false"
      BY <2>2 DEF EqvAtoms
    <3>3. wrong <=> a.obj.val = b.obj.val /\ a.c # b.c
      BY <1>4, <2>2 DEF MisjudgedIn
    <3> HIDE DEF wrong, v, x, t
    <3>4. Right(EqvAtoms(a, b), wrong, v, x)
      BY <3>1, <3>2, <3>3 DEF Right, Says
    <3> QED BY <2>1, <3>4 DEF wrong, v, x
  <2>3. CASE a.obj.type \in {"imm_int", "symbol"}
    <3>1. v = <<t, a.obj.val>> /\ x = <<t, b.obj.val>>
      BY <1>4, <2>3, ValueCases
    <3>2. EqvAtoms(a, b) = IF a.obj.val = b.obj.val THEN "true" ELSE "false"
      BY <2>3 DEF EqvAtoms
    <3> HIDE DEF wrong, v, x, t
    <3>3. Right(EqvAtoms(a, b), wrong, v, x)
      BY <3>1, <3>2 DEF Right, Says
    <3> QED BY <2>1, <3>3 DEF wrong, v, x
  <2>4. CASE a.obj.type \notin {"boolean", "imm_int", "symbol"}
    <3>1. EqvAtoms(a, b) = "panic"
      BY <2>4 DEF EqvAtoms
    <3> QED BY <2>1, <3>1 DEF Right, Says
  <2> QED BY <2>2, <2>3, <2>4
<1> QED BY <1>1, <1>2, <1>3, <1>4

(* Its answer depends only on those about what the operands lead to,        *)
LEMMA JudgeAgree ==
  ASSUME NEW a, NEW b, NEW ms, Fits(a.obj, ms), NEW ns, Fits(b.obj, ns), NEW f, NEW g,
         \A k \in 1 .. Len(ms), l \in 1 .. Len(ns) : f[<<ms[k], ns[l]>>] = g[<<ms[k], ns[l]>>]
  PROVE  Judge(a, b, ms, ns, f) = Judge(a, b, ms, ns, g)
<1>0. IsSeq(ms) /\ IsSeq(ns)
  BY DEF Fits
<1>1. EqualElements(ms, ns, f) = EqualElements(ms, ns, g)
  <2> DEFINE says(h, k) == IF k > Len(ns) THEN "undefined" ELSE h[<<ms[k], ns[k]>>]
             stops(h) == {k \in DOMAIN ms : says(h, k) # "true"}
  <2>0. DOMAIN ms = 1 .. Len(ms) /\ Len(ms) \in Nat /\ Len(ns) \in Nat
    BY <1>0, SeqFacts
  <2>1. ASSUME NEW k \in DOMAIN ms PROVE says(f, k) = says(g, k)
    <3>1. CASE k > Len(ns)
      BY <3>1
    <3>2. CASE ~(k > Len(ns))
      <4>1. k \in 1 .. Len(ms) /\ k \in 1 .. Len(ns)
        BY <2>0, <3>2
      <4> QED BY <4>1
    <3> QED BY <3>1, <3>2
  <2> HIDE DEF says
  <2>2. stops(f) = stops(g)
    BY <2>1
  <2>3. stops(f) # {} => Min(stops(f)) \in DOMAIN ms
    <3> SUFFICES ASSUME stops(f) # {} PROVE Min(stops(f)) \in stops(f)
      OBVIOUS
    <3>1. stops(f) \in SUBSET Nat
      BY <2>0
    <3> DEFINE S == stops(f)
    <3>2. S \in SUBSET Nat /\ S # {}
      BY <3>1
    <3> HIDE DEF S, stops
    <3>3. \E k \in S : \A l \in S : k <= l
      BY <3>2, Least
    <3>4. Min(S) \in S
      BY <3>3 DEF Min
    <3> QED BY <3>4 DEF S
  <2>4. \A h : EqualElements(ms, ns, h) =
                 IF stops(h) # {} THEN says(h, Min(stops(h)))
                 ELSE IF ms = <<>> /\ ns # <<>> THEN "false" ELSE "true"
    BY DEF EqualElements, says
  <2> HIDE DEF stops
  <2> QED BY <2>1, <2>2, <2>3, <2>4
<1>2. CASE a.obj.type = b.obj.type /\ a.obj.type = "pair"
  <2>1. 1 \in 1 .. Len(ms) /\ 2 \in 1 .. Len(ms) /\ 1 \in 1 .. Len(ns) /\ 2 \in 1 .. Len(ns)
    BY <1>2 DEF Fits
  <2>2. f[<<ms[1], ns[1]>>] = g[<<ms[1], ns[1]>>] /\ f[<<ms[2], ns[2]>>] = g[<<ms[2], ns[2]>>]
    BY <2>1
  <2> QED BY <1>2, <2>2 DEF Judge
<1>3. CASE ~(a.obj.type = b.obj.type /\ a.obj.type = "pair")
  BY <1>1, <1>3 DEF Judge
<1> QED BY <1>2, <1>3

(* and so does where it is known to be wrong.                               *)
LEMMA MisjudgedAgree ==
  ASSUME NEW a, NEW b, NEW ms, Fits(a.obj, ms), NEW ns, Fits(b.obj, ns), NEW u, NEW w, NEW f, NEW g,
         \A k \in 1 .. Len(ms) : u[ms[k]] = w[ms[k]],
         \A k \in 1 .. Len(ns) : u[ns[k]] = w[ns[k]],
         \A k \in 1 .. Len(ms), l \in 1 .. Len(ns) : f[<<ms[k], ns[l]>>] = g[<<ms[k], ns[l]>>]
  PROVE  MisjudgedIn(a, b, ms, ns, u, f) = MisjudgedIn(a, b, ms, ns, w, g)
<1>1. ValueIn(a.obj, ms, u) = ValueIn(a.obj, ms, w) /\ ValueIn(b.obj, ns, u) = ValueIn(b.obj, ns, w)
  <2>1. ValueIn(a.obj, ms, u) = ValueIn(a.obj, ms, w)
    <3> DEFINE o == a.obj
    <3>1. Fits(o, ms) /\ \A k \in 1 .. Len(ms) : u[ms[k]] = w[ms[k]]
      OBVIOUS
    <3> HIDE DEF o
    <3>2. ValueIn(o, ms, u) = ValueIn(o, ms, w)
      BY <3>1, ValueAgree
    <3> QED BY <3>2 DEF o
  <2>2. ValueIn(b.obj, ns, u) = ValueIn(b.obj, ns, w)
    BY ValueAgree
  <2> QED BY <2>1, <2>2
<1>2. DOMAIN ms = 1 .. Len(ms) /\ DOMAIN ns = 1 .. Len(ns)
  BY SeqFacts DEF Fits
<1>3. \A k \in (DOMAIN ms) \cap (DOMAIN ns) : f[<<ms[k], ns[k]>>] = g[<<ms[k], ns[k]>>]
  BY <1>2
<1>4. (\E k \in (DOMAIN ms) \cap (DOMAIN ns) : f[<<ms[k], ns[k]>>])
        = (\E k \in (DOMAIN ms) \cap (DOMAIN ns) : g[<<ms[k], ns[k]>>])
  BY <1>3
<1> DEFINE v == ValueIn(a.obj, ms, w)
           x == ValueIn(b.obj, ns, w)
           Wrong(h) == \/ ms # <<>> /\ a.obj.type = "list" /\ IsPrefixValue(v, x)
                       \/ \E k \in (DOMAIN ms) \cap (DOMAIN ns) : h[<<ms[k], ns[k]>>]
           Is(h) == IF a.obj.type # b.obj.type THEN v = x ELSE
                    CASE a.obj.type = "boolean" -> a.obj.val = b.obj.val /\ a.c # b.c
                      [] a.obj.type \in {"pair", "list"} -> Wrong(h)
                      [] OTHER -> FALSE
<1>5. MisjudgedIn(a, b, ms, ns, u, f) = Is(f) /\ MisjudgedIn(a, b, ms, ns, w, g) = Is(g)
  BY <1>1 DEF MisjudgedIn
<1>6. Wrong(f) = Wrong(g)
  BY <1>4
<1> HIDE DEF Wrong
<1> QED BY <1>5, <1>6

------------------------------------------------------------------------------
(* The values of the cells, and what equal? answers about them.             *)

Valued(w) ==
  /\ IsSeq(w) /\ Len(w) = Len(cell)
  /\ \A c \in 1 .. Len(cell) : w[c] = ValueIn(cell[c], Parts(cell[c]), w) /\ Proper(w[c])

JudgeCells(c, d, e) == Judge(InCell(c), InCell(d), Parts(cell[c]), Parts(cell[d]), e)
WrongCells(c, d, w, m) == MisjudgedIn(InCell(c), InCell(d), Parts(cell[c]), Parts(cell[d]), w, m)

Judged(w, e, m) ==
  /\ e = [p \in CellPairs |-> JudgeCells(p[1], p[2], e)]
  /\ m = [p \in CellPairs |-> WrongCells(p[1], p[2], w, m)]
  /\ \A c, d \in 1 .. Len(cell) : Right(e[<<c, d>>], m[<<c, d>>], w[c], w[d])

(* What a cell leads to is in older cells.                                  *)
LEMMA CellFacts ==
  ASSUME HeapOK
  PROVE  /\ Len(cell) \in Nat /\ DOMAIN cell = 1 .. Len(cell)
         /\ CellPairs = (1 .. Len(cell)) \X (1 .. Len(cell))
         /\ \A c \in 1 .. Len(cell) :
              /\ Placed(cell[c]) /\ Fits(cell[c], Parts(cell[c])) /\ Len(Parts(cell[c])) \in Nat
              /\ \A k \in 1 .. Len(Parts(cell[c])) :
                   Parts(cell[c])[k] \in 1 .. Len(cell) /\ Parts(cell[c])[k] <= c - 1
<1>1. Len(cell) \in Nat /\ DOMAIN cell = 1 .. Len(cell)
  BY DEF HeapOK
<1>2. ASSUME NEW c \in 1 .. Len(cell)
      PROVE  /\ Placed(cell[c]) /\ Fits(cell[c], Parts(cell[c])) /\ Len(Parts(cell[c])) \in Nat
             /\ \A k \in 1 .. Len(Parts(cell[c])) :
                  Parts(cell[c])[k] \in 1 .. Len(cell) /\ Parts(cell[c])[k] <= c - 1
  <2>1. Placed(cell[c]) /\ Below(Parts(cell[c]), c)
    BY DEF HeapOK
  <2>2. /\ IsSeq(Parts(cell[c])) /\ Parts(cell[c]) \in Seq(1 .. Len(cell))
        /\ cell[c].type = "pair" => Len(Parts(cell[c])) = 2
    BY <2>1, PartsFacts
  <2>3. \A k \in 1 .. Len(Parts(cell[c])) : Parts(cell[c])[k] \in 1 .. Len(cell)
    BY <2>2, Elem
  <2>4. \A k \in 1 .. Len(Parts(cell[c])) : Parts(cell[c])[k] <= c - 1
    BY <2>1 DEF Below
  <2>5. Len(Parts(cell[c])) \in Nat
    BY <2>2
  <2> QED BY <2>1, <2>2, <2>3, <2>4, <2>5 DEF Fits
<1> QED BY <1>1, <1>2 DEF CellPairs

(* The recursion over the cells has one solution.                           *)
LEMMA CellValuesAre ==
  ASSUME HeapOK, NEW w, Valued(w)
  PROVE  CellValues = w
<1> DEFINE N == Len(cell)
           Is(f) == f = [c \in DOMAIN cell |-> ValueIn(cell[c], Parts(cell[c]), f)]
<1>0. Len(cell) \in Nat /\ DOMAIN cell = 1 .. N
  BY CellFacts
<1>1. Is(w)
  <2>1. w = [c \in 1 .. N |-> w[c]]
    BY SeqFacts DEF Valued
  <2>2. \A c \in 1 .. N : w[c] = ValueIn(cell[c], Parts(cell[c]), w)
    BY DEF Valued
  <2> QED BY <1>0, <2>1, <2>2
<1> DEFINE f == CHOOSE g : Is(g)
<1>2. Is(f)
  BY <1>1
<1>3. CellValues = f
  BY DEF CellValues
<1> HIDE DEF f
<1>4. \A c \in 1 .. N : f[c] = ValueIn(cell[c], Parts(cell[c]), f) /\ w[c] = ValueIn(cell[c], Parts(cell[c]), w)
  BY <1>0, <1>1, <1>2
<1> DEFINE Good(n) == \A c \in 1 .. N : c <= n => f[c] = w[c]
           S == {n \in Nat : Good(n)}
<1>5. 0 \in S
  OBVIOUS
<1>6. ASSUME NEW n \in Nat, n \in S PROVE n + 1 \in S
  <2> SUFFICES ASSUME NEW c \in 1 .. N, c <= n + 1 PROVE f[c] = w[c]
    OBVIOUS
  <2> DEFINE s == Parts(cell[c])
  <2>1. Fits(cell[c], s) /\ \A k \in 1 .. Len(s) : s[k] \in 1 .. N /\ s[k] <= c - 1
    BY CellFacts
  <2>2. \A k \in 1 .. Len(s) : f[s[k]] = w[s[k]]
    <3> HIDE DEF s
    <3>1. ASSUME NEW k \in 1 .. Len(s) PROVE f[s[k]] = w[s[k]]
      <4>1. s[k] \in 1 .. N /\ s[k] <= n
        BY <2>1, <1>0
      <4> QED BY <1>6, <4>1
    <3> QED BY <3>1
  <2> HIDE DEF s
  <2>3. ValueIn(cell[c], s, f) = ValueIn(cell[c], s, w)
    BY <2>1, <2>2, ValueAgree
  <2> QED BY <1>4, <2>3 DEF s
<1>7. \A n \in Nat : n \in S
  <2> HIDE DEF S
  <2> QED BY <1>5, <1>6, Induction
<1>8. \A c \in 1 .. N : f[c] = w[c]
  BY <1>0, <1>7
<1>9. f = w
  BY <1>0, <1>1, <1>2, <1>8
<1> QED BY <1>3, <1>9

(* The same, for equal?                                                     *)
LEMMA CellsEqualAre ==
  ASSUME HeapOK, NEW w, NEW e, NEW m, Judged(w, e, m)
  PROVE  CellsEqual = e
<1> DEFINE N == Len(cell)
           Is(f) == f = [p \in CellPairs |-> EqualIn(InCell(p[1]), InCell(p[2]), Parts(cell[p[1]]), Parts(cell[p[2]]), f)]
<1>0. Len(cell) \in Nat /\ CellPairs = (1 .. N) \X (1 .. N)
  BY CellFacts
<1>a. \A f : Is(f) <=> f = [p \in CellPairs |-> JudgeCells(p[1], p[2], f)]
  <2>1. \A f, p : EqualIn(InCell(p[1]), InCell(p[2]), Parts(cell[p[1]]), Parts(cell[p[2]]), f) = JudgeCells(p[1], p[2], f)
    BY EqualIs DEF JudgeCells
  <2> QED BY <2>1
<1>1. Is(e)
  BY <1>a DEF Judged
<1> DEFINE f == CHOOSE g : Is(g)
<1>2. Is(f)
  BY <1>1
<1>3. CellsEqual = f
  BY DEF CellsEqual
<1> HIDE DEF f, Is
<1>4. f = [p \in CellPairs |-> JudgeCells(p[1], p[2], f)] /\ e = [p \in CellPairs |-> JudgeCells(p[1], p[2], e)]
  BY <1>a, <1>1, <1>2
<1>b. \A c, d \in 1 .. N : f[<<c, d>>] = JudgeCells(c, d, f) /\ e[<<c, d>>] = JudgeCells(c, d, e)
  <2> SUFFICES ASSUME NEW c \in 1 .. N, NEW d \in 1 .. N
               PROVE  f[<<c, d>>] = JudgeCells(c, d, f) /\ e[<<c, d>>] = JudgeCells(c, d, e)
    OBVIOUS
  <2>1. <<c, d>> \in CellPairs /\ <<c, d>>[1] = c /\ <<c, d>>[2] = d
    BY <1>0
  <2> QED BY <1>4, <2>1
<1> DEFINE Good(n) == \A c, d \in 1 .. N : c <= n => f[<<c, d>>] = e[<<c, d>>]
           S == {n \in Nat : Good(n)}
<1>5. 0 \in S
  OBVIOUS
<1>6. ASSUME NEW n \in Nat, n \in S PROVE n + 1 \in S
  <2> SUFFICES ASSUME NEW c \in 1 .. N, NEW d \in 1 .. N, c <= n + 1 PROVE f[<<c, d>>] = e[<<c, d>>]
    OBVIOUS
  <2> DEFINE s == Parts(cell[c])
             t == Parts(cell[d])
             a == InCell(c)
             b == InCell(d)
  <2>1. /\ Fits(cell[c], s) /\ \A k \in 1 .. Len(s) : s[k] \in 1 .. N /\ s[k] <= c - 1
        /\ Fits(cell[d], t) /\ \A k \in 1 .. Len(t) : t[k] \in 1 .. N
    BY CellFacts
  <2>2. a.obj = cell[c] /\ b.obj = cell[d]
    BY DEF InCell, At
  <2>3. JudgeCells(c, d, f) = Judge(a, b, s, t, f) /\ JudgeCells(c, d, e) = Judge(a, b, s, t, e)
    BY DEF JudgeCells
  <2> HIDE DEF s, t, a, b
  <2>4. ASSUME NEW k \in 1 .. Len(s), NEW l \in 1 .. Len(t) PROVE f[<<s[k], t[l]>>] = e[<<s[k], t[l]>>]
    <3>1. s[k] \in 1 .. N /\ s[k] <= n /\ t[l] \in 1 .. N
      BY <2>1, <1>0
    <3> QED BY <1>6, <3>1
  <2>5. Judge(a, b, s, t, f) = Judge(a, b, s, t, e)
    BY <2>1, <2>2, <2>4, JudgeAgree
  <2> QED BY <1>b, <2>3, <2>5
<1>7. \A n \in Nat : n \in S
  <2> HIDE DEF S
  <2> QED BY <1>5, <1>6, Induction
<1>8. \A c, d \in 1 .. N : f[<<c, d>>] = e[<<c, d>>]
  <2>1. N \in Nat /\ N \in S
    BY <1>0, <1>7
  <2>2. Good(N) /\ \A c \in 1 .. N : c <= N
    BY <2>1
  <2> HIDE DEF N
  <2> QED BY <2>2
<1>9. f = e
  <2>1. \A p \in CellPairs : f[p] = e[p]
    <3> SUFFICES ASSUME NEW p \in CellPairs PROVE f[p] = e[p]
      OBVIOUS
    <3>1. p = <<p[1], p[2]>> /\ p[1] \in 1 .. N /\ p[2] \in 1 .. N
      BY <1>0
    <3>2. f[<<p[1], p[2]>>] = e[<<p[1], p[2]>>]
      BY <1>8, <3>1
    <3> QED BY <3>1, <3>2
  <2>2. f = [p \in CellPairs |-> f[p]] /\ e = [p \in CellPairs |-> e[p]]
    BY <1>4
  <2> QED BY <2>1, <2>2
<1> QED BY <1>3, <1>9

(* The same, for where equal? is wrong.                                     *)
LEMMA CellsMisjudgedAre ==
  ASSUME HeapOK, NEW w, Valued(w), NEW e, NEW m, Judged(w, e, m)
  PROVE  CellsMisjudged = m
<1> DEFINE N == Len(cell)
           Is(f) == f = [p \in CellPairs |-> MisjudgedIn(InCell(p[1]), InCell(p[2]), Parts(cell[p[1]]), Parts(cell[p[2]]), CellValues, f)]
<1>0. Len(cell) \in Nat /\ CellPairs = (1 .. N) \X (1 .. N)
  BY CellFacts
<1>a. \A f : Is(f) <=> f = [p \in CellPairs |-> WrongCells(p[1], p[2], w, f)]
  BY CellValuesAre DEF WrongCells
<1>1. Is(m)
  BY <1>a DEF Judged
<1> DEFINE f == CHOOSE g : Is(g)
<1>2. Is(f)
  BY <1>1
<1>3. CellsMisjudged = f
  BY DEF CellsMisjudged
<1> HIDE DEF f, Is
<1>4. f = [p \in CellPairs |-> WrongCells(p[1], p[2], w, f)] /\ m = [p \in CellPairs |-> WrongCells(p[1], p[2], w, m)]
  BY <1>a, <1>1, <1>2
<1>b. \A c, d \in 1 .. N : f[<<c, d>>] = WrongCells(c, d, w, f) /\ m[<<c, d>>] = WrongCells(c, d, w, m)
  <2> SUFFICES ASSUME NEW c \in 1 .. N, NEW d \in 1 .. N
               PROVE  f[<<c, d>>] = WrongCells(c, d, w, f) /\ m[<<c, d>>] = WrongCells(c, d, w, m)
    OBVIOUS
  <2>1. <<c, d>> \in CellPairs /\ <<c, d>>[1] = c /\ <<c, d>>[2] = d
    BY <1>0
  <2> QED BY <1>4, <2>1
<1> DEFINE Good(n) == \A c, d \in 1 .. N : c <= n => f[<<c, d>>] = m[<<c, d>>]
           S == {n \in Nat : Good(n)}
<1>5. 0 \in S
  OBVIOUS
<1>6. ASSUME NEW n \in Nat, n \in S PROVE n + 1 \in S
  <2> SUFFICES ASSUME NEW c \in 1 .. N, NEW d \in 1 .. N, c <= n + 1 PROVE f[<<c, d>>] = m[<<c, d>>]
    OBVIOUS
  <2> DEFINE s == Parts(cell[c])
             t == Parts(cell[d])
             a == InCell(c)
             b == InCell(d)
  <2>1. /\ Fits(cell[c], s) /\ \A k \in 1 .. Len(s) : s[k] \in 1 .. N /\ s[k] <= c - 1
        /\ Fits(cell[d], t) /\ \A k \in 1 .. Len(t) : t[k] \in 1 .. N
    BY CellFacts
  <2>2. a.obj = cell[c] /\ b.obj = cell[d]
    BY DEF InCell, At
  <2>3. /\ WrongCells(c, d, w, f) = MisjudgedIn(a, b, s, t, w, f)
        /\ WrongCells(c, d, w, m) = MisjudgedIn(a, b, s, t, w, m)
    BY DEF WrongCells
  <2> HIDE DEF s, t, a, b
  <2>4. ASSUME NEW k \in 1 .. Len(s), NEW l \in 1 .. Len(t) PROVE f[<<s[k], t[l]>>] = m[<<s[k], t[l]>>]
    <3>1. s[k] \in 1 .. N /\ s[k] <= n /\ t[l] \in 1 .. N
      BY <2>1, <1>0
    <3> QED BY <1>6, <3>1
  <2>5. MisjudgedIn(a, b, s, t, w, f) = MisjudgedIn(a, b, s, t, w, m)
    BY <2>1, <2>2, <2>4, MisjudgedAgree
  <2> QED BY <1>b, <2>3, <2>5
<1>7. \A n \in Nat : n \in S
  <2> HIDE DEF S
  <2> QED BY <1>5, <1>6, Induction
<1>8. \A c, d \in 1 .. N : f[<<c, d>>] = m[<<c, d>>]
  <2>1. N \in Nat /\ N \in S
    BY <1>0, <1>7
  <2>2. Good(N) /\ \A c \in 1 .. N : c <= N
    BY <2>1
  <2> HIDE DEF N
  <2> QED BY <2>2
<1>9. f = m
  <2>1. \A p \in CellPairs : f[p] = m[p]
    <3> SUFFICES ASSUME NEW p \in CellPairs PROVE f[p] = m[p]
      OBVIOUS
    <3>1. p = <<p[1], p[2]>> /\ p[1] \in 1 .. N /\ p[2] \in 1 .. N
      BY <1>0
    <3>2. f[<<p[1], p[2]>>] = m[<<p[1], p[2]>>]
      BY <1>8, <3>1
    <3> QED BY <3>1, <3>2
  <2>2. f = [p \in CellPairs |-> f[p]] /\ m = [p \in CellPairs |-> m[p]]
    BY <1>4
  <2> QED BY <2>1, <2>2
<1> QED BY <1>3, <1>9

------------------------------------------------------------------------------
(* The heap grows.                                                          *)

(* A cell that stays leads to what it led to.                               *)
LEMMA CellStays ==
  ASSUME HeapOK, Grows, NEW c \in 1 .. Len(cell)
  PROVE  cell'[c] = cell[c] /\ Parts(cell[c])' = Parts(cell[c]) /\ Placed(cell[c])'
<1>1. PICK o : o = cell[c]
  OBVIOUS
<1>2. cell'[c] = o
  BY <1>1 DEF Grows, Extends
<1>3. Placed(o)
  BY <1>1 DEF HeapOK
<1>4. Placed(o)' /\ Parts(o)' = Parts(o)
  BY <1>3, PartsStay
<1> QED BY <1>1, <1>2, <1>4

(* As long as no cell is added the cells keep their values, and equal? its  *)
(* answers.                                                                 *)
LEMMA KeepsValues ==
  ASSUME HeapOK, Grows, cell' = cell, NEW w, NEW e, NEW m, Valued(w), Judged(w, e, m)
  PROVE  Valued(w)' /\ Judged(w, e, m)'
<1>1. \A c \in 1 .. Len(cell) : Parts(cell[c])' = Parts(cell[c])
  BY CellStays
<1>2. Valued(w)'
  BY <1>1 DEF Valued
<1>3. CellPairs' = CellPairs /\ \A c : InCell(c)' = InCell(c)
  BY DEF CellPairs, InCell, At
<1>0. CellPairs = (1 .. Len(cell)) \X (1 .. Len(cell))
  BY CellFacts
<1>4. ASSUME NEW p \in CellPairs
      PROVE  /\ JudgeCells(p[1], p[2], e)' = JudgeCells(p[1], p[2], e)
             /\ WrongCells(p[1], p[2], w, m)' = WrongCells(p[1], p[2], w, m)
  <2>1. Parts(cell[p[1]])' = Parts(cell[p[1]]) /\ Parts(cell[p[2]])' = Parts(cell[p[2]])
    BY <1>0, <1>1
  <2> QED BY <1>3, <2>1 DEF JudgeCells, WrongCells
<1>5. Judged(w, e, m)'
  <2>1. e = [p \in CellPairs |-> JudgeCells(p[1], p[2], e)'] /\ m = [p \in CellPairs |-> WrongCells(p[1], p[2], w, m)']
    BY <1>4 DEF Judged
  <2>2. \A c, d \in 1 .. Len(cell) : Right(e[<<c, d>>], m[<<c, d>>], w[c], w[d])
    BY DEF Judged
  <2> QED BY <1>3, <2>1, <2>2 DEF Judged
<1> QED BY <1>2, <1>5

(* The heap stays in order when the new nodes, headers and pairs are.       *)
LEMMA HeapKept ==
  ASSUME HeapOK, Grows, cell' = cell,
         node' \in Seq([obj : 1 .. Len(cell), next : Nat]), list' \in Seq(Nat),
         pair' \in Seq([car : 1 .. Len(cell), cdr : 1 .. Len(cell)]),
         \A l \in 1 .. Len(list') : l > Len(list) => \E q : IsChain(node', list'[l], q)
  PROVE  HeapOK'
<1>1. ASSUME NEW l \in 1 .. Len(list') PROVE \E q : IsChain(node', list'[l], q)
  <2>1. CASE l > Len(list)
    BY <2>1
  <2>2. CASE ~(l > Len(list))
    <3>1. l \in 1 .. Len(list) /\ Len(node) \in Nat
      BY <2>2 DEF HeapOK
    <3>2. PICK q : IsChain(node, list[l], q)
      BY <3>1 DEF HeapOK
    <3>3. list'[l] = list[l]
      BY <3>1 DEF Grows, Extends
    <3>4. IsChain(node', list[l], q)
      BY <3>1, <3>2, ChainStays DEF Grows, Extends
    <3> QED BY <3>3, <3>4
  <2> QED BY <2>1, <2>2
<1>2. \A c \in 1 .. Len(cell) : Placed(cell[c])' /\ Parts(cell[c])' = Parts(cell[c])
  BY CellStays
<1>3. \A c \in 1 .. Len(cell) : Below(Parts(cell[c]), c)' /\ Placed(cell[c])'
  BY <1>2 DEF HeapOK, Below
<1>4. cell' \in Seq(Obj)
  BY DEF HeapOK
<1> QED BY <1>1, <1>3, <1>4 DEF HeapOK

------------------------------------------------------------------------------
(* The invariant.                                                           *)

KnownOK(w) ==
  /\ IsSeq(known) /\ IsSeq(values) /\ Len(values) = Len(known)
  /\ \A i \in 1 .. Len(known) :
       Placed(known[i]) /\ values[i] = ValueIn(known[i], Parts(known[i]), w)

Valid(w, e, m) == HeapOK /\ Valued(w) /\ Judged(w, e, m) /\ KnownOK(w) /\ verdict = due

\* The cells have values, and what the program has are theirs.
ListInv == ~strayed => \E w, e, m : Valid(w, e, m)

(* What an Object leads to has values, and so has the Object.               *)
LEMMA PartsValued ==
  ASSUME HeapOK, NEW w, Valued(w), NEW o, Placed(o)
  PROVE  /\ Fits(o, Parts(o)) /\ \A k \in 1 .. Len(Parts(o)) : Parts(o)[k] \in 1 .. Len(cell) /\ Proper(w[Parts(o)[k]])
         /\ Proper(ValueIn(o, Parts(o), w))
<1> DEFINE s == Parts(o)
<1>1. s \in Seq(1 .. Len(cell)) /\ Fits(o, s)
  BY PartsFacts DEF Fits
<1> HIDE DEF s
<1>2. \A k \in 1 .. Len(s) : s[k] \in 1 .. Len(cell)
  BY <1>1, Elem
<1>3. \A k \in 1 .. Len(s) : s[k] \in 1 .. Len(cell) /\ Proper(w[s[k]])
  BY <1>2 DEF Valued
<1>4. Proper(ValueIn(o, s, w))
  BY <1>1, <1>3, ValueProper
<1> QED BY <1>1, <1>3, <1>4 DEF s

(* What the program has keeps its value.                                    *)
LEMMA KnownStays ==
  ASSUME NEW w, HeapOK, Valued(w), KnownOK(w), Grows, NEW u, \A c \in 1 .. Len(cell) : u[c] = w[c],
         NEW i \in 1 .. Len(known)
  PROVE  \E x : /\ x = known[i] /\ Placed(x)' /\ values[i] = ValueIn(x, Parts(x)', u)
<1>1. PICK x : x = known[i]
  OBVIOUS
<1>2. Placed(x) /\ values[i] = ValueIn(x, Parts(x), w)
  BY <1>1 DEF KnownOK
<1>3. Placed(x)' /\ Parts(x)' = Parts(x)
  BY <1>2, PartsStay
<1>4. Fits(x, Parts(x)) /\ \A k \in 1 .. Len(Parts(x)) : Parts(x)[k] \in 1 .. Len(cell)
  BY <1>2, PartsValued
<1>5. ValueIn(x, Parts(x), w) = ValueIn(x, Parts(x), u)
  BY <1>4, ValueAgree
<1> QED BY <1>1, <1>2, <1>3, <1>5

(* A call that gives an Object of the promised value.                       *)
LEMMA GivesKeeps ==
  ASSUME NEW w, NEW e, NEW m, Valid(w, e, m), Grows, HeapOK',
         NEW u, NEW f, NEW n, Valued(u)', Judged(u, f, n)', \A c \in 1 .. Len(cell) : u[c] = w[c],
         NEW o, NEW v, Placed(o)', v = ValueIn(o, Parts(o)', u),
         known' = Append(known, o), values' = Append(values, v), UNCHANGED <<verdict, due>>
  PROVE  Valid(u, f, n)'
<1>0. /\ HeapOK /\ Valued(w) /\ KnownOK(w) /\ verdict = due
      /\ IsSeq(known) /\ IsSeq(values) /\ Len(values) = Len(known)
  BY DEF Valid, KnownOK
<1>1. /\ IsSeq(known') /\ IsSeq(values') /\ Len(known') = Len(known) + 1 /\ Len(values') = Len(known) + 1
      /\ known'[Len(known) + 1] = o /\ values'[Len(known) + 1] = v
      /\ \A i \in 1 .. Len(known) : known'[i] = known[i] /\ values'[i] = values[i]
      /\ Len(known) \in Nat
  BY <1>0, AppendFacts, SeqFacts
<1>2. ASSUME NEW i \in 1 .. Len(known')
      PROVE  Placed(known[i])' /\ values'[i] = ValueIn(known[i], Parts(known[i]), u)'
  <2>1. CASE i = Len(known) + 1
    <3>1. known'[i] = o /\ values'[i] = v
      BY <1>1, <2>1
    <3> QED BY <3>1
  <2>2. CASE i # Len(known) + 1
    <3>1. i \in 1 .. Len(known) /\ known'[i] = known[i] /\ values'[i] = values[i]
      BY <1>1, <2>2
    <3>2. PICK x : x = known[i] /\ Placed(x)' /\ values[i] = ValueIn(x, Parts(x)', u)
      BY <1>0, <3>1, KnownStays
    <3>3. known'[i] = x
      BY <3>1, <3>2
    <3> QED BY <3>1, <3>2, <3>3
  <2> QED BY <2>1, <2>2
<1>3. KnownOK(u)'
  BY <1>1, <1>2 DEF KnownOK
<1> QED BY <1>0, <1>3 DEF Valid

(* As long as the heap does not change, neither do they.                    *)
LEMMA SameHeap ==
  ASSUME NEW w, NEW e, NEW m, HeapOK, Valued(w), Judged(w, e, m), UNCHANGED heap
  PROVE  Grows /\ HeapOK' /\ Valued(w)' /\ Judged(w, e, m)'
<1>0. UNCHANGED <<cell, node, list, pair>>
  BY DEF heap
<1>1. Grows
  BY <1>0 DEF HeapOK, Grows, Extends
<1>2. HeapOK'
  <2>1. /\ node' \in Seq([obj : 1 .. Len(cell), next : Nat]) /\ list' \in Seq(Nat)
        /\ pair' \in Seq([car : 1 .. Len(cell), cdr : 1 .. Len(cell)])
    BY <1>0 DEF HeapOK
  <2>2. \A l \in 1 .. Len(list') : ~(l > Len(list))
    BY <1>0, <2>1
  <2> QED BY <1>0, <1>1, <2>1, <2>2, HeapKept
<1> QED BY <1>0, <1>1, <1>2, KeepsValues

(* A call that gives the contents of a cell.                                *)
LEMMA CellGiven ==
  ASSUME NEW w, NEW e, NEW m, Valid(w, e, m), UNCHANGED heap, NEW d \in 1 .. Len(cell),
         known' = Append(known, cell[d]), values' = Append(values, w[d]), UNCHANGED <<verdict, due>>
  PROVE  Valid(w, e, m)'
<1>1. HeapOK /\ Valued(w) /\ Judged(w, e, m)
  BY DEF Valid
<1>2. Grows /\ HeapOK' /\ Valued(w)' /\ Judged(w, e, m)'
  BY <1>1, SameHeap
<1>3. PICK o : o = cell[d]
  OBVIOUS
<1>4. Placed(o)
  BY <1>1, <1>3 DEF HeapOK
<1>5. Placed(o)' /\ Parts(o)' = Parts(o)
  BY <1>1, <1>2, <1>4, PartsStay
<1>6. PICK v : v = w[d]
  OBVIOUS
<1>7. v = ValueIn(o, Parts(o)', w)
  BY <1>1, <1>3, <1>5, <1>6 DEF Valued
<1>8. known' = Append(known, o) /\ values' = Append(values, v)
  BY <1>3, <1>6
<1> QED BY <1>2, <1>5, <1>7, <1>8, GivesKeeps

(* A call that answers as promised, or does nothing.                        *)
LEMMA AnswersKeeps ==
  ASSUME NEW w, NEW e, NEW m, Valid(w, e, m), UNCHANGED <<heap, known, values>>, verdict' = due'
  PROVE  Valid(w, e, m)'
<1>0. HeapOK /\ Valued(w) /\ Judged(w, e, m) /\ KnownOK(w)
  BY DEF Valid
<1>1. Grows /\ HeapOK' /\ Valued(w)' /\ Judged(w, e, m)'
  BY <1>0, SameHeap
<1>2. ASSUME NEW i \in 1 .. Len(known)
      PROVE  Placed(known[i])' /\ values[i] = ValueIn(known[i], Parts(known[i]), w)'
  <2>1. PICK x : x = known[i] /\ Placed(x)' /\ values[i] = ValueIn(x, Parts(x)', w)
    BY <1>0, <1>1, KnownStays
  <2>2. known'[i] = x
    BY <2>1
  <2> QED BY <2>1, <2>2
<1>3. KnownOK(w)'
  BY <1>0, <1>2 DEF KnownOK
<1> QED BY <1>1, <1>3 DEF Valid

(* A panic changes nothing.                                                 *)
LEMMA FailsKeeps ==
  ASSUME NEW w, NEW e, NEW m, Valid(w, e, m), Fails
  PROVE  Valid(w, e, m)'
BY AnswersKeeps DEF Fails, Valid

\* The i-th Object of the program is a list of nodes q and its value a list of
\* the elements V.
ListHas(w, i, q, V) ==
  /\ known[i].val \in 1 .. Len(list)
  /\ IsChain(node, list[known[i].val], q) /\ NodesOf(known[i]) = q
  /\ q \in Seq(1 .. Len(node)) /\ Len(q) \in Nat /\ DOMAIN q = 1 .. Len(q)
  /\ values[i] = <<"list", V>> /\ IsList(values[i]) /\ Elements(values[i]) = V
  /\ IsSeq(V) /\ Len(V) = Len(q)
  /\ \A k \in 1 .. Len(q) : node[q[k]].obj \in 1 .. Len(cell) /\ V[k] = w[node[q[k]].obj]
  /\ Empty(known[i]) <=> q = <<>>
  /\ q = <<>> <=> Len(q) = 0
  /\ q # <<>> => list[known[i].val] = q[1]

(* A list the program has, its nodes and its elements.                      *)
LEMMA ListFacts ==
  ASSUME NEW w, NEW e, NEW m, Valid(w, e, m), NEW i \in 1 .. Len(known), known[i].type = "list"
  PROVE  \E q, V : ListHas(w, i, q, V)
<1>0. HeapOK /\ Valued(w) /\ Placed(known[i])
  BY DEF Valid, KnownOK
<1> DEFINE o == known[i]
           s == Parts(o)
<1>1. o.val \in 1 .. Len(list)
  BY <1>0 DEF Placed
<1>2. PICK q : /\ IsChain(node, list[o.val], q) /\ NodesOf(o) = q
               /\ s = [k \in 1 .. Len(q) |-> node[q[k]].obj] /\ Len(s) = Len(q)
  BY <1>0, PartsFacts
<1>3. q \in Seq(1 .. Len(node)) /\ Len(q) \in Nat /\ DOMAIN q = 1 .. Len(q)
  BY <1>2 DEF IsChain
<1> DEFINE V == [k \in 1 .. Len(q) |-> w[s[k]]]
<1>4. values[i] = <<"list", V>>
  <2>1. values[i] = ValueIn(o, s, w)
    BY DEF Valid, KnownOK
  <2>2. ValueIn(o, s, w) = <<"list", [k \in DOMAIN s |-> w[s[k]]]>>
    BY ValueCases
  <2>3. DOMAIN s = 1 .. Len(q)
    BY <1>2
  <2> QED BY <2>1, <2>2, <2>3
<1>5. IsSeq(V) /\ Len(V) = Len(q) /\ \A k \in 1 .. Len(q) : V[k] = w[s[k]]
  BY <1>3, ASeq
<1>6. \A k \in 1 .. Len(q) : s[k] = node[q[k]].obj /\ s[k] \in 1 .. Len(cell)
  <2>1. s \in Seq(1 .. Len(cell))
    BY <1>0, PartsFacts
  <2>2. \A k \in 1 .. Len(q) : s[k] \in 1 .. Len(cell)
    BY <1>2, <2>1, Elem
  <2> QED BY <1>2, <2>2
<1> HIDE DEF V, s
<1>7. IsList(values[i]) /\ Elements(values[i]) = V
  BY <1>4, <1>5, ListProper
<1>8. q = <<>> <=> Len(q) = 0
  BY <1>3
<1>9. Empty(o) <=> q = <<>>
  <2>1. q # <<>> => q[1] # NULL
    BY <1>3, <1>8 DEF NULL
  <2>2. list[o.val] = IF q = <<>> THEN NULL ELSE q[1]
    BY <1>2 DEF IsChain
  <2> QED BY <2>1, <2>2 DEF Empty
<1>10. q # <<>> => list[o.val] = q[1]
  BY <1>2 DEF IsChain
<1> QED BY <1>1, <1>2, <1>3, <1>4, <1>5, <1>6, <1>7, <1>8, <1>9, <1>10 DEF ListHas

(* A pair the program has, and the values of its cells.                     *)
LEMMA PairFacts ==
  ASSUME NEW w, NEW e, NEW m, Valid(w, e, m), NEW i \in 1 .. Len(known), known[i].type = "pair"
  PROVE  LET p == pair[known[i].val]
         IN  /\ p.car \in 1 .. Len(cell) /\ p.cdr \in 1 .. Len(cell)
             /\ Proper(w[p.cdr]) /\ values[i] = Consed(w[p.car], w[p.cdr])
<1>0. HeapOK /\ Valued(w) /\ Placed(known[i])
  BY DEF Valid, KnownOK
<1> DEFINE o == known[i]
           s == Parts(o)
           p == pair[o.val]
<1>1. s = <<p.car, p.cdr>> /\ s \in Seq(1 .. Len(cell)) /\ Len(s) = 2
  BY <1>0, PartsFacts
<1>2. s[1] \in 1 .. Len(cell) /\ s[2] \in 1 .. Len(cell)
  <2> HIDE DEF s
  <2> QED BY <1>1
<1>3. s[1] = p.car /\ s[2] = p.cdr
  BY <1>1
<1>4. values[i] = ValueIn(o, s, w)
  BY DEF Valid, KnownOK
<1>5. values[i] = Consed(w[s[1]], w[s[2]])
  BY <1>4, ValueCases
<1>6. Proper(w[s[2]])
  BY <1>0, <1>2 DEF Valued
<1> HIDE DEF s, p
<1> QED BY <1>2, <1>3, <1>5, <1>6 DEF p

------------------------------------------------------------------------------
(* The calls that give what is there.                                       *)

(* What a call gives when the program has not strayed.                      *)
LEMMA Given ==
  ASSUME NEW o, NEW v, Gives(o, v, FALSE), ~strayed'
  PROVE  /\ ~strayed /\ UNCHANGED <<verdict, due>>
         /\ known' = Append(known, o) /\ values' = Append(values, v)
BY DEF Gives, Strays

(* Undefined behaviour is straying.                                         *)
LEMMA NoWander == ASSUME Wanders PROVE strayed'
BY DEF Wanders, Strays

(* A call that panics keeps the invariant,                                  *)
LEMMA FailsStep ==
  ASSUME ListInv, Fails
  PROVE  ListInv'
<1> SUFFICES ASSUME ~strayed' PROVE \E w, e, m : Valid(w, e, m)'
  BY DEF ListInv
<1>1. ~strayed
  BY DEF Fails
<1>2. PICK w, e, m : Valid(w, e, m)
  BY <1>1 DEF ListInv
<1> QED BY <1>2, FailsKeeps

(* and so does one whose behaviour is undefined.                            *)
LEMMA WandersStep ==
  ASSUME Wanders
  PROVE  ListInv'
BY NoWander DEF ListInv

(* What the contents of cell d are given for is the value of the cell.      *)
LEMMA ContentsStep ==
  ASSUME NEW w, NEW e, NEW m, Valid(w, e, m), NEW d \in 1 .. Len(cell), NEW c \in Contents(d),
         NEW v, v = w[d], Gives(c, v, FALSE), UNCHANGED heap, ~strayed'
  PROVE  Valid(w, e, m)'
<1>1. c = cell[d]
  BY DEF Contents, NULL
<1>2. UNCHANGED <<verdict, due>> /\ known' = Append(known, c) /\ values' = Append(values, v)
  BY Given
<1>3. known' = Append(known, cell[d]) /\ values' = Append(values, w[d])
  BY <1>1, <1>2
<1> QED BY <1>2, <1>3, CellGiven

(* The Objects of the program are numbered from 1.                          *)
LEMMA KnownDomain ==
  ASSUME NEW w, NEW e, NEW m, Valid(w, e, m)
  PROVE  Len(known) \in Nat /\ DOMAIN known = 1 .. Len(known)
BY SeqFacts DEF Valid, KnownOK

(* car gives the value of the first cell.                                   *)
LEMMA CarKeeps ==
  ASSUME ListInv, NEW i \in DOMAIN known, _car(i)
  PROVE  ListInv'
<1> DEFINE o == known[i]
<1>1. CASE Fails
  BY <1>1, FailsStep
<1>2. CASE Wanders
  BY <1>2, WandersStep
<1>3. CASE /\ o.type = "list" /\ ~Empty(o) /\ UNCHANGED heap
           /\ \E c \in Contents(node[list[o.val]].obj) : Gives(c, Car(values[i]), FALSE)
  <2> SUFFICES ASSUME ~strayed' PROVE \E w, e, m : Valid(w, e, m)'
    BY DEF ListInv
  <2>1. PICK c \in Contents(node[list[o.val]].obj) : Gives(c, Car(values[i]), FALSE)
    BY <1>3
  <2>2. ~strayed
    BY <2>1 DEF Gives, Strays
  <2>3. PICK w, e, m : Valid(w, e, m)
    BY <2>2 DEF ListInv
  <2>4. i \in 1 .. Len(known)
    BY <2>3, KnownDomain
  <2>5. PICK q, V : ListHas(w, i, q, V)
    BY <1>3, <2>3, <2>4, ListFacts
  <2>6. /\ q # <<>> /\ Len(q) \in Nat /\ Len(q) # 0 /\ list[o.val] = q[1] /\ IsSeq(V) /\ Len(V) = Len(q)
        /\ IsList(values[i]) /\ Elements(values[i]) = V
    BY <1>3, <2>5 DEF ListHas
  <2>7. 1 \in 1 .. Len(q)
    BY <2>6
  <2>8. node[q[1]].obj \in 1 .. Len(cell) /\ V[1] = w[node[q[1]].obj]
    BY <2>5, <2>7 DEF ListHas
  <2>9. Car(values[i]) = V[1]
    BY <2>6 DEF Car, Head
  <2>10. PICK d, v : d = node[q[1]].obj /\ v = w[d]
    OBVIOUS
  <2>11. d \in 1 .. Len(cell) /\ c \in Contents(d) /\ Gives(c, v, FALSE)
    BY <2>1, <2>6, <2>8, <2>9, <2>10
  <2> QED BY <1>3, <2>3, <2>10, <2>11, ContentsStep
<1>4. CASE /\ o.type = "pair" /\ UNCHANGED heap
           /\ \E c \in Contents(pair[o.val].car) : Gives(c, Car(values[i]), FALSE)
  <2> SUFFICES ASSUME ~strayed' PROVE \E w, e, m : Valid(w, e, m)'
    BY DEF ListInv
  <2>1. PICK c \in Contents(pair[o.val].car) : Gives(c, Car(values[i]), FALSE)
    BY <1>4
  <2>2. ~strayed
    BY <2>1 DEF Gives, Strays
  <2>3. PICK w, e, m : Valid(w, e, m)
    BY <2>2 DEF ListInv
  <2>4. i \in 1 .. Len(known)
    BY <2>3, KnownDomain
  <2>5. PICK d, b : d = pair[o.val].car /\ b = pair[o.val].cdr
    OBVIOUS
  <2>6. d \in 1 .. Len(cell) /\ Proper(w[b]) /\ values[i] = Consed(w[d], w[b])
    BY <1>4, <2>3, <2>4, <2>5, PairFacts
  <2>7. Car(values[i]) = w[d]
    BY <2>6, ConsedFacts
  <2>8. PICK v : v = w[d]
    OBVIOUS
  <2>9. c \in Contents(d) /\ Gives(c, v, FALSE)
    BY <2>1, <2>5, <2>7, <2>8
  <2> QED BY <1>4, <2>3, <2>6, <2>8, <2>9, ContentsStep
<1> QED BY <1>1, <1>2, <1>3, <1>4 DEF _car

(* list-ref gives the value of a cell further on.                           *)
LEMMA ListRefKeeps ==
  ASSUME ListInv, NEW i \in DOMAIN known, NEW k \in Index, _list_ref(i, k)
  PROVE  ListInv'
<1> DEFINE o == known[i]
<1>1. CASE Fails
  BY <1>1, FailsStep
<1>2. CASE /\ o.type = "list" /\ k + 1 \in DOMAIN NodesOf(o) /\ UNCHANGED heap
           /\ \E c \in Contents(node[NodesOf(o)[k + 1]].obj) : Gives(c, Elements(values[i])[k + 1], FALSE)
  <2> SUFFICES ASSUME ~strayed' PROVE \E w, e, m : Valid(w, e, m)'
    BY DEF ListInv
  <2>1. PICK c \in Contents(node[NodesOf(o)[k + 1]].obj) : Gives(c, Elements(values[i])[k + 1], FALSE)
    BY <1>2
  <2>2. ~strayed
    BY <2>1 DEF Gives, Strays
  <2>3. PICK w, e, m : Valid(w, e, m)
    BY <2>2 DEF ListInv
  <2>4. i \in 1 .. Len(known)
    BY <2>3, KnownDomain
  <2>5. PICK q, V : ListHas(w, i, q, V)
    BY <1>2, <2>3, <2>4, ListFacts
  <2>6. NodesOf(o) = q /\ Elements(values[i]) = V /\ DOMAIN q = 1 .. Len(q)
    BY <2>5 DEF ListHas
  <2>7. k + 1 \in 1 .. Len(q)
    BY <1>2, <2>6
  <2>8. node[q[k + 1]].obj \in 1 .. Len(cell) /\ V[k + 1] = w[node[q[k + 1]].obj]
    BY <2>5, <2>7 DEF ListHas
  <2>9. PICK d, v : d = node[q[k + 1]].obj /\ v = w[d]
    OBVIOUS
  <2>10. d \in 1 .. Len(cell) /\ c \in Contents(d) /\ Gives(c, v, FALSE)
    BY <2>1, <2>6, <2>8, <2>9
  <2> QED BY <1>2, <2>3, <2>9, <2>10, ContentsStep
<1> QED BY <1>1, <1>2 DEF _list_ref

------------------------------------------------------------------------------
(* The predicates.                                                          *)

(* What the value of an Object tells of its type.                           *)
LEMMA KindFacts ==
  ASSUME NEW w, NEW e, NEW m, Valid(w, e, m), NEW i \in 1 .. Len(known)
  PROVE  LET o == known[i]
             v == values[i]
         IN  /\ o.type = "null_obj" => v = <<"list", <<>>>>
             /\ o.type = "list" => IsList(v) /\ v = <<"list", Elements(v)>> /\ (Elements(v) = <<>> <=> Empty(o))
             /\ o.type = "pair" => \/ IsList(v) /\ v = <<"list", Elements(v)>> /\ Elements(v) # <<>>
                                   \/ ~IsList(v) /\ v[1] = "pair"
             /\ o.type \notin {"list", "pair", "null_obj"} => v = <<o.type, o.val>>
<1> DEFINE o == known[i]
           v == values[i]
<1>1. v = ValueIn(o, Parts(o), w)
  BY DEF Valid, KnownOK
<1>2. o.type = "list" => IsList(v) /\ v = <<"list", Elements(v)>> /\ (Elements(v) = <<>> <=> Empty(o))
  <2> SUFFICES ASSUME o.type = "list"
               PROVE  IsList(v) /\ v = <<"list", Elements(v)>> /\ (Elements(v) = <<>> <=> Empty(o))
    OBVIOUS
  <2>1. PICK q, V : ListHas(w, i, q, V)
    BY ListFacts
  <2>2. V = <<>> <=> Len(V) = 0
    <3>1. IsSeq(V)
      BY <2>1 DEF ListHas
    <3>2. Len(V) = 0 => V = <<>>
      BY <3>1, EmptyIsSeq, SameSeq
    <3> QED BY <3>2, EmptyIsSeq
  <2> QED BY <2>1, <2>2 DEF ListHas
<1>3. o.type = "pair" => \/ IsList(v) /\ v = <<"list", Elements(v)>> /\ Elements(v) # <<>>
                         \/ ~IsList(v) /\ v[1] = "pair"
  <2> SUFFICES ASSUME o.type = "pair"
               PROVE  \/ IsList(v) /\ v = <<"list", Elements(v)>> /\ Elements(v) # <<>>
                      \/ ~IsList(v) /\ v[1] = "pair"
    OBVIOUS
  <2>1. PICK x, y : Proper(y) /\ v = Consed(x, y)
    BY PairFacts
  <2> HIDE DEF v
  <2>2. IsList(y) => IsList(v) /\ v = <<"list", Elements(v)>> /\ Elements(v) # <<>>
    BY <2>1, ConsedFacts
  <2>3. ~IsList(y) => ~IsList(v) /\ v = <<"pair", x, y>>
    BY <2>1, ConsedFacts
  <2> QED BY <2>2, <2>3
<1>4. o.type = "null_obj" => v = <<"list", <<>>>>
  BY <1>1, ValueCases
<1>5. o.type \notin {"list", "pair", "null_obj"} => v = <<o.type, o.val>>
  BY <1>1, ValueCases
<1> QED BY <1>2, <1>3, <1>4, <1>5

(* pair? answers as R7RS does,                                              *)
LEMMA PairKeeps ==
  ASSUME ListInv, NEW i \in DOMAIN known, prim_pair_p(i)
  PROVE  ListInv'
<1> SUFFICES ASSUME ~strayed' PROVE \E w, e, m : Valid(w, e, m)'
  BY DEF ListInv
<1> DEFINE o == known[i]
           v == values[i]
           result == o.type = "pair" \/ (o.type = "list" /\ ~Empty(o))
           promise == IF IsList(v) THEN Elements(v) # <<>> ELSE v[1] = "pair"
<1>1. Answers(result, promise, FALSE)
  BY DEF prim_pair_p
<1>2. ~strayed
  BY <1>1 DEF Answers, Strays
<1>3. PICK w, e, m : Valid(w, e, m)
  BY <1>2 DEF ListInv
<1>4. i \in 1 .. Len(known)
  BY <1>3, KnownDomain
<1>5. result <=> promise
  <2> HIDE DEF v
  <2>1. CASE o.type = "list"
    BY <1>3, <1>4, <2>1, KindFacts DEF v
  <2>2. CASE o.type = "pair"
    BY <1>3, <1>4, <2>2, KindFacts DEF v
  <2>3. CASE o.type = "null_obj"
    <3>1. v = <<"list", <<>>>>
      BY <1>3, <1>4, <2>3, KindFacts DEF v
    <3> QED BY <2>3, <3>1 DEF IsList, Elements
  <2>4. CASE o.type \notin {"list", "pair", "null_obj"}
    <3>1. v = <<o.type, o.val>>
      BY <1>3, <1>4, <2>4, KindFacts DEF v
    <3> QED BY <2>4, <3>1 DEF IsList, Elements
  <2> QED BY <2>1, <2>2, <2>3, <2>4
<1>6. UNCHANGED <<heap, known, values>> /\ verdict' = result /\ due' = promise
  BY <1>1 DEF Answers
<1> HIDE DEF result, promise
<1>7. verdict' = due'
  BY <1>5, <1>6 DEF result, promise
<1> QED BY <1>3, <1>6, <1>7, AnswersKeeps

(* null? does,                                                              *)
LEMMA NullKeeps ==
  ASSUME ListInv, NEW i \in DOMAIN known, prim_null_p(i)
  PROVE  ListInv'
<1> SUFFICES ASSUME ~strayed' PROVE \E w, e, m : Valid(w, e, m)'
  BY DEF ListInv
<1> DEFINE o == known[i]
           v == values[i]
           result == o.type = "null_obj" \/ (o.type = "list" /\ Empty(o))
           promise == v = <<"list", <<>>>>
<1>1. Answers(result, promise, FALSE)
  BY DEF prim_null_p
<1>2. ~strayed
  BY <1>1 DEF Answers, Strays
<1>3. PICK w, e, m : Valid(w, e, m)
  BY <1>2 DEF ListInv
<1>4. i \in 1 .. Len(known)
  BY <1>3, KnownDomain
<1>5. result <=> promise
  <2> HIDE DEF v
  <2>1. CASE o.type = "list"
    <3>1. v = <<"list", Elements(v)>> /\ (Elements(v) = <<>> <=> Empty(o))
      BY <1>3, <1>4, <2>1, KindFacts DEF v
    <3>2. v = <<"list", <<>>>> <=> Elements(v) = <<>>
      BY <3>1 DEF Elements
    <3> QED BY <2>1, <3>1, <3>2
  <2>2. CASE o.type = "pair"
    <3>1. \/ IsList(v) /\ v = <<"list", Elements(v)>> /\ Elements(v) # <<>>
          \/ ~IsList(v)
      BY <1>3, <1>4, <2>2, KindFacts DEF v
    <3>2. v = <<"list", <<>>>> => IsList(v) /\ Elements(v) = <<>>
      BY DEF Elements, IsList
    <3> QED BY <2>2, <3>1, <3>2
  <2>3. CASE o.type = "null_obj"
    BY <1>3, <1>4, <2>3, KindFacts DEF v
  <2>4. CASE o.type \notin {"list", "pair", "null_obj"}
    <3>1. v = <<o.type, o.val>>
      BY <1>3, <1>4, <2>4, KindFacts DEF v
    <3> QED BY <2>4, <3>1
  <2> QED BY <2>1, <2>2, <2>3, <2>4
<1>6. UNCHANGED <<heap, known, values>> /\ verdict' = result /\ due' = promise
  BY <1>1 DEF Answers
<1> HIDE DEF result, promise
<1>7. verdict' = due'
  BY <1>5, <1>6 DEF result, promise
<1> QED BY <1>3, <1>6, <1>7, AnswersKeeps

(* and list? but for pairs and '().                                         *)
LEMMA ListPKeeps ==
  ASSUME ListInv, NEW i \in DOMAIN known, prim_list_p(i)
  PROVE  ListInv'
<1> SUFFICES ASSUME ~strayed' PROVE \E w, e, m : Valid(w, e, m)'
  BY DEF ListInv
<1> DEFINE o == known[i]
           v == values[i]
           result == o.type = "list"
           promise == IsList(v)
<1>1. Answers(result, promise, o.type \in {"pair", "null_obj"})
  BY DEF prim_list_p
<1>2. ~strayed /\ o.type \notin {"pair", "null_obj"}
  BY <1>1 DEF Answers, Strays
<1>3. PICK w, e, m : Valid(w, e, m)
  BY <1>2 DEF ListInv
<1>4. i \in 1 .. Len(known)
  BY <1>3, KnownDomain
<1>5. result <=> promise
  <2>1. CASE o.type = "list"
    BY <1>3, <1>4, <2>1, KindFacts
  <2>2. CASE o.type \notin {"list", "pair", "null_obj"}
    <3>1. v = <<o.type, o.val>>
      BY <1>3, <1>4, <2>2, KindFacts
    <3> QED BY <2>2, <3>1 DEF IsList
  <2> QED BY <1>2, <2>1, <2>2
<1>6. UNCHANGED <<heap, known, values>> /\ verdict' = result /\ due' = promise
  BY <1>1 DEF Answers
<1>7. verdict' = due'
  BY <1>5, <1>6 DEF IsList
<1> QED BY <1>3, <1>6, <1>7, AnswersKeeps

------------------------------------------------------------------------------
(* The calls that make a list.                                              *)

(* A new header on a chain, for the values of its cells.                    *)
LEMMA ListGiven ==
  ASSUME NEW w, NEW e, NEW m, Valid(w, e, m), Extends(node, node'),
         node' \in Seq([obj : 1 .. Len(cell), next : Nat]),
         NEW n \in Nat, list' = Append(list, n), UNCHANGED <<cell, pair, verdict, due>>,
         NEW q, IsChain(node', n, q),
         NEW V, IsSeq(V), Len(V) = Len(q), \A k \in 1 .. Len(q) : V[k] = w[node'[q[k]].obj],
         NEW g \in {FREE_OBJ, GEN_1_OBJ},
         known' = Append(known, Object("list", Len(list) + 1, g)),
         values' = Append(values, <<"list", V>>)
  PROVE  Valid(w, e, m)'
<1>0. HeapOK /\ Valued(w) /\ Judged(w, e, m) /\ list \in Seq(Nat)
  BY DEF Valid, HeapOK
<1> DEFINE L == Len(list) + 1
<1>1. /\ list' \in Seq(Nat) /\ Len(list') = L /\ list'[L] = n /\ Len(list) \in Nat
      /\ \A k \in 1 .. Len(list) : list'[k] = list[k]
  BY <1>0
<1>2. Grows
  BY <1>1 DEF Grows, Extends, Valid, HeapOK
<1>3. pair' \in Seq([car : 1 .. Len(cell), cdr : 1 .. Len(cell)])
  BY <1>0 DEF HeapOK
<1>4. \A l \in 1 .. Len(list') : l > Len(list) => \E r : IsChain(node', list'[l], r)
  <2>1. \A l \in 1 .. Len(list') : l > Len(list) => l = L
    BY <1>1
  <2> QED BY <1>1, <2>1
<1>5. HeapOK'
  BY <1>0, <1>1, <1>2, <1>3, <1>4, HeapKept
<1>6. Valued(w)' /\ Judged(w, e, m)'
  BY <1>0, <1>2, KeepsValues
<1>7. PICK o : o = Object("list", L, g)
  OBVIOUS
<1>8. o.type = "list" /\ o.val = L /\ o \in Obj
  BY <1>1, <1>7 DEF Object, Obj
<1>9. Placed(o)'
  BY <1>1, <1>8 DEF Placed
<1>10. Len(node') \in Nat /\ NodesFrom(node', n) = q
  BY ChainIs
<1>11. NodesOf(o)' = q
  BY <1>1, <1>8, <1>10 DEF NodesOf
<1>12. DOMAIN q = 1 .. Len(q) /\ Len(q) \in Nat
  BY DEF IsChain
<1> DEFINE s == [k \in 1 .. Len(q) |-> node'[q[k]].obj]
<1>13. Parts(o)' = s
  BY <1>8, <1>11, <1>12 DEF Parts
<1>14. <<"list", V>> = ValueIn(o, s, w)
  <2>1. V = [k \in 1 .. Len(q) |-> V[k]]
    BY SeqFacts
  <2>3. DOMAIN s = 1 .. Len(q)
    OBVIOUS
  <2>4. \A k \in 1 .. Len(q) : V[k] = w[s[k]]
    OBVIOUS
  <2> HIDE DEF s
  <2>2. ValueIn(o, s, w) = <<"list", [k \in DOMAIN s |-> w[s[k]]]>>
    BY <1>8, ValueCases
  <2> QED BY <2>1, <2>2, <2>3, <2>4
<1>15. PICK v : v = <<"list", V>>
  OBVIOUS
<1>16. v = ValueIn(o, Parts(o)', w)
  BY <1>13, <1>14, <1>15
<1>17. known' = Append(known, o) /\ values' = Append(values, v)
  BY <1>7, <1>15
<1> HIDE DEF L, s
<1> QED BY <1>2, <1>5, <1>6, <1>9, <1>16, <1>17, GivesKeeps

(* The rest of a sequence.                                                  *)
LEMMA TailFacts ==
  ASSUME NEW s, IsSeq(s), Len(s) # 0
  PROVE  IsSeq(Tail(s)) /\ Len(Tail(s)) = Len(s) - 1 /\ \A k \in 1 .. Len(s) - 1 : Tail(s)[k] = s[k + 1]
<1> DEFINE S == {s[i] : i \in DOMAIN s}
<1>1. s \in Seq(S) /\ s # <<>>
  BY DEF IsSeq
<1> HIDE DEF S
<1>2. Tail(s) \in Seq(S)
  BY <1>1
<1>3. IsSeq(Tail(s))
  BY <1>2, SetSeq
<1> QED BY <1>1, <1>3

(* null_const, for the empty list.                                          *)
LEMMA NullGiven ==
  ASSUME NEW w, NEW e, NEW m, Valid(w, e, m), UNCHANGED <<heap, verdict, due>>,
         known' = Append(known, null_const), values' = Append(values, <<"list", <<>>>>)
  PROVE  Valid(w, e, m)'
<1>1. Grows /\ HeapOK' /\ Valued(w)' /\ Judged(w, e, m)'
  BY SameHeap DEF Valid
<1>2. PICK o, v : o = null_const /\ v = <<"list", <<>>>>
  OBVIOUS
<1>3. o.type = "null_obj" /\ o \in Obj
  BY <1>2 DEF null_const, Object, Obj
<1>4. Placed(o)'
  BY <1>3 DEF Placed
<1>5. v = ValueIn(o, Parts(o)', w)
  BY <1>2, <1>3, ValueCases
<1>6. known' = Append(known, o) /\ values' = Append(values, v)
  BY <1>2
<1> QED BY <1>1, <1>4, <1>5, <1>6, GivesKeeps

(* cdr shares the nodes from the second on.                                 *)
LEMMA CdrKeeps ==
  ASSUME ListInv, NEW i \in DOMAIN known, _cdr(i)
  PROVE  ListInv'
<1> DEFINE o == known[i]
           rest == node[list[o.val]].next
<1>1. CASE Fails
  BY <1>1, FailsStep
<1>2. CASE Wanders
  BY <1>2, WandersStep
<1>3. ASSUME o.type = "list", ~Empty(o), ~strayed', NEW x, Gives(x, Cdr(values[i]), FALSE),
             rest = NULL => x = null_const /\ UNCHANGED heap,
             rest # NULL => x = Object("list", Len(list) + 1, FREE_OBJ) /\ list' = Append(list, rest)
                            /\ UNCHANGED <<cell, node, pair>>
      PROVE  \E w, e, m : Valid(w, e, m)'
  <2>1. /\ ~strayed /\ UNCHANGED <<verdict, due>>
        /\ known' = Append(known, x) /\ values' = Append(values, Cdr(values[i]))
    BY <1>3, Given
  <2>2. PICK w, e, m : Valid(w, e, m)
    BY <2>1 DEF ListInv
  <2>3. i \in 1 .. Len(known)
    BY <2>2, KnownDomain
  <2>4. PICK q, V : ListHas(w, i, q, V)
    BY <1>3, <2>2, <2>3, ListFacts
  <2>5. /\ q \in Seq(1 .. Len(node)) /\ Len(q) \in Nat /\ Len(q) # 0 /\ list[o.val] = q[1] /\ IsSeq(V)
        /\ Len(V) = Len(q) /\ IsList(values[i]) /\ Elements(values[i]) = V
        /\ IsChain(node, list[o.val], q)
        /\ \A k \in 1 .. Len(q) : V[k] = w[node[q[k]].obj]
    BY <1>3, <2>4 DEF ListHas
  <2>6. Cdr(values[i]) = <<"list", Tail(V)>>
    BY <2>5 DEF Cdr
  <2>7. IsSeq(Tail(V)) /\ Len(Tail(V)) = Len(q) - 1 /\ \A k \in 1 .. Len(q) - 1 : Tail(V)[k] = V[k + 1]
    BY <2>5, TailFacts
  <2>8. rest = IF Len(q) = 1 THEN NULL ELSE q[2]
    <3>1. 1 \in 1 .. Len(q)
      BY <2>5
    <3>2. node[q[1]].next = IF 1 = Len(q) THEN NULL ELSE q[1 + 1]
      <4>1. IsChain(node, list[o.val], q)
        BY <2>5
      <4> QED BY ONLY <3>1, <4>1 DEF IsChain
    <3>3. rest = node[q[1]].next
      BY <2>5
    <3> HIDE DEF rest
    <3> QED BY <3>2, <3>3
  <2>9. CASE Len(q) = 1
    <3>1. Tail(V) = <<>>
      <4>1. PICK U, z : U = Tail(V) /\ z = <<>>
        OBVIOUS
      <4>2. IsSeq(U) /\ Len(U) = 0
        BY <2>7, <2>9, <4>1
      <4>3. IsSeq(z) /\ Len(z) = 0
        BY <4>1, EmptyIsSeq
      <4>4. \A k \in 1 .. Len(U) : U[k] = z[k]
        BY <4>2
      <4>5. U = z
        BY <4>2, <4>3, <4>4, SameSeq
      <4> QED BY <4>1, <4>5
    <3>2. known' = Append(known, null_const) /\ values' = Append(values, <<"list", <<>>>>) /\ UNCHANGED heap
      BY <1>3, <2>1, <2>6, <2>8, <2>9, <3>1
    <3> QED BY <2>1, <2>2, <3>2, NullGiven
  <2>10. CASE Len(q) # 1
    <3>1. 2 \in 1 .. Len(q) /\ q[2] \in 1 .. Len(node) /\ q[2] # NULL
      <4>1. 2 \in 1 .. Len(q)
        BY <2>5, <2>10
      <4> QED BY <2>5, <4>1 DEF NULL
    <3>2. rest = q[2] /\ rest # NULL
      BY <2>8, <2>10, <3>1
    <3> DEFINE r == Tail(q)
    <3>3. /\ r \in Seq(1 .. Len(node)) /\ Len(r) = Len(q) - 1 /\ r # <<>>
          /\ \A k \in 1 .. Len(q) - 1 : r[k] = q[k + 1]
      <4>1. q # <<>> /\ q \in Seq(1 .. Len(node))
        BY <2>5
      <4>2. r \in Seq(1 .. Len(node))
        BY <4>1
      <4>3. IsSeq(q) /\ Len(q) # 0
        BY <2>5, SetSeq
      <4>4. Len(r) = Len(q) - 1 /\ \A k \in 1 .. Len(q) - 1 : r[k] = q[k + 1]
        BY <4>3, TailFacts
      <4> HIDE DEF r
      <4>5. r # <<>>
        BY <2>5, <2>10, <4>4
      <4> QED BY <4>2, <4>4, <4>5
    <3> HIDE DEF r
    <3>4. IsChain(node, q[2], r)
      <4>1. Len(r) <= Len(node)
        BY <2>5, <3>3 DEF IsChain
      <4>2. q[2] = r[1]
        <5>1. 1 \in 1 .. Len(q) - 1
          BY <2>5, <2>10
        <5> QED BY <3>3, <5>1
      <4>3. ASSUME NEW k \in 1 .. Len(r) PROVE node[r[k]].next = IF k = Len(r) THEN NULL ELSE r[k + 1]
        <5>0. Len(q) \in Nat /\ Len(r) = Len(q) - 1 /\ \A l \in 1 .. Len(q) - 1 : r[l] = q[l + 1]
          BY <2>5, <3>3
        <5>1. k + 1 \in 1 .. Len(q) /\ r[k] = q[k + 1]
          BY <5>0
        <5>2. node[q[k + 1]].next = IF k + 1 = Len(q) THEN NULL ELSE q[(k + 1) + 1]
          BY <2>5, <5>1 DEF IsChain
        <5>3. k # Len(r) => r[k + 1] = q[(k + 1) + 1]
          <6>1. k # Len(r) => k + 1 \in 1 .. Len(q) - 1
            BY <5>0
          <6> QED BY <5>0, <6>1
        <5> QED BY <2>5, <3>3, <5>1, <5>2, <5>3
      <4> QED BY <3>3, <4>1, <4>2, <4>3 DEF IsChain
    <3>5. ASSUME NEW k \in 1 .. Len(r) PROVE Tail(V)[k] = w[node[r[k]].obj]
      <4>1. k + 1 \in 1 .. Len(q) /\ k \in 1 .. Len(q) - 1
        BY <2>5, <3>3
      <4> QED BY <2>5, <2>7, <3>3, <4>1
    <3>6. /\ node \in Seq([obj : 1 .. Len(cell), next : Nat]) /\ UNCHANGED <<node, cell, pair>>
          /\ list' = Append(list, q[2]) /\ known' = Append(known, Object("list", Len(list) + 1, FREE_OBJ))
      BY <1>3, <2>1, <2>2, <3>2 DEF Valid, HeapOK
    <3>7. Extends(node, node')
      BY <3>6 DEF Extends
    <3>8. PICK U : U = Tail(V)
      OBVIOUS
    <3>9. values' = Append(values, <<"list", U>>)
      BY <2>1, <2>6, <3>8
    <3>10. IsSeq(U) /\ Len(U) = Len(r) /\ \A k \in 1 .. Len(r) : U[k] = w[node'[r[k]].obj]
      BY <2>7, <3>3, <3>5, <3>6, <3>8
    <3>11. IsChain(node', q[2], r)
      BY <3>4, <3>6
    <3>12. q[2] \in Nat /\ node' \in Seq([obj : 1 .. Len(cell), next : Nat])
      BY <3>1, <3>6
    <3>13. Valid(w, e, m)'
      BY <2>1, <2>2, <3>6, <3>7, <3>9, <3>10, <3>11, <3>12, ListGiven
    <3> QED BY <3>13
  <2> QED BY <2>9, <2>10
<1>4. CASE /\ o.type = "pair" /\ UNCHANGED heap
           /\ \E c \in Contents(pair[o.val].cdr) : Gives(c, Cdr(values[i]), FALSE)
  <2> SUFFICES ASSUME ~strayed' PROVE \E w, e, m : Valid(w, e, m)'
    BY DEF ListInv
  <2>1. PICK c \in Contents(pair[o.val].cdr) : Gives(c, Cdr(values[i]), FALSE)
    BY <1>4
  <2>2. ~strayed
    BY <2>1 DEF Gives, Strays
  <2>3. PICK w, e, m : Valid(w, e, m)
    BY <2>2 DEF ListInv
  <2>4. i \in 1 .. Len(known)
    BY <2>3, KnownDomain
  <2>5. PICK d, b : d = pair[o.val].cdr /\ b = pair[o.val].car
    OBVIOUS
  <2>6. d \in 1 .. Len(cell) /\ Proper(w[d]) /\ values[i] = Consed(w[b], w[d])
    BY <1>4, <2>3, <2>4, <2>5, PairFacts
  <2>7. Cdr(values[i]) = w[d]
    BY <2>6, ConsedFacts
  <2>8. PICK v : v = w[d]
    OBVIOUS
  <2>9. c \in Contents(d) /\ Gives(c, v, FALSE)
    BY <2>1, <2>5, <2>7, <2>8
  <2> QED BY <1>4, <2>3, <2>6, <2>8, <2>9, ContentsStep
<1>5. CASE o.type = "list" /\ ~Empty(o) /\ rest = NULL
           /\ Gives(null_const, Cdr(values[i]), FALSE) /\ UNCHANGED heap
  BY <1>3, <1>5 DEF ListInv
<1>6. CASE o.type = "list" /\ ~Empty(o) /\ rest # NULL
           /\ Gives(Object("list", Len(list) + 1, FREE_OBJ), Cdr(values[i]), FALSE)
           /\ list' = Append(list, rest) /\ UNCHANGED <<cell, node, pair>>
  BY <1>3, <1>6 DEF ListInv
<1> QED BY <1>1, <1>2, <1>4, <1>5, <1>6 DEF _cdr

\* r is s and then t.
Joins(r, s, t) ==
  /\ Len(r) = Len(s) + Len(t)
  /\ \A i \in 1 .. Len(s) : r[i] = s[i]
  /\ \A i \in 1 .. Len(t) : r[Len(s) + i] = t[i]

(* Which is a sequence.                                                     *)
LEMMA JoinedSeq ==
  ASSUME NEW s, IsSeq(s), NEW t, IsSeq(t), NEW r, r = s \o t
  PROVE  IsSeq(r) /\ Joins(r, s, t)
<1>1. /\ IsSeq(s \o t) /\ Len(s \o t) = Len(s) + Len(t)
      /\ \A i \in 1 .. Len(s) : (s \o t)[i] = s[i]
      /\ \A i \in 1 .. Len(t) : (s \o t)[Len(s) + i] = t[i]
  BY JoinFacts
<1> QED BY <1>1 DEF Joins

(* Nodes for the elements of a chain, linked to another chain.              *)
\* r has the A nodes behind N, and then q.
Behind(r, A, N, q) ==
  /\ Len(r) = A + Len(q)
  /\ \A k \in 1 .. A : r[k] = N + k
  /\ \A k \in 1 .. Len(q) : r[A + k] = q[k]

\* The A nodes behind N are linked to each other, and the last to tail.
Links(more, A, N, tail) ==
  \A k \in 1 .. A : more[N + k].next = IF k < A THEN N + k + 1 ELSE tail

(* The copies are followed by the nodes of the other chain.                 *)
LEMMA CopiesChain ==
  ASSUME NEW nodes, Len(nodes) \in Nat, NEW more, Extends(nodes, more),
         NEW A \in Nat, A # 0, Len(more) = Len(nodes) + A,
         NEW q, NEW tail, IsChain(nodes, tail, q), Links(more, A, Len(nodes), tail)
  PROVE  \E r : IsChain(more, Len(nodes) + 1, r) /\ Behind(r, A, Len(nodes), q)
<1> DEFINE N == Len(nodes)
           s == [k \in 1 .. A |-> N + k]
           r == s \o q
<1>0. /\ q \in Seq(1 .. N) /\ Len(q) \in Nat /\ Len(q) <= N /\ N \in Nat /\ Len(more) = N + A
      /\ \A k \in 1 .. N : more[k] = nodes[k]
      /\ \A k \in 1 .. A : more[N + k].next = IF k < A THEN N + k + 1 ELSE tail
  BY DEF IsChain, Extends, Links
<1>1. s \in Seq(1 .. N + A) /\ q \in Seq(1 .. N + A)
  <2>1. \A k \in 1 .. A : N + k \in 1 .. N + A
    BY <1>0
  <2>2. \A k \in 1 .. Len(q) : q[k] \in 1 .. N + A
    BY <1>0
  <2> QED BY <1>0, <2>1, <2>2
<1>2. r \in Seq(1 .. N + A)
  <2> HIDE DEF s
  <2> QED BY <1>1
<1>3. IsSeq(s) /\ Len(s) = A /\ \A k \in 1 .. A : s[k] = N + k
  <2>1. s = [k \in 1 .. A |-> s[k]] /\ \A k \in 1 .. A : s[k] = N + k
    OBVIOUS
  <2> HIDE DEF s
  <2> QED BY <2>1, ASeq
<1>4. IsSeq(q)
  BY <1>0, SetSeq
<1>5. /\ Len(r) = A + Len(q)
      /\ \A k \in 1 .. A : r[k] = N + k
      /\ \A k \in 1 .. Len(q) : r[A + k] = q[k]
  <2>0. r = s \o q
    OBVIOUS
  <2> HIDE DEF s, r
  <2>1. /\ Len(r) = Len(s) + Len(q)
        /\ \A k \in 1 .. Len(s) : r[k] = s[k]
        /\ \A k \in 1 .. Len(q) : r[Len(s) + k] = q[k]
    <3>1. Joins(r, s, q)
      BY <1>3, <1>4, <2>0, JoinedSeq
    <3> QED BY <3>1 DEF Joins
  <2> QED BY <1>3, <2>1
<1> HIDE DEF r, s, N
<1>6. r # <<>> /\ r[1] = N + 1
  <2>1. 1 \in 1 .. A
    OBVIOUS
  <2> QED BY <1>0, <1>5, <2>1
<1>7. ASSUME NEW k \in 1 .. Len(r) PROVE more[r[k]].next = IF k = Len(r) THEN NULL ELSE r[k + 1]
  <2>1. CASE k < A
    <3>1. k \in 1 .. A /\ k + 1 \in 1 .. A /\ k # Len(r)
      BY <1>0, <1>5, <2>1
    <3>2. more[N + k].next = N + k + 1
      BY <1>0, <2>1, <3>1
    <3>3. r[k] = N + k /\ r[k + 1] = N + (k + 1)
      BY <1>5, <3>1
    <3>4. N + k + 1 = N + (k + 1)
      BY <1>0
    <3> QED BY <3>1, <3>2, <3>3, <3>4
  <2>2. CASE k = A
    <3>1. k \in 1 .. A /\ r[k] = N + k /\ more[N + k].next = tail
      BY <1>0, <1>5, <2>2
    <3>2. tail = IF q = <<>> THEN NULL ELSE q[1]
      BY DEF IsChain
    <3>3. q = <<>> <=> Len(q) = 0
      BY <1>0
    <3>4. k = Len(r) <=> Len(q) = 0
      BY <1>0, <1>5, <2>2
    <3>5. Len(q) # 0 => r[k + 1] = q[1]
      <4>1. Len(q) # 0 => 1 \in 1 .. Len(q)
        BY <1>0
      <4> QED BY <1>5, <2>2, <4>1
    <3> QED BY <3>1, <3>2, <3>3, <3>4, <3>5
  <2>3. CASE k > A
    <3>1. PICK l \in 1 .. Len(q) : k = A + l
      <4>1. k - A \in 1 .. Len(q) /\ k = A + (k - A)
        BY <1>0, <1>5, <2>3
      <4> QED BY <4>1
    <3>2. r[k] = q[l] /\ q[l] \in 1 .. N
      BY <1>0, <1>5, <3>1
    <3>3. more[q[l]].next = IF l = Len(q) THEN NULL ELSE q[l + 1]
      BY <1>0, <3>2 DEF IsChain
    <3>4. k = Len(r) <=> l = Len(q)
      <4>1. Len(r) = A + Len(q) /\ k = A + l
        BY <1>5, <3>1
      <4>2. Len(q) \in Nat /\ A \in Nat /\ l \in Nat
        BY <1>0, <3>1
      <4> QED BY <4>1, <4>2
    <3>5. l # Len(q) => r[k + 1] = q[l + 1]
      <4> SUFFICES ASSUME l # Len(q) PROVE r[k + 1] = q[l + 1]
        OBVIOUS
      <4>1. l + 1 \in 1 .. Len(q) /\ k + 1 = A + (l + 1)
        BY <1>0, <3>1
      <4>2. r[A + (l + 1)] = q[l + 1]
        BY <1>5, <4>1
      <4> QED BY <4>1, <4>2
    <3> QED BY <3>2, <3>3, <3>4, <3>5
  <2> QED BY <1>0, <1>5, <2>1, <2>2, <2>3
<1>8. IsChain(more, N + 1, r)
  <2>1. Len(r) <= Len(more) /\ r \in Seq(1 .. Len(more))
    BY <1>0, <1>2, <1>5
  <2> QED BY <1>6, <1>7, <2>1 DEF IsChain
<1> QED BY <1>5, <1>8 DEF N, Behind

(* The first list is copied, and the copies lead to what it leads to.       *)
\* The new nodes copy those of q, and end in tail.
CopiesAre(q, tail) ==
  /\ node' \in Seq([obj : 1 .. Len(cell), next : Nat]) /\ Len(node') = Len(node) + Len(q)
  /\ Extends(node, node') /\ Links(node', Len(q), Len(node), tail)
  /\ \A k \in 1 .. Len(q) : node'[Len(node) + k].obj = node[q[k]].obj

(* The nodes append makes for a list of the program.                        *)
LEMMA CopiesFacts ==
  ASSUME NEW w, NEW e, NEW m, Valid(w, e, m), NEW i \in 1 .. Len(known), NEW q, NEW V, ListHas(w, i, q, V),
         NEW tail \in Nat, node' = Linked(known[i], tail)
  PROVE  CopiesAre(q, tail)
<1> DEFINE N == Len(node)
           C == [k \in 1 .. Len(q) |-> Node(node[q[k]].obj, IF k < Len(q) THEN N + k + 1 ELSE tail)]
           S == [obj : 1 .. Len(cell), next : Nat]
<1>0. node \in Seq(S) /\ N \in Nat /\ Len(q) \in Nat /\ DOMAIN q = 1 .. Len(q)
      /\ \A k \in 1 .. Len(q) : node[q[k]].obj \in 1 .. Len(cell)
  <2>1. node \in Seq(S) /\ N \in Nat
    BY DEF Valid, HeapOK
  <2>2. Len(q) \in Nat /\ DOMAIN q = 1 .. Len(q)
    BY DEF ListHas
  <2>3. \A k \in 1 .. Len(q) : node[q[k]].obj \in 1 .. Len(cell)
    BY DEF ListHas
  <2> QED BY <2>1, <2>2, <2>3
<1>1. node' = node \o C
  BY <1>0 DEF Linked, Copies, ListHas
<1>2. \A k \in 1 .. Len(q) : C[k] \in S
  BY <1>0 DEF Node
<1>3. \A k \in 1 .. Len(q) : C[k].obj = node[q[k]].obj /\ C[k].next = IF k < Len(q) THEN N + k + 1 ELSE tail
  BY DEF Node
<1>4. C = [k \in 1 .. Len(q) |-> C[k]]
  OBVIOUS
<1> HIDE DEF C, S, N
<1>5. C \in Seq(S) /\ Len(C) = Len(q)
  BY <1>0, <1>2, <1>4
<1>6. IsSeq(node) /\ IsSeq(C)
  BY <1>0, <1>5, SetSeq
<1>7. node' \in Seq(S)
  BY <1>0, <1>1, <1>5
<1>8. /\ Len(node') = N + Len(q)
      /\ \A k \in 1 .. N : node'[k] = node[k]
      /\ \A k \in 1 .. Len(q) : node'[N + k] = C[k]
  <2>1. Joins(node', node, C)
    BY <1>1, <1>6, JoinedSeq
  <2> QED BY <1>5, <2>1 DEF N, Joins
<1>9. Extends(node, node')
  BY <1>0, <1>8 DEF Extends, N
<1>10. Links(node', Len(q), N, tail)
  BY <1>3, <1>8 DEF Links
<1> QED BY <1>3, <1>7, <1>8, <1>9, <1>10 DEF N, S, CopiesAre

(* append copies the first list and shares the second.                      *)
LEMMA AppendKeeps ==
  ASSUME ListInv, NEW i \in DOMAIN known, NEW j \in DOMAIN known, _list_append(i, j)
  PROVE  ListInv'
<1> DEFINE a == known[i]
           b == known[j]
<1>1. CASE Fails
  BY <1>1, FailsStep
<1>2. CASE Wanders
  BY <1>2, WandersStep
<1>3. CASE /\ a.type = "list" /\ b.type = "list" /\ ~Empty(a)
           /\ node' = Linked(a, list[b.val]) /\ list' = Append(list, Len(node) + 1)
           /\ Gives(Object("list", Len(list) + 1, GEN_1_OBJ),
                      <<"list", Elements(values[i]) \o Elements(values[j])>>, FALSE)
           /\ UNCHANGED <<cell, pair>>
  <2> SUFFICES ASSUME ~strayed' PROVE \E w, e, m : Valid(w, e, m)'
    BY DEF ListInv
  <2>1. /\ ~strayed /\ UNCHANGED <<verdict, due>>
        /\ known' = Append(known, Object("list", Len(list) + 1, GEN_1_OBJ))
        /\ values' = Append(values, <<"list", Elements(values[i]) \o Elements(values[j])>>)
    BY <1>3, Given
  <2>2. PICK w, e, m : Valid(w, e, m)
    BY <2>1 DEF ListInv
  <2>3. i \in 1 .. Len(known) /\ j \in 1 .. Len(known)
    BY <2>2, KnownDomain
  <2>4. PICK q, V : ListHas(w, i, q, V)
    BY <1>3, <2>2, <2>3, ListFacts
  <2>5. PICK r, X : ListHas(w, j, r, X)
    BY <1>3, <2>2, <2>3, ListFacts
  <2> DEFINE N == Len(node)
             A == Len(q)
  <2>6. /\ A \in Nat /\ A # 0 /\ IsSeq(V) /\ Len(V) = A /\ Elements(values[i]) = V
        /\ \A k \in 1 .. A : V[k] = w[node[q[k]].obj]
    BY <1>3, <2>4 DEF ListHas
  <2>7. /\ Len(r) \in Nat /\ IsSeq(X) /\ Len(X) = Len(r) /\ Elements(values[j]) = X
        /\ \A k \in 1 .. Len(r) : r[k] \in 1 .. N /\ X[k] = w[node[r[k]].obj]
        /\ IsChain(node, list[b.val], r) /\ b.val \in 1 .. Len(list)
    <3>1. r \in Seq(1 .. Len(node))
      BY <2>5 DEF ListHas
    <3> QED BY <2>5, <3>1, Elem DEF ListHas
  <2>8. PICK tail : tail = list[b.val]
    OBVIOUS
  <2>9. tail \in Nat
    BY <2>2, <2>7, <2>8 DEF Valid, HeapOK
  <2>10. N \in Nat /\ cell' = cell
    BY <1>3, <2>2 DEF Valid, HeapOK
  <2>11. CopiesAre(q, tail)
    <3>1. node' = Linked(known[i], tail)
      BY <1>3, <2>8
    <3> QED BY <2>2, <2>3, <2>4, <2>9, <3>1, CopiesFacts
  <2>12. /\ node' \in Seq([obj : 1 .. Len(cell), next : Nat]) /\ Len(node') = N + A
         /\ Extends(node, node') /\ Links(node', A, N, tail)
         /\ \A k \in 1 .. N : node'[k] = node[k]
         /\ \A k \in 1 .. A : node'[N + k].obj = node[q[k]].obj
    BY <2>11 DEF CopiesAre, Extends
  <2>13. PICK s : /\ IsChain(node', N + 1, s) /\ Len(s) = A + Len(r)
                  /\ \A k \in 1 .. A : s[k] = N + k
                  /\ \A k \in 1 .. Len(r) : s[A + k] = r[k]
    <3>1. IsChain(node, tail, r)
      BY <2>7, <2>8
    <3>2. \E s : IsChain(node', N + 1, s) /\ Behind(s, A, N, r)
      BY <2>6, <2>10, <2>12, <3>1, CopiesChain
    <3> QED BY <3>2 DEF Behind
  <2>14. PICK U : U = V \o X
    OBVIOUS
  <2>15. /\ IsSeq(U) /\ Len(U) = A + Len(r)
         /\ \A k \in 1 .. A : U[k] = V[k]
         /\ \A k \in 1 .. Len(r) : U[A + k] = X[k]
    <3>1. IsSeq(U) /\ Joins(U, V, X)
      BY <2>6, <2>7, <2>14, JoinedSeq
    <3> QED BY <2>6, <2>7, <3>1 DEF Joins
  <2> HIDE DEF N, A
  <2>16. ASSUME NEW k \in 1 .. Len(s) PROVE U[k] = w[node'[s[k]].obj]
    <3>1. CASE k <= A
      <4>1. k \in 1 .. A
        BY <2>6, <2>7, <2>13, <3>1
      <4>2. U[k] = V[k] /\ s[k] = N + k /\ V[k] = w[node[q[k]].obj]
        BY <2>6, <2>13, <2>15, <4>1
      <4>3. node'[N + k].obj = node[q[k]].obj
        BY <2>12, <4>1
      <4> QED BY <4>2, <4>3
    <3>2. CASE k > A
      <4>1. PICK l \in 1 .. Len(r) : k = A + l
        <5>1. k - A \in 1 .. Len(r) /\ k = A + (k - A)
          BY <2>6, <2>7, <2>13, <3>2
        <5> QED BY <5>1
      <4>2. s[k] = r[l] /\ U[k] = X[l] /\ r[l] \in 1 .. N /\ X[l] = w[node[r[l]].obj]
        BY <2>7, <2>13, <2>15, <4>1
      <4>3. node'[r[l]] = node[r[l]]
        BY <2>12, <4>2
      <4> QED BY <4>2, <4>3
    <3> QED BY <2>6, <2>7, <2>13, <3>1, <3>2
  <2>17. values' = Append(values, <<"list", U>>)
    BY <2>1, <2>6, <2>7, <2>14
  <2>18. list' = Append(list, N + 1) /\ N + 1 \in Nat /\ UNCHANGED <<cell, pair, verdict, due>>
    BY <1>3, <2>1, <2>10 DEF N
  <2>19. IsSeq(U) /\ Len(U) = Len(s)
    BY <2>13, <2>15
  <2>20. Valid(w, e, m)'
    <3>1. /\ Extends(node, node') /\ node' \in Seq([obj : 1 .. Len(cell), next : Nat])
          /\ IsChain(node', N + 1, s) /\ \A k \in 1 .. Len(s) : U[k] = w[node'[s[k]].obj]
      BY <2>12, <2>13, <2>16
    <3> QED BY <2>1, <2>2, <2>17, <2>18, <2>19, <3>1, ListGiven
  <2> QED BY <2>20
<1> QED BY <1>1, <1>2, <1>3 DEF _list_append

------------------------------------------------------------------------------
(* The call that makes cells.                                               *)

\* Valued and Judged, of L cells C that lead to P.
JudgeOf(C, P, c, d, e) == Judge(At(C[c], c), At(C[d], d), P[c], P[d], e)
WrongOf(C, P, c, d, w, m) == MisjudgedIn(At(C[c], c), At(C[d], d), P[c], P[d], w, m)

ValuedOf(C, P, L, w) ==
  /\ IsSeq(w) /\ Len(w) = L
  /\ \A c \in 1 .. L : w[c] = ValueIn(C[c], P[c], w) /\ Proper(w[c])
JudgedOf(C, P, L, w, e, m) ==
  /\ e = [p \in (1 .. L) \X (1 .. L) |-> JudgeOf(C, P, p[1], p[2], e)]
  /\ m = [p \in (1 .. L) \X (1 .. L) |-> WrongOf(C, P, p[1], p[2], w, m)]
  /\ \A c, d \in 1 .. L : Right(e[<<c, d>>], m[<<c, d>>], w[c], w[d])

\* New cells lead to old ones.
OldParts(C, P, N, L) ==
  \A c \in 1 .. L : Fits(C[c], P[c]) /\ \A k \in 1 .. Len(P[c]) : P[c][k] \in 1 .. N

\* What the cells are, in terms of the old ones.
NewValuesOf(C, P, L, w) == [c \in 1 .. L |-> ValueIn(C[c], P[c], w)]
NewJudgeOf(C, P, L, e) == [p \in (1 .. L) \X (1 .. L) |-> JudgeOf(C, P, p[1], p[2], e)]
NewWrongOf(C, P, L, w, m) == [p \in (1 .. L) \X (1 .. L) |-> WrongOf(C, P, p[1], p[2], w, m)]

(* The new cells get the values of what they lead to, the old ones keep     *)
(* theirs,                                                                  *)
LEMMA NewValues ==
  ASSUME NEW C, NEW P, NEW N \in Nat, NEW L \in Nat, N <= L, OldParts(C, P, N, L),
         NEW w, ValuedOf(C, P, N, w), NEW u, u = NewValuesOf(C, P, L, w)
  PROVE  ValuedOf(C, P, L, u) /\ \A c \in 1 .. N : u[c] = w[c]
<1>1. IsSeq(u) /\ Len(u) = L /\ \A c \in 1 .. L : u[c] = ValueIn(C[c], P[c], w)
  <2>1. \A c \in 1 .. L : u[c] = ValueIn(C[c], P[c], w)
    BY DEF NewValuesOf
  <2>2. u = [c \in 1 .. L |-> u[c]]
    BY DEF NewValuesOf
  <2> QED BY <2>1, <2>2, ASeq
<1>2. \A c \in 1 .. N : u[c] = w[c]
  <2>1. \A c \in 1 .. N : c \in 1 .. L
    OBVIOUS
  <2>2. \A c \in 1 .. N : w[c] = ValueIn(C[c], P[c], w)
    BY DEF ValuedOf
  <2> QED BY <1>1, <2>1, <2>2
<1>3. ASSUME NEW c \in 1 .. L PROVE u[c] = ValueIn(C[c], P[c], u) /\ Proper(u[c])
  <2> DEFINE o == C[c]
             s == P[c]
  <2>1. Fits(o, s) /\ \A k \in 1 .. Len(s) : s[k] \in 1 .. N
    BY DEF OldParts
  <2>2. u[c] = ValueIn(o, s, w)
    BY <1>1
  <2> HIDE DEF o, s
  <2>3. \A k \in 1 .. Len(s) : w[s[k]] = u[s[k]] /\ Proper(w[s[k]])
    BY <1>2, <2>1 DEF ValuedOf
  <2>4. ValueIn(o, s, w) = ValueIn(o, s, u)
    <3>1. Fits(o, s) /\ \A k \in 1 .. Len(s) : w[s[k]] = u[s[k]]
      BY <2>1, <2>3
    <3> QED BY <3>1, ValueAgree
  <2>5. Proper(ValueIn(o, s, w))
    BY <2>1, <2>3, ValueProper
  <2> QED BY <2>2, <2>4, <2>5 DEF o, s
<1> QED BY <1>1, <1>2, <1>3 DEF ValuedOf

(* and equal? is as right about the new cells as about the old.             *)
LEMMA NewJudgements ==
  ASSUME NEW C, NEW P, NEW N \in Nat, NEW L \in Nat, N <= L, OldParts(C, P, N, L),
         NEW w, ValuedOf(C, P, N, w), NEW e, NEW m, JudgedOf(C, P, N, w, e, m),
         NEW u, u = NewValuesOf(C, P, L, w), NEW f, f = NewJudgeOf(C, P, L, e),
         NEW n, n = NewWrongOf(C, P, L, w, m)
  PROVE  JudgedOf(C, P, L, u, f, n)
<1>1. \A c, d \in 1 .. L : f[<<c, d>>] = JudgeOf(C, P, c, d, e) /\ n[<<c, d>>] = WrongOf(C, P, c, d, w, m)
  <2> SUFFICES ASSUME NEW c \in 1 .. L, NEW d \in 1 .. L
               PROVE  f[<<c, d>>] = JudgeOf(C, P, c, d, e) /\ n[<<c, d>>] = WrongOf(C, P, c, d, w, m)
    OBVIOUS
  <2>1. <<c, d>> \in (1 .. L) \X (1 .. L) /\ <<c, d>>[1] = c /\ <<c, d>>[2] = d
    OBVIOUS
  <2> QED BY <2>1 DEF NewJudgeOf, NewWrongOf
<1>2. \A c, d \in 1 .. N : e[<<c, d>>] = JudgeOf(C, P, c, d, e) /\ m[<<c, d>>] = WrongOf(C, P, c, d, w, m)
  <2> SUFFICES ASSUME NEW c \in 1 .. N, NEW d \in 1 .. N
               PROVE  e[<<c, d>>] = JudgeOf(C, P, c, d, e) /\ m[<<c, d>>] = WrongOf(C, P, c, d, w, m)
    OBVIOUS
  <2>1. <<c, d>> \in (1 .. N) \X (1 .. N) /\ <<c, d>>[1] = c /\ <<c, d>>[2] = d
    OBVIOUS
  <2>2. /\ e = [p \in (1 .. N) \X (1 .. N) |-> JudgeOf(C, P, p[1], p[2], e)]
        /\ m = [p \in (1 .. N) \X (1 .. N) |-> WrongOf(C, P, p[1], p[2], w, m)]
    BY DEF JudgedOf
  <2> QED BY <2>1, <2>2
<1>3. \A c, d \in 1 .. N : f[<<c, d>>] = e[<<c, d>>] /\ n[<<c, d>>] = m[<<c, d>>]
  <2>1. \A c \in 1 .. N : c \in 1 .. L
    OBVIOUS
  <2> QED BY <1>1, <1>2, <2>1
<1>4. \A c \in 1 .. N : u[c] = w[c] /\ Proper(w[c])
  BY NewValues DEF ValuedOf
<1>5. ASSUME NEW c \in 1 .. L, NEW d \in 1 .. L
      PROVE  /\ JudgeOf(C, P, c, d, e) = JudgeOf(C, P, c, d, f)
             /\ WrongOf(C, P, c, d, w, m) = WrongOf(C, P, c, d, u, n)
             /\ Right(f[<<c, d>>], n[<<c, d>>], u[c], u[d])
  <2> DEFINE a == At(C[c], c)
             b == At(C[d], d)
             s == P[c]
             t == P[d]
  <2>1. /\ Fits(C[c], s) /\ \A k \in 1 .. Len(s) : s[k] \in 1 .. N
        /\ Fits(C[d], t) /\ \A k \in 1 .. Len(t) : t[k] \in 1 .. N
    BY DEF OldParts
  <2>2. a.obj = C[c] /\ b.obj = C[d] /\ a.c = c /\ b.c = d
    BY DEF At
  <2>3. /\ JudgeOf(C, P, c, d, e) = Judge(a, b, s, t, e) /\ JudgeOf(C, P, c, d, f) = Judge(a, b, s, t, f)
        /\ WrongOf(C, P, c, d, w, m) = MisjudgedIn(a, b, s, t, w, m)
        /\ WrongOf(C, P, c, d, u, n) = MisjudgedIn(a, b, s, t, u, n)
    BY DEF JudgeOf, WrongOf
  <2>4. u[c] = ValueIn(a.obj, s, w) /\ u[d] = ValueIn(b.obj, t, w)
    BY <2>2 DEF NewValuesOf
  <2> HIDE DEF a, b, s, t
  <2>5. /\ Fits(a.obj, s) /\ Fits(b.obj, t)
        /\ \A k \in 1 .. Len(s) : w[s[k]] = u[s[k]] /\ Proper(w[s[k]])
        /\ \A k \in 1 .. Len(t) : w[t[k]] = u[t[k]] /\ Proper(w[t[k]])
    BY <1>4, <2>1, <2>2
  <2>6. ASSUME NEW k \in 1 .. Len(s), NEW l \in 1 .. Len(t)
        PROVE  /\ e[<<s[k], t[l]>>] = f[<<s[k], t[l]>>] /\ m[<<s[k], t[l]>>] = n[<<s[k], t[l]>>]
               /\ Right(e[<<s[k], t[l]>>], m[<<s[k], t[l]>>], w[s[k]], w[t[l]])
    <3>1. s[k] \in 1 .. N /\ t[l] \in 1 .. N
      BY <2>1
    <3> QED BY <1>3, <3>1 DEF JudgedOf
  <2>7. Judge(a, b, s, t, e) = Judge(a, b, s, t, f)
    <3>1. \A k \in 1 .. Len(s), l \in 1 .. Len(t) : e[<<s[k], t[l]>>] = f[<<s[k], t[l]>>]
      BY <2>6
    <3> QED BY <2>5, <3>1, JudgeAgree
  <2>8. MisjudgedIn(a, b, s, t, w, m) = MisjudgedIn(a, b, s, t, u, n)
    <3>1. \A k \in 1 .. Len(s), l \in 1 .. Len(t) : m[<<s[k], t[l]>>] = n[<<s[k], t[l]>>]
      BY <2>6
    <3>2. /\ \A k \in 1 .. Len(s) : w[s[k]] = u[s[k]]
          /\ \A k \in 1 .. Len(t) : w[t[k]] = u[t[k]]
      BY <2>5
    <3>3. Fits(a.obj, s) /\ Fits(b.obj, t)
      BY <2>5
    <3> HIDE DEF a, b, s, t
    <3>4. PICK x, y, z, v : x = w /\ y = u /\ z = m /\ v = n
      OBVIOUS
    <3>5. MisjudgedIn(a, b, s, t, x, z) = MisjudgedIn(a, b, s, t, y, v)
      BY ONLY <3>1, <3>2, <3>3, <3>4, MisjudgedAgree
    <3> QED BY <3>4, <3>5
  <2>9. a.c = b.c => a.obj = b.obj
    BY <2>2
  <2>10. Right(Judge(a, b, s, t, e), MisjudgedIn(a, b, s, t, w, m), ValueIn(a.obj, s, w), ValueIn(b.obj, t, w))
    BY <2>5, <2>6, <2>9, RightStep
  <2> QED BY <1>1, <2>3, <2>4, <2>7, <2>8, <2>10
<1>6. f = [p \in (1 .. L) \X (1 .. L) |-> JudgeOf(C, P, p[1], p[2], f)]
  <2>1. \A p \in (1 .. L) \X (1 .. L) : JudgeOf(C, P, p[1], p[2], e) = JudgeOf(C, P, p[1], p[2], f)
    BY <1>5
  <2> QED BY <2>1 DEF NewJudgeOf
<1>7. n = [p \in (1 .. L) \X (1 .. L) |-> WrongOf(C, P, p[1], p[2], u, n)]
  <2>1. \A p \in (1 .. L) \X (1 .. L) : WrongOf(C, P, p[1], p[2], w, m) = WrongOf(C, P, p[1], p[2], u, n)
    BY <1>5
  <2> QED BY <2>1 DEF NewWrongOf
<1> QED BY <1>5, <1>6, <1>7 DEF JudgedOf

\* L cells have values and judgements that extend those of the first N.
Extended(C, P, N, L, w) ==
  \E u, f, n : /\ ValuedOf(C, P, L, u) /\ JudgedOf(C, P, L, u, f, n)
               /\ \A c \in 1 .. N : u[c] = w[c]

(* Cells that lead to old ones have values, and equal? is judged on them.   *)
LEMMA CellsAdded ==
  ASSUME NEW C, NEW P, NEW N \in Nat, NEW L \in Nat, N <= L, OldParts(C, P, N, L),
         NEW w, ValuedOf(C, P, N, w), NEW e, NEW m, JudgedOf(C, P, N, w, e, m)
  PROVE  Extended(C, P, N, L, w)
<1>1. PICK u : u = NewValuesOf(C, P, L, w)
  OBVIOUS
<1>2. PICK f : f = NewJudgeOf(C, P, L, e)
  OBVIOUS
<1>3. PICK n : n = NewWrongOf(C, P, L, w, m)
  OBVIOUS
<1>4. ValuedOf(C, P, L, u) /\ \A c \in 1 .. N : u[c] = w[c]
  BY <1>1, NewValues
<1>5. JudgedOf(C, P, L, u, f, n)
  BY <1>1, <1>2, <1>3, NewJudgements
<1> QED BY <1>4, <1>5 DEF Extended

(* They are the cells of the heap before a step,                            *)
LEMMA OldCells ==
  ASSUME HeapOK, NEW P, \A c \in 1 .. Len(cell) : P[c] = Parts(cell[c]),
         NEW C, \A c \in 1 .. Len(cell) : C[c] = cell[c],
         NEW w, Valued(w), NEW e, NEW m, Judged(w, e, m)
  PROVE  ValuedOf(C, P, Len(cell), w) /\ JudgedOf(C, P, Len(cell), w, e, m)
<1>0. CellPairs = (1 .. Len(cell)) \X (1 .. Len(cell))
  BY CellFacts
<1>1. ValuedOf(C, P, Len(cell), w)
  BY DEF Valued, ValuedOf
<1>2. ASSUME NEW p \in CellPairs
      PROVE  /\ JudgeCells(p[1], p[2], e) = JudgeOf(C, P, p[1], p[2], e)
             /\ WrongCells(p[1], p[2], w, m) = WrongOf(C, P, p[1], p[2], w, m)
  <2>1. /\ P[p[1]] = Parts(cell[p[1]]) /\ P[p[2]] = Parts(cell[p[2]])
        /\ C[p[1]] = cell[p[1]] /\ C[p[2]] = cell[p[2]]
    BY <1>0
  <2> QED BY <2>1 DEF JudgeCells, JudgeOf, WrongCells, WrongOf, InCell
<1>3. /\ e = [p \in (1 .. Len(cell)) \X (1 .. Len(cell)) |-> JudgeOf(C, P, p[1], p[2], e)]
      /\ m = [p \in (1 .. Len(cell)) \X (1 .. Len(cell)) |-> WrongOf(C, P, p[1], p[2], w, m)]
  <2>1. e = [p \in CellPairs |-> JudgeCells(p[1], p[2], e)] /\ m = [p \in CellPairs |-> WrongCells(p[1], p[2], w, m)]
    BY DEF Judged
  <2> QED BY <1>0, <1>2, <2>1
<1>4. \A c, d \in 1 .. Len(cell) : Right(e[<<c, d>>], m[<<c, d>>], w[c], w[d])
  BY DEF Judged
<1> QED BY <1>1, <1>3, <1>4 DEF JudgedOf

(* and after it.                                                            *)
LEMMA NewCells ==
  ASSUME NEW C, cell' = C, DOMAIN C = 1 .. Len(C), NEW P, \A c \in 1 .. Len(C) : P[c] = Parts(C[c])',
         NEW u, ValuedOf(C, P, Len(C), u), NEW f, NEW n, JudgedOf(C, P, Len(C), u, f, n)
  PROVE  Valued(u)' /\ Judged(u, f, n)'
<1>0. CellPairs' = (1 .. Len(C)) \X (1 .. Len(C))
  BY DEF CellPairs
<1>1. \A c \in 1 .. Len(C) : Parts(cell[c])' = P[c]
  <2> SUFFICES ASSUME NEW c \in 1 .. Len(C) PROVE Parts(cell[c])' = P[c]
    OBVIOUS
  <2>1. PICK o : o = C[c]
    OBVIOUS
  <2>2. cell'[c] = o /\ P[c] = Parts(o)'
    BY <2>1
  <2> QED BY <2>2
<1>2. Valued(u)'
  BY <1>1 DEF Valued, ValuedOf
<1>3. ASSUME NEW p \in (1 .. Len(C)) \X (1 .. Len(C))
      PROVE  /\ JudgeCells(p[1], p[2], f)' = JudgeOf(C, P, p[1], p[2], f)
             /\ WrongCells(p[1], p[2], u, n)' = WrongOf(C, P, p[1], p[2], u, n)
  <2>1. Parts(cell[p[1]])' = P[p[1]] /\ Parts(cell[p[2]])' = P[p[2]]
    BY <1>1
  <2>2. InCell(p[1])' = At(C[p[1]], p[1]) /\ InCell(p[2])' = At(C[p[2]], p[2])
    BY DEF InCell, At
  <2> QED BY <2>1, <2>2 DEF JudgeCells, JudgeOf, WrongCells, WrongOf
<1>4. /\ f = [p \in CellPairs |-> JudgeCells(p[1], p[2], f)]'
      /\ n = [p \in CellPairs |-> WrongCells(p[1], p[2], u, n)]'
  BY <1>0, <1>3 DEF JudgedOf
<1>5. \A c, d \in 1 .. Len(C) : Right(f[<<c, d>>], n[<<c, d>>], u[c], u[d])
  BY DEF JudgedOf
<1>6. Judged(u, f, n)'
  BY <1>4, <1>5 DEF Judged
<1> QED BY <1>2, <1>6

(* A sequence of elements of a set.                                         *)
LEMMA InSeq ==
  ASSUME NEW T, NEW s \in Seq(T), NEW S, \A k \in 1 .. Len(s) : s[k] \in S
  PROVE  s \in Seq(S)
<1>1. s = [k \in 1 .. Len(s) |-> s[k]] /\ Len(s) \in Nat
  OBVIOUS
<1>2. s \in [1 .. Len(s) -> S]
  BY <1>1
<1> QED BY <1>1, <1>2

(* Two cells and a pair of them.                                            *)
LEMMA HeapAdds ==
  ASSUME HeapOK, NEW a, Placed(a), NEW b, Placed(b),
         cell' = cell \o <<a>> \o <<b>>, UNCHANGED <<node, list>>,
         pair' = Append(pair, [car |-> Len(cell) + 1, cdr |-> Len(cell) + 2])
  PROVE  /\ Grows /\ HeapOK'
         /\ Len(cell') = Len(cell) + 2 /\ cell'[Len(cell) + 1] = a /\ cell'[Len(cell) + 2] = b
         /\ Len(pair') = Len(pair) + 1
         /\ pair'[Len(pair) + 1] = [car |-> Len(cell) + 1, cdr |-> Len(cell) + 2]
<1> DEFINE N == Len(cell)
           R == [car : 1 .. N + 2, cdr : 1 .. N + 2]
           p == [car |-> N + 1, cdr |-> N + 2]
<1>0. /\ cell \in Seq(Obj) /\ N \in Nat /\ a \in Obj /\ b \in Obj
      /\ node \in Seq([obj : 1 .. N, next : Nat]) /\ list \in Seq(Nat)
      /\ pair \in Seq([car : 1 .. N, cdr : 1 .. N]) /\ Len(pair) \in Nat
  BY DEF HeapOK, Placed
<1>1. /\ cell' \in Seq(Obj) /\ Len(cell') = N + 2 /\ cell'[N + 1] = a /\ cell'[N + 2] = b
      /\ \A c \in 1 .. N : cell'[c] = cell[c]
  <2> HIDE DEF Obj
  <2>1. <<a>> \in Seq(Obj) /\ <<b>> \in Seq(Obj)
    BY <1>0
  <2>2. PICK s : s = cell \o <<a>>
    OBVIOUS
  <2>3. s \in Seq(Obj) /\ Len(s) = N + 1 /\ s[N + 1] = a /\ \A c \in 1 .. N : s[c] = cell[c]
    BY <1>0, <2>2
  <2>4. cell' = s \o <<b>>
    BY <2>2
  <2>5. cell' \in Seq(Obj) /\ Len(cell') = N + 2 /\ cell'[N + 2] = b /\ \A c \in 1 .. N + 1 : cell'[c] = s[c]
    BY <1>0, <2>3, <2>4
  <2>6. N + 1 \in 1 .. N + 1 /\ \A c \in 1 .. N : c \in 1 .. N + 1
    BY <1>0
  <2> QED BY <2>3, <2>5, <2>6
<1>2. /\ pair' \in Seq(R) /\ Len(pair') = Len(pair) + 1 /\ pair'[Len(pair) + 1] = p
      /\ \A c \in 1 .. Len(pair) : pair'[c] = pair[c]
  <2>1. pair \in Seq(R)
    <3>1. \A c \in 1 .. Len(pair) : pair[c] \in R
      <4> SUFFICES ASSUME NEW c \in 1 .. Len(pair) PROVE pair[c] \in R
        OBVIOUS
      <4>1. pair[c] \in [car : 1 .. N, cdr : 1 .. N]
        BY <1>0, Elem
      <4> QED BY <1>0, <4>1
    <3> HIDE DEF R
    <3> QED BY <1>0, <3>1, InSeq
  <2>2. p \in R /\ pair' = Append(pair, p)
    BY <1>0
  <2> HIDE DEF R, p
  <2> QED BY <2>1, <2>2
<1>3. node' \in Seq([obj : 1 .. N + 2, next : Nat])
  <2> DEFINE S == [obj : 1 .. N + 2, next : Nat]
  <2>1. \A c \in 1 .. Len(node) : node[c] \in S
    <3> SUFFICES ASSUME NEW c \in 1 .. Len(node) PROVE node[c] \in S
      OBVIOUS
    <3>1. node[c] \in [obj : 1 .. N, next : Nat]
      BY <1>0, Elem
    <3> QED BY <1>0, <3>1
  <2> HIDE DEF S
  <2>3. node \in Seq(S)
    BY <1>0, <2>1, InSeq
  <2> QED BY <2>3 DEF S
<1> HIDE DEF p
<1>4. Grows
  BY <1>0, <1>1, <1>2 DEF Grows, Extends
<1>5. \A l \in 1 .. Len(list') : \E q : IsChain(node', list'[l], q)
  BY DEF HeapOK
<1>6. ASSUME NEW c \in 1 .. N + 2 PROVE Placed(cell[c])' /\ Below(Parts(cell[c]), c)'
  <2>1. ASSUME NEW x, Placed(x), cell'[c] = x, c \in {N + 1, N + 2} PROVE Placed(cell[c])' /\ Below(Parts(cell[c]), c)'
    <3>1. Placed(x)' /\ Parts(x)' = Parts(x)
      BY <1>4, <2>1, PartsStay
    <3>2. Parts(x) \in Seq(1 .. N)
      BY <2>1, PartsFacts
    <3>3. PICK s : s = Parts(x)
      OBVIOUS
    <3>4. \A k \in 1 .. Len(s) : s[k] \in 1 .. c - 1
      <4>1. \A k \in 1 .. Len(s) : s[k] \in 1 .. N
        BY <3>2, <3>3, Elem
      <4> QED BY <1>0, <2>1, <4>1
    <3>5. Parts(cell[c])' = s /\ Placed(cell[c])'
      BY <2>1, <3>1, <3>3
    <3> QED BY <3>4, <3>5 DEF Below
  <2>2. CASE c = N + 1
    BY <1>1, <2>1, <2>2
  <2>3. CASE c = N + 2
    BY <1>1, <2>1, <2>3
  <2>4. CASE c \in 1 .. N
    <3>1. Placed(cell[c])' /\ Parts(cell[c])' = Parts(cell[c])
      BY <1>4, <2>4, CellStays
    <3>2. Below(Parts(cell[c]), c)
      BY <2>4 DEF HeapOK
    <3> QED BY <3>1, <3>2 DEF Below
  <2> QED BY <1>0, <2>2, <2>3, <2>4
<1>7. list' \in Seq(Nat)
  BY <1>0
<1>8. HeapOK'
  BY <1>1, <1>2, <1>3, <1>5, <1>6, <1>7 DEF HeapOK
<1> QED BY <1>1, <1>2, <1>4, <1>8 DEF p

(* cons copies its operands to new cells.                                   *)
LEMMA ConsKeeps ==
  ASSUME ListInv, NEW i \in DOMAIN known, NEW j \in DOMAIN known, _cons(i, j)
  PROVE  ListInv'
<1> DEFINE first == cell \o CopyOf(known[i])
           N == Len(cell)
           o == Object("pair", Len(pair) + 1, GEN_1_OBJ)
           promise == Consed(values[i], values[j])
<1> SUFFICES ASSUME ~strayed' PROVE \E w, e, m : Valid(w, e, m)'
  BY DEF ListInv
<1>1. /\ OnStack(known[i]) /\ OnStack(known[j]) /\ UNCHANGED <<node, list>>
      /\ cell' = first \o CopyOf(known[j])
      /\ pair' = Append(pair, [car |-> PlaceIn(cell, known[i]), cdr |-> PlaceIn(first, known[j])])
      /\ Gives(o, promise, FALSE)
  BY DEF _cons, Gives, Strays
<1>2. /\ ~strayed /\ UNCHANGED <<verdict, due>>
      /\ known' = Append(known, o) /\ values' = Append(values, promise)
  BY <1>1, Given
<1>3. PICK w, e, m : Valid(w, e, m)
  BY <1>2 DEF ListInv
<1>4. i \in 1 .. Len(known) /\ j \in 1 .. Len(known)
  BY <1>3, KnownDomain
<1>5. HeapOK /\ Valued(w) /\ Judged(w, e, m) /\ N \in Nat /\ cell \in Seq(Obj)
  BY <1>3 DEF Valid, HeapOK
<1>6. PICK a, b : a = known[i] /\ b = known[j]
  OBVIOUS
<1>7. /\ Placed(a) /\ values[i] = ValueIn(a, Parts(a), w)
      /\ Placed(b) /\ values[j] = ValueIn(b, Parts(b), w)
  BY <1>3, <1>4, <1>6 DEF Valid, KnownOK
<1>8. /\ cell' = cell \o <<a>> \o <<b>>
      /\ pair' = Append(pair, [car |-> N + 1, cdr |-> N + 2])
  <2>1. CopyOf(known[i]) = <<a>> /\ CopyOf(known[j]) = <<b>>
    BY <1>1, <1>6 DEF CopyOf
  <2>2. Len(cell \o <<a>>) = N + 1
    <3>1. a \in Obj
      BY <1>7 DEF Placed
    <3> HIDE DEF Obj
    <3> QED BY <1>5, <3>1
  <2>3. PlaceIn(cell, known[i]) = N + 1 /\ PlaceIn(first, known[j]) = N + 2
    BY <1>1, <1>5, <2>1, <2>2 DEF PlaceIn
  <2> QED BY <1>1, <2>1, <2>3
<1>9. /\ Grows /\ HeapOK'
      /\ Len(cell') = N + 2 /\ cell'[N + 1] = a /\ cell'[N + 2] = b
      /\ Len(pair') = Len(pair) + 1 /\ pair'[Len(pair) + 1] = [car |-> N + 1, cdr |-> N + 2]
  BY <1>1, <1>5, <1>7, <1>8, HeapAdds
<1>10. Parts(a)' = Parts(a) /\ Parts(b)' = Parts(b)
  BY <1>5, <1>7, <1>9, PartsStay
<1>11. PICK C : C = cell'
  OBVIOUS
<1>12. /\ Len(C) = N + 2 /\ C[N + 1] = a /\ C[N + 2] = b /\ DOMAIN C = 1 .. Len(C)
       /\ \A c \in 1 .. N : C[c] = cell[c]
  <2>1. \A c \in 1 .. N : C[c] = cell[c]
    BY <1>9, <1>11 DEF Grows, Extends
  <2>2. DOMAIN C = 1 .. Len(C)
    BY <1>9, <1>11 DEF HeapOK
  <2> QED BY <1>9, <1>11, <2>1, <2>2
<1>13. PICK P : P = [c \in 1 .. Len(C) |-> Parts(C[c])']
  OBVIOUS
<1>14. \A c \in 1 .. Len(C) : P[c] = Parts(C[c])'
  BY <1>13
<1>15. P[N + 1] = Parts(a) /\ P[N + 2] = Parts(b) /\ \A c \in 1 .. N : P[c] = Parts(cell[c])
  <2>1. P[N + 1] = Parts(a) /\ P[N + 2] = Parts(b)
    BY <1>5, <1>10, <1>12, <1>14
  <2>2. ASSUME NEW c \in 1 .. N PROVE P[c] = Parts(cell[c])
    <3>1. PICK x : x = cell[c]
      OBVIOUS
    <3>2. Placed(x)
      BY <1>5, <3>1 DEF HeapOK
    <3>3. Parts(x)' = Parts(x)
      BY <1>5, <1>9, <3>2, PartsStay
    <3>4. C[c] = x /\ c \in 1 .. Len(C)
      BY <1>5, <1>12, <3>1
    <3> QED BY <1>14, <3>1, <3>3, <3>4
  <2> QED BY <2>1, <2>2
<1>16. OldParts(C, P, N, N + 2)
  <2> SUFFICES ASSUME NEW c \in 1 .. N + 2
               PROVE  Fits(C[c], P[c]) /\ \A k \in 1 .. Len(P[c]) : P[c][k] \in 1 .. N
    BY DEF OldParts
  <2>1. PICK x : x = C[c]
    OBVIOUS
  <2>2. P[c] = Parts(x) /\ Placed(x)
    <3>1. CASE c \in 1 .. N
      BY <1>5, <1>12, <1>15, <2>1, <3>1 DEF HeapOK
    <3>2. CASE c = N + 1
      BY <1>7, <1>12, <1>15, <2>1, <3>2
    <3>3. CASE c = N + 2
      BY <1>7, <1>12, <1>15, <2>1, <3>3
    <3> QED BY <1>5, <3>1, <3>2, <3>3
  <2>3. Fits(x, Parts(x)) /\ \A k \in 1 .. Len(Parts(x)) : Parts(x)[k] \in 1 .. N
    BY <1>5, <2>2, PartsValued
  <2> QED BY <2>1, <2>2, <2>3
<1>17. ValuedOf(C, P, N, w) /\ JudgedOf(C, P, N, w, e, m)
  BY <1>5, <1>12, <1>15, OldCells
<1>18. PICK u, f, n : /\ ValuedOf(C, P, N + 2, u) /\ JudgedOf(C, P, N + 2, u, f, n)
                      /\ \A c \in 1 .. N : u[c] = w[c]
  <2>1. PICK L : L = N + 2
    OBVIOUS
  <2>2. L \in Nat /\ N <= L /\ OldParts(C, P, N, L)
    BY <1>5, <1>16, <2>1
  <2>3. Extended(C, P, N, L, w)
    BY <1>5, <1>17, <2>2, CellsAdded
  <2> QED BY <2>1, <2>3 DEF Extended
<1>19. Valued(u)' /\ Judged(u, f, n)'
  BY <1>11, <1>12, <1>14, <1>18, NewCells
<1>20. values[i] = u[N + 1] /\ values[j] = u[N + 2]
  <2>1. N + 1 \in 1 .. N + 2 /\ N + 2 \in 1 .. N + 2
    BY <1>5
  <2>2. u[N + 1] = ValueIn(a, Parts(a), u) /\ u[N + 2] = ValueIn(b, Parts(b), u)
    BY <1>12, <1>15, <1>18, <2>1 DEF ValuedOf
  <2>3. ASSUME NEW x, Placed(x) PROVE ValueIn(x, Parts(x), w) = ValueIn(x, Parts(x), u)
    <3>1. Fits(x, Parts(x)) /\ \A k \in 1 .. Len(Parts(x)) : Parts(x)[k] \in 1 .. N
      BY <1>5, <2>3, PartsValued
    <3>2. \A k \in 1 .. Len(Parts(x)) : w[Parts(x)[k]] = u[Parts(x)[k]]
      BY <1>18, <3>1
    <3> QED BY <3>1, <3>2, ValueAgree
  <2> QED BY <1>7, <2>2, <2>3
<1>21. PICK x, v : x = o /\ v = promise
  OBVIOUS
<1>22. x.type = "pair" /\ x.val = Len(pair) + 1 /\ x \in Obj /\ Len(pair) \in Nat
  BY <1>5, <1>21 DEF Object, Obj, HeapOK
<1>23. Placed(x)'
  BY <1>9, <1>22 DEF Placed
<1>24. Parts(x)' = <<N + 1, N + 2>>
  <2>1. Parts(x)' = <<pair'[x.val].car, pair'[x.val].cdr>>
    BY <1>22 DEF Parts
  <2> QED BY <1>9, <1>22, <2>1
<1>25. v = ValueIn(x, Parts(x)', u)
  <2>1. ValueIn(x, <<N + 1, N + 2>>, u) = Consed(u[N + 1], u[N + 2])
    BY <1>22, ValueCases
  <2> QED BY <1>20, <1>21, <1>24, <2>1
<1>26. known' = Append(known, x) /\ values' = Append(values, v)
  BY <1>2, <1>21
<1>27. Valid(u, f, n)'
  BY <1>2, <1>3, <1>9, <1>18, <1>19, <1>23, <1>25, <1>26, GivesKeeps
<1> QED BY <1>27

------------------------------------------------------------------------------
(* The equivalences.                                                        *)

(* What eq? calls the same has the same value.                              *)
LEMMA SameValue ==
  ASSUME NEW w, NEW e, NEW m, Valid(w, e, m), NEW i \in 1 .. Len(known), NEW j \in 1 .. Len(known),
         known[i].type = known[j].type, SameHeads(known[i], known[j])
  PROVE  values[i] = values[j]
<1> DEFINE o == known[i]
           x == known[j]
<1>1. values[i] = ValueIn(o, Parts(o), w) /\ values[j] = ValueIn(x, Parts(x), w)
  BY DEF Valid, KnownOK
<1>2. CASE o.type = "list" /\ Empty(o) /\ Empty(x)
  <2>1. x.type = "list"
    BY <1>2
  <2>2. values[i] = <<"list", Elements(values[i])>> /\ Elements(values[i]) = <<>>
    BY <1>2, KindFacts
  <2>3. values[j] = <<"list", Elements(values[j])>> /\ Elements(values[j]) = <<>>
    BY <1>2, <2>1, KindFacts
  <2> QED BY <2>2, <2>3
<1>3. CASE o.val = x.val
  <2>1. Parts(o) = Parts(x)
    BY <1>3 DEF Parts, NodesOf
  <2>2. CASE o.type \in {"list", "pair"}
    <3>1. PICK s : s = Parts(o)
      OBVIOUS
    <3>2. values[i] = ValueIn(o, s, w) /\ values[j] = ValueIn(x, s, w)
      BY <1>1, <2>1, <3>1
    <3>3. x.type = o.type
      OBVIOUS
    <3> HIDE DEF o, x
    <3>4. CASE o.type = "list"
      <4>1. ValueIn(o, s, w) = <<"list", [k \in DOMAIN s |-> w[s[k]]]>>
        BY <3>4, ValueCases
      <4>2. ValueIn(x, s, w) = <<"list", [k \in DOMAIN s |-> w[s[k]]]>>
        BY <3>3, <3>4, ValueCases
      <4> QED BY <3>2, <4>1, <4>2
    <3>5. CASE o.type = "pair"
      BY <3>2, <3>3, <3>5, ValueCases
    <3> QED BY <2>2, <3>4, <3>5
  <2>4. CASE o.type = "null_obj"
    BY <2>4, KindFacts
  <2>5. CASE o.type \notin {"list", "pair", "null_obj"}
    BY <1>1, <1>3, <2>5, ValueCases
  <2> QED BY <2>2, <2>4, <2>5
<1> QED BY <1>2, <1>3 DEF SameHeads

(* eq? calls the same only what has the same value,                         *)
LEMMA EqKeeps ==
  ASSUME ListInv, NEW i \in DOMAIN known, NEW j \in DOMAIN known, Eq(i, j)
  PROVE  ListInv'
<1> DEFINE same == _eq(Popped(i, 1), Popped(j, 2))
           promise == same /\ values[i] = values[j]
<1> SUFFICES ASSUME ~strayed' PROVE \E w, e, m : Valid(w, e, m)'
  BY DEF ListInv
<1>1. Answers(same, promise, FALSE)
  BY DEF Eq
<1>2. ~strayed /\ UNCHANGED <<heap, known, values>> /\ verdict' = same /\ due' = promise
  BY <1>1 DEF Answers, Strays
<1>3. PICK w, e, m : Valid(w, e, m)
  BY <1>2 DEF ListInv
<1>4. i \in 1 .. Len(known) /\ j \in 1 .. Len(known)
  BY <1>3, KnownDomain
<1>5. same = (known[i].type = known[j].type /\ SameHeads(known[i], known[j]))
  BY DEF _eq, Popped, At
<1>6. same => values[i] = values[j]
  BY <1>3, <1>4, <1>5, SameValue
<1>7. same \in BOOLEAN
  BY <1>5
<1> HIDE DEF same
<1>8. verdict' = due'
  BY <1>2, <1>6, <1>7
<1> QED BY <1>2, <1>3, <1>8, AnswersKeeps

(* and so does eqv?.                                                        *)
LEMMA EqvKeeps ==
  ASSUME ListInv, NEW i \in DOMAIN known, NEW j \in DOMAIN known, Eqv(i, j)
  PROVE  ListInv'
<1> DEFINE says == _eqv(Popped(i, 1), Popped(j, 2))
           promise == says = "true" /\ values[i] = values[j]
<1>0. CASE Fails
  BY <1>0, FailsStep
<1>1. CASE says # "panic" /\ Answers(says = "true", promise, FALSE)
  <2> SUFFICES ASSUME ~strayed' PROVE \E w, e, m : Valid(w, e, m)'
    BY DEF ListInv
  <2>2. ~strayed /\ UNCHANGED <<heap, known, values>> /\ verdict' = (says = "true") /\ due' = promise
    BY <1>1 DEF Answers, Strays
  <2>3. PICK w, e, m : Valid(w, e, m)
    BY <2>2 DEF ListInv
  <2>4. i \in 1 .. Len(known) /\ j \in 1 .. Len(known)
    BY <2>3, KnownDomain
  <2>5. says = "true" => known[i].type = known[j].type /\ SameHeads(known[i], known[j])
    <3>1. /\ Popped(i, 1).obj = known[i] /\ Popped(j, 2).obj = known[j]
          /\ Popped(i, 1).c # Popped(j, 2).c
      BY DEF Popped, At
    <3> HIDE DEF Popped
    <3> SUFFICES ASSUME says = "true" PROVE known[i].type = known[j].type /\ SameHeads(known[i], known[j])
      OBVIOUS
    <3>2. known[i].type = known[j].type
      BY <3>1 DEF _eqv
    <3>3. CASE known[i].type = "boolean"
      BY <3>1, <3>2, <3>3 DEF _eqv
    <3>4. CASE known[i].type \in {"imm_int", "symbol", "list", "pair"}
      BY <3>1, <3>2, <3>4 DEF _eqv
    <3>5. CASE known[i].type \notin {"boolean", "imm_int", "symbol", "list", "pair"}
      BY <3>1, <3>2, <3>5 DEF _eqv
    <3> QED BY <3>2, <3>3, <3>4, <3>5
  <2>6. says = "true" => values[i] = values[j]
    BY <2>3, <2>4, <2>5, SameValue
  <2> HIDE DEF says
  <2>7. verdict' = due'
    BY <2>2, <2>6
  <2> QED BY <2>2, <2>3, <2>7, AnswersKeeps
<1> QED BY <1>0, <1>1 DEF Eqv

(* equal? answers for the values, except where it is known not to.          *)
LEMMA EqualKeeps ==
  ASSUME ListInv, NEW i \in DOMAIN known, NEW j \in DOMAIN known, Equal(i, j)
  PROVE  ListInv'
<1> DEFINE a == Popped(i, 1)
           b == Popped(j, 2)
           says == _equal(a, b)
           wrong == Misjudged(a, b)
<1>0. CASE Fails
  BY <1>0, FailsStep
<1>1. CASE Wanders
  BY <1>1, WandersStep
<1>2. CASE says # "panic" /\ says # "undefined" /\ Answers(says = "true", values[i] = values[j], wrong)
  <2> SUFFICES ASSUME ~strayed' PROVE \E w, e, m : Valid(w, e, m)'
    BY DEF ListInv
  <2>2. ~strayed /\ ~wrong /\ UNCHANGED <<heap, known, values>>
        /\ verdict' = (says = "true") /\ due' = (values[i] = values[j])
    BY <1>2 DEF Answers, Strays
  <2>3. PICK w, e, m : Valid(w, e, m)
    BY <2>2 DEF ListInv
  <2>4. i \in 1 .. Len(known) /\ j \in 1 .. Len(known)
    BY <2>3, KnownDomain
  <2>5. HeapOK /\ Valued(w) /\ Judged(w, e, m)
    BY <2>3 DEF Valid
  <2>6. /\ a.obj = known[i] /\ b.obj = known[j] /\ a.c # b.c
        /\ Placed(a.obj) /\ values[i] = ValueIn(a.obj, Parts(a.obj), w)
        /\ Placed(b.obj) /\ values[j] = ValueIn(b.obj, Parts(b.obj), w)
    <3>1. a.obj = known[i] /\ b.obj = known[j] /\ a.c # b.c
      BY DEF Popped, At
    <3> HIDE DEF a, b
    <3> QED BY <2>3, <2>4, <3>1 DEF Valid, KnownOK
  <2> DEFINE s == Parts(a.obj)
             t == Parts(b.obj)
  <2>7. says = Judge(a, b, s, t, e)
    <3>1. CellsEqual = e
      BY <2>5, CellsEqualAre
    <3> HIDE DEF a, b
    <3>2. says = EqualIn(a, b, s, t, e)
      BY <3>1 DEF _equal
    <3> QED BY <3>2, EqualIs
  <2>8. wrong = MisjudgedIn(a, b, s, t, w, m)
    <3>1. CellsMisjudged = m /\ CellValues = w
      BY <2>5, CellsMisjudgedAre, CellValuesAre
    <3> HIDE DEF a, b
    <3> QED BY <3>1 DEF Misjudged
  <2> HIDE DEF a, b, says, wrong
  <2>9. /\ Fits(a.obj, s) /\ \A k \in 1 .. Len(s) : s[k] \in 1 .. Len(cell) /\ Proper(w[s[k]])
        /\ Fits(b.obj, t) /\ \A k \in 1 .. Len(t) : t[k] \in 1 .. Len(cell) /\ Proper(w[t[k]])
    BY <2>5, <2>6, PartsValued
  <2> HIDE DEF s, t
  <2>10. \A k \in 1 .. Len(s), l \in 1 .. Len(t) :
           Right(e[<<s[k], t[l]>>], m[<<s[k], t[l]>>], w[s[k]], w[t[l]])
    BY <2>5, <2>9 DEF Judged
  <2>11. /\ \A k \in 1 .. Len(s) : Proper(w[s[k]])
         /\ \A k \in 1 .. Len(t) : Proper(w[t[k]])
         /\ a.c = b.c => a.obj = b.obj
    BY <2>6, <2>9
  <2>12. Right(Judge(a, b, s, t, e), MisjudgedIn(a, b, s, t, w, m), ValueIn(a.obj, s, w), ValueIn(b.obj, t, w))
    BY <2>9, <2>10, <2>11, RightStep
  <2>13. Right(says, wrong, values[i], values[j])
    BY <2>6, <2>7, <2>8, <2>12 DEF s, t
  <2>14. verdict' = due'
    BY <1>2, <2>2, <2>13 DEF Right, Says
  <2> QED BY <2>2, <2>3, <2>14, AnswersKeeps
<1> QED BY <1>0, <1>1, <1>2 DEF Equal

------------------------------------------------------------------------------
(* The literals.                                                            *)

(* The cells of a literal hold its atoms.                                   *)
LEMMA CellsFacts ==
  ASSUME NEW text \in ListLiteral
  PROVE  /\ Cells(text) \in Seq(Obj) /\ Len(Cells(text)) = Len(text) /\ Len(text) \in Nat
         /\ DOMAIN text = 1 .. Len(text)
         /\ \A k \in 1 .. Len(text) :
              /\ Cells(text)[k].type = text[k].type /\ Cells(text)[k].val = text[k].val
              /\ text[k].type \notin {"list", "pair", "null_obj"}
<1>1. text \in Seq(Atom) /\ Len(text) \in Nat /\ DOMAIN text = 1 .. Len(text)
  BY ListAssumption
<1>2. ASSUME NEW k \in 1 .. Len(text)
      PROVE  /\ [text[k] EXCEPT !.gc = GEN_1_OBJ] = Object(text[k].type, text[k].val, GEN_1_OBJ)
             /\ text[k] \in Atom /\ text[k].type \notin {"list", "pair", "null_obj"}
  <2>1. text[k] \in Atom
    BY <1>1, Elem
  <2>2. PICK x : x = text[k]
    OBVIOUS
  <2>3. x = [type |-> x.type, val |-> x.val, gc |-> x.gc] /\ x.type \notin {"list", "pair", "null_obj"}
    BY <2>1, <2>2, ListAssumption
  <2>4. [x EXCEPT !.gc = GEN_1_OBJ] = Object(x.type, x.val, GEN_1_OBJ)
    BY <2>3 DEF Object
  <2> QED BY <2>1, <2>2, <2>3, <2>4
<1>3. Cells(text) = [k \in 1 .. Len(text) |-> Object(text[k].type, text[k].val, GEN_1_OBJ)]
  BY <1>1, <1>2 DEF Cells
<1>4. \A k \in 1 .. Len(text) : Object(text[k].type, text[k].val, GEN_1_OBJ) \in Obj
  BY <1>2 DEF Object, Obj
<1>5. Cells(text) \in Seq(Obj) /\ Len(Cells(text)) = Len(text)
  <2> HIDE DEF Obj
  <2> QED BY <1>1, <1>3, <1>4
<1>6. \A k \in 1 .. Len(text) : Cells(text)[k].type = text[k].type /\ Cells(text)[k].val = text[k].val
  BY <1>3 DEF Object
<1> QED BY <1>1, <1>2, <1>5, <1>6

\* n numbers from first on.
Numbers(first, n) == [k \in 1 .. n |-> first + k - 1]

\* Nodes that lead to n cells from first on, and to each other.
IsLiteral(s, first, n) ==
  /\ IsSeq(s) /\ Len(s) = n
  /\ \A k \in 1 .. n : s[k].obj = first + k - 1 /\ s[k].next = IF k < n THEN first + k ELSE NULL

(* Its nodes lead to them in their order.                                   *)
LEMMA ChainFacts ==
  ASSUME NEW first \in Nat, NEW n \in Nat, NEW s, s = Chain(first, n, NULL)
  PROVE  IsLiteral(s, first, n)
<1>1. /\ \A k \in 1 .. n : s[k].obj = first + k - 1 /\ s[k].next = IF k < n THEN first + k ELSE NULL
      /\ s = [k \in 1 .. n |-> s[k]]
  BY DEF Chain, Node
<1>2. IsSeq(s) /\ Len(s) = n
  BY <1>1, ASeq
<1> QED BY <1>1, <1>2 DEF IsLiteral

\* Each of the n nodes from first on points to the next.
LinkedOn(nodes, first, n) ==
  \A k \in 1 .. n : nodes[first + k - 1].next = IF k < n THEN first + k ELSE NULL

\* q counts n numbers from first on.
IsFrom(q, first, n) == Len(q) = n /\ \A k \in 1 .. n : q[k] = first + k - 1

(* The nodes of a literal are a chain.                                      *)
LEMMA LiteralChain ==
  ASSUME NEW nodes, Len(nodes) \in Nat, NEW first \in Nat, first # 0, NEW n \in Nat, first + n - 1 <= Len(nodes),
         LinkedOn(nodes, first, n),
         NEW q, q = Numbers(first, n), NEW h, h = IF n = 0 THEN NULL ELSE first
  PROVE  IsChain(nodes, h, q) /\ IsFrom(q, first, n)
<1>1. q = [k \in 1 .. n |-> q[k]] /\ \A k \in 1 .. n : q[k] = first + k - 1
  BY DEF Numbers
<1>2. \A k \in 1 .. n : q[k] \in 1 .. Len(nodes)
  BY <1>1
<1>3. q \in Seq(1 .. Len(nodes)) /\ Len(q) = n
  <2>1. IsSeq(q) /\ Len(q) = n
    BY <1>1, ASeq
  <2>2. q \in Seq({q[k] : k \in DOMAIN q})
    BY <2>1 DEF IsSeq
  <2> QED BY <1>2, <2>1, <2>2, InSeq
<1>4. n <= Len(nodes)
  OBVIOUS
<1>5. h = IF q = <<>> THEN NULL ELSE q[1]
  <2>1. CASE n = 0
    <3>1. q = <<>>
      BY <1>3, <2>1
    <3> QED BY <2>1, <3>1
  <2>2. CASE n # 0
    <3>1. q # <<>> /\ 1 \in 1 .. n
      BY <1>3, <2>2
    <3>2. q[1] = first
      BY <1>1, <3>1
    <3> QED BY <2>2, <3>1, <3>2
  <2> QED BY <2>1, <2>2
<1>6. ASSUME NEW k \in 1 .. n PROVE nodes[q[k]].next = IF k = n THEN NULL ELSE q[k + 1]
  <2>1. q[k] = first + k - 1 /\ nodes[first + k - 1].next = IF k < n THEN first + k ELSE NULL
    BY <1>1 DEF LinkedOn
  <2>2. k # n => k < n /\ q[k + 1] = first + k
    BY <1>1
  <2> QED BY <2>1, <2>2
<1> QED BY <1>1, <1>3, <1>4, <1>5, <1>6 DEF IsChain, IsFrom

(* Cells that lead to nothing are what they say.                            *)
LEMMA LiteralCells ==
  ASSUME HeapOK, \A c \in 1 .. Len(cell) : cell[c].type \notin {"list", "pair", "null_obj"}
  PROVE  \E u, f, n : /\ Valued(u) /\ Judged(u, f, n)
                      /\ \A c \in 1 .. Len(cell) : u[c] = <<cell[c].type, cell[c].val>>
<1> DEFINE N == Len(cell)
<1>0. N \in Nat /\ CellPairs = (1 .. N) \X (1 .. N) /\ \A c \in 1 .. N : Placed(cell[c])
  BY CellFacts
<1>1. PICK P : P = [c \in 1 .. N |-> Parts(cell[c])]
  OBVIOUS
<1>2. \A c \in 1 .. N : P[c] = Parts(cell[c]) /\ P[c] = <<>>
  BY <1>0, <1>1, PartsFacts
<1>3. PICK z : z = <<>>
  OBVIOUS
<1>4. IsSeq(z) /\ Len(z) = 0
  BY <1>3, EmptyIsSeq
<1>5. OldParts(cell, P, 0, N)
  <2> SUFFICES ASSUME NEW c \in 1 .. N PROVE Fits(cell[c], P[c]) /\ \A k \in 1 .. Len(P[c]) : P[c][k] \in 1 .. 0
    BY DEF OldParts
  <2>1. P[c] = z
    BY <1>2, <1>3
  <2> QED BY <1>4, <2>1 DEF Fits
<1>6. PICK e : e = [p \in (1 .. 0) \X (1 .. 0) |-> FALSE]
  OBVIOUS
<1>7. JudgedOf(cell, P, 0, z, e, e)
  <2>1. /\ e = [p \in (1 .. 0) \X (1 .. 0) |-> JudgeOf(cell, P, p[1], p[2], e)]
        /\ e = [p \in (1 .. 0) \X (1 .. 0) |-> WrongOf(cell, P, p[1], p[2], z, e)]
    BY <1>6
  <2> QED BY <2>1 DEF JudgedOf
<1>8. ValuedOf(cell, P, 0, z)
  BY <1>4 DEF ValuedOf
<1>9. Extended(cell, P, 0, N, z)
  <2> HIDE DEF N
  <2> QED BY <1>0, <1>5, <1>7, <1>8, CellsAdded
<1>10. PICK u, f, n : ValuedOf(cell, P, N, u) /\ JudgedOf(cell, P, N, u, f, n)
  BY <1>9 DEF Extended
<1>11. Valued(u)
  BY <1>2, <1>10 DEF Valued, ValuedOf
<1>12. ASSUME NEW p \in (1 .. N) \X (1 .. N)
       PROVE  /\ JudgeCells(p[1], p[2], f) = JudgeOf(cell, P, p[1], p[2], f)
              /\ WrongCells(p[1], p[2], u, n) = WrongOf(cell, P, p[1], p[2], u, n)
  <2>1. Parts(cell[p[1]]) = P[p[1]] /\ Parts(cell[p[2]]) = P[p[2]]
    BY <1>2
  <2> QED BY <2>1 DEF JudgeCells, JudgeOf, WrongCells, WrongOf, InCell
<1>13. Judged(u, f, n)
  <2>1. /\ f = [p \in (1 .. N) \X (1 .. N) |-> JudgeOf(cell, P, p[1], p[2], f)]
        /\ n = [p \in (1 .. N) \X (1 .. N) |-> WrongOf(cell, P, p[1], p[2], u, n)]
        /\ \A c, d \in 1 .. N : Right(f[<<c, d>>], n[<<c, d>>], u[c], u[d])
    BY <1>10 DEF JudgedOf
  <2>2. /\ f = [p \in CellPairs |-> JudgeCells(p[1], p[2], f)]
        /\ n = [p \in CellPairs |-> WrongCells(p[1], p[2], u, n)]
    BY <1>0, <1>12, <2>1
  <2> QED BY <2>1, <2>2 DEF Judged
<1>14. \A c \in 1 .. N : u[c] = <<cell[c].type, cell[c].val>>
  <2> SUFFICES ASSUME NEW c \in 1 .. N PROVE u[c] = <<cell[c].type, cell[c].val>>
    OBVIOUS
  <2>1. PICK o : o = cell[c]
    OBVIOUS
  <2>2. u[c] = ValueIn(o, Parts(o), u)
    BY <1>11, <2>1 DEF Valued
  <2> QED BY <2>1, <2>2, ValueCases
<1> QED BY <1>11, <1>13, <1>14

\* The nodes q lead to the cells from first on, and u tells those the elements
\* of text.
LeadFrom(q, first, n) == \A k \in 1 .. n : node[q[k]].obj = first + k - 1
Tells(u, first, text, n) == \A k \in 1 .. n : u[first + k - 1] = <<text[k].type, text[k].val>>

(* The value of a literal.                                                  *)
LEMMA LiteralValue ==
  ASSUME HeapOK, NEW o, Placed(o), o.type = "list", NEW q, IsChain(node, list[o.val], q),
         NEW n \in Nat, Len(q) = n, NEW first, LeadFrom(q, first, n),
         NEW text, DOMAIN text = 1 .. n, NEW u, Tells(u, first, text, n)
  PROVE  ValueIn(o, Parts(o), u) = <<"list", [k \in DOMAIN text |-> <<text[k].type, text[k].val>>]>>
<1>1. Len(node) \in Nat /\ NodesOf(o) = q
  BY ChainIs DEF NodesOf, HeapOK
<1>2. DOMAIN q = 1 .. n
  BY DEF IsChain
<1>3. PICK s : s = Parts(o)
  OBVIOUS
<1>4. s = [k \in 1 .. n |-> node[q[k]].obj]
  BY <1>1, <1>2, <1>3 DEF Parts
<1>5. DOMAIN s = 1 .. n /\ \A k \in 1 .. n : u[s[k]] = <<text[k].type, text[k].val>>
  BY <1>4 DEF LeadFrom, Tells
<1>6. ValueIn(o, s, u) = <<"list", [k \in DOMAIN s |-> u[s[k]]]>>
  BY ValueCases
<1> QED BY <1>3, <1>5, <1>6

(* Two literals and nothing else.                                           *)
LEMMA InitInv == ASSUME ListInit PROVE ListInv
<1>0. PICK a \in ListLiteral, b \in ListLiteral :
        /\ cell = Cells(a) \o Cells(b)
        /\ node = Chain(1, Len(a), NULL) \o Chain(Len(a) + 1, Len(b), NULL)
        /\ list = <<FirstOf(a, 1), FirstOf(b, Len(a) + 1)>>
        /\ pair = <<>>
        /\ known = <<Object("list", 1, FREE_OBJ), Object("list", 2, FREE_OBJ)>>
        /\ values = << <<"list", [k \in DOMAIN a |-> <<a[k].type, a[k].val>>]>>,
                       <<"list", [k \in DOMAIN b |-> <<b[k].type, b[k].val>>]>> >>
        /\ verdict = FALSE /\ due = FALSE
  BY DEF ListInit
<1> DEFINE A == Len(a)
           B == Len(b)
           N == A + B
<1>1. /\ A \in Nat /\ B \in Nat /\ DOMAIN a = 1 .. A /\ DOMAIN b = 1 .. B
      /\ Cells(a) \in Seq(Obj) /\ Len(Cells(a)) = A /\ Cells(b) \in Seq(Obj) /\ Len(Cells(b)) = B
      /\ \A k \in 1 .. A : /\ Cells(a)[k].type = a[k].type /\ Cells(a)[k].val = a[k].val
                           /\ a[k].type \notin {"list", "pair", "null_obj"}
      /\ \A k \in 1 .. B : /\ Cells(b)[k].type = b[k].type /\ Cells(b)[k].val = b[k].val
                           /\ b[k].type \notin {"list", "pair", "null_obj"}
  BY CellsFacts
<1> HIDE DEF A, B
<1>2. cell \in Seq(Obj) /\ Joins(cell, Cells(a), Cells(b))
  <2>1. IsSeq(Cells(a)) /\ IsSeq(Cells(b))
    BY <1>1, SetSeq
  <2>2. cell = Cells(a) \o Cells(b)
    BY <1>0
  <2> HIDE DEF Obj
  <2>3. cell \in Seq(Obj)
    BY <1>1, <2>2
  <2> QED BY <2>1, <2>2, <2>3, JoinedSeq
<1>3. /\ Len(cell) = N
      /\ \A k \in 1 .. A : cell[k].type = a[k].type /\ cell[k].val = a[k].val
      /\ \A k \in 1 .. B : cell[A + k].type = b[k].type /\ cell[A + k].val = b[k].val
  BY <1>1, <1>2 DEF Joins
<1>4. ASSUME NEW c \in 1 .. N PROVE \/ c \in 1 .. A
                                    \/ \E k \in 1 .. B : c = A + k
  <2>1. c \notin 1 .. A => c - A \in 1 .. B /\ c = A + (c - A)
    BY <1>1
  <2> QED BY <2>1
<1>5. ASSUME NEW c \in 1 .. N PROVE cell[c].type \notin {"list", "pair", "null_obj"}
  <2>1. CASE c \in 1 .. A
    BY <1>1, <1>3, <2>1
  <2>2. ASSUME NEW k \in 1 .. B, c = A + k PROVE cell[c].type \notin {"list", "pair", "null_obj"}
    BY <1>1, <1>3, <2>2
  <2> QED BY <1>4, <2>1, <2>2
<1>6. PICK s, t : s = Chain(1, A, NULL) /\ t = Chain(A + 1, B, NULL)
  OBVIOUS
<1>7. /\ IsSeq(s) /\ Len(s) = A
      /\ \A k \in 1 .. A : s[k].obj = k /\ s[k].next = IF k < A THEN k + 1 ELSE NULL
  <2>1. IsLiteral(s, 1, A)
    BY <1>1, <1>6, ChainFacts
  <2>2. \A k \in 1 .. A : 1 + k - 1 = k /\ 1 + k = k + 1
    BY <1>1
  <2> QED BY <2>1, <2>2 DEF IsLiteral
<1>8. /\ IsSeq(t) /\ Len(t) = B
      /\ \A k \in 1 .. B : t[k].obj = (A + 1) + k - 1 /\ t[k].next = IF k < B THEN (A + 1) + k ELSE NULL
  <2>1. A + 1 \in Nat /\ A + 1 # 0
    BY <1>1
  <2>2. IsLiteral(t, A + 1, B)
    BY <1>1, <1>6, <2>1, ChainFacts
  <2> QED BY <2>2 DEF IsLiteral
<1>9. IsSeq(node) /\ Joins(node, s, t)
  <2>1. node = s \o t
    BY <1>0, <1>6 DEF A, B
  <2> QED BY <1>7, <1>8, <2>1, JoinedSeq
<1>10. /\ Len(node) = N /\ N \in Nat
       /\ \A k \in 1 .. A : node[k] = s[k]
       /\ \A k \in 1 .. B : node[A + k] = t[k]
  BY <1>1, <1>7, <1>8, <1>9 DEF Joins
<1>11. \A c \in 1 .. N : node[c] \in [obj : 1 .. N, next : Nat]
  <2>1. ASSUME NEW c \in 1 .. N, NEW x, x \in 1 .. N, NEW y \in Nat, node[c] = Node(x, y)
        PROVE  node[c] \in [obj : 1 .. N, next : Nat]
    BY <2>1 DEF Node
  <2>2. ASSUME NEW k \in 1 .. A PROVE node[k] \in [obj : 1 .. N, next : Nat]
    <3>1. s[k] = Node(1 + k - 1, IF k < A THEN 1 + k ELSE NULL)
      BY <1>6 DEF Chain
    <3>2. k \in 1 .. N /\ 1 + k - 1 \in 1 .. N /\ (IF k < A THEN 1 + k ELSE NULL) \in Nat
      BY <1>1 DEF NULL
    <3> QED BY <1>10, <2>1, <3>1, <3>2
  <2>3. ASSUME NEW k \in 1 .. B PROVE node[A + k] \in [obj : 1 .. N, next : Nat]
    <3>1. t[k] = Node((A + 1) + k - 1, IF k < B THEN (A + 1) + k ELSE NULL)
      BY <1>6 DEF Chain
    <3>2. A + k \in 1 .. N /\ (A + 1) + k - 1 \in 1 .. N /\ (IF k < B THEN (A + 1) + k ELSE NULL) \in Nat
      BY <1>1 DEF NULL
    <3> QED BY <1>10, <2>1, <3>1, <3>2
  <2> QED BY <1>4, <2>2, <2>3
<1>12. node \in Seq([obj : 1 .. N, next : Nat])
  <2>1. node \in Seq({node[c] : c \in DOMAIN node})
    BY <1>9 DEF IsSeq
  <2> QED BY <1>10, <1>11, <2>1, InSeq
<1>13. PICK q, r, g, h : /\ q = Numbers(1, A) /\ g = FirstOf(a, 1)
                         /\ r = Numbers(A + 1, B) /\ h = FirstOf(b, A + 1)
  OBVIOUS
<1>14. g = (IF A = 0 THEN NULL ELSE 1) /\ h = (IF B = 0 THEN NULL ELSE A + 1)
  <2>1. (a = <<>> <=> A = 0) /\ (b = <<>> <=> B = 0)
    <3>1. a \in Seq(Atom) /\ b \in Seq(Atom)
      BY ListAssumption
    <3> QED BY <3>1 DEF A, B
  <2> QED BY <1>13, <2>1 DEF FirstOf
<1>15. IsChain(node, g, q) /\ IsFrom(q, 1, A)
  <2>1. 1 + A - 1 <= Len(node) /\ Len(node) \in Nat
    BY <1>1, <1>10
  <2>2. LinkedOn(node, 1, A)
    <3> SUFFICES ASSUME NEW k \in 1 .. A PROVE node[1 + k - 1].next = IF k < A THEN 1 + k ELSE NULL
      BY DEF LinkedOn
    <3>1. 1 + k - 1 = k /\ k + 1 = 1 + k
      BY <1>1
    <3>2. node[k].next = IF k < A THEN k + 1 ELSE NULL
      BY <1>7, <1>10
    <3> QED BY <3>1, <3>2
  <2> QED BY <1>1, <1>13, <1>14, <2>1, <2>2, LiteralChain
<1>16. IsChain(node, h, r) /\ IsFrom(r, A + 1, B)
  <2>1. (A + 1) + B - 1 <= Len(node) /\ Len(node) \in Nat /\ A + 1 \in Nat /\ A + 1 # 0
    BY <1>1, <1>10
  <2>2. LinkedOn(node, A + 1, B)
    <3> SUFFICES ASSUME NEW k \in 1 .. B PROVE node[(A + 1) + k - 1].next = IF k < B THEN (A + 1) + k ELSE NULL
      BY DEF LinkedOn
    <3>1. (A + 1) + k - 1 = A + k
      BY <1>1
    <3>2. node[A + k].next = IF k < B THEN (A + 1) + k ELSE NULL
      BY <1>8, <1>10
    <3> QED BY <3>1, <3>2
  <2> QED BY <1>1, <1>13, <1>14, <2>1, <2>2, LiteralChain
<1>17. list = <<g, h>> /\ g \in Nat /\ h \in Nat
  BY <1>0, <1>1, <1>13, <1>14 DEF NULL, A
<1>18. list \in Seq(Nat) /\ Len(list) = 2 /\ list[1] = g /\ list[2] = h
  BY <1>17
<1>19. pair \in Seq([car : 1 .. N, cdr : 1 .. N])
  BY <1>0
<1>20. HeapOK
  <2>1. \A l \in 1 .. Len(list) : \E p : IsChain(node, list[l], p)
    <3>1. \A l \in 1 .. Len(list) : l = 1 \/ l = 2
      BY <1>18
    <3> QED BY <1>15, <1>16, <1>18, <3>1
  <2>2. ASSUME NEW c \in 1 .. Len(cell) PROVE Placed(cell[c]) /\ Below(Parts(cell[c]), c)
    <3>1. PICK o : o = cell[c]
      OBVIOUS
    <3>2. o \in Obj /\ o.type \notin {"list", "pair", "null_obj"}
      BY <1>2, <1>3, <1>5, <3>1, Elem
    <3>3. Placed(o)
      BY <3>2 DEF Placed
    <3>4. Parts(o) = <<>>
      BY <3>2 DEF Parts
    <3>5. Below(Parts(o), c)
      BY <3>4 DEF Below
    <3> QED BY <3>1, <3>3, <3>5
  <2> QED BY <1>2, <1>3, <1>12, <1>18, <1>19, <2>1, <2>2 DEF HeapOK
<1>21. PICK u, f, n : /\ Valued(u) /\ Judged(u, f, n)
                      /\ \A c \in 1 .. N : u[c] = <<cell[c].type, cell[c].val>>
  BY <1>3, <1>5, <1>20, LiteralCells
<1>22. PICK x, y : x = Object("list", 1, FREE_OBJ) /\ y = Object("list", 2, FREE_OBJ)
  OBVIOUS
<1>23. /\ x.type = "list" /\ x.val = 1 /\ Placed(x)
       /\ y.type = "list" /\ y.val = 2 /\ Placed(y)
  BY <1>18, <1>22 DEF Object, Obj, Placed
<1>24. PICK v, z : /\ v = <<"list", [k \in DOMAIN a |-> <<a[k].type, a[k].val>>]>>
                   /\ z = <<"list", [k \in DOMAIN b |-> <<b[k].type, b[k].val>>]>>
  OBVIOUS
<1>25. ValueIn(x, Parts(x), u) = v
  <2>1. LeadFrom(q, 1, A) /\ Tells(u, 1, a, A)
    <3> SUFFICES ASSUME NEW k \in 1 .. A
                 PROVE  node[q[k]].obj = 1 + k - 1 /\ u[1 + k - 1] = <<a[k].type, a[k].val>>
      BY DEF LeadFrom, Tells
    <3>1. 1 + k - 1 = k /\ k \in 1 .. N
      BY <1>1
    <3>2. q[k] = k /\ node[k].obj = k
      BY <1>7, <1>10, <1>15, <3>1 DEF IsFrom
    <3>3. u[k] = <<a[k].type, a[k].val>>
      BY <1>3, <1>21, <3>1
    <3> QED BY <3>1, <3>2, <3>3
  <2>2. IsChain(node, list[x.val], q)
    BY <1>15, <1>18, <1>23
  <2>3. Len(q) = A
    BY <1>15 DEF IsFrom
  <2>4. ValueIn(x, Parts(x), u) = <<"list", [k \in DOMAIN a |-> <<a[k].type, a[k].val>>]>>
    BY <1>1, <1>20, <1>23, <2>1, <2>2, <2>3, LiteralValue
  <2> QED BY <1>24, <2>4
<1>26. ValueIn(y, Parts(y), u) = z
  <2>1. LeadFrom(r, A + 1, B) /\ Tells(u, A + 1, b, B)
    <3> SUFFICES ASSUME NEW k \in 1 .. B
                 PROVE  node[r[k]].obj = (A + 1) + k - 1 /\ u[(A + 1) + k - 1] = <<b[k].type, b[k].val>>
      BY DEF LeadFrom, Tells
    <3>1. (A + 1) + k - 1 = A + k /\ A + k \in 1 .. N
      BY <1>1
    <3>2. r[k] = A + k /\ node[A + k].obj = A + k
      BY <1>8, <1>10, <1>16, <3>1 DEF IsFrom
    <3>3. u[A + k] = <<b[k].type, b[k].val>>
      BY <1>3, <1>21, <3>1
    <3> QED BY <3>1, <3>2, <3>3
  <2>2. IsChain(node, list[y.val], r)
    BY <1>16, <1>18, <1>23
  <2>3. Len(r) = B
    BY <1>16 DEF IsFrom
  <2>4. ValueIn(y, Parts(y), u) = <<"list", [k \in DOMAIN b |-> <<b[k].type, b[k].val>>]>>
    BY <1>1, <1>20, <1>23, <2>1, <2>2, <2>3, LiteralValue
  <2> QED BY <1>24, <2>4
<1>27. known = <<x, y>> /\ values = <<v, z>>
  BY <1>0, <1>22, <1>24
<1>28. KnownOK(u)
  <2>1. /\ known = [k \in 1 .. 2 |-> known[k]] /\ known[1] = x /\ known[2] = y
        /\ values = [k \in 1 .. 2 |-> values[k]] /\ values[1] = v /\ values[2] = z
    BY <1>27
  <2>2. IsSeq(known) /\ Len(known) = 2 /\ IsSeq(values) /\ Len(values) = 2
    BY <2>1, ASeq
  <2>3. \A i \in 1 .. Len(known) : i = 1 \/ i = 2
    BY <2>2
  <2> QED BY <1>23, <1>25, <1>26, <2>1, <2>2, <2>3 DEF KnownOK
<1>29. Valid(u, f, n)
  BY <1>0, <1>20, <1>21, <1>28 DEF Valid
<1> QED BY <1>29 DEF ListInv

------------------------------------------------------------------------------
(* Every step.                                                              *)

(* Every call keeps the invariant.                                          *)
LEMMA NextInv ==
  ASSUME ListInv, [ListNext]_listVars
  PROVE  ListInv'
<1>1. CASE UNCHANGED listVars
  <2> SUFFICES ASSUME ~strayed' PROVE \E w, e, m : Valid(w, e, m)'
    BY DEF ListInv
  <2>1. UNCHANGED <<heap, known, verdict, values, due, strayed>>
    BY <1>1 DEF listVars, objectVars, machineVars
  <2>2. PICK w, e, m : Valid(w, e, m)
    BY <2>1 DEF ListInv
  <2>3. verdict' = due'
    BY <2>1, <2>2 DEF Valid
  <2> QED BY <2>1, <2>2, <2>3, AnswersKeeps
<1>2. ASSUME NEW i \in DOMAIN known, _car(i) PROVE ListInv'
  BY <1>2, CarKeeps
<1>3. ASSUME NEW i \in DOMAIN known, _cdr(i) PROVE ListInv'
  BY <1>3, CdrKeeps
<1>4. ASSUME NEW i \in DOMAIN known, prim_pair_p(i) PROVE ListInv'
  BY <1>4, PairKeeps
<1>5. ASSUME NEW i \in DOMAIN known, prim_null_p(i) PROVE ListInv'
  BY <1>5, NullKeeps
<1>6. ASSUME NEW i \in DOMAIN known, prim_list_p(i) PROVE ListInv'
  BY <1>6, ListPKeeps
<1>7. ASSUME NEW i \in DOMAIN known, NEW k \in Index, _list_ref(i, k) PROVE ListInv'
  BY <1>7, ListRefKeeps
<1>8. ASSUME NEW i \in DOMAIN known, NEW j \in DOMAIN known, _cons(i, j) PROVE ListInv'
  BY <1>8, ConsKeeps
<1>9. ASSUME NEW i \in DOMAIN known, NEW j \in DOMAIN known, _list_append(i, j) PROVE ListInv'
  BY <1>9, AppendKeeps
<1>10. ASSUME NEW i \in DOMAIN known, NEW j \in DOMAIN known, Eq(i, j) PROVE ListInv'
  BY <1>10, EqKeeps
<1>11. ASSUME NEW i \in DOMAIN known, NEW j \in DOMAIN known, Eqv(i, j) PROVE ListInv'
  BY <1>11, EqvKeeps
<1>12. ASSUME NEW i \in DOMAIN known, NEW j \in DOMAIN known, Equal(i, j) PROVE ListInv'
  BY <1>12, EqualKeeps
<1> QED BY <1>1, <1>2, <1>3, <1>4, <1>5, <1>6, <1>7, <1>8, <1>9, <1>10, <1>11, <1>12 DEF ListNext

(* The recursion that gives the value of an object has the solution the     *)
(* invariant names.                                                         *)
LEMMA InvSharing == ASSUME ListInv PROVE SharingInvisible
<1> SUFFICES ASSUME ~strayed
             PROVE  (\A i \in DOMAIN known : ValueOf(known[i]) = values[i]) /\ verdict = due
  BY DEF SharingInvisible
<1>1. PICK w, e, m : Valid(w, e, m)
  BY DEF ListInv
<1>2. CellValues = w
  BY <1>1, CellValuesAre DEF Valid
<1>3. ASSUME NEW i \in DOMAIN known PROVE ValueOf(known[i]) = values[i]
  <2>1. i \in 1 .. Len(known)
    BY <1>1, KnownDomain
  <2>2. values[i] = ValueIn(known[i], Parts(known[i]), w)
    BY <1>1, <2>1 DEF Valid, KnownOK
  <2> QED BY <1>2, <2>2 DEF ValueOf
<1> QED BY <1>1, <1>3 DEF Valid

(* Sharing is invisible: as long as the program makes no call that is known *)
(* to be answered otherwise than in R7RS, every list and pair it holds has  *)
(* the value R7RS gives it, whatever nodes and cells it shares with others, *)
(* and every predicate and equivalence answers for those values: for every  *)
(* set of literals, of atoms and of indices, and for any number of objects. *)
THEOREM SharingIsInvisible == ListSpec => []SharingInvisible
<1>1. ListInit => ListInv
  BY InitInv
<1>2. ListInv /\ [ListNext]_listVars => ListInv'
  BY NextInv
<1>3. ListInv => SharingInvisible
  BY InvSharing
<1> QED BY <1>1, <1>2, <1>3, PTL DEF ListSpec
===============================================================================
