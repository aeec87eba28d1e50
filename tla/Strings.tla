------------------------------- MODULE Strings --------------------------------
(***************************************************************************)
(* The string primitives of src/str.c on the memory they work in: a string  *)
(* is a block of bytes whose text ends at the first NUL, measured by        *)
(* os_strnlen up to MAX_STR_LEN.  Allocation always succeeds here and       *)
(* blocks are never freed ("there's no good way to free memory at this      *)
(* stage").  The characters a program can name are those of Char, NUL (0)   *)
(* among them; they are also the bytes of a block.  Where char is signed,   *)
(* string-ref and read-char make a negative character object of the bytes   *)
(* from 128 on, which is no character that a program can name.              *)
(***************************************************************************)
EXTENDS Machine, Integers, Sequences

CONSTANTS CHARS,       \* 256 in the code: the values of a char
          SignedChar,  \* whether char is signed, as in a Linux build for x86
          Char,
          Newline,
          StringLiteral, \* the texts of the string literals in the code segment
          MaxStrings,  \* bound: blocks
          MaxText      \* bound: longest text made by append, list->string, read-line

ASSUME CharAssumption == /\ CHARS \in Nat /\ SignedChar \in BOOLEAN
                         /\ Char \subseteq 0 .. CHARS - 1 /\ 0 \in Char /\ Newline \in Char
ASSUME BoundAssumption == MaxStrings \in Nat /\ MaxText \in Nat
ASSUME LiteralAssumption == StringLiteral \in Seq(Seq(Char \ {0}))

NUL == 0
NoAnswer == -CHARS

VARIABLES block,    \* block[i]: the bytes of string i
          kind,     \* kind[i]: "string" (a literal) or "mut_string"
          answer,   \* the last result that is not a string (#t is 1, #f is 0)
          texts,    \* history: the texts the strings have by R7RS
          promised  \* history: the answer by R7RS

promises == <<texts, promised>>
bytesVars == <<block, kind, answer, promises>>
stringVars == <<bytesVars, machineVars>>

StringInit == /\ block = [i \in DOMAIN StringLiteral |-> Append(StringLiteral[i], NUL)]
              /\ kind = [i \in DOMAIN StringLiteral |-> "string"]
              /\ answer = NoAnswer
              /\ texts = StringLiteral /\ promised = NoAnswer
              /\ MachineInit

------------------------------------------------------------------------------
Zeros(b) == {k \in DOMAIN b : b[k] = NUL}
Terminated(b) == Zeros(b) # {}
Scan(b) == IF Terminated(b) THEN (CHOOSE k \in Zeros(b) : \A z \in Zeros(b) : k <= z) - 1
           ELSE Len(b)
Text(b) == SubSeq(b, 1, Scan(b))

\* os_strnlen, and whether it stays in the block.
strnlen(b) == IF Scan(b) > MAX_STR_LEN THEN MAX_STR_LEN ELSE Scan(b)
Measurable(b) == Terminated(b) \/ Len(b) >= MAX_STR_LEN
Measured(b) == SubSeq(b, 1, strnlen(b))
Long(b) == Scan(b) > MAX_STR_LEN

\* A byte of memory nobody has written.
Garbage == Char

\* The value of the object that is made of a char, and the values a program can
\* pass: a negative one comes from string-ref or read-char, which has strayed.
AsObject(c) == IF SignedChar /\ 2 * c >= CHARS THEN c - CHARS ELSE c
Characters == Char \cup {AsObject(c) : c \in IF strayed THEN Char ELSE {}}

\* What R7RS says of a call; nothing any more once one has strayed.
Promises(ts, v, strays) == /\ Strays(strays)
                           /\ texts' = IF strayed' THEN <<>> ELSE ts
                           /\ promised' = IF strayed' THEN NoAnswer ELSE v

\* How a call can end: PANIC, undefined behaviour, a result, a new string, a
\* string overwritten.
Refuses == machine' = "PANIC" /\ UNCHANGED <<block, kind, answer, promises, strayed, unsafe>>
Undefined(unchecked) == /\ machine' = "UNDEFINED"
                        /\ Promises(<<>>, NoAnswer, TRUE) /\ Careless(unchecked)
                        /\ UNCHANGED <<block, kind, answer>>
Returns(v, promise, strays) == /\ answer' = v
                               /\ Promises(texts, promise, strays)
                               /\ UNCHANGED <<block, kind, machine, unsafe>>
Makes(bytes, text, strays, unchecked) ==
  /\ Len(block) < MaxStrings
  /\ block' = Append(block, bytes) /\ kind' = Append(kind, "mut_string")
  /\ answer' = NoAnswer
  /\ Promises(Append(texts, text), NoAnswer, strays) /\ Careless(unchecked)
  /\ UNCHANGED machine
Writes(i, bytes, text, strays, unchecked) ==
  /\ block' = [block EXCEPT ![i] = bytes]
  /\ answer' = NoAnswer
  /\ Promises([texts EXCEPT ![i] = text], NoAnswer, strays) /\ Careless(unchecked)
  /\ UNCHANGED <<kind, machine>>

------------------------------------------------------------------------------
\* make-string.  CHAR_VALUE_VALID refuses NUL and the negative characters.  A
\* negative length is not checked: -1 asks for an empty block and memset writes
\* SIZE_MAX bytes.
_make_string(n, c) ==
  /\ Running
  /\ IF c <= 0 THEN Refuses
     ELSE IF n < 0 THEN Undefined(TRUE)
     ELSE Makes([k \in 1 .. n + 1 |-> IF k <= n THEN c ELSE NUL], [k \in 1 .. n |-> c],
                FALSE, FALSE)

_string_length(i) ==
  /\ Running
  /\ IF Measurable(block[i]) THEN Returns(strnlen(block[i]), Len(texts[i]), Long(block[i]))
     ELSE Undefined(FALSE)

\* The index may equal the length.
_string_ref(i, k) ==
  /\ Running
  /\ IF ~Measurable(block[i]) THEN Undefined(FALSE)
     ELSE IF k \notin 0 .. strnlen(block[i]) THEN Refuses
     ELSE IF k = Len(block[i]) THEN Undefined(FALSE)
     ELSE LET c == block[i][k + 1]
          IN  Returns(AsObject(c), texts[i][k + 1], k >= Scan(block[i]) \/ AsObject(c) # c)

\* The index is not checked.
_string_set(i, k, c) ==
  /\ Running
  /\ IF kind[i] # "mut_string" \/ c <= 0 THEN Refuses
     ELSE IF k \notin 0 .. Len(block[i]) - 1 THEN Undefined(TRUE)
     ELSE LET behind == k >= Scan(block[i])
          IN  Writes(i, [block[i] EXCEPT ![k + 1] = c], [texts[i] EXCEPT ![k + 1] = c],
                     behind, behind)

\* strncmp; whether it meets a difference before it leaves an unterminated block
\* is left open.
_string_eq(i, j) ==
  /\ Running
  /\ IF Measurable(block[i]) /\ Measurable(block[j])
     THEN Returns(IF Measured(block[i]) = Measured(block[j]) THEN 1 ELSE 0,
                  IF texts[i] = texts[j] THEN 1 ELSE 0,
                  Long(block[i]) \/ Long(block[j]))
     ELSE Undefined(FALSE)

\* Faulty variant: the terminator is left off.
PrefixBare(b, n) == SubSeq(b, 1, n)
Prefix(b, n) == Append(SubSeq(b, 1, n), NUL)

\* substring and string-copy: the range is checked and its length copied, but from
\* the start of the string.
_substring(i, s, e) ==
  /\ Running
  /\ IF ~Measurable(block[i]) THEN Undefined(FALSE)
     ELSE IF s \notin 0 .. strnlen(block[i]) \/ e \notin s .. strnlen(block[i]) THEN Refuses
     ELSE Makes(Prefix(block[i], e - s), SubSeq(texts[i], s + 1, e), s # 0, FALSE)

\* string-append: the last byte of the new block is never written.
_string_append(i, j) ==
  /\ Running
  /\ IF Measurable(block[i]) /\ Measurable(block[j])
     THEN /\ strnlen(block[i]) + strnlen(block[j]) <= MaxText
          /\ \E g \in Garbage :
               Makes(Append(Measured(block[i]) \o Measured(block[j]), g), texts[i] \o texts[j],
                     g # NUL \/ Long(block[i]) \/ Long(block[j]), TRUE)
     ELSE Undefined(FALSE)

\* list->string and read-line collect into a buffer of MAX_STR_LEN and allocate
\* no room for the terminator.  (char) makes a character object the byte it came
\* from again, so a list is given by the bytes of its characters.
FromBuffer(cs, strays) == IF Len(cs) >= MAX_STR_LEN THEN Undefined(TRUE)
                          ELSE Makes(cs, cs, strays, TRUE)

_list_to_string(cs) == Running /\ FromBuffer(cs, \E k \in DOMAIN cs : cs[k] = NUL)

_read_line(line) == /\ Running
                    /\ \A k \in DOMAIN line : line[k] # Newline
                    /\ FromBuffer(Append(line, Newline), TRUE)

_read_char(c) == Running /\ Returns(AsObject(c), c, AsObject(c) # c)

------------------------------------------------------------------------------
\* What strncpy copies: the bytes up to the first NUL, then NULs.
Copied(b, s, n) == [k \in 1 .. n |-> IF \E z \in Zeros(b) : s < z /\ z <= s + k THEN NUL
                                     ELSE b[s + k]]
CopyInBlock(b, s, n) == s + n <= Len(b) \/ \E z \in Zeros(b) : s < z
Overlap(at, s, n) == n > 0 /\ at < s + n /\ s < at + n

Overlaid(b, at, bytes) ==
  [k \in DOMAIN b |-> IF k \in at + 1 .. at + Len(bytes) THEN bytes[k - at] ELSE b[k]]

\* string-copy!: both ranges are checked against the length of the destination,
\* which may be a literal.
_string_copy_side_effect(i, at, j, s, e) ==
  /\ Running
  /\ LET len == strnlen(block[i])
         beyond == e > Scan(block[j])
     IN  IF ~Measurable(block[i]) THEN Undefined(FALSE)
         ELSE IF at \notin 0 .. len \/ s \notin 0 .. len \/ e \notin s .. len
                 \/ len - at < e - s THEN Refuses
         ELSE IF ~CopyInBlock(block[j], s, e - s) THEN Undefined(beyond)
         ELSE IF i = j /\ Overlap(at, s, e - s) THEN Undefined(TRUE)
         ELSE Writes(i, Overlaid(block[i], at, Copied(block[j], s, e - s)),
                     Overlaid(texts[i], at, SubSeq(texts[j], s + 1, e)),
                     beyond \/ kind[i] = "string", beyond)

\* Faulty variant: the last character of the range is filled too.
FillRangeClosed(s, e) == s + 1 .. e + 1
FillRange(s, e) == s + 1 .. e

\* string-fill!: NUL is allowed, and so are literals; c is the character's byte.
_string_fill(i, c, s, e) ==
  /\ Running
  /\ LET len == strnlen(block[i])
     IN  IF ~Measurable(block[i]) THEN Undefined(FALSE)
         ELSE IF s \notin 0 .. len \/ e \notin s .. len THEN Refuses
         ELSE Writes(i, [k \in DOMAIN block[i] |-> IF k \in FillRange(s, e) THEN c ELSE block[i][k]],
                     Overlaid(texts[i], s, [k \in 1 .. e - s |-> c]),
                     kind[i] = "string" \/ (c = NUL /\ s < e), FALSE)

------------------------------------------------------------------------------
Line == UNION {[1 .. n -> Char] : n \in 0 .. MaxText}

StringNext ==
  \/ \E n \in Index, c \in Characters : _make_string(n, c)
  \/ \E i \in DOMAIN block : _string_length(i)
  \/ \E i \in DOMAIN block, k \in Index : _string_ref(i, k)
  \/ \E i \in DOMAIN block, k \in Index, c \in Characters : _string_set(i, k, c)
  \/ \E i, j \in DOMAIN block : _string_eq(i, j) \/ _string_append(i, j)
  \/ \E i \in DOMAIN block, s, e \in Index : _substring(i, s, e)
  \/ \E line \in Line : _list_to_string(line) \/ _read_line(line)
  \/ \E c \in Char : _read_char(c)
  \/ \E i, j \in DOMAIN block, at, s, e \in Index : _string_copy_side_effect(i, at, j, s, e)
  \/ \E i \in DOMAIN block, c \in Char, s, e \in Index : _string_fill(i, c, s, e)

StringSpec == StringInit /\ [][StringNext]_stringVars

------------------------------------------------------------------------------
(* As long as every call was one R7RS allows and the program is not known   *)
(* to answer otherwise, strings behave as texts: the bytes, terminators,    *)
(* lengths measured anew on every call and ranges checked against them give *)
(* the texts and answers of R7RS, and no call changes another string.  It   *)
(* is known to answer otherwise when string-ref or read-char hands out a    *)
(* character from 128 on of a signed char, which comes out negative.        *)
StringsAreTexts ==
  ~strayed => /\ answer = promised
              /\ DOMAIN texts = DOMAIN block
              /\ \A i \in DOMAIN block : Text(block[i]) = texts[i]

(* Until one of the unchecked calls (string-set! beyond the text, string-   *)
(* copy! beyond its source or onto an overlapping part of it, string-       *)
(* append, list->string, read-line, a negative make-string) is made, every  *)
(* string has its terminator inside its block and no primitive reads or     *)
(* writes outside one.                                                      *)
InBlocks == ~unsafe => machine # "UNDEFINED" /\ \A i \in DOMAIN block : Terminated(block[i])
===============================================================================
