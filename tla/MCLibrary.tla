------------------------------ MODULE MCLibrary --------------------------------
(* The interpreter's decoder, the string primitives and the list primitives  *)
(* on small instances.  They share the machine; a behaviour follows one of   *)
(* them (part) and leaves the others' state as it began.                     *)
EXTENDS Instructions, Strings, Lists

\* Every first byte, with operands that set the high and the low bits of every
\* field; every extended primitive; every type of object, with a NUL in its text
\* or behind it, or none, and with an instruction behind its literal.
MCCodes == {<<>>} \cup {<<a, b, c, d>> : a \in 0 .. 255, b \in {0, 33, 77, 255}, c \in {1, 200}, d \in {5, 176}}
             \cup {<<208, n, 255>> : n \in 0 .. 110}
             \cup {<<226, t, a, b, 65, 66>> : t \in 0 .. 64, a \in {0, 65}, b \in {0, 2}}
             \cup {<<226, t, 65, 66, c, 0, 225, 225, 225, 225, 225>> : t \in 0 .. 63, c \in {0, 67}}

MCIndex == -1 .. 3
\* Of four characters one whose char is negative.
MCChar == {0, 1, 3}
MCStringLiteral == << <<1, 3>> >>

Num(n) == Object("imm_int", n, FREE_OBJ)
True == Object("boolean", 1, FREE_OBJ)
MCAtom == {Num(1), True}
MCListLiteral == {<<>>, <<Num(1)>>, <<Num(1), True>>}

VARIABLE part

Init ==
  /\ part \in {"instructions", "strings", "lists"}
  /\ StringInit
  /\ ListInit
  /\ InstrInit
  /\ part # "instructions" => code = <<>>
  /\ part # "lists" => list = <<0, 0>>

Next == \/ part = "instructions" /\ dispatch /\ UNCHANGED <<part, bytesVars, objectVars>>
        \/ part = "strings" /\ StringNext /\ UNCHANGED <<part, segmentVars, objectVars>>
        \/ part = "lists" /\ ListNext /\ UNCHANGED <<part, segmentVars, bytesVars>>

Spec == Init /\ [][Next]_<<part, segmentVars, bytesVars, objectVars, machineVars>>
================================================================================
